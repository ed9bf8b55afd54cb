CONSTANTS
    Character = {c1, c2}
    Style = {y1}
    Project = {p1}
    Job = {j1, j2}
    Session = {s1, s2}
    Worker = {w1, w2}
SPECIFICATION Spec
INVARIANTS
    NumbersAreFree
    FramesShareBranding
    OneGroupPerCharacter
PROPERTIES
    LastApprovalStands
SYMMETRY Interchangeable
CHECK_DEADLOCK FALSE
