CONSTANTS
    Kind = {"research", "script", "image"}
    Requires <- ChainRequires
    Order <- ChainOrder
    Phases <- MCPhases
    Artifact = {"research", "script", "image"}
    KindOf <- OneEach
    PerScene = {"image"}
    AutoApproved = {"script"}
    Session = {s1}
    MaxVersion <- ChainVersions
    MaxDecision = 3
    Failing = {"research", "script", "image"}
SPECIFICATION Spec
INVARIANTS
    PointerFollowsView
    PhaseIsCurrent
CHECK_DEADLOCK FALSE
