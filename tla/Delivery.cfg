\* Two scenes per set, the first a card; two bodies at a time, two changes of mind anywhere.
SPECIFICATION Spec
CONSTANTS
    Requires <- Pipeline
    Scenes = 2
    Illustrations <- SecondScene
    Policies <- SomePolicies
    Worker = {w1, w2}
    MaxVersion = 2
    MaxAgain = 2
SYMMETRY Symmetry
INVARIANT WordsOverTheirPictures
INVARIANT GateHolds
CHECK_DEADLOCK FALSE
