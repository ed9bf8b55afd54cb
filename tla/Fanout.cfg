CONSTANTS
    Scene = {"a", "b", "c", "card"}
    Card = {"card"}
    SceneIndex <- Indexed
    SceneSets <- TwoSets
    Job = {j1, j2}
    Worker = {w1, w2}
    Limit = {0, 1}
    MaxDay = 1
SPECIFICATION Spec
INVARIANTS
    WholeOrNothing
    SpendNearCap
    GeneratingHasJob
    OnlyThePhaseDeadlocks
SYMMETRY Interchangeable
CHECK_DEADLOCK FALSE
