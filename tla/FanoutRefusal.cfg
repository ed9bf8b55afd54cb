CONSTANTS
    Scene = {"a", "b", "c", "card"}
    Card = {"card"}
    SceneIndex <- Indexed
    SceneSets <- TwoSets
    Job = {j1, j2}
    Worker = {w1}
    Limit = {1}
    MaxDay = 0
SPECIFICATION Spec
PROPERTIES
    RefusalEndsTheDay
SYMMETRY Interchangeable
CHECK_DEADLOCK FALSE
