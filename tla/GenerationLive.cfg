SPECIFICATION FairSpec
CONSTANTS
    Artifact = {a1}
    Job = {j1, j2}
    Worker = {w1, w2}
    Session = {s1}
    AutoApproved = {}
    MaxVersion = 1
    ProviderFails = TRUE
    WorkerDies = TRUE
    MessageLost = TRUE
PROPERTIES JobsEnd GenerationEnds
