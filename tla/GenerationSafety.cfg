SPECIFICATION Spec
CONSTANTS
    Artifact = {a1}
    Job = {j1, j2}
    Worker = {w1, w2}
    Session = {s1, s2}
    AutoApproved = {a1}
    MaxVersion = 2
    ProviderFails = TRUE
    WorkerDies = TRUE
    MessageLost = FALSE
SYMMETRY Symmetry
INVARIANTS IInv OneRunPerJob OneVersionPerJob GeneratingHasJob
PROPERTY ImplementsVersionLog
