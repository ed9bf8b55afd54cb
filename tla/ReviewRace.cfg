CONSTANTS
    Kind = {"research", "script"}
    Requires <- TextRequires
    Order <- TextOrder
    Phases <- MCPhases
    Artifact = {"research", "script"}
    KindOf <- TextKindOf
    PerScene = {}
    AutoApproved = {}
    Session = {s1, s2}
    MaxVersion <- TextVersions
    MaxDecision = 3
    Failing = {}
SPECIFICATION Spec
INVARIANTS
    AwaitingIsReviewable
    StaleMeansOutdated
SYMMETRY AnySession
CHECK_DEADLOCK FALSE
