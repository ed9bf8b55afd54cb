CONSTANTS
    e1 = e1
    e2 = e2
    e3 = e3
    t1 = t1
    t2 = t2
    Event <- Events
    Txn <- Txns
    Writer <- WriterOf
    Drain = {d1, d2}
    Batch = 2
    MaxLost = 2
SPECIFICATION Spec
INVARIANTS
    AtMostOncePlusLost
PROPERTIES
    ImplementsChannel
    OvertakesOnlyLocked
    BacklogDrains
CHECK_DEADLOCK FALSE
