SPECIFICATION FairSpec
CONSTANTS
    Runs = {r1, r2}
    Beats = 3
    Elem <- MCElem
    EOQ = EOQ
    Capacity = 4
    FaultKinds = {"kill", "fork"}
    MaxFaults = 2
INVARIANTS
    TypeOK
    InOrderAndOnce
    SoleRunComplete
    NoQueueLeft
    BlockedServed
PROPERTIES
    ParentsEnd
    ImplementsMailbox
\* The runs end.
CHECK_DEADLOCK FALSE
