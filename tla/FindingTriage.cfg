\* Two goroutines and three actions on one finding, with two connections.
SPECIFICATION FairSpec
CONSTANTS
    f1 = f1
    r1 = r1
    r2 = r2
    None = None
    Findings <- OneFinding
    Requests <- TwoRequests
    MaxConns = 2
    MaxSent = 3
    MaxFaults = 1
CHECK_DEADLOCK FALSE
INVARIANTS
    HistoryReplays
    ReasonFitsStatus
PROPERTIES
    ImplementsHistory
    EveryRequestEnds
