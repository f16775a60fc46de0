\* The closure reasons after a first load that failed.
SPECIFICATION FairSpec
CONSTANTS
    f1 = f1
    r1 = r1
    r2 = r2
    None = None
    Findings <- OneFinding
    Requests <- TwoRequests
    MaxConns = 3
    MaxSent = 3
    MaxFaults = 1
CHECK_DEADLOCK FALSE
PROPERTY
    ReasonsGetReady
