SPECIFICATION FairSpec
CONSTANTS
    f1 = f1
    f2 = f2
    w1 = w1
    w2 = w2
    Findings <- OneFinding
    Workers <- OneWorker
    BatchSize = 1
    SweepLimit = 1
    MaxLog = 1
    MaxFaults = 1
    MaxStops = 0
PROPERTIES
    FailedMessageRetried
