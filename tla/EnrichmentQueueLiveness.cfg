SPECIFICATION FairSpec
CONSTANTS
    f1 = f1
    f2 = f2
    w1 = w1
    w2 = w2
    Findings <- TwoFindings
    Workers <- OneWorker
    BatchSize = 1
    SweepLimit = 1
    MaxLog = 2
    MaxFaults = 1
    MaxStops = 1
PROPERTIES
    EventuallyDelivered
    RecoveryRetries
    SweepClearsBacklog
