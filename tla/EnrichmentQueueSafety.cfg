SPECIFICATION Spec
CONSTANTS
    f1 = f1
    f2 = f2
    w1 = w1
    w2 = w2
    Findings <- TwoFindings
    Workers <- TwoWorkers
    BatchSize = 2
    SweepLimit = 1
    MaxLog = 2
    MaxFaults = 1
    MaxStops = 1
SYMMETRY Symmetry
INVARIANTS
    AckedEnriched
    PublishedIsCommitted
    NothingLost
PROPERTIES
    ImplementsContract
