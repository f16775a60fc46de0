\* Two scans and an import over two fingerprints, with a failure and a deletion.
SPECIFICATION FairSpec
CONSTANTS
    a = a
    b = b
    p1 = p1
    p2 = p2
    s1 = s1
    s2 = s2
    i1 = i1
    None = None
    Fingerprints <- TwoFingerprints
    Projects <- OneProject
    Scans <- TwoScans
    Imports <- OneImport
    Reports <- TwoReports
    MaxFaults = 1
    MaxDeletes = 1
CHECK_DEADLOCK FALSE
INVARIANTS
    TimesSeenCounts
    NewExactlyOnce
    ScanIsWhole
PROPERTIES
    ImplementsSerial
    EveryRequestEnds
