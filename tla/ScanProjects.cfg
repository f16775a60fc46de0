\* Two scans that upload the same report to two projects.
SPECIFICATION Spec
CONSTANTS
    a = a
    b = b
    p1 = p1
    p2 = p2
    s1 = s1
    s2 = s2
    i1 = i1
    None = None
    Fingerprints <- TwoFingerprints
    Projects <- TwoProjects
    Scans <- TwoScans
    Imports <- NoImport
    Reports <- OneReport
    MaxFaults = 0
    MaxDeletes = 0
CHECK_DEADLOCK FALSE
INVARIANT
    FoundInItsProject
