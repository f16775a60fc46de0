\* Three CVEs on pages of one, four instants, windows of two: a load takes
\* several pages and several windows, and the catalogue changes under it.
SPECIFICATION FairSpec
CONSTANTS
    ticker = ticker
    manual = manual
    Callers <- BothCallers
    Catalogue = 3
    PageSize = 1
    Overlap = 1
    MaxRange = 2
    Loaded = TRUE
    MaxClock = 4
    MaxFaults = 1
    MaxStops = 1
INVARIANTS
    TypeOK
    OneRunAtATime
    NothingSkipped
PROPERTIES
    WatermarkNeverRetreats
    CatchesUp
