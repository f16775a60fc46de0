\* A new installation whose first load is interrupted: two CVEs on pages of one.
SPECIFICATION Spec
CONSTANTS
    ticker = ticker
    manual = manual
    Callers <- BothCallers
    Catalogue = 2
    PageSize = 1
    Overlap = 1
    MaxRange = 2
    Loaded = FALSE
    MaxClock = 3
    MaxFaults = 1
    MaxStops = 0
INVARIANT IncrementalAfterSuccess
