\* Small instances of eight services; the comments at their constants say what
\* each stands for.
SPECIFICATION Spec
CONSTANTS
    MaxRecords = 3
    Capacity = 1
    PageLimit = 1
    StreamLimit = 2
    MaxErrors = 1
    Selected = {1, 2, 3}
    Attempts = {a1, a2, a3, a4, a5}
    Limit = 2
    MaxLost = 1
    Exports = {e1, e2, e3}
    Html = {e3}
    Slots = 2
    Begins = 2
    MaxDropped = 1
    Ids = {"x", "y"}
    Archives <- SmallArchives
    Ecosystems = 2
    BatchSize = 2
    MaxTries = 2
    MaxPublished = 1
    MaxFaults = 2
    Mirrors = 2
    Cves = {c}
    MaxDay = 3
    MaxIssues = 2
    MaxSlips = 1
    Products = 3
    PageLength = 1
    Window = 2
    MaxTime = 5
    MaxBreaks = 1
    Findings = {1, 2, 3, 4, 5}
    Data <- FiveFindings
    Filters <- SomeFilters
    BatchLimit = 2
    MaxRows = 4
    BulkLimit = 2
    MaxMoves = 2
    Boards <- FourProjects
    BoardLimit = 2
    MaxPins = 1
CHECK_DEADLOCK FALSE
INVARIANTS
    QueueIsDrained
    ReadersMissNothing
    ExportsAreLimited
    ResultIsTrue
    ScoreIsInHistory
    DictionaryFollows
    PagesAreComplete
    CountsAreTrue
    GroupActsOnItsRows
    BoardIsComplete
PROPERTIES
    LockoutEnds
