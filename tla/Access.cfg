\* Two requests at a time on three users, one statement that fails; two
\* requests on a project with three people.
SPECIFICATION Spec
CONSTANTS
    a = a
    b = b
    c1 = c1
    g1 = g1
    g2 = g2
    p1 = p1
    p2 = p2
    p3 = p3
    q1 = q1
    q2 = q2
    Users <- ThreeUsers
    Callers <- TwoCallers
    Bulks <- OneBulk
    MaxCalls = 2
    MaxFailures = 1
    People <- ThreePeople
    Root = p1
    Requests <- TwoRequests
    NoOwner = NoOwner
SYMMETRY Symmetry
CHECK_DEADLOCK FALSE
INVARIANTS
    SomeoneAdministers
    SystemAccountStays
    AdminFlagIsRole
    OldSessionsEnd
    AdminPasswordIsTemporary
    ProjectKeepsAdmin
    NoEditIsLost
    GitHasRepository
