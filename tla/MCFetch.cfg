SPECIFICATION Spec
CONSTANTS
    None = None
    z1 = z1
    z2 = z2
    z3 = z3
    g1 = g1
    g2 = g2
    Cap = 1
    Jobs <- MCJobs
    Row <- MCRow
    Initial <- MCInitial
    Limit = 2
    MaxRecords = 4
    MaxPages = 2
    Candidates = 2
    MaxEvents = 2
INVARIANTS
    WalkAccounts
    QuietWalk
    QuietFetchIsExact
    TalliesAddUp
PROPERTY FetchEnds
