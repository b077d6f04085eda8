SPECIFICATION FairServerSpec
CONSTANTS
    p1 = p1
    p2 = p2
    p3 = p3
    Workloads <- MCWorkloads
    Logins = {l1, l2}
    Keys = {k1}
    TTL = 1
    MaxDelay = 1
    MaxTime = 4
    Published0 = {{}}
    Never = Never
    Requests = {r1, r2}
    Accounts = {u1, u2}
    Uids = {"x", "y"}
    Data = {"a", "b"}
    Batches <- MCBatches
    NoUid = "none"
    None = None
    Players = {p1, p2, p3}
    PageSize = 2
    FirstWeekday = 5
    MaxDay = 2
    Scores = {1, 2}
    Boards <- MCBoards
    Start = 1
    MaxResults = 1
    NoRow = NoRow
    Counts = {"playerCount", "battleCount"}
    Jobs = {j1, j2}
    MaxChanges = 2
    MaxFails = 2
    NoResult = NoResult
INVARIANTS
    ServerTypeOK
    WalkShowsTheSteady
    EmptyPagesMeanBanned
    TieByFirstResult
PROPERTIES
    WithdrawnKeyExpires
    CurrentKeyAccepted
    CollectionIsAtomic
    UpsertEnds
    TitleStatsCatchUp
CHECK_DEADLOCK FALSE
