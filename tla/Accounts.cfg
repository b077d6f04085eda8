SPECIFICATION Spec
CONSTANTS
    n1 = n1
    n2 = n2
    i1 = i1
    i2 = i2
    r1 = r1
    r2 = r2
    g1 = g1
    d1 = d1
    None = None
    BadName = BadName
    Reqs = {r1, r2}
    Usernames = {n1, n2}
    Uids = {i1, i2}
    GoogleIds = {g1}
    DiscordIds = {d1}
    Admins = {d1}
    AdminTasks <- MCAdminTasks
    AllowLists <- MCAllowLists
    MaxTokens = 2
SYMMETRY Symmetric
INVARIANTS
    TypeOK
    OneAccountEach
    TokenOfItsIdentity
    HandedTokenWorks
    CheatsFollowAllowList
    NicknameOnlyFirst
