SPECIFICATION Spec
CONSTANTS
    k1 = k1
    r1 = r1
    r2 = r2
    Servers = {s1}
    Secrets = {k1}
    MaxDay = 1
    MaxStops = 0
    MaxFails = 0
    None = None
    Reqs = {r1, r2}
    Runs <- MCRuns
    Unended <- MCUnended
    Cap = 2
    MaxErrors = 1
SYMMETRY Symmetric
INVARIANTS
    TypeOK
    FirstClearOnce
    OverCapMeansBanned
PROPERTIES
    BestKept
    CreditedToItsDay
    NothingLostWithTheRun
