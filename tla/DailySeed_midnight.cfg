SPECIFICATION DailySpec
CONSTANTS
    Servers = {s1}
    Secrets = {k1}
    MaxDay = 1
    MaxStops = 0
    MaxFails = 0
    None = None
INVARIANT
    RowThereAfterInsert
