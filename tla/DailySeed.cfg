SPECIFICATION DailySpec
CONSTANTS
    Servers = {s1, s2}
    Secrets = {k1, k2, k3}
    MaxDay = 1
    MaxStops = 1
    MaxFails = 1
    None = None
INVARIANTS
    DailyTypeOK
    SeedOfTheDay
    SeededWhenServing
PROPERTIES
    SeedStable
    TodayGetsSeed
