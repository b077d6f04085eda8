SPECIFICATION FairSchemaSpec
CONSTANTS
    s1 = s1
    s2 = s2
    Servers <- MCServers
    Configs <- MCConfigs
    OldSchemas <- MCOldSchemas
    MaxFaults = 2
INVARIANTS
    SetupTypeOK
    SchemaCompleteWhenServing
PROPERTIES
    EventuallyServes
CHECK_DEADLOCK FALSE
