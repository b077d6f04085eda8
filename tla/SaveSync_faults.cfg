SPECIFICATION Spec
CONSTANTS
    idA = idA
    idB = idB
    c1 = c1
    c2 = c2
    r1 = r1
    r2 = r2
    None = None
    Zero = Zero
    BlankClient = BlankClient
    NoSlot = NoSlot
    Slots = {s0}
    MinVersion <- MCMinVersion
    Migrators = {"fix"}
    NoNumber = NoNumber
    Reqs = {r1, r2}
    Clients = {c1, c2}
    Ids = {idA}
    SystemSaves <- MCFaultSaves
    SessionSaves <- MCOneSession
    Ops <- FaultOps
    S3Modes = {TRUE, FALSE}
    Faults = TRUE
    SerialClients = FALSE
SYMMETRY Symmetric
INVARIANTS
    RetryPasses
    ValidMeansHandedOver
PROPERTIES
    OverwriteAfterHandOver
