SPECIFICATION Spec
CONSTANTS
    idA = idA
    idB = idB
    c1 = c1
    c2 = c2
    r1 = r1
    r2 = r2
    None = None
    Zero = Zero
    BlankClient = BlankClient
    NoSlot = NoSlot
    Slots = {s0}
    MinVersion <- MCMinVersion
    Migrators = {"fix"}
    NoNumber = NoNumber
    Reqs = {r1, r2}
    Clients = {c1, c2}
    Ids = {idA}
    SystemSaves <- MCHandoffSaves
    SessionSaves <- MCOneSession
    Ops <- SystemOps
    S3Modes = {FALSE}
    Faults = FALSE
    SerialClients = TRUE
SYMMETRY Symmetric
INVARIANTS
    ValidMeansCurrent
PROPERTIES
    NoUnseenOverwrite
