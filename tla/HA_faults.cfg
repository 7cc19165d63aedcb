\* API calls fail, answers are lost and the manager crashes.
SPECIFICATION Spec
CONSTANTS
    Machines = {m1, m2}
    Hosts = {h1, h2}
    Selector <- AnyHost
    LaggingKinds = {}
    Faults = TRUE
    MaxRegistrations = 1
    None = None
    Absent = Absent
SYMMETRY Symmetric
INVARIANTS
    TypeOK
    OneHostPerMachine
    LinkedBothWays
    ProviderIDMatchesHostRef
    JoinedItsMachine
PROPERTY
    PoolImplemented
CHECK_DEADLOCK FALSE
