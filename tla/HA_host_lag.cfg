\* Machines and hosts are read from the past, also from before the box registered again.
SPECIFICATION Spec
CONSTANTS
    Machines = {m1}
    Hosts = {h1}
    Selector <- AnyHost
    LaggingKinds = {"machine", "host"}
    Faults = TRUE
    MaxRegistrations = 2
    None = None
    Absent = Absent
PROPERTY
    GoneOnlyAfterReset
CHECK_DEADLOCK FALSE
