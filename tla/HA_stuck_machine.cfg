\* A machine is deleted after its host is gone.
SPECIFICATION FairSpec
CONSTANTS
    Machines = {m1}
    Hosts = {h1}
    Selector <- AnyHost
    LaggingKinds = {}
    Faults = FALSE
    MaxRegistrations = 1
    None = None
    Absent = Absent
PROPERTY
    MachineDeletionCompletes
CHECK_DEADLOCK FALSE
