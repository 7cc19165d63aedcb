\* Nothing fails and every read is up to date; the work queue and the agents are fair.
SPECIFICATION FairSpec
CONSTANTS
    Machines = {m1, m2}
    Hosts = {h1}
    Selector <- AnyHost
    LaggingKinds = {}
    Faults = FALSE
    MaxRegistrations = 1
    None = None
    Absent = Absent
PROPERTIES
    FinalizerResetsHosts
    ReadyOnOwnBootstrap
    ReadyAfterProviderID
    HostResetCompletes
    BrokenAssociationDropped
    LinkedBecomesReady
CHECK_DEADLOCK FALSE
