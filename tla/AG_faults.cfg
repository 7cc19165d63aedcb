\* Random hostnames; anything may fail but the power and the bootstrap configs,
\* which with a dying reset plan break BootstrappedRanItsConfig (README, 3.1).
SPECIFICATION Spec
CONSTANTS
    Boxes = {b1}
    Hostname <- RandomHostname
    Random = Random
    FaultKinds = {"lostAnswer", "restart", "planFails", "plugin", "reboot"}
    MaxFaults = 3
    MaxRegistrations = 6
    MaxDeletions = 2
    MaxVersions = 0
    None = None
    Absent = Absent
INVARIANTS
    TypeOK
    BootstrappedRanItsConfig
    BootstrapNotRepeated
PROPERTIES
    GoneOnlyWhenWiped
CHECK_DEADLOCK FALSE
