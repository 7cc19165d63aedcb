\* Two boxes with one hostname; anything may fail but the commands of the reset plan.
SPECIFICATION Spec
CONSTANTS
    Boxes = {b1, b2}
    Hostname <- SameHostname
    Random = Random
    FaultKinds = {"lostAnswer", "restart", "powerCycle", "plugin", "script", "reboot"}
    MaxFaults = 2
    MaxRegistrations = 4
    MaxDeletions = 2
    MaxVersions = 1
    None = None
    Absent = Absent
INVARIANTS
    AvailableCanReturn
    BootstrappedRanItsConfig
PROPERTIES
    GoneOnlyWhenWiped
CHECK_DEADLOCK FALSE
