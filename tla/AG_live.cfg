\* Anything fails, the power included.
SPECIFICATION FairSpec
CONSTANTS
    Boxes = {b1}
    Hostname <- OwnHostname
    Random = Random
    FaultKinds = {"lostAnswer", "restart", "planFails", "powerCycle", "plugin", "script", "reboot"}
    MaxFaults = 3
    MaxRegistrations = 5
    MaxDeletions = 2
    MaxVersions = 1
    None = None
    Absent = Absent
PROPERTIES
    
    BootstrapCompletes
    
CHECK_DEADLOCK FALSE
