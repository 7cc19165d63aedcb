\* An answer gets lost.
SPECIFICATION FairSpec
CONSTANTS
    Boxes = {b1}
    Hostname <- OwnHostname
    Random = Random
    FaultKinds = {"lostAnswer"}
    MaxFaults = 1
    MaxRegistrations = 2
    MaxDeletions = 1
    MaxVersions = 0
    None = None
    Absent = Absent
PROPERTIES
    ResetBoxReturns
CHECK_DEADLOCK FALSE
