\* A registration is deleted and created again under its name.
SPECIFICATION FairSpec
CONSTANTS
    Agents = {a1}
    Lagging = FALSE
    MaxRegistrations = 2
    MaxRotations = 0
    MaxEdits = 1
    MaxFaults = 0
    None = None
    Disabled = Disabled
    Absent = Absent
PROPERTY
    KeyGenerated
CHECK_DEADLOCK FALSE
