\* One registration; its key is replaced, its token edited; calls fail and the registration is read late.
SPECIFICATION FairSpec
CONSTANTS
    Agents = {a1}
    Lagging = TRUE
    MaxRegistrations = 1
    MaxRotations = 1
    MaxEdits = 2
    MaxFaults = 2
    None = None
    Disabled = Disabled
    Absent = Absent
INVARIANTS
    TypeOK
    TokenVerifies
PROPERTIES
    TokensSurvive
    ReadyWithKey
    Settles
CHECK_DEADLOCK FALSE
