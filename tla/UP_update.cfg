\* Two versions, one of which does not boot; upgrades fail, answers are lost, the power goes.
SPECIFICATION FairSpec
CONSTANTS
    Versions = {v1, v2}
    NoVersion = NoVersion
    Unbootable = {v2}
    MaxChanges = 3
    MaxRequests = 2
    MaxFaults = 2
INVARIANT
    TypeOK
PROPERTIES
    VersionBeforeBootstrap
    
    DoneWasApplied
    PendingAnswered
    LinkedBootstraps
