\* One request and one new version; nothing fails.
SPECIFICATION FairSpec
CONSTANTS
    Versions = {v1}
    NoVersion = NoVersion
    Unbootable = {}
    MaxChanges = 1
    MaxRequests = 1
    MaxFaults = 0
PROPERTY
    PendingIsApplied
