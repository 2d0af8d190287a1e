SPECIFICATION Spec
CONSTANTS
    Owners = {v1, v2}
    NoOwner = nobody
    Items = {1, 2}
    TotalTokens = 2
    Outcomes = {"completed", "partial"}
    MaxShared = 1
    MaxRevision = 2
    MaxFaults = 1
CHECK_DEADLOCK FALSE
INVARIANTS
    WorkIsDoneOnce
    ReturnsWhatItCould
PROPERTIES
    NothingIsLost
    ImplementsTenure
