SPECIFICATION Spec
CONSTANTS
    Capacity = 2
    MaxReviews = 1
    MaxSteps = 1
    MaxRuns = 1
    MaxCommands = 2
    MaxFaults = 1
    MaxAttempts = 1
CHECK_DEADLOCK FALSE
INVARIANTS
    DeliveryIsWhole
    ShowsWhatIs
PROPERTIES
    Recovers
