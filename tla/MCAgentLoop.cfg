SPECIFICATION Spec
CONSTANTS
  Checks = {"test"}
  Looks = {}
  Plans = {"open", "complete"}
  MaxStalled = 2
  MaxRecovery = 1
  Repeats = 2
  ToolLimits = {0, 3}
  Retries = 1
  MaxBatch = 2
CHECK_DEADLOCK FALSE
INVARIANTS
    EndsAsItSays
PROPERTIES
    Stops
