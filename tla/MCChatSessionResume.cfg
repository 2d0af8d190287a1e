CONSTANTS
    Owners = {1, 2}
    NoOwner = 0
    Runs = {r1, r2, r3}
    NoRun = NoRun
    Sockets = {s1}
    NoSocket = NoSocket
    MaxSessions = 2
    MaxReviews = 0
    MaxManagers = 2
SYMMETRY Symmetry
SPECIFICATION Spec
INVARIANTS
    ResumedOnce
CHECK_DEADLOCK FALSE
