CONSTANTS
    Owners = {1}
    NoOwner = 0
    Runs = {r1, r2}
    NoRun = NoRun
    Sockets = {s1, s2}
    NoSocket = NoSocket
    MaxSessions = 1
    MaxReviews = 2
    MaxManagers = 2
SYMMETRY Symmetry
SPECIFICATION Spec
CHECK_DEADLOCK FALSE
INVARIANTS
    TypeOK
    RowsTellTheWork
PROPERTIES
    ReviewsStand
