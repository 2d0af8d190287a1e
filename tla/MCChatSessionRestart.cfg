CONSTANTS
    Owners = {1, 2}
    NoOwner = 0
    Runs = {r1, r2}
    NoRun = NoRun
    Sockets = {s1}
    NoSocket = NoSocket
    MaxSessions = 2
    MaxReviews = 1
    MaxManagers = 2
SYMMETRY Symmetry
SPECIFICATION Spec
CHECK_DEADLOCK FALSE
INVARIANTS
    RowsTellTheWork
PROPERTIES
    ReviewsStand
    ImplementsTenure
