CONSTANTS
    Owners = {w1, w2}
    NoOwner = NoOwner
    Runs = {r1, r2}
    NoRun = NoRun
    Keys = {k1}
    NoKey = NoKey
    LeaseSeconds = 1
    Targets <- MCFewTargets
    ExpectedSets <- MCOneExpectedSet
    MaxTime = 3
    MaxVersion = 5
SYMMETRY Symmetry
SPECIFICATION Spec
CHECK_DEADLOCK FALSE
INVARIANTS
    TypeOK
    RowsAgree
    AttemptsAreUnique
    OneRunPerKey
PROPERTIES
    EndedStaysEnded
    ImplementsTenure
