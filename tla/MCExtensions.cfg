CONSTANTS x = x  m1 = m1  m2 = m2  t1 = t1  t2 = t2  v1 = v1  v2 = v2
SYMMETRY Symmetry
SPECIFICATION Spec
CHECK_DEADLOCK FALSE
PROPERTIES
    MemoriesAreCurrent GraphFollowsTheProject ContractIsKept
