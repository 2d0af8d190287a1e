SPECIFICATION Spec
CHECK_DEADLOCK FALSE
INVARIANTS
    PlansAreSound DiagramsHoldTogether
PROPERTIES
    HistoryFollowsTheDiagram ComesToAnEnd
