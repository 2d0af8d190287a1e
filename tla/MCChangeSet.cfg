SPECIFICATION Spec
CONSTANTS
    model = model
    code = code
    a1 = a1
    a2 = a2
    u1 = u1
    u2 = u2
    Files = {model, code}
    Projects = {model}
    ProjectFile = model
    AgentEdits = {a1, a2}
    UserEdits = {u1, u2}
    PageListens = TRUE
SYMMETRY Interchangeable
CHECK_DEADLOCK FALSE
INVARIANTS
    TypeOK
    RestoredWhileWaiting
PROPERTIES
    NewerUserEditsSurvive
    DecisionsTakeEffect
