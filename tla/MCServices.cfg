CONSTANTS
    Plugins = {"p", "q"}  Versions = {1, 2}  Broken <- OneIsBroken  Requests = {"r1", "r2"}
    MaxHooks = 3
    TaskIds = {t1, t2}  TreeNames = {"w"}  BindingRuns = {"r"}
    Turns = 2
    Batches = {b1, b2}  Rounds = {"c"}  AgentVersions = {v1, v2}  Catalog = {1, 2, 3}  Baseline = {1, 2}
    Selections <- SomeSelections  RoundCases = {{1}}
    Limit = 2  Chunk = 2  Pipe = 2
    Jobs = {"j1", "j2", "j3"}
SYMMETRY Symmetry
SPECIFICATION Spec
CHECK_DEADLOCK FALSE
INVARIANTS
    EditsAreInformed  TasksAreInOrder CommandsAreReported
    OwnersOutliveJobs EvaluationsAreHonest
PROPERTIES
    PluginsTakeEffect
