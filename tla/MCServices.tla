----------------------------- MODULE MCServices -----------------------------
(* Small instances of the services a run of the agent uses, side by side:   *)
(* the executor's edit recovery, a child's budget, the plugin service, the  *)
(* dispatch of an event, the task store, an evaluation case and the batches *)
(* of cases, a command and background tasks.  "part" says which of them a   *)
(* behaviour is about; the variables of the others stay at 0.  The parts    *)
(* share no state in the program either: what they exchange with the loop   *)
(* are the choices of each module's actions.                                *)
EXTENDS Naturals, Sequences, TLC

CONSTANTS
    Plugins, Versions, Broken, Requests,            \* of PluginRuntime
    MaxHooks,                                       \* of HookDispatch
    Turns,                                          \* of EvalRun
    TaskIds, TreeNames, BindingRuns,                \* of TaskSystem
    Batches, Rounds, AgentVersions, Catalog, Baseline, Selections,
    RoundCases,                                     \* of EvalBatches
    Limit, Chunk, Pipe,                             \* of CommandRun
    Jobs                                            \* of BackgroundTasks

ASSUME RequestsHaveNames == "nobody" \notin Requests
ASSUME VersionsAreNotNone == 0 \notin Versions
ASSUME HooksAreNumbered == MaxHooks \in Nat
ASSUME RunsHaveNames == BindingRuns \cap {"none", "agent", "tools", "trees"} = {}
ASSUME TreesHaveNames == "none" \notin TreeNames
ASSUME ScriptsHaveTurns == Turns \in Nat \ {0}
ASSUME RoundsAreNoBatches == Rounds \cap Batches = {}
ASSUME RoundsHaveCases == RoundCases \subseteq (SUBSET Catalog) \ {{}}
ASSUME SelectionsAreCases == Selections \subseteq Seq(Catalog) \ {<<>>}
ASSUME OutputIsCounted == Limit \in Nat /\ Chunk \in Nat \ {0} /\ Pipe \in Nat

Symmetry == Permutations(TaskIds) \cup Permutations(Batches) \cup Permutations(AgentVersions)
OneIsBroken == {<<"q", 1>>}
SomeSelections == {<<1>>, <<2, 3>>, <<2, 2>>}

VARIABLES
    part,
    parsed, noted, pending, refused, unseen,
    childStage, spent, ratio, real, request, sent, wrapping, summaries, stalls, ending,
    published,
    disk, imported, baseline, active, archive, asked, turn, thread, importing, torn,
    stage, hooks, observersOnly, next, ran, results, ended,
    files, git, branches, work, binding, stale,
    agent, pc, caseTurn, phase, written, summedUp, gates, failure, budget, bound, result,
    rows,
    command, at, process, kin, stray, pipe, reader, kept, dropped, exceeded, pressed, reason,
    status,
    job, record, owner, awaited, cancelled, interrupted,
    batches, memory, tasks, file, performance, deleted

Edit == INSTANCE EditRecovery
    WITH Paths <- 1..2, MaxBatch <- 2, FailuresShown <- 2, PathsShown <- 1, active <- refused

Child == INSTANCE Subagent
    WITH stage <- childStage, TokenLimit <- 60000, SummaryTokens <- 3000, ReserveTokens <-
         12000, Estimates <- {3000, 20000}, Ratios <- {900, 2000},
         MaxStalls <- 2

Plugin == INSTANCE PluginRuntime

Hook == INSTANCE HookDispatch

Task == INSTANCE TaskSystem
    WITH Tasks <- TaskIds, Names <- TreeNames, Runs <- BindingRuns

Case == INSTANCE EvalRun
    WITH turn <- caseTurn, summaries <- summedUp, task <- bound

Command == INSTANCE CommandRun
    WITH task <- command, stage <- at, lost <- dropped

Background == INSTANCE BackgroundTasks
    WITH asked <- interrupted

Batch == INSTANCE EvalBatches
    WITH Versions <- AgentVersions

editVars == <<parsed, noted, pending, refused, unseen>>
childVars == <<childStage, spent, ratio, real, request, sent, wrapping, summaries, stalls,
                ending, published>>
pluginVars == <<disk, imported, baseline, active, archive, asked, turn, thread, importing,
                 torn>>
hookVars == <<stage, hooks, observersOnly, next, ran, results, ended>>
taskVars == <<files, git, branches, work, binding, stale>>
caseVars == <<agent, pc, caseTurn, phase, written, summedUp, gates, failure, budget, bound,
               result, rows>>
commandVars == <<command, at, process, kin, stray, pipe, reader, kept, dropped, exceeded, pressed,
                  reason, status>>
backgroundVars == <<job, record, owner, awaited, cancelled, interrupted>>
batchVars == <<batches, memory, tasks, file, performance, deleted>>
vars == <<part, editVars, childVars, pluginVars, hookVars, taskVars, caseVars, commandVars,
          backgroundVars, batchVars>>

Init ==
    /\ part \in {"edit", "child", "plugin", "hook", "task", "case", "command", "background", "batch"}
    /\ IF part = "edit" THEN Edit!Init
       ELSE parsed = 0 /\ noted = 0 /\ pending = 0 /\ refused = 0 /\ unseen = 0
    /\ IF part = "child" THEN Child!Init
       ELSE childStage = 0 /\ spent = 0 /\ ratio = 0 /\ real = 0 /\ request = 0 /\ sent = 0
            /\ wrapping = 0 /\ summaries = 0 /\ stalls = 0 /\ ending = 0
            /\ published = 0
    /\ IF part = "plugin" THEN Plugin!Init
       ELSE disk = 0 /\ imported = 0 /\ baseline = 0 /\ active = 0 /\ archive = 0
            /\ asked = 0 /\ turn = 0 /\ thread = 0 /\ importing = 0 /\ torn = 0
    /\ IF part = "hook" THEN Hook!Init
       ELSE stage = 0 /\ hooks = 0 /\ observersOnly = 0 /\ next = 0 /\ ran = 0
            /\ results = 0 /\ ended = 0
    /\ IF part = "task" THEN Task!Init
       ELSE files = 0 /\ git = 0 /\ branches = 0 /\ work = 0 /\ binding = 0 /\ stale = 0
    /\ IF part = "case" THEN Case!Init
       ELSE agent = 0 /\ pc = 0 /\ caseTurn = 0 /\ phase = 0 /\ written = 0 /\ summedUp = 0
            /\ gates = 0 /\ failure = 0 /\ budget = 0 /\ bound = 0 /\ result = 0 /\ rows = 0
    /\ IF part = "command" THEN Command!Init
       ELSE command = 0 /\ at = 0 /\ process = 0 /\ kin = 0 /\ stray = 0 /\ pipe = 0 /\ reader = 0
            /\ kept = 0 /\ dropped = 0 /\ exceeded = 0 /\ pressed = 0 /\ reason = 0
            /\ status = 0
    /\ IF part = "background" THEN Background!Init
       ELSE job = 0 /\ record = 0 /\ owner = 0 /\ awaited = 0 /\ cancelled = 0
            /\ interrupted = 0
    /\ IF part = "batch" THEN Batch!Init
       ELSE batches = 0 /\ memory = 0 /\ tasks = 0 /\ file = 0 /\ performance = 0 /\ deleted = 0

Is(p) == part = p /\ UNCHANGED part

Rest(p) ==
    /\ IF p = "edit" THEN TRUE ELSE UNCHANGED editVars
    /\ IF p = "child" THEN TRUE ELSE UNCHANGED childVars
    /\ IF p = "plugin" THEN TRUE ELSE UNCHANGED pluginVars
    /\ IF p = "hook" THEN TRUE ELSE UNCHANGED hookVars
    /\ IF p = "task" THEN TRUE ELSE UNCHANGED taskVars
    /\ IF p = "case" THEN TRUE ELSE UNCHANGED caseVars
    /\ IF p = "command" THEN TRUE ELSE UNCHANGED commandVars
    /\ IF p = "background" THEN TRUE ELSE UNCHANGED backgroundVars
    /\ IF p = "batch" THEN TRUE ELSE UNCHANGED batchVars

Next ==
    \/ Is("edit") /\ Edit!Next /\ Rest("edit")
    \/ Is("child") /\ Child!Next /\ Rest("child")
    \/ Is("plugin") /\ Plugin!Next /\ Rest("plugin")
    \/ Is("hook") /\ Hook!Next /\ Rest("hook")
    \/ Is("task") /\ Task!Next /\ Rest("task")
    \/ Is("case") /\ Case!Next /\ Rest("case")
    \/ Is("command") /\ Command!Next /\ Rest("command")
    \/ Is("background") /\ Background!Next /\ Rest("background")
    \/ Is("batch") /\ Batch!Next /\ Rest("batch")

Spec == Init /\ [][Next]_vars

-----------------------------------------------------------------------------
(* After an edit that failed on outdated content no file is edited again    *)
(* before the model was shown it; what the loop tells the model it must do  *)
(* is what the executor waits for, and it names every file that is blocked  *)
(* but those that its limits of failures and of paths push out.              *)
EditsAreInformed ==
    part = "edit" =>
        /\ Edit!TypeOK /\ Edit!NoBlindEdit
        /\ Edit!AdviceIsEnforced /\ Edit!BlockIsReported


(* What is published as active is what was imported and what the archive    *)
(* says, through refreshes that are canceled or fail, and a refresh only    *)
(* adds.  Of the hooks of an event every observer is called, a guard that   *)
(* fails blocks, and the strongest decision wins whatever the order.         *)
PluginsTakeEffect ==
    /\ [](part = "plugin" =>
           /\ Plugin!TypeOK /\ Plugin!ActiveIsWhatRuns
           /\ Plugin!ActiveIsArchived)
    /\ [](part = "hook" =>
           /\ Hook!TypeOK /\ Hook!ObserversSee
           /\ Hook!FailedGuardBlocks /\ Hook!FinalizeWins)
    /\ [][part = "plugin" => Plugin!Adds]_vars

(* No task waits for itself, the agent starts none before what it waits for *)
(* was completed (a run that binds a worktree starts its task unasked), one *)
(* task at a time is worked on by each owner, and a run at work has its     *)
(* worktree.                                                                 *)
TasksAreInOrder ==
    part = "task" =>
        /\ Task!TypeOK /\ Task!Acyclic
        /\ Task!StartedIsUnblocked /\ Task!OneAtATime
        /\ Task!ActiveHasItsWorktree

(* Of a command's output no more than the limit is kept, what is passed off *)
(* as complete is, and of a command that is reported as ended nothing still *)
(* writes, unless it wrote more than the limit or could not be read.  What   *)
(* stops a command stops its descendants; only a cancelation before the     *)
(* broker knew the process leaves it unattended.                             *)
CommandsAreReported ==
    part = "command" =>
        /\ Command!TypeOK /\ Command!KeptIsBounded
        /\ Command!CompleteIsComplete /\ Command!EndedIsOver

(* When the owner goes on no job is left that could touch what it releases, *)
(* however often it was canceled while it waited; the cancelation is not    *)
(* lost, and a record that says pending is one whose callback will run.      *)
OwnersOutliveJobs ==
    part = "background" =>
        /\ Background!TypeOK /\ Background!ReleasedIsOver
        /\ Background!CancellationIsKept /\ Background!PendingIsUnsettled

(* A case that is recorded as passed went through every gate (those of its  *)
(* turns only if its agent has a coordinator), each turn it began is summed *)
(* up and its task is settled, wherever it failed or was canceled; a        *)
(* completed batch has a result for each case, a performance that was       *)
(* merged stands for the whole baseline in one version, and what was        *)
(* deleted does not come back.                                               *)
EvaluationsAreHonest ==
    /\ part = "case" =>
           /\ Case!TypeOK /\ Case!PassedIsEarned
           /\ Case!EveryTurnIsSummedUp /\ Case!TaskIsSettled
    /\ part = "batch" =>
           /\ Batch!TypeOK /\ Batch!PerformanceIsWhole
           /\ Batch!CompletedIsWhole /\ Batch!DeletedIsGone

=============================================================================
