----------------------------- MODULE MCProgress -----------------------------
(* What must come to an end: small instances, side by side, of the          *)
(* scheduler's invocations, a command, the background tasks of a run and    *)
(* the loop that orders plugins; and on the page the undo history and the   *)
(* canvas, which may go on for ever.  "part" says which of them a behaviour *)
(* is about; the variables of the others stay at 0.  The parts share no     *)
(* state in the program either.                                              *)
EXTENDS Naturals

VARIABLES
    part,
    items, runs, results, expired, inv, tasks, faults, late, alone,
    task, stage, process, kin, stray, pipe, reader, kept, lost, exceeded, pressed, reason, status,
    job, record, owner, awaited, cancelled, asked,
    declared, step, rows, order,
    project, tab, undoStack, redoStack, lastKey, recent, openBatch, busy, stepped, strayed,
    kind, diagram, before, after, node, link, menu, clipboard

Sched == INSTANCE Scheduler
    WITH Owners <- {"v1", "v2"}, NoOwner <- "nobody", Items <- {1, 2}, TotalTokens <- 2,
         Outcomes <- {"completed", "partial"}, MaxShared <- 0, MaxRevision <- 2,
         MaxFaults <- 1

Command == INSTANCE CommandRun
    WITH Limit <- 1, Chunk <- 1, Pipe <- 1

Background == INSTANCE BackgroundTasks
    WITH Jobs <- {"j1", "j2", "j3"}

(* Three plugins: each may depend on one of them, or on one nobody has (4); *)
(* two may come after, the third before one of them or the core (0).        *)
None(S) == {{}} \cup {{x} : x \in S}

Declarations ==
    [dependencies : {f \in [1..3 -> None(1..4)] : \A p \in 1..3 : p \notin f[p]},
     after : {f \in [1..3 -> None(0..3)] : f[3] = {} /\ \A p \in 1..2 : p \notin f[p]},
     before : {[p \in 1..3 |-> IF p = 3 THEN b ELSE {}] : b \in None({0, 1, 2})},
     broken : {{}, {1}}]

Plan == INSTANCE PluginPlan
    WITH N <- 3, status <- rows

History == INSTANCE DiagramHistory
    WITH Names <- {"a", "b"}, Elements <- {"e"}, Contents <- {1, 2}, Empty <- 1, MaxHistory
         <- 2, active <- tab, undone <- undoStack, redone <- redoStack, batch <-
         openBatch

(* What a project is opened with: two classes and their relation, one       *)
(* component in another, a message with its answer in nested fragments.      *)
Element(id, from, to, reply) == [id |-> id, from |-> from, to |-> to, reply |-> reply]
Shown(up, links, frames) ==
    [nodes |-> {"n1", "n2"}, parent |-> [n \in {"n1", "n2"} |-> IF n = "n2" THEN up ELSE "none"],
     links |-> links, frames |-> frames]
Frame(id, within, l, covers) ==
    [id |-> id, within |-> within, members |-> {l}, covers |-> covers]

Links == [class |-> {"l1", "l2"}, component |-> {"l1"}, sequence |-> {"l1", "l2"}]

Opened ==
    [class |-> {Shown("none", {Element("l1", "n1", "n2", "none")}, {})},
     component |-> {Shown("n1", {Element("l1", "n1", "n2", "none")}, {})},
     sequence |-> {Shown("none", {Element("l1", "n1", "n2", "none"), Element("l2", "n2", "n1", "l1")},
                         {Frame("f1", "none", "l1", {"n1"}), Frame("f2", "f1", "l2", {})})}]

Canvas == INSTANCE DiagramElements
    WITH Nodes <- {"n1", "n2"}, Frames <- {"f1", "f2"}, MaxHistory <- 1, undone <- before,
         redone <- after

schedulerVars == <<items, runs, results, expired, inv, tasks, faults, late, alone>>
commandVars == <<task, stage, process, kin, stray, pipe, reader, kept, lost, exceeded, pressed,
                  reason, status>>
backgroundVars == <<job, record, owner, awaited, cancelled, asked>>
planVars == <<declared, step, rows, order>>
historyVars == <<project, tab, undoStack, redoStack, lastKey, recent, openBatch, busy,
                  stepped, strayed>>
canvasVars == <<kind, diagram, before, after, node, link, menu, clipboard>>
vars == <<part, schedulerVars, commandVars, backgroundVars, planVars, historyVars,
          canvasVars>>

Init ==
    /\ part \in {"scheduler", "command", "background", "plan", "history", "canvas"}
    /\ IF part = "scheduler" THEN Sched!Init
       ELSE items = 0 /\ runs = 0 /\ results = 0 /\ expired = 0 /\ inv = 0 /\ tasks = 0
            /\ faults = 0 /\ late = 0 /\ alone = 0
    /\ IF part = "command" THEN Command!Init
       ELSE task = 0 /\ stage = 0 /\ process = 0 /\ kin = 0 /\ stray = 0 /\ pipe = 0 /\ reader = 0
            /\ kept = 0 /\ lost = 0 /\ exceeded = 0 /\ pressed = 0 /\ reason = 0
            /\ status = 0
    /\ IF part = "background" THEN Background!Init
       ELSE job = 0 /\ record = 0 /\ owner = 0 /\ awaited = 0 /\ cancelled = 0 /\ asked = 0
    /\ IF part = "plan" THEN Plan!Init
       ELSE declared = 0 /\ step = 0 /\ rows = 0 /\ order = 0
    /\ IF part = "history" THEN History!Init
       ELSE project = 0 /\ tab = 0 /\ undoStack = 0 /\ redoStack = 0 /\ lastKey = 0
            /\ recent = 0 /\ openBatch = 0 /\ busy = 0 /\ stepped = 0 /\ strayed = 0
    /\ IF part = "canvas" THEN Canvas!Init
       ELSE kind = 0 /\ diagram = 0 /\ before = 0 /\ after = 0 /\ node = 0 /\ link = 0
            /\ menu = 0 /\ clipboard = 0

Is(p) == part = p /\ UNCHANGED part

Rest(p) ==
    /\ IF p = "scheduler" THEN TRUE ELSE UNCHANGED schedulerVars
    /\ IF p = "command" THEN TRUE ELSE UNCHANGED commandVars
    /\ IF p = "background" THEN TRUE ELSE UNCHANGED backgroundVars
    /\ IF p = "plan" THEN TRUE ELSE UNCHANGED planVars
    /\ IF p = "history" THEN TRUE ELSE UNCHANGED historyVars
    /\ IF p = "canvas" THEN TRUE ELSE UNCHANGED canvasVars

Next ==
    \/ Is("scheduler") /\ Sched!Next /\ Rest("scheduler")
    \/ Is("command") /\ Command!Next /\ Rest("command")
    \/ Is("background") /\ Background!Next /\ Rest("background")
    \/ Is("plan") /\ Plan!Next /\ Rest("plan")
    \/ Is("history") /\ History!Next /\ Rest("history")
    \/ Is("canvas") /\ Canvas!Next /\ Rest("canvas")

\* The fairness each part states for itself; the parts exclude each other, so that one
\* condition can stand for one of each.
Steps(v) == \/ part = "scheduler" /\ Sched!Coroutine(v)
            \/ part = "scheduler" /\ \E k \in Sched!Children : Sched!Works(v, k)
Fair1 == \/ Steps("v1") /\ Rest("scheduler")
         \/ part = "command" /\ Command!Poll /\ Rest("command")
         \/ part = "background" /\ Background!Steps /\ Rest("background")
         \/ part = "plan" /\ Plan!Next /\ Rest("plan")
Fair2 == \/ Steps("v2") /\ Rest("scheduler")
         \/ part = "command" /\ Command!Join /\ Rest("command")
         \/ part = "command" /\ Command!JoinFails /\ Rest("command")
Fair3 == \/ part = "scheduler" /\ (\E i \in 1..2 : Sched!Age(i)) /\ Rest("scheduler")
         \/ part = "command" /\ Command!CancelledJoin /\ Rest("command")
Fair4 == \/ /\ part = "scheduler" /\ faults' = faults
            /\ \E k \in Sched!Children : Sched!Expire(k)
            /\ Rest("scheduler")
         \/ part = "command" /\ Command!Dies /\ Rest("command")
Spec ==
    /\ Init /\ [][Next]_vars
    /\ WF_vars(UNCHANGED part /\ Fair1) /\ WF_vars(UNCHANGED part /\ Fair2)
    /\ WF_vars(UNCHANGED part /\ Fair3) /\ WF_vars(UNCHANGED part /\ Fair4)
    /\ \A p \in {"stdout", "stderr"} :
        /\ WF_vars(Is("command") /\ Command!Looks(p) /\ Rest("command"))
        /\ WF_vars(Is("command") /\ Command!Reads(p) /\ Rest("command"))

-----------------------------------------------------------------------------
(* A plan that is made has everything its plugins depend on and keeps the   *)
(* order they ask for, and no plugin is put out for a fault of others it    *)
(* has nothing to do with.                                                   *)
PlansAreSound ==
    part = "plan" =>
        /\ Plan!TypeOK /\ Plan!PlanIsConsistent
        /\ Plan!OthersStay

(* The stacks hold versions of the diagram on the screen, whatever is shown, *)
(* proposed or opened in between, and an edit the user makes can be undone; *)
(* except around a batch that a task left open or closed on another tab,    *)
(* and an edit merged with the one that an undo has just taken back.         *)
HistoryFollowsTheDiagram ==
    /\ [](part = "history" =>
           /\ History!TypeOK /\ History!HistoryIsOfTheDiagram)
    /\ [][part = "history" => History!EditsCanBeUndone]_vars

(* The ends of relations and messages, the parents of components and all    *)
(* that fragments name are in the diagram, or were missing when they were   *)
(* drawn, and so it is with what undo and redo would bring back, through    *)
(* any mixture of removals, copies, undo and replaced diagrams; no component *)
(* is inside itself.  The message an answer names may be gone.               *)
DiagramsHoldTogether ==
    part = "canvas" =>
        /\ Canvas!TypeOK /\ Canvas!EndsAreThere
        /\ Canvas!FramesAreWhole

Due ==
    CASE part = "scheduler" -> \E v \in {"v1", "v2"} : Sched!UnderWay(v)
      [] part = "command" -> Command!Due
      [] part = "background" -> owner = "draining"
      [] part = "plan" -> TRUE
      [] OTHER -> FALSE
Over ==
    CASE part = "scheduler" -> \A v \in {"v1", "v2"} : ~Sched!UnderWay(v)
      [] part = "command" -> Command!Back
      [] part = "background" -> owner = "released"
      [] part = "plan" -> step = "done"
      [] OTHER -> TRUE

(* Terminates, ComesBack, Releases and PlanIsMade of the parts at once: the *)
(* invocations of the scheduler end; a command that writes too much,        *)
(* overstays its time or is stopped comes back, unless descendants keep its *)
(* pipes; the drain ends although work need not; a plan is made, whatever   *)
(* the plugins declare.                                                      *)
ComesToAnEnd == Due ~> Over

=============================================================================
