------------------------------ MODULE Scheduler ------------------------------
(***************************************************************************)
(* Architecture-aware exploration: DynamicExplorationScheduler             *)
(* (orchestration/architecture_aware/scheduler.py) over ScheduleStore      *)
(* (store.py) and the rows of RunStore (RunRecords).                       *)
(*                                                                         *)
(* A plan has work items; each attempt at an item is a child run.  The     *)
(* store says which run an item belongs to and keeps the accepted result,  *)
(* the run's row has status, lease and a copy of the result.  A resumed    *)
(* root run invokes the scheduler again, possibly from another process     *)
(* while the first is still alive: invocations share the database and      *)
(* nothing else.  Within one, coroutines alternate only at awaits, so all  *)
(* that happens between two awaits is interleaved with other processes,    *)
(* transaction by transaction, and not with the invocation itself.         *)
(*                                                                         *)
(* A child run is named by its item and attempt instead of a random id     *)
(* (claim() draws both at once).  Time is two facts: a lease has expired,  *)
(* a claim is five seconds old.  The rows of one slot's candidates are read *)
(* at once, and so are those of the last look around.  Left out: costs,    *)
(* speeds (whether a move pays is any choice), packages, events, the       *)
(* lookup of another plan.                                                 *)
(***************************************************************************)
EXTENDS RunRecords, FiniteSets, FiniteSetsExt, Functions

CONSTANTS
    Items,          \* numbered in the order of their ids
    TotalTokens,    \* the shared budget
    Outcomes,       \* what workers report, of "completed", "partial" and "failed"
    MaxShared,      \* bound on the items left when an invocation joins another
    MaxRevision,    \* bound on the repartitions
    MaxFaults       \* bound on crashes, cancellations, interruptions and stalls

ASSUME ItemsAreNumbered == Items \subseteq Nat /\ Items # {} /\ IsFiniteSet(Items)
ASSUME SchedulerAssumption ==
    /\ TotalTokens \in Nat
    /\ Outcomes \subseteq {"completed", "partial", "failed"}
    /\ MaxShared \in Nat /\ MaxRevision \in Nat \ {0} /\ MaxFaults \in Nat

\* The owner of a row is its invocation (a new name for each _execute).
Invocations == Owners

Slots == {0, 1}
\* One more than _recover allows.
Attempts == 1..3
Children == Items \X Attempts

Results == Outcomes \cup {"exhausted"}
NoResult == "none"
Limit == TotalTokens \div Cardinality(Items)

VARIABLES
    items,          \* architecture_work_items
    runs,           \* the child runs' rows
    results,        \* metadata["result"] of the rows
    expired,        \* child runs whose lease time is over
    inv,            \* of each invocation: its coroutine
    tasks,          \* of each invocation: its _execute tasks
    faults,
    late,           \* observer: given up before their row existed
    alone           \* observer: the last invocation that began, if no other was under way

rows == <<runs, results, expired>>
observer == <<late, alone>>
vars == <<items, rows, inv, tasks, faults, observer>>

Item == [slot : Slots, revision : 0..MaxRevision, claimed : BOOLEAN, aged : BOOLEAN,
         attempt : 0..3, result : Results \cup {NoResult}]
Child(i, item) == <<i, item.attempt>>

AtAwait == {"sleep", "wait"}
Ended == {"returned", "raised", "crashed"}
\* Phases of a task that lie between two awaits.
Midway == {"claim", "submit"}
NoTask == [phase |-> "none", slot |-> 0, revision |-> 0]
NewItem(slot, revision) == [slot |-> slot, revision |-> revision, claimed |-> FALSE,
                            aged |-> FALSE, attempt |-> 0, result |-> NoResult]
NoPlan == [i \in Items |-> NewItem(0, 0)]
Idle == [pc |-> "idle", plan |-> NoPlan, todo |-> {}, seen |-> NoResult,
         room |-> 0, busy |-> {}, slot |-> 0]
Task == [phase : {"none", "new", "claim", "work", "submit", "done", "interrupted"},
         slot : Slots, revision : 0..MaxRevision]
Invocation == [pc : {"idle", "look", "orphan", "settle", "weigh", "move", "fill", "unwind",
                     "finish"} \cup AtAwait \cup Ended,
               plan : [Items -> Item], todo : SUBSET Items,
               seen : Results \cup {NoResult, "absent"},
               room : Int, busy : SUBSET Slots, slot : 0..2]

TypeOK ==
    /\ items \in [Items -> Item]
    /\ runs \in [Children -> RunRecord]
    /\ results \in [Children -> Results \cup {NoResult}]
    /\ expired \subseteq Children
    /\ inv \in [Invocations -> Invocation]
    /\ \A v \in Invocations : inv[v].room <= TotalTokens
    /\ tasks \in [Invocations -> [Children -> Task]]
    /\ \A k \in Children : runs[k].status = "running" => runs[k].owner \in Invocations
    /\ faults \in 0..MaxFaults /\ late \subseteq Children /\ alone \subseteq Invocations

Init ==
    /\ \E slot \in [Items -> Slots] :
        /\ slot[Min(Items)] = 0
        /\ items = [i \in Items |-> NewItem(slot[i], 1)]
    /\ runs = [k \in Children |-> AbsentRun]
    /\ results = [k \in Children |-> NoResult]
    /\ expired = {}
    /\ inv = [v \in Invocations |-> Idle]
    /\ tasks = [v \in Invocations |-> [k \in Children |-> NoTask]]
    /\ faults = 0 /\ late = {} /\ alone = {}

Live(k) == runs[k].status = "running" /\ k \notin expired
Active(v) == {k \in Children : tasks[v][k].phase # "none"}

-----------------------------------------------------------------------------
(* The store's transactions, as they change the items.                       *)

\* finish() and requeue() accept only the run, token and revision of now.
IsCurrent(i, item) ==
    /\ items[i].claimed /\ items[i].result = NoResult
    /\ items[i].attempt = item.attempt /\ items[i].revision = item.revision

Finish(i, item, result) ==
    items' = IF IsCurrent(i, item) THEN [items EXCEPT ![i].result = result] ELSE items

Requeue(i, item) ==
    items' = IF IsCurrent(i, item)
             THEN [items EXCEPT ![i].claimed = FALSE, ![i].aged = FALSE] ELSE items

\* A bug: an item that has a run is claimed again.
MayBeClaimedAgain(i, slot) == items[i].result = NoResult /\ items[i].slot = slot
MayBeClaimed(i, slot) ==
    ~ items[i].claimed /\ items[i].result = NoResult /\ items[i].slot = slot

\* Every repartition gives the items it moves the plan's new revision.
Revision(plan) == Max({plan[i].revision : i \in Items})

\* repartition() of one item, refused when the plan changed or the item is taken.
MayMove(i, plan) ==
    Revision(plan) = Revision(items) /\ ~ items[i].claimed /\ items[i].result = NoResult

Moved(i) == [items EXCEPT ![i].slot = 1 - @, ![i].revision = Revision(items) + 1]

-----------------------------------------------------------------------------
(* run(): the coroutine of an invocation, between two awaits.               *)

At(v, pc) ==
    inv[v].pc = pc /\ \A k \in Children : tasks[v][k].phase \notin Midway
Goes(v, pc) == inv' = [inv EXCEPT ![v].pc = pc]

UnderWay(v) == inv[v].pc \notin {"idle"} \cup Ended

Unfinished(plan) == {i \in Items : plan[i].result = NoResult}

\* The loop begins with the plan of now.
Top(v) == inv' = [inv EXCEPT ![v] = [Idle EXCEPT !.pc = "look", !.plan = items,
                                     !.todo = {i \in Unfinished(items) : items[i].claimed}]]

\* open() makes the plan or finds it.
Begin(v) ==
    /\ At(v, "idle") /\ Top(v)
    /\ LET others == {u \in Invocations \ {v} : UnderWay(u)}
       IN  /\ others # {} => Cardinality(Unfinished(items)) <= MaxShared
           /\ alone' = IF others = {} THEN {v} ELSE {}
    /\ UNCHANGED <<items, rows, tasks, faults, late>>

\* _recover, item by item: the row as it is read.
Subject(v) == Min(inv[v].todo)
SubjectRun(v) == Child(Subject(v), inv[v].plan[Subject(v)])
Passed(v) == [inv[v] EXCEPT !.pc = "look", !.todo = @ \ {Subject(v)}, !.seen = "none"]

Look(v) ==
    /\ At(v, "look") /\ inv[v].todo # {}
    /\ LET k == SubjectRun(v)
           judged == [inv[v] EXCEPT !.pc = "settle", !.seen = results[k]]
           verdict == CASE runs[k].status = "absent" ->
                             IF inv[v].plan[Subject(v)].aged
                             THEN [judged EXCEPT !.seen = "absent"] ELSE Passed(v)
                        [] runs[k].status = "running" ->
                             IF Live(k) THEN Passed(v) ELSE [judged EXCEPT !.pc = "orphan"]
                        [] runs[k].status = "queued" -> Passed(v)
                        [] OTHER -> judged
       IN  inv' = [inv EXCEPT ![v] = verdict]
    /\ UNCHANGED <<items, rows, tasks, faults, observer>>

\* A bug: an expired worker is given up without a word to its row.
OrphanedUnmarked(run) == run
OrphanedRow(run) == Transitioned(run, "orphaned")

Orphan(v) ==
    /\ At(v, "orphan")
    /\ LET k == SubjectRun(v)
       IN  IF MayTransition(runs[k], "orphaned", {"running"}, NoOwner)
           THEN runs' = [runs EXCEPT ![k] = OrphanedRow(@)] /\ Goes(v, "settle")
           ELSE runs' = runs /\ inv' = [inv EXCEPT ![v] = Passed(v)]
    /\ UNCHANGED <<items, results, expired, tasks, faults, observer>>

Exhausted(item) == item.attempt >= 2

\* A bug: only a complete result is worth keeping.
ResubmitsCompleted(seen) == seen = "completed"
Resubmits(seen) == seen \in Outcomes

Settle(v) ==
    /\ At(v, "settle")
    /\ LET i == Subject(v)
           item == inv[v].plan[i]
       IN  /\ IF Resubmits(inv[v].seen) THEN Finish(i, item, inv[v].seen)
              ELSE IF Exhausted(item) THEN Finish(i, item, "exhausted")
              ELSE Requeue(i, item)
           /\ late' = IF inv[v].seen = "absent" /\ items' # items
                      THEN late \cup {Child(i, item)} ELSE late
    /\ inv' = [inv EXCEPT ![v] = Passed(v)]
    /\ UNCHANGED <<rows, tasks, faults, alone>>

Movable(p) == {i \in Unfinished(p.plan) : ~ p.plan[i].claimed /\ 1 - p.plan[i].slot \notin p.busy}

\* In units of a worker's limit: a worker notices that it is over its limit after
\* the fact.
Spent(plan) == LET with(result) == Cardinality({i \in Items : plan[i].result = result})
               IN  with("completed") + 2 * with("partial")

\* A bug: runs that a dead process left in the queue are not taken up.
CandidatesUnclaimed(p, slot) ==
    {i \in Unfinished(p.plan) : p.plan[i].slot = slot /\ ~ p.plan[i].claimed}
Candidates(p, slot) ==
    {i \in Unfinished(p.plan) :
        LET item == p.plan[i]
        IN  item.slot = slot /\ (item.claimed => runs[Child(i, item)].status = "queued")}

\* Work is handed out slot by slot, where it can be; then comes the wait.
OpenSlots(p) ==
    {slot \in p.slot..1 : /\ slot \notin p.busy /\ p.room >= Limit
                          /\ Candidates(p, slot) # {}}
FillOrWait(p, active) ==
    IF OpenSlots(p) # {} THEN [p EXCEPT !.pc = "fill", !.slot = Min(OpenSlots(p))]
    ELSE [Idle EXCEPT !.pc = IF active THEN "wait" ELSE "sleep"]

\* The plan as it is read, and what the invocation's own workers may cost.
Survey(v) ==
    /\ At(v, "look") /\ inv[v].todo = {}
    /\ LET others == {i \in Unfinished(items) : /\ items[i].claimed
                                                /\ Child(i, items[i]) \notin Active(v)}
           surveyed == [inv[v] EXCEPT !.pc = "weigh", !.plan = items, !.todo = others, !.slot = 0,
                             !.room = TotalTokens - Spent(items) - Limit * Cardinality(Active(v)),
                             !.busy = {tasks[v][k].slot : k \in Active(v)}]
       IN  inv' = [inv EXCEPT ![v] = IF Unfinished(items) = {} THEN [Idle EXCEPT !.pc = "finish"]
                                     ELSE surveyed]
    /\ UNCHANGED <<items, rows, tasks, faults, observer>>

\* Then the rows of the others' runs, one by one: who works reserves too.
Weigh(v) ==
    /\ At(v, "weigh")
    /\ LET i == Subject(v)
           p == inv[v]
           next == IF Live(SubjectRun(v))
                   THEN [p EXCEPT !.todo = @ \ {i}, !.room = @ - Limit, !.busy = @ \cup {p.plan[i].slot}]
                   ELSE [p EXCEPT !.todo = @ \ {i}]
       IN  inv' = [inv EXCEPT ![v] =
              IF p.todo # {} THEN next
              ELSE IF Active(v) # {} /\ Movable(p) # {} THEN [p EXCEPT !.pc = "move"]
              ELSE FillOrWait(p, Active(v) # {})]
    /\ UNCHANGED <<items, rows, tasks, faults, observer>>

\* _rebalance: a pending item goes to an idle slot, and the plan is read again, or none does.
Move(v) ==
    /\ At(v, "move")
    /\ \/ UNCHANGED items /\ inv' = [inv EXCEPT ![v] = FillOrWait(@, TRUE)]
       \/ /\ \E i \in Movable(inv[v]) :
                /\ Revision(items) < MaxRevision
                /\ items' = IF MayMove(i, inv[v].plan) THEN Moved(i) ELSE items
          /\ inv' = [inv EXCEPT ![v] = FillOrWait([@ EXCEPT !.plan = items'], TRUE)]
    /\ UNCHANGED <<rows, tasks, faults, observer>>

\* One slot: the item is claimed, or a run that waits in the queue is taken up.
Fill(v) ==
    /\ At(v, "fill")
    /\ LET slot == inv[v].slot
           candidates == Candidates(inv[v], slot)
           i == Min(IF candidates = {} THEN Items ELSE candidates)
           claims == i \in candidates /\ ~ inv[v].plan[i].claimed /\ MayBeClaimed(i, slot)
           starts == claims \/ (i \in candidates /\ inv[v].plan[i].claimed)
           claimed == [items[i] EXCEPT !.claimed = TRUE, !.attempt = @ + 1]
           item == IF claims THEN claimed ELSE inv[v].plan[i]
           task == [phase |-> "new", slot |-> slot, revision |-> item.revision]
           p == [inv[v] EXCEPT !.slot = slot + 1, !.room = IF starts THEN @ - Limit ELSE @]
       IN  /\ items' = IF claims THEN [items EXCEPT ![i] = claimed] ELSE items
           /\ tasks' = IF starts THEN [tasks EXCEPT ![v][Child(i, item)] = task] ELSE tasks
           /\ inv' = [inv EXCEPT ![v] = FillOrWait(p, starts \/ Active(v) # {})]
    /\ UNCHANGED <<rows, faults, observer>>

\* After a second with nothing of its own to do: is anybody else at work?
Check(v) ==
    /\ At(v, "sleep")
    /\ LET someone == \E i \in Unfinished(items) :
                /\ items[i].claimed
                /\ \/ Live(Child(i, items[i]))
                   \/ runs[Child(i, items[i])].status = "absent" /\ ~ items[i].aged
       IN  IF someone THEN Top(v) ELSE Goes(v, "finish")
    /\ UNCHANGED <<items, rows, tasks, faults, observer>>

Wake(v) ==
    /\ At(v, "wait")
    /\ LET done == {k \in Children : tasks[v][k].phase \in {"done", "interrupted"}}
       IN  /\ done # {}
           /\ IF \E k \in done : tasks[v][k].phase = "interrupted" THEN Goes(v, "unwind")
              ELSE Top(v)
           /\ tasks' = [tasks EXCEPT ![v] = [k \in Children |-> IF k \in done THEN NoTask ELSE @[k]]]
    /\ UNCHANGED <<items, rows, faults, observer>>

\* The finally clause: what is still active is canceled.
CanceledRow(v, k) ==
    runs' = IF tasks[v][k].phase = "work" /\ MayTransition(runs[k], "canceled", {"running"}, v)
            THEN [runs EXCEPT ![k] = Transitioned(@, "canceled")] ELSE runs

Unwind(v) ==
    /\ inv[v].pc \in {"unwind", "finish"}
    /\ \/ /\ Active(v) = {}
          /\ Goes(v, IF inv[v].pc = "finish" THEN "returned" ELSE "raised")
          /\ UNCHANGED <<runs, tasks>>
       \/ \E k \in Active(v) :
            /\ CanceledRow(v, k)
            /\ tasks' = [tasks EXCEPT ![v][k] = NoTask]
            /\ inv' = inv
    /\ UNCHANGED <<items, results, expired, faults, observer>>

-----------------------------------------------------------------------------
(* _execute, when the invocation awaits.                                    *)

Runnable(v, k, phase) ==
    /\ inv[v].pc \in AtAwait /\ tasks[v][k].phase = phase
    /\ phase \in Midway \/ \A other \in Children : tasks[v][other].phase \notin Midway
Phase(v, k, phase) == tasks' = [tasks EXCEPT ![v][k].phase = phase]

Start(v, k) ==
    /\ Runnable(v, k, "new")
    /\ runs' = IF runs[k].status = "absent" THEN [runs EXCEPT ![k] = QueuedRun] ELSE runs
    /\ Phase(v, k, "claim")
    /\ UNCHANGED <<items, results, expired, inv, faults, observer>>

ClaimRun(v, k) ==
    /\ Runnable(v, k, "claim")
    /\ IF MayClaim(runs[k])
       THEN runs' = [runs EXCEPT ![k] = Claimed(@, v, 0, 1)] /\ Phase(v, k, "work")
       ELSE runs' = runs /\ Phase(v, k, "done")
    /\ UNCHANGED <<items, results, expired, inv, faults, observer>>

\* The worker's report, or its exception, goes to the row. When the row was taken
\* away the report is dropped.
Report(v, k) ==
    /\ Runnable(v, k, "work")
    /\ \E outcome \in Outcomes :
        LET status == RunStatusForCompletion(outcome)
        IN  IF MayTransition(runs[k], status, {"running"}, v)
            THEN /\ runs' = [runs EXCEPT ![k] = Transitioned(@, status)]
                 /\ results' = [results EXCEPT ![k] = outcome]
                 /\ Phase(v, k, "submit")
            ELSE UNCHANGED <<runs, results>> /\ Phase(v, k, "done")
    /\ UNCHANGED <<items, expired, inv, faults, observer>>

Submit(v, k) ==
    /\ Runnable(v, k, "submit")
    /\ Finish(k[1], [attempt |-> k[2], revision |-> tasks[v][k].revision], results[k])
    /\ Phase(v, k, "done")
    /\ UNCHANGED <<rows, inv, faults, observer>>

\* The worker is interrupted: AgentInterrupted.
Interrupt(v, k) ==
    /\ Runnable(v, k, "work") /\ faults < MaxFaults
    /\ CanceledRow(v, k)
    /\ Phase(v, k, "interrupted")
    /\ faults' = faults + 1
    /\ UNCHANGED <<items, results, expired, inv, observer>>

\* _heartbeat, where it matters.
Heartbeat(v, k) ==
    /\ Runnable(v, k, "work") /\ k \in expired /\ MayBeat(runs[k], v)
    /\ runs' = [runs EXCEPT ![k] = Beaten(@, 0, 1)]
    /\ expired' = expired \ {k}
    /\ UNCHANGED <<items, results, inv, tasks, faults, observer>>

-----------------------------------------------------------------------------
(* Time and faults.                                                         *)

Age(i) ==
    /\ items[i].claimed /\ ~ items[i].aged
    /\ items' = [items EXCEPT ![i].aged = TRUE]
    /\ UNCHANGED <<rows, inv, tasks, faults, observer>>

\* A lease that nobody renews ends; one that is renewed only after a long stall.
Expire(k) ==
    /\ Live(k)
    /\ IF \E v \in Invocations : runs[k].owner = v /\ tasks[v][k].phase = "work"
       THEN faults < MaxFaults /\ faults' = faults + 1
       ELSE faults' = faults
    /\ expired' = expired \cup {k}
    /\ UNCHANGED <<items, runs, results, inv, tasks, observer>>

\* The root task is canceled.
Cancel(v) ==
    /\ faults < MaxFaults /\ \E pc \in AtAwait : At(v, pc)
    /\ Goes(v, "unwind") /\ faults' = faults + 1
    /\ UNCHANGED <<items, rows, tasks, observer>>

Crash(v) ==
    /\ faults < MaxFaults /\ UnderWay(v)
    /\ inv' = [inv EXCEPT ![v] = [Idle EXCEPT !.pc = "crashed"]]
    /\ tasks' = [tasks EXCEPT ![v] = [k \in Children |-> NoTask]]
    /\ faults' = faults + 1
    /\ UNCHANGED <<items, rows, observer>>

Coroutine(v) == \/ Look(v) \/ Orphan(v) \/ Settle(v) \/ Survey(v) \/ Weigh(v)
                \/ Move(v) \/ Fill(v) \/ Check(v) \/ Wake(v) \/ Unwind(v)
Works(v, k) == Start(v, k) \/ ClaimRun(v, k) \/ Report(v, k) \/ Submit(v, k)

Next ==
    \/ \E v \in Invocations : \/ Begin(v) \/ Coroutine(v) \/ Cancel(v) \/ Crash(v)
                              \/ \E k \in Children : Works(v, k) \/ Interrupt(v, k) \/ Heartbeat(v, k)
    \/ \E i \in Items : Age(i)
    \/ \E k \in Children : Expire(k)

\* Workers are given a limit of time, clocks go on, and a process that is alive
\* runs its coroutines. Nobody has to begin, and faults need not happen.
Fairness ==
    /\ \A v \in Invocations : WF_vars(Coroutine(v) \/ \E k \in Children : Works(v, k))
    /\ WF_vars(\E i \in Items : Age(i))
    /\ WF_vars(\E k \in Children : Expire(k) /\ faults' = faults)

Spec == Init /\ [][Next]_vars /\ Fairness

-----------------------------------------------------------------------------
(* Properties.                                                              *)

\* Each item is granted in numbered terms to one run at a time and, once it has a
\* result, never again: the schedule is a tenure of items by runs.
Tenure == INSTANCE RunTenure WITH
    Runs <- Items, Workers <- Children, NoWorker <- <<>>,
    holder <- [i \in Items |-> IF items[i].claimed /\ items[i].result = NoResult
                               THEN Child(i, items[i]) ELSE <<>>],
    term <- [i \in Items |-> items[i].attempt],
    closed <- Items \ Unfinished(items)
ImplementsTenure == Tenure!Spec

\* A result that was accepted is the one the item's own run recorded when it ended.
\* A worker that lost its lease, or its item, submits nothing.
AcceptedIsRecorded ==
    \A i \in Items : LET k == Child(i, items[i])
                     IN  items[i].result \in Outcomes =>
                            results[k] = items[i].result /\ runs[k].status \in Terminal

\* Who works, works as the owner of a row that runs, for an item that is its run's; or
\* the row says that the run was given up. So of two coroutines at one item, and there
\* are two after a stall (scheduler.py:118-124), all but one are marked before the item
\* is given to another. A claimer slower than the grace of five seconds is not.
Belongs(k) == items[k[1]].claimed /\ items[k[1]].attempt = k[2]
SupersededIsMarked ==
    /\ \A v \in Invocations, k \in Children : tasks[v][k].phase = "work" =>
           runs[k].status = "orphaned" \/ (runs[k].status = "running" /\ runs[k].owner = v)
    /\ \A k \in Children : runs[k].status = "running" => Belongs(k) \/ k \in late

\* What is given up takes no result any more: not the slow claimer's, and not that of a
\* worker whose row was marked, however late they report.
SupersededIsRefused ==
    \A k \in Children : (runs[k].status = "orphaned" \/ k \in late) /\ items[k[1]].attempt = k[2]
                            => items[k[1]].result \notin Outcomes

\* No item is tried more than twice.
TwiceAtMost == \A i \in Items : items[i].attempt <= 2

\* Work that is done is not done again: an item whose run recorded a result is not
\* taken from it, whatever crashed before the result was submitted.
EvidenceIsKept ==
    [][\A i \in Items : LET k == Child(i, items[i])
                        IN  items[i].claimed /\ results[k] # NoResult =>
                                items'[i].claimed \/ k \in late']_vars

\* A claimed item keeps its slot and its assignment's revision, so that its worker
\* may submit.
ClaimedStays ==
    [][\A i \in Items : items[i].claimed /\ items'[i].claimed =>
            /\ items'[i].slot = items[i].slot /\ items'[i].revision = items[i].revision
            /\ items'[i].attempt = items[i].attempt]_vars

\* The item's worker was abandoned while the invocation waited for it.
Abandoned(i) ==
    LET k == Child(i, items[i])
    IN  items[i].claimed /\ IF runs[k].status = "absent" THEN items[i].aged
                            ELSE runs[k].status = "running" /\ k \in expired

\* An invocation that was alone, whoever died before it, returns with a result for
\* each item, unless the tokens left buy no further worker or it waited for one that
\* was abandoned at the last moment: it does not look again (scheduler.py:345-356).
\* So it stays until another begins.
ReturnsWhatItCould ==
    \A v \in alone : inv[v].pc = "returned" =>
        \/ Unfinished(items) = {} \/ Spent(items) + Limit > TotalTokens
        \/ \E i \in Unfinished(items) : Abandoned(i)

\* An invocation ends.
Terminates == \A v \in Invocations : UnderWay(v) ~> inv[v].pc \in Ended

\* The work of an item counts for one worker at a time and its result is taken once: the
\* invariants above, with the types (scheduler.py:141-171 against store.py:217-247).
WorkIsDoneOnce ==
    /\ TypeOK /\ AcceptedIsRecorded /\ TwiceAtMost
    /\ SupersededIsMarked /\ SupersededIsRefused

\* No step takes away work that is done or assigned (scheduler.py:204-211).
NothingIsLost == EvidenceIsKept /\ ClaimedStays

=============================================================================
