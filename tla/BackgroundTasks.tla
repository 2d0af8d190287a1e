--------------------------- MODULE BackgroundTasks ---------------------------
(***************************************************************************)
(* Work a run leaves in the background, and an owner who waits for it      *)
(* before the workspace goes away (core/background_tasks.py, the trace     *)
(* session's exit): it waits for a while, cancels what is left and waits   *)
(* for that, however often it is canceled itself meanwhile.                *)
(*                                                                         *)
(* An asyncio task that has returned is done; its callback, which settles  *)
(* the record of a job that never ran, comes in a later turn of the loop.  *)
(* Work may submit more work while it runs, not while it cleans up after   *)
(* its cancellation (the only work there is, the memory archive, submits   *)
(* none).  Token counts and traces are left out.                           *)
(***************************************************************************)
EXTENDS FiniteSets

CONSTANT Jobs

VARIABLES
    job,        \* the asyncio task of each
    record,     \* BackgroundTaskRecord.status
    owner,      \* where the owner is
    awaited,    \* the tasks its wait or gather was given
    cancelled,  \* it is leaving drain() with CancelledError
    asked       \* observer: somebody canceled the owner while it drained

backgroundVars == <<job, record, owner, awaited, cancelled, asked>>

Over == {"done", "closed"}
Live == {j \in Jobs : job[j] \notin {"none"} \cup Over}

TypeOK ==
    /\ job \in [Jobs -> {"none", "ready", "running", "unstarted", "cleaning"} \cup Over]
    /\ record \in [Jobs -> {"none", "pending", "completed", "degraded", "failed", "cancelled"}]
    /\ owner \in {"body", "draining", "cancelling", "released"}
    /\ awaited \subseteq Jobs
    /\ cancelled \in BOOLEAN /\ asked \in BOOLEAN

Init ==
    /\ job = [j \in Jobs |-> "none"] /\ record = [j \in Jobs |-> "none"]
    /\ owner = "body" /\ awaited = {}
    /\ cancelled = FALSE /\ asked = FALSE

-----------------------------------------------------------------------------
(* A job.                                                                    *)

\* submit(), by the owner's body or by a job.
Submit(j) ==
    /\ job[j] = "none"
    /\ owner = "body" \/ \E i \in Jobs : job[i] = "running"
    /\ job' = [job EXCEPT ![j] = "ready"]
    /\ record' = [record EXCEPT ![j] = "pending"]
    /\ UNCHANGED <<owner, awaited, cancelled, asked>>

Becomes(j, state, status) ==
    /\ job' = [job EXCEPT ![j] = state]
    /\ record' = [record EXCEPT ![j] = status]
    /\ UNCHANGED <<owner, awaited, cancelled, asked>>

\* execute(), or the wrapper fails before run().
Start(j) == job[j] = "ready" /\ Becomes(j, "running", "pending")
SetupFails(j) == job[j] = "ready" /\ Becomes(j, "done", "pending")

\* run() returns.
Finish(j, status) == job[j] = "running" /\ Becomes(j, "done", status)

\* A canceled one: before its first step, it does not run at all.
NeverRuns(j) == job[j] = "unstarted" /\ Becomes(j, "done", "pending")
CleansUp(j, status) == job[j] = "cleaning" /\ Becomes(j, "done", status)

\* done(), in submit()
Settled(status, to) == IF status = "pending" THEN to ELSE status
Settle(j, to) == job[j] = "done" /\ Becomes(j, "closed", Settled(record[j], to))

-----------------------------------------------------------------------------
(* drain()                                                                   *)

\* task.cancel() of all that live.
Cancelled(state) ==
    CASE state = "running" -> "cleaning" [] state = "ready" -> "unstarted" [] OTHER -> state

Wait(tasks) ==
    /\ awaited' = tasks
    /\ owner' = IF tasks = {} THEN "released" ELSE "draining"

Drain ==
    /\ owner = "body" /\ Wait(Live)
    /\ UNCHANGED <<job, record, cancelled, asked>>

WaitOver ==
    /\ owner = "draining" /\ \A j \in awaited : job[j] = "closed"
    /\ Wait(Live)
    /\ UNCHANGED <<job, record, cancelled, asked>>

CancelAndDrain ==
    /\ job' = [j \in Jobs |-> Cancelled(job[j])]
    /\ awaited' = Live
    /\ owner' = "cancelling"

Expired == awaited \cap Live # {}
Timeout ==
    /\ owner = "draining" /\ Expired
    /\ CancelAndDrain
    /\ UNCHANGED <<record, cancelled, asked>>

\* The owner's cancellation arrives in the wait or, again, in the gather.
GoesOn == "cancelling"
OwnerCancelled ==
    /\ asked' = TRUE /\ cancelled' = TRUE
    /\ \/ owner = "draining" /\ CancelAndDrain
       \/ owner = "cancelling" /\ owner' = GoesOn /\ UNCHANGED <<job, awaited>>
    /\ UNCHANGED record

\* A bug: the interruptions were absorbed.
Absorbed == FALSE
Reported == cancelled
CleanupOver ==
    /\ owner = "cancelling" /\ \A j \in awaited : job[j] = "closed"
    /\ owner' = "released" /\ cancelled' = Reported
    /\ UNCHANGED <<job, record, awaited, asked>>

Steps ==
    \/ \E j \in Jobs : Start(j) \/ SetupFails(j) \/ NeverRuns(j)
    \/ \E j \in Jobs, status \in {"completed", "failed", "cancelled"} : CleansUp(j, status)
    \/ \E j \in Jobs, to \in {"failed", "cancelled"} : Settle(j, to)
    \/ WaitOver \/ Timeout \/ CleanupOver

Next ==
    \/ Steps \/ Drain \/ OwnerCancelled
    \/ \E j \in Jobs : Submit(j)
    \/ \E j \in Jobs, status \in {"completed", "degraded", "failed"} : Finish(j, status)

\* The loop runs what is ready, the timeout fires and canceled work returns;
\* other work need not.
Spec == Init /\ [][Next]_backgroundVars /\ WF_backgroundVars(Steps)

-----------------------------------------------------------------------------
(* When the owner goes on, no job is left that could still touch what it    *)
(* releases, however often it was canceled while it waited.                  *)
ReleasedIsOver == owner = "released" => Live = {}

(* A cancellation that arrives while the owner waits is not lost.            *)
CancellationIsKept == (owner = "released" /\ asked) => cancelled

(* A record that says pending then is one whose callback is about to run.   *)
PendingIsUnsettled == owner = "released" =>
    \A j \in Jobs : record[j] = "pending" => job[j] = "done"

(* Draining comes to an end although work may never end by itself and may    *)
(* submit more.                                                              *)
Releases == owner = "draining" ~> owner = "released"

=============================================================================
