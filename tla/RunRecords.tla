----------------------------- MODULE RunRecords -----------------------------
(***************************************************************************)
(* One row of the durable run table kept by RunStore                       *)
(* (backend/app/services/run_state.py) and what each store operation does  *)
(* to that row.  Every operation of the store is a single BEGIN IMMEDIATE  *)
(* transaction, so an operator below is the whole effect of one            *)
(* transaction on one row; RunStore and ChatSession share them.            *)
(*                                                                         *)
(* Left out: kind, timestamps as text, the error text and the metadata     *)
(* (ChatSession keeps the checkpoint itself).  heartbeat_at moves exactly  *)
(* with lease_expires_at and is not repeated.  started and finished say    *)
(* whether started_at and finished_at are set.  The wait for the database  *)
(* lock is left out too: claim() and heartbeat() read the clock before it, *)
(* here the instant of a lease is the instant of its transaction.          *)
(***************************************************************************)
EXTENDS Integers

CONSTANTS
    Owners,     \* the owner_id values that workers and connections use
    NoOwner     \* the empty owner_id

ASSUME NoOwnerIsNotAnOwner == NoOwner \notin Owners

\* The row does not exist: get() returns None and transition() raises RunNotFound.
Absent == "absent"

\* lease_expires_at is NULL. Leases that exist are positive instants.
NoLease == 0

Terminal == {"succeeded", "partial", "failed", "timed_out",
             "budget_exceeded", "canceled"}

Statuses == {"queued", "running", "waiting_approval", "paused", "orphaned"}
                \cup Terminal

Successors == [s \in Statuses |->
    CASE s = "queued"           -> {"running", "canceled"}
      [] s = "running"          -> {"waiting_approval", "paused", "orphaned"} \cup Terminal
      [] s = "waiting_approval" -> {"running", "paused", "orphaned"} \cup Terminal
      [] s = "paused"           -> {"running", "canceled"}
      [] s = "orphaned"         -> {"queued", "canceled"}
      [] OTHER                  -> {}]

\* run_status_for_completion: an unknown completion is a failure.
RunStatusForCompletion(completion) ==
    CASE completion = "completed"              -> "succeeded"
      [] completion \in {"canceled", "stopped"} -> "canceled"
      [] completion \in {"partial", "timed_out", "budget_exceeded"} -> completion
      [] OTHER                                 -> "failed"

RunRecord == [status   : Statuses \cup {Absent},
              owner    : Owners \cup {NoOwner},
              attempt  : Nat,
              version  : Nat,
              lease    : Nat,
              started  : BOOLEAN,
              finished : BOOLEAN]

AbsentRun == [status |-> Absent, owner |-> NoOwner, attempt |-> 0, version |-> 0,
              lease |-> NoLease, started |-> FALSE, finished |-> FALSE]

\* The row create() inserts.
QueuedRun == [AbsentRun EXCEPT !.status = "queued"]

\* recover_expired's test on a listed row, at the cutoff instant.
Expired(run, cutoff) ==
    /\ run.status = "running"
    /\ run.lease # NoLease
    /\ run.lease <= cutoff

-----------------------------------------------------------------------------
(* transition(): the checks that raise RunNotFound, RunConflict (twice) and *)
(* InvalidRunTransition, then the UPDATE.  An empty expected set and an     *)
(* empty owner_id check nothing; a status may always be rewritten to itself.*)

\* A bug: the transition table is bypassed when the caller gives no expectation.
MayTransition_Unchecked(run, target, expected, owner) ==
    /\ run.status # Absent
    /\ expected # {} => run.status \in expected
    /\ owner # NoOwner => run.owner = owner
    /\ expected # {} /\ target # run.status => target \in Successors[run.status]

MayTransition(run, target, expected, owner) ==
    /\ run.status # Absent
    /\ expected # {} => run.status \in expected
    /\ owner # NoOwner => run.owner = owner
    /\ target # run.status => target \in Successors[run.status]

\* A bug: only terminal rows lose their owner.
Transitioned_KeepsOwner(run, target) ==
    [run EXCEPT !.status   = target,
                !.owner    = IF target \in Terminal THEN NoOwner ELSE @,
                !.lease    = IF target = "running" THEN @ ELSE NoLease,
                !.started  = IF target = "running" THEN TRUE ELSE @,
                !.finished = IF target \in Terminal THEN TRUE ELSE @,
                !.version  = @ + 1]

Transitioned(run, target) ==
    [run EXCEPT !.status   = target,
                !.owner    = IF target \in {"running", "waiting_approval"} THEN @ ELSE NoOwner,
                !.lease    = IF target = "running" THEN @ ELSE NoLease,
                !.started  = IF target = "running" THEN TRUE ELSE @,
                !.finished = IF target \in Terminal THEN TRUE ELSE @,
                !.version  = @ + 1]

-----------------------------------------------------------------------------
(* claim() and heartbeat(): the lease is renewed from the current instant,  *)
(* whether or not the previous one had already run out.                     *)

LeaseFrom(now, seconds) == now + (IF seconds > 1 THEN seconds ELSE 1)

MayClaim(run) == run.status = "queued"

\* A bug: taking the run does not start a new attempt.
Claimed_SameAttempt(run, owner, now, seconds) ==
    [run EXCEPT !.status  = "running",
                !.owner   = owner,
                !.version = @ + 1,
                !.started = TRUE,
                !.lease   = LeaseFrom(now, seconds)]

\* A bug: a deadline computed before the epoch is written.
Claimed_NegativeLease(run, owner, now, seconds) ==
    [run EXCEPT !.status  = "running",
                !.attempt = @ + 1,
                !.version = @ + 1,
                !.started = TRUE,
                !.lease   = -1]

Claimed(run, owner, now, seconds) ==
    [run EXCEPT !.status  = "running",
                !.owner   = owner,
                !.attempt = @ + 1,
                !.version = @ + 1,
                !.started = TRUE,
                !.lease   = LeaseFrom(now, seconds)]

MayBeat(run, owner) == run.status = "running" /\ run.owner = owner

Beaten(run, now, seconds) ==
    [run EXCEPT !.lease = LeaseFrom(now, seconds), !.version = @ + 1]

=============================================================================
