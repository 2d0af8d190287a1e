------------------------------ MODULE RunStore -------------------------------
(***************************************************************************)
(* RunStore (backend/app/services/run_state.py): the SQLite table that     *)
(* says what is running, shared by any number of workers, requests and     *)
(* processes.  Each operation is one BEGIN IMMEDIATE transaction, except   *)
(* claim(), which reads the row once before it opens its transaction, and  *)
(* recover_expired(), which lists rows first and then moves them one       *)
(* transaction at a time; other operations interleave in between.          *)
(*                                                                         *)
(* The callers are any callers: an operation is enabled whenever the store *)
(* would perform it.  A call that raises RunNotFound, RunConflict or       *)
(* InvalidRunTransition writes nothing, so it is a step only where it      *)
(* changes what the caller is in the middle of.                            *)
(***************************************************************************)
EXTENDS RunRecords

CONSTANTS
    Runs,           \* run identifiers
    NoRun,          \* no run
    Keys,           \* idempotency keys that callers pass to create()
    NoKey,          \* the empty idempotency key
    LeaseSeconds,   \* what claim() and heartbeat() are asked for
    Targets,        \* the statuses callers ask transition() for
    ExpectedSets,   \* the "expected" arguments callers pass to transition()
    MaxTime,        \* bound on the clock
    MaxVersion      \* bound on the writes to one row

ASSUME NoRunIsNotARun == NoRun \notin Runs
ASSUME NoKeyIsNotAKey == NoKey \notin Keys
ASSUME LeaseIsANumber == LeaseSeconds \in Nat
ASSUME TargetsAreStatuses == Targets \subseteq Statuses
ASSUME ExpectedAreStatuses == ExpectedSets \subseteq SUBSET Statuses
ASSUME BoundsAreNumbers == MaxTime \in Nat /\ MaxVersion \in Nat

VARIABLES
    runs,       \* the table
    keys,       \* the idempotency_key column
    now,        \* time.time()
    claiming,   \* the run a worker has read as queued inside claim(), before its transaction
    held,       \* the attempt number that a worker's last successful claim of a run returned
    listed      \* the rows recover_expired() found expired and has not handled yet

vars == <<runs, keys, now, claiming, held, listed>>

TypeOK ==
    /\ runs \in [Runs -> RunRecord]
    /\ keys \in [Runs -> Keys \cup {NoKey}]
    /\ now \in Nat
    /\ claiming \in [Owners -> Runs \cup {NoRun}]
    /\ held \in [Owners -> [Runs -> Nat]]
    /\ listed \subseteq Runs

Init ==
    /\ runs = [r \in Runs |-> AbsentRun]
    /\ keys = [r \in Runs |-> NoKey]
    /\ now = 1
    /\ claiming = [w \in Owners |-> NoRun]
    /\ held = [w \in Owners |-> [r \in Runs |-> 0]]
    /\ listed = {}

Writable(r) == runs[r].version < MaxVersion

-----------------------------------------------------------------------------
\* A bug: the row is inserted without looking for the key.
Create_AnyKey(r, k) ==
    /\ runs[r].status = Absent
    /\ runs' = [runs EXCEPT ![r] = QueuedRun]
    /\ keys' = [keys EXCEPT ![r] = k]
    /\ UNCHANGED <<now, claiming, held, listed>>

\* create(): a key already in the table returns its row, an id already in the
\* table is a RunConflict; neither writes.
Create(r, k) ==
    /\ runs[r].status = Absent
    /\ k # NoKey => \A s \in Runs : keys[s] # k
    /\ runs' = [runs EXCEPT ![r] = QueuedRun]
    /\ keys' = [keys EXCEPT ![r] = k]
    /\ UNCHANGED <<now, claiming, held, listed>>

\* claim(), up to its transaction.
ClaimRead(w, r) ==
    /\ claiming[w] = NoRun
    /\ MayClaim(runs[r])
    /\ claiming' = [claiming EXCEPT ![w] = r]
    /\ UNCHANGED <<runs, keys, now, held, listed>>

\* A bug: the transaction trusts the read made before it.
ClaimCommit_NoRecheck(w) ==
    \E r \in Runs :
        /\ claiming[w] = r
        /\ Writable(r)
        /\ claiming' = [claiming EXCEPT ![w] = NoRun]
        /\ runs' = [runs EXCEPT ![r] = Claimed(@, w, now, LeaseSeconds)]
        /\ held' = [held EXCEPT ![w][r] = runs[r].attempt + 1]
        /\ UNCHANGED <<keys, now, listed>>

\* claim()'s transaction: the row is read again, and another worker's claim
\* in between is a RunConflict.
ClaimCommit(w) ==
    \E r \in Runs :
        /\ claiming[w] = r
        /\ claiming' = [claiming EXCEPT ![w] = NoRun]
        /\ \/ /\ MayClaim(runs[r])
              /\ Writable(r)
              /\ runs' = [runs EXCEPT ![r] = Claimed(@, w, now, LeaseSeconds)]
              /\ held' = [held EXCEPT ![w][r] = runs[r].attempt + 1]
           \/ /\ ~ MayClaim(runs[r])
              /\ UNCHANGED <<runs, held>>
        /\ UNCHANGED <<keys, now, listed>>

Heartbeat(w, r) ==
    /\ MayBeat(runs[r], w)
    /\ Writable(r)
    /\ runs' = [runs EXCEPT ![r] = Beaten(@, now, LeaseSeconds)]
    /\ UNCHANGED <<keys, now, claiming, held, listed>>

Transition(r, target, expected, owner) ==
    /\ MayTransition(runs[r], target, expected, owner)
    /\ Writable(r)
    /\ runs' = [runs EXCEPT ![r] = Transitioned(@, target)]
    /\ UNCHANGED <<keys, now, claiming, held, listed>>

\* recover_expired(), first part: the listing, at the cutoff instant.
RecoverList ==
    /\ listed = {}
    /\ listed' = {r \in Runs : Expired(runs[r], now)}
    /\ UNCHANGED <<runs, keys, now, claiming, held>>

\* recover_expired(), one iteration: transition(ORPHANED, expected={RUNNING}),
\* whose RunStateError is swallowed. The lease is not read again.
RecoverOne(r) ==
    /\ r \in listed
    /\ listed' = listed \ {r}
    /\ \/ /\ MayTransition(runs[r], "orphaned", {"running"}, NoOwner)
          /\ Writable(r)
          /\ runs' = [runs EXCEPT ![r] = Transitioned(@, "orphaned")]
       \/ /\ ~ MayTransition(runs[r], "orphaned", {"running"}, NoOwner)
          /\ UNCHANGED runs
    /\ UNCHANGED <<keys, now, claiming, held>>

Resume(r) ==
    /\ MayTransition(runs[r], "queued", {"orphaned"}, NoOwner)
    /\ Writable(r)
    /\ runs' = [runs EXCEPT ![r] = Transitioned(@, "queued")]
    /\ UNCHANGED <<keys, now, claiming, held, listed>>

Tick ==
    /\ now < MaxTime
    /\ now' = now + 1
    /\ UNCHANGED <<runs, keys, claiming, held, listed>>

Next ==
    \/ \E r \in Runs, k \in Keys \cup {NoKey} : Create(r, k)
    \/ \E w \in Owners, r \in Runs : ClaimRead(w, r) \/ Heartbeat(w, r)
    \/ \E w \in Owners : ClaimCommit(w)
    \/ \E r \in Runs, target \in Targets, expected \in ExpectedSets,
          owner \in Owners \cup {NoOwner} : Transition(r, target, expected, owner)
    \/ RecoverList
    \/ \E r \in Runs : RecoverOne(r) \/ Resume(r)
    \/ Tick

Spec == Init /\ [][Next]_vars

-----------------------------------------------------------------------------
\* The owner in a row is the worker whose claim() returned the row's current
\* attempt, and only a run that is executing or waiting for a review has one:
\* a worker that lost its run, was orphaned or finished is never still named.
OwnerHoldsCurrentAttempt ==
    \A r \in Runs, w \in Owners :
        runs[r].owner = w =>
            /\ runs[r].status \in {"running", "waiting_approval"}
            /\ held[w][r] = runs[r].attempt
            /\ runs[r].attempt > 0

\* A lease exists only while its owner executes the run. recover_expired acts on
\* leases alone, so a lease that outlived its run would orphan someone else's.
LeaseBelongsToOwner ==
    \A r \in Runs : runs[r].lease # NoLease =>
        runs[r].status = "running" /\ runs[r].owner \in Owners

\* No attempt of a run is ever handed out twice, however the two reads and the
\* transaction of concurrent claim() calls interleave.
AttemptsAreUnique ==
    \A r \in Runs, v \in Owners, w \in Owners :
        v # w /\ held[v][r] = held[w][r] => held[w][r] = 0

\* A repeated request finds the run of the first one: create() never makes two
\* runs for one idempotency key.
OneRunPerKey ==
    \A r \in Runs, s \in Runs : keys[r] # NoKey /\ keys[r] = keys[s] => r = s

\* finished_at is set exactly on rows that ended.
FinishedIffTerminal ==
    \A r \in Runs : runs[r].finished <=> runs[r].status \in Terminal

\* An ended run keeps its status for good: no late worker, recovery, resume or
\* repeated completion brings it back or changes how it ended.
EndedStaysEnded ==
    [][\A r \in Runs : runs[r].status \in Terminal => runs'[r].status = runs[r].status]_vars

\* The store implements the numbered exclusive terms of RunTenure.
Tenure == INSTANCE RunTenure
    WITH Workers <- Owners, NoWorker <- NoOwner,
         holder <- [r \in Runs |-> runs[r].owner],
         term   <- [r \in Runs |-> runs[r].attempt],
         closed <- {r \in Runs : runs[r].status \in Terminal}

ImplementsTenure == Tenure!Spec

\* Owner, lease, status and finishing time of a row fit together, whichever of the
\* operations wrote it last (run_state.py:240-300).
RowsAgree == OwnerHoldsCurrentAttempt /\ LeaseBelongsToOwner /\ FinishedIffTerminal

=============================================================================
