--------------------------- MODULE RunStoreProofs ----------------------------
(***************************************************************************)
(* Proofs about RunStore, for any sets of runs, workers and keys and any   *)
(* bounds.  IInv is the inductive invariant: the invariants the runs check *)
(* together with two facts about rows they rest on.                        *)
(***************************************************************************)
EXTENDS RunStore, RunRecordsProofs

\* A row that was never created is blank.
AbsentIsBlank == \A r \in Runs : runs[r].status = Absent => runs[r] = AbsentRun

\* A worker never holds an attempt number the store has not reached.
HeldIsPast == \A r \in Runs, w \in Owners : held[w][r] <= runs[r].attempt

IInv ==
    /\ TypeOK
    /\ AbsentIsBlank
    /\ HeldIsPast
    /\ OwnerHoldsCurrentAttempt
    /\ LeaseBelongsToOwner
    /\ AttemptsAreUnique
    /\ OneRunPerKey
    /\ FinishedIffTerminal

-----------------------------------------------------------------------------
(* What the invariant says of one row, and what a write that is not a claim *)
(* does to it.                                                              *)

RowOK(run) ==
    /\ run \in RunRecord
    /\ run.owner # NoOwner => run.status \in {"running", "waiting_approval"} /\ run.attempt > 0
    /\ run.lease # NoLease => run.status = "running" /\ run.owner # NoOwner
    /\ run.finished <=> run.status \in Terminal

Rewrites(old, new) ==
    /\ new.status # Absent
    /\ new.attempt = old.attempt
    /\ new.owner = old.owner \/ new.owner = NoOwner

\* A transition that the checks allow keeps a row consistent: it can only drop
\* the owner, drop the lease with it, and set finished_at when it ends the run.
LEMMA TransitionRewrites ==
    ASSUME NEW run, RowOK(run), NEW target \in Statuses,
           NEW expected, NEW owner, MayTransition(run, target, expected, owner)
    PROVE  /\ RowOK(Transitioned(run, target))
           /\ Rewrites(run, Transitioned(run, target))
<1> DEFINE new == Transitioned(run, target)
<1>1. run \in RunRecord /\ new \in RunRecord
  BY TransitionedType DEF RowOK
<1>2. /\ new.status = target
      /\ new.attempt = run.attempt
      /\ new.owner = IF target \in {"running", "waiting_approval"} THEN run.owner ELSE NoOwner
      /\ new.lease = IF target = "running" THEN run.lease ELSE NoLease
      /\ new.finished = IF target \in Terminal THEN TRUE ELSE run.finished
  BY <1>1 DEF Transitioned, RunRecord
<1>3. target \notin Terminal => run.status \notin Terminal
  <2>1. run.status \in Statuses
    BY <1>1 DEF MayTransition, RunRecord
  <2> QED
    BY <2>1, SuccessorFacts DEF MayTransition
<1>4. new.finished <=> new.status \in Terminal
  <2>1. run.finished <=> run.status \in Terminal
    BY DEF RowOK
  <2>2. CASE target \in Terminal
    BY <1>2, <2>2, Zenon
  <2>3. CASE target \notin Terminal
    <3>1. new.finished = run.finished
      BY <1>2, <2>3, Zenon
    <3> QED
      BY <3>1, <1>2, <1>3, <2>1, <2>3, Zenon
  <2> QED
    BY <2>2, <2>3
<1>5. new.lease # NoLease => new.status = "running" /\ new.owner # NoOwner
  BY <1>2 DEF RowOK
<1>6. new.owner # NoOwner => new.status \in {"running", "waiting_approval"} /\ new.attempt > 0
  BY <1>2 DEF RowOK
<1>7. new.status # Absent
  BY <1>2 DEF Statuses, Terminal, Absent
<1> QED
  BY <1>1, <1>2, <1>4, <1>5, <1>6, <1>7 DEF RowOK, Rewrites

\* A heartbeat that the checks allow keeps a row consistent.
LEMMA HeartbeatRewrites ==
    ASSUME NEW run, RowOK(run), NEW w \in Owners, NEW t \in Nat, MayBeat(run, w)
    PROVE  /\ RowOK(Beaten(run, t, LeaseSeconds))
           /\ Rewrites(run, Beaten(run, t, LeaseSeconds))
<1> DEFINE new == Beaten(run, t, LeaseSeconds)
<1>1. run \in RunRecord /\ new \in RunRecord
  BY BeatenType, LeaseIsANumber DEF RowOK
<1>2. /\ new.status = run.status
      /\ new.attempt = run.attempt
      /\ new.owner = run.owner
      /\ new.finished = run.finished
  BY <1>1 DEF Beaten, RunRecord
<1>3. new.status # Absent /\ new.status = "running" /\ new.owner # NoOwner
  BY <1>2, NoOwnerIsNotAnOwner DEF MayBeat, Absent
<1>4. new.finished <=> new.status \in Terminal
  BY <1>2, Zenon DEF RowOK
<1>5. new.owner # NoOwner => new.status \in {"running", "waiting_approval"} /\ new.attempt > 0
  BY <1>2 DEF RowOK
<1> HIDE DEF new
<1>6. RowOK(new) /\ Rewrites(run, new)
  BY <1>1, <1>2, <1>3, <1>4, <1>5 DEF RowOK, Rewrites
<1> QED
  BY <1>6 DEF new

\* A claim starts the next attempt of a row nobody owned, in the claimer's name.
LEMMA ClaimGrants ==
    ASSUME NEW run, RowOK(run), NEW w \in Owners, NEW t \in Nat, MayClaim(run)
    PROVE  /\ RowOK(Claimed(run, w, t, LeaseSeconds))
           /\ run.owner = NoOwner
           /\ Claimed(run, w, t, LeaseSeconds).owner = w
           /\ Claimed(run, w, t, LeaseSeconds).status = "running"
           /\ Claimed(run, w, t, LeaseSeconds).attempt = run.attempt + 1
<1> DEFINE new == Claimed(run, w, t, LeaseSeconds)
<1>1. run \in RunRecord /\ new \in RunRecord
  BY ClaimedType, LeaseIsANumber DEF RowOK
<1>2. /\ new.status = "running"
      /\ new.attempt = run.attempt + 1
      /\ new.owner = w
      /\ new.finished = run.finished
  BY <1>1 DEF Claimed, RunRecord
<1>3. run.owner = NoOwner
  BY DEF RowOK, MayClaim
<1>4. new.owner # NoOwner /\ new.attempt > 0
  BY <1>1, <1>2, NoOwnerIsNotAnOwner DEF RunRecord
<1>5. new.status \notin Terminal /\ run.status \notin Terminal
  BY <1>2 DEF MayClaim, Terminal
<1>6. new.finished <=> new.status \in Terminal
  BY <1>2, <1>5, Zenon DEF RowOK
<1> HIDE DEF new
<1>7. RowOK(new)
  BY <1>1, <1>2, <1>4, <1>6 DEF RowOK
<1> QED
  BY <1>2, <1>3, <1>7 DEF new

\* The invariant makes every row consistent, and names each owner's attempt.
LEMMA RowsOK ==
    ASSUME IInv
    PROVE  \A r \in Runs : RowOK(runs[r])
<1> TAKE r \in Runs
<1>1. runs[r] \in RunRecord
  BY DEF IInv, TypeOK
<1>2. runs[r].owner # NoOwner => runs[r].owner \in Owners
  BY <1>1 DEF RunRecord
<1>3. runs[r].finished <=> runs[r].status \in Terminal
  BY Zenon DEF IInv, FinishedIffTerminal
<1>4. runs[r].lease # NoLease => runs[r].status = "running" /\ runs[r].owner # NoOwner
  BY NoOwnerIsNotAnOwner DEF IInv, LeaseBelongsToOwner
<1>5. runs[r].owner # NoOwner =>
        runs[r].status \in {"running", "waiting_approval"} /\ runs[r].attempt > 0
  BY <1>2 DEF IInv, OwnerHoldsCurrentAttempt
<1> QED
  BY <1>1, <1>3, <1>4, <1>5 DEF RowOK

-----------------------------------------------------------------------------
(* Two kinds of step change the table's rows once they exist: a write that  *)
(* rewrites a row in place, and a claim.                                    *)

\* A write that keeps its row consistent, keeps the attempt and at most drops
\* the owner preserves the invariant.
LEMMA RewriteStep ==
    ASSUME IInv, NEW r \in Runs, NEW new, RowOK(new), Rewrites(runs[r], new),
           runs' = [runs EXCEPT ![r] = new],
           UNCHANGED <<keys, held>>,
           now' \in Nat, claiming' \in [Owners -> Runs \cup {NoRun}], listed' \subseteq Runs
    PROVE  IInv'
<1>1. /\ runs' \in [Runs -> RunRecord]
      /\ runs'[r] = new
      /\ \A s \in Runs : s # r => runs'[s] = runs[s]
      /\ \A s \in Runs : runs'[s].attempt = runs[s].attempt
  BY DEF IInv, TypeOK, RowOK, Rewrites
<1>2. TypeOK'
  BY <1>1 DEF IInv, TypeOK
<1>3. AbsentIsBlank'
  BY <1>1 DEF IInv, AbsentIsBlank, Rewrites
<1>4. HeldIsPast'
  BY <1>1 DEF IInv, HeldIsPast
<1>5. OwnerHoldsCurrentAttempt'
  <2> SUFFICES ASSUME NEW s \in Runs, NEW w \in Owners, runs'[s].owner = w
               PROVE  /\ runs'[s].status \in {"running", "waiting_approval"}
                      /\ held[w][s] = runs'[s].attempt
                      /\ runs'[s].attempt > 0
    BY DEF OwnerHoldsCurrentAttempt
  <2>1. CASE s = r
    BY <2>1, <1>1, NoOwnerIsNotAnOwner DEF IInv, OwnerHoldsCurrentAttempt, RowOK, Rewrites
  <2>2. CASE s # r
    BY <2>2, <1>1 DEF IInv, OwnerHoldsCurrentAttempt
  <2> QED
    BY <2>1, <2>2
<1>6. LeaseBelongsToOwner'
  <2>1. new.owner # NoOwner => new.owner \in Owners
    BY DEF RowOK, RunRecord
  <2> QED
    BY <1>1, <2>1 DEF IInv, LeaseBelongsToOwner, RowOK
<1>7. AttemptsAreUnique'
  BY DEF IInv, AttemptsAreUnique
<1>8. OneRunPerKey'
  BY DEF IInv, OneRunPerKey
<1>9. FinishedIffTerminal'
  <2> SUFFICES ASSUME NEW s \in Runs
               PROVE  runs'[s].finished <=> runs'[s].status \in Terminal
    BY Zenon DEF FinishedIffTerminal
  <2>1. CASE s = r
    BY <2>1, <1>1, Zenon DEF RowOK
  <2>2. CASE s # r
    BY <2>2, <1>1, Zenon DEF IInv, FinishedIffTerminal
  <2> QED
    BY <2>1, <2>2
<1> QED
  BY <1>2, <1>3, <1>4, <1>5, <1>6, <1>7, <1>8, <1>9 DEF IInv

LEMMA InitIInv == Init => IInv
<1> SUFFICES ASSUME Init PROVE IInv
  OBVIOUS
<1>1. \A r \in Runs : runs[r] = AbsentRun /\ keys[r] = NoKey
  BY DEF Init
<1>2. /\ AbsentRun.status = Absent
      /\ AbsentRun.owner = NoOwner
      /\ AbsentRun.attempt = 0
      /\ AbsentRun.lease = NoLease
      /\ AbsentRun.finished = FALSE
  BY DEF AbsentRun
<1>3. TypeOK
  BY FreshType DEF Init, TypeOK
<1>4. AbsentIsBlank /\ HeldIsPast /\ AttemptsAreUnique
  BY <1>1, <1>2 DEF Init, AbsentIsBlank, HeldIsPast, AttemptsAreUnique
<1>5. OwnerHoldsCurrentAttempt /\ LeaseBelongsToOwner
  BY <1>1, <1>2, NoOwnerIsNotAnOwner DEF OwnerHoldsCurrentAttempt, LeaseBelongsToOwner
<1>6. OneRunPerKey
  BY <1>1 DEF OneRunPerKey
<1>7. Absent \notin Terminal
  BY DEF Absent, Terminal
<1>8. FinishedIffTerminal
  BY <1>1, <1>2, <1>7, Zenon DEF FinishedIffTerminal
<1> QED
  BY <1>3, <1>4, <1>5, <1>6, <1>8 DEF IInv

\* create() inserts a row nobody ever held.
LEMMA CreateStep ==
    ASSUME IInv, NEW r \in Runs, NEW k \in Keys \cup {NoKey}, Create(r, k)
    PROVE  IInv'
<1>1. runs[r] = AbsentRun
  BY DEF IInv, AbsentIsBlank, Create
<1>2. /\ runs' \in [Runs -> RunRecord]
      /\ runs'[r] = QueuedRun
      /\ \A s \in Runs : s # r => runs'[s] = runs[s]
  BY FreshType DEF IInv, TypeOK, Create
<1>3. /\ QueuedRun.status = "queued"
      /\ QueuedRun.owner = NoOwner
      /\ QueuedRun.attempt = 0 /\ AbsentRun.attempt = 0
      /\ QueuedRun.lease = NoLease
      /\ QueuedRun.finished = FALSE
  BY DEF QueuedRun, AbsentRun
<1>4. TypeOK'
  BY <1>2 DEF IInv, TypeOK, Create
<1>5. AbsentIsBlank'
  BY <1>2, <1>3 DEF IInv, AbsentIsBlank, Absent
<1>6. HeldIsPast' /\ AttemptsAreUnique'
  <2>1. \A s \in Runs : runs'[s].attempt = runs[s].attempt
    BY <1>1, <1>2, <1>3
  <2> QED
    BY <2>1 DEF IInv, HeldIsPast, AttemptsAreUnique, Create
<1>7. OwnerHoldsCurrentAttempt' /\ LeaseBelongsToOwner'
  BY <1>2, <1>3, NoOwnerIsNotAnOwner
  DEF IInv, OwnerHoldsCurrentAttempt, LeaseBelongsToOwner, Create
<1>8. OneRunPerKey'
  BY DEF IInv, TypeOK, OneRunPerKey, Create
<1>9. "queued" \notin Terminal
  BY DEF Terminal
<1>10. FinishedIffTerminal'
  <2> SUFFICES ASSUME NEW s \in Runs
               PROVE  runs'[s].finished <=> runs'[s].status \in Terminal
    BY Zenon DEF FinishedIffTerminal
  <2>1. CASE s = r
    BY <2>1, <1>2, <1>3, <1>9, Zenon
  <2>2. CASE s # r
    BY <2>2, <1>2, Zenon DEF IInv, FinishedIffTerminal
  <2> QED
    BY <2>1, <2>2
<1> QED
  BY <1>4, <1>5, <1>6, <1>7, <1>8, <1>10 DEF IInv

\* claim()'s transaction hands out the next attempt, or loses the race and
\* leaves the table alone.
LEMMA ClaimCommitStep ==
    ASSUME IInv, NEW w \in Owners, ClaimCommit(w)
    PROVE  IInv'
<1> PICK r \in Runs : ClaimCommit(w)!(r)
  BY DEF ClaimCommit
<1>1. claiming' \in [Owners -> Runs \cup {NoRun}]
  BY DEF IInv, TypeOK
<1>2. CASE MayClaim(runs[r]) /\ Writable(r)
           /\ runs' = [runs EXCEPT ![r] = Claimed(@, w, now, LeaseSeconds)]
           /\ held' = [held EXCEPT ![w][r] = runs[r].attempt + 1]
  <2> DEFINE new == Claimed(runs[r], w, now, LeaseSeconds)
  <2>1. RowOK(runs[r]) /\ now \in Nat
    BY RowsOK DEF IInv, TypeOK
  <2>2. /\ RowOK(new)
        /\ runs[r].owner = NoOwner
        /\ new.owner = w
        /\ new.status = "running"
        /\ new.attempt = runs[r].attempt + 1
    BY <1>2, <2>1, ClaimGrants
  <2>3. runs' = [runs EXCEPT ![r] = new]
    BY <1>2
  <2> HIDE DEF new
  <2>4. /\ runs' \in [Runs -> RunRecord]
        /\ runs'[r] = new
        /\ \A s \in Runs : s # r => runs'[s] = runs[s]
    BY <2>2, <2>3 DEF IInv, TypeOK, RowOK
  <2>5. /\ held' \in [Owners -> [Runs -> Nat]]
        /\ held'[w][r] = runs[r].attempt + 1
        /\ \A v \in Owners, s \in Runs : v # w \/ s # r => held'[v][s] = held[v][s]
    BY <1>2, <2>1 DEF IInv, TypeOK, RowOK, RunRecord
  <2>6. \A s \in Runs : runs[s].attempt \in Nat
    BY DEF IInv, TypeOK, RunRecord
  <2>7. TypeOK'
    BY <1>1, <2>4, <2>5 DEF IInv, TypeOK
  <2>8. AbsentIsBlank'
    BY <2>2, <2>4 DEF IInv, AbsentIsBlank, Absent
  <2>9. HeldIsPast'
    <3> SUFFICES ASSUME NEW s \in Runs, NEW v \in Owners
                 PROVE  held'[v][s] <= runs'[s].attempt
      BY DEF HeldIsPast
    <3>1. held[v][s] <= runs[s].attempt /\ held[v][s] \in Nat
      BY DEF IInv, HeldIsPast, TypeOK
    <3> QED
      BY <2>2, <2>4, <2>5, <2>6, <3>1
  <2>10. OwnerHoldsCurrentAttempt'
    <3> SUFFICES ASSUME NEW s \in Runs, NEW v \in Owners, runs'[s].owner = v
                 PROVE  /\ runs'[s].status \in {"running", "waiting_approval"}
                        /\ held'[v][s] = runs'[s].attempt
                        /\ runs'[s].attempt > 0
      BY DEF OwnerHoldsCurrentAttempt
    <3>1. CASE s = r
      BY <3>1, <2>2, <2>4, <2>5, <2>6
    <3>2. CASE s # r
      BY <3>2, <2>4, <2>5 DEF IInv, OwnerHoldsCurrentAttempt
    <3> QED
      BY <3>1, <3>2
  <2>11. LeaseBelongsToOwner'
    BY <2>2, <2>4 DEF IInv, LeaseBelongsToOwner
  <2>12. AttemptsAreUnique'
    <3> SUFFICES ASSUME NEW s \in Runs, NEW u \in Owners, NEW v \in Owners,
                        u # v, held'[u][s] = held'[v][s]
                 PROVE  held'[v][s] = 0
      BY DEF AttemptsAreUnique
    <3>1. /\ held[u][s] \in Nat /\ held[u][s] <= runs[s].attempt
          /\ held[v][s] \in Nat /\ held[v][s] <= runs[s].attempt
      BY DEF IInv, TypeOK, HeldIsPast
    <3>2. CASE s = r /\ (u = w \/ v = w)
      BY <3>1, <3>2, <2>5, <2>6
    <3>3. CASE s # r \/ (u # w /\ v # w)
      BY <3>3, <2>5 DEF IInv, AttemptsAreUnique
    <3> QED
      BY <3>2, <3>3
  <2>13. OneRunPerKey'
    BY DEF IInv, OneRunPerKey
  <2>14. FinishedIffTerminal'
    <3> SUFFICES ASSUME NEW s \in Runs
                 PROVE  runs'[s].finished <=> runs'[s].status \in Terminal
      BY Zenon DEF FinishedIffTerminal
    <3>1. CASE s = r
      BY <3>1, <2>2, <2>4, Zenon DEF RowOK
    <3>2. CASE s # r
      BY <3>2, <2>4, Zenon DEF IInv, FinishedIffTerminal
    <3> QED
      BY <3>1, <3>2
  <2> QED
    BY <2>7, <2>8, <2>9, <2>10, <2>11, <2>12, <2>13, <2>14 DEF IInv
<1>3. CASE UNCHANGED <<runs, held>>
  BY <1>1, <1>3 DEF IInv, TypeOK, AbsentIsBlank, HeldIsPast, OwnerHoldsCurrentAttempt,
     LeaseBelongsToOwner, AttemptsAreUnique, OneRunPerKey, FinishedIffTerminal
<1> QED
  BY <1>2, <1>3

LEMMA NextIInv == IInv /\ [Next]_vars => IInv'
<1> SUFFICES ASSUME IInv, [Next]_vars PROVE IInv'
  OBVIOUS
<1> USE RowsOK
<1>1. ASSUME NEW r \in Runs, NEW k \in Keys \cup {NoKey}, Create(r, k) PROVE IInv'
  BY <1>1, CreateStep
<1>2. ASSUME NEW w \in Owners, NEW r \in Runs, ClaimRead(w, r) PROVE IInv'
  <2>1. claiming' \in [Owners -> Runs \cup {NoRun}]
    BY <1>2 DEF ClaimRead, IInv, TypeOK
  <2> QED
    BY <1>2, <2>1 DEF ClaimRead, IInv, TypeOK, AbsentIsBlank, HeldIsPast,
       OwnerHoldsCurrentAttempt, LeaseBelongsToOwner, AttemptsAreUnique, OneRunPerKey,
       FinishedIffTerminal
<1>3. ASSUME NEW w \in Owners, NEW r \in Runs, Heartbeat(w, r) PROVE IInv'
  BY <1>3, HeartbeatRewrites, RewriteStep DEF Heartbeat, IInv, TypeOK
<1>4. ASSUME NEW w \in Owners, ClaimCommit(w) PROVE IInv'
  BY <1>4, ClaimCommitStep
<1>5. ASSUME NEW r \in Runs, NEW target \in Targets, NEW expected \in ExpectedSets,
             NEW owner \in Owners \cup {NoOwner}, Transition(r, target, expected, owner)
      PROVE  IInv'
  BY <1>5, TargetsAreStatuses, TransitionRewrites, RewriteStep DEF Transition, IInv, TypeOK
<1>6. CASE RecoverList
  <2>1. listed' \subseteq Runs
    BY <1>6 DEF RecoverList
  <2> QED
    BY <1>6, <2>1 DEF RecoverList, IInv, TypeOK, AbsentIsBlank, HeldIsPast,
       OwnerHoldsCurrentAttempt, LeaseBelongsToOwner, AttemptsAreUnique, OneRunPerKey,
       FinishedIffTerminal
<1>7. ASSUME NEW r \in Runs, RecoverOne(r) PROVE IInv'
  <2>1. listed' \subseteq Runs
    BY <1>7 DEF RecoverOne, IInv, TypeOK
  <2>2. CASE MayTransition(runs[r], "orphaned", {"running"}, NoOwner)
             /\ runs' = [runs EXCEPT ![r] = Transitioned(@, "orphaned")]
    <3>1. "orphaned" \in Statuses
      BY DEF Statuses
    <3> QED
      BY <1>7, <2>1, <2>2, <3>1, TransitionRewrites, RewriteStep
      DEF RecoverOne, IInv, TypeOK
  <2>3. CASE UNCHANGED runs
    BY <1>7, <2>1, <2>3 DEF RecoverOne, IInv, TypeOK, AbsentIsBlank, HeldIsPast,
       OwnerHoldsCurrentAttempt, LeaseBelongsToOwner, AttemptsAreUnique, OneRunPerKey,
       FinishedIffTerminal
  <2> QED
    BY <1>7, <2>2, <2>3 DEF RecoverOne
<1>8. ASSUME NEW r \in Runs, Resume(r) PROVE IInv'
  <2>1. "queued" \in Statuses
    BY DEF Statuses
  <2> QED
    BY <1>8, <2>1, TransitionRewrites, RewriteStep DEF Resume, IInv, TypeOK
<1>9. CASE Tick
  <2>1. now' \in Nat
    BY <1>9 DEF Tick, IInv, TypeOK
  <2> QED
    BY <1>9, <2>1 DEF Tick, IInv, TypeOK, AbsentIsBlank, HeldIsPast,
       OwnerHoldsCurrentAttempt, LeaseBelongsToOwner, AttemptsAreUnique, OneRunPerKey,
       FinishedIffTerminal
<1>10. CASE UNCHANGED vars
  BY <1>10 DEF vars, IInv, TypeOK, AbsentIsBlank, HeldIsPast,
     OwnerHoldsCurrentAttempt, LeaseBelongsToOwner, AttemptsAreUnique, OneRunPerKey,
     FinishedIffTerminal
<1> QED
  BY <1>1, <1>2, <1>3, <1>4, <1>5, <1>6, <1>7, <1>8, <1>9, <1>10 DEF Next

\* The inductive invariant holds in every behaviour of the store.
THEOREM StoreIInv == Spec => []IInv
BY InitIInv, NextIInv, PTL DEF Spec

\* Every reachable table is well formed.
THEOREM StoreTypeOK == Spec => []TypeOK
<1>1. IInv => TypeOK
  BY DEF IInv
<1> QED
  BY <1>1, StoreIInv, PTL

\* claim(), transition() and recover_expired() never leave a row naming a worker
\* that does not hold its current attempt.
THEOREM StoreOwnership == Spec => []OwnerHoldsCurrentAttempt
<1>1. IInv => OwnerHoldsCurrentAttempt
  BY DEF IInv
<1> QED
  BY <1>1, StoreIInv, PTL

\* A lease always has an owner that executes the run.
THEOREM StoreLeases == Spec => []LeaseBelongsToOwner
<1>1. IInv => LeaseBelongsToOwner
  BY DEF IInv
<1> QED
  BY <1>1, StoreIInv, PTL

\* Concurrent claim() calls never return the same attempt of a run twice.
THEOREM StoreAttempts == Spec => []AttemptsAreUnique
<1>1. IInv => AttemptsAreUnique
  BY DEF IInv
<1> QED
  BY <1>1, StoreIInv, PTL

\* create() never makes two runs for one idempotency key.
THEOREM StoreKeys == Spec => []OneRunPerKey
<1>1. IInv => OneRunPerKey
  BY DEF IInv
<1> QED
  BY <1>1, StoreIInv, PTL

\* finished_at is written with a terminal status and never otherwise.
THEOREM StoreFinished == Spec => []FinishedIffTerminal
<1>1. IInv => FinishedIffTerminal
  BY DEF IInv
<1> QED
  BY <1>1, StoreIInv, PTL

(* The facts of a row that RunStore names together.                         *)
THEOREM StoreRows == Spec => []RowsAgree
<1>1. OwnerHoldsCurrentAttempt /\ LeaseBelongsToOwner /\ FinishedIffTerminal => RowsAgree
  BY DEF RowsAgree
<1> QED
  BY <1>1, StoreOwnership, StoreLeases, StoreFinished, PTL

-----------------------------------------------------------------------------
(* What one step may do to one row, and the two consequences: endings are   *)
(* final, and the table implements the exclusive terms of RunTenure.        *)

\* A step leaves a row alone, inserts it, rewrites it in place by a transition
\* or a heartbeat, or grants its next attempt.
RowStep(r) ==
    \/ runs'[r] = runs[r]
    \/ runs[r].status = Absent /\ runs'[r] = QueuedRun
    \/ \E target \in Statuses, expected \in SUBSET Statuses, owner \in Owners \cup {NoOwner} :
          /\ MayTransition(runs[r], target, expected, owner)
          /\ runs'[r] = Transitioned(runs[r], target)
    \/ \E w \in Owners :
          /\ MayBeat(runs[r], w)
          /\ runs'[r] = Beaten(runs[r], now, LeaseSeconds)
    \/ \E w \in Owners :
          /\ MayClaim(runs[r])
          /\ runs'[r] = Claimed(runs[r], w, now, LeaseSeconds)

\* Every step of the store changes at most one row, and changes it by a RowStep.
LEMMA OneRowStep ==
    ASSUME TypeOK, [Next]_vars
    PROVE  (UNCHANGED runs) \/ \E r \in Runs : \E new :
              /\ runs' = [runs EXCEPT ![r] = new]
              /\ runs'[r] = new
              /\ RowStep(r)
<1> DEFINE Changes == \E r \in Runs : \E new :
                        /\ runs' = [runs EXCEPT ![r] = new]
                        /\ runs'[r] = new
                        /\ RowStep(r)
<1>0. \A r \in Runs : \A new : runs' = [runs EXCEPT ![r] = new] => runs'[r] = new
  BY DEF TypeOK
<1>1. ASSUME NEW r \in Runs, NEW k \in Keys \cup {NoKey}, Create(r, k) PROVE Changes
  <2>1. runs' = [runs EXCEPT ![r] = QueuedRun] /\ runs[r].status = Absent
    BY <1>1 DEF Create
  <2> QED
    BY <2>1, <1>0 DEF RowStep
<1>2. ASSUME NEW w \in Owners, NEW r \in Runs, Heartbeat(w, r) PROVE Changes
  <2>1. runs' = [runs EXCEPT ![r] = Beaten(runs[r], now, LeaseSeconds)] /\ MayBeat(runs[r], w)
    BY <1>2 DEF Heartbeat
  <2> QED
    BY <2>1, <1>0 DEF RowStep
<1>3. ASSUME NEW w \in Owners, ClaimCommit(w) PROVE (UNCHANGED runs) \/ Changes
  <2> PICK r \in Runs : ClaimCommit(w)!(r)
    BY <1>3 DEF ClaimCommit
  <2>1. CASE MayClaim(runs[r]) /\ runs' = [runs EXCEPT ![r] = Claimed(runs[r], w, now, LeaseSeconds)]
    BY <2>1, <1>0 DEF RowStep
  <2> QED
    BY <2>1
<1>4. ASSUME NEW r \in Runs, NEW target \in Statuses, NEW expected \in SUBSET Statuses,
             NEW owner \in Owners \cup {NoOwner},
             MayTransition(runs[r], target, expected, owner),
             runs' = [runs EXCEPT ![r] = Transitioned(runs[r], target)]
      PROVE  Changes
  BY <1>4, <1>0 DEF RowStep
<1>5. "orphaned" \in Statuses /\ "queued" \in Statuses /\ "running" \in Statuses
  BY DEF Statuses
<1>6. ASSUME NEW r \in Runs, NEW target \in Targets, NEW expected \in ExpectedSets,
             NEW owner \in Owners \cup {NoOwner}, Transition(r, target, expected, owner)
      PROVE  Changes
  BY <1>4, <1>6, TargetsAreStatuses, ExpectedAreStatuses DEF Transition
<1>7. ASSUME NEW r \in Runs, RecoverOne(r) PROVE (UNCHANGED runs) \/ Changes
  BY <1>4, <1>5, <1>7 DEF RecoverOne
<1>8. ASSUME NEW r \in Runs, Resume(r) PROVE Changes
  BY <1>4, <1>5, <1>8 DEF Resume
<1>9. (\E w \in Owners, r \in Runs : ClaimRead(w, r)) \/ RecoverList \/ Tick \/ UNCHANGED vars
        => UNCHANGED runs
  BY DEF ClaimRead, RecoverList, Tick, vars
<1> HIDE DEF Changes
<1>10. (UNCHANGED runs) \/ Changes
  BY <1>1, <1>2, <1>3, <1>6, <1>7, <1>8, <1>9 DEF Next
<1> QED
  BY <1>10 DEF Changes

\* An ended run keeps its status whatever calls arrive later.
THEOREM StoreEndings == Spec => EndedStaysEnded
<1>1. TypeOK /\ [Next]_vars =>
        [\A r \in Runs : runs[r].status \in Terminal => runs'[r].status = runs[r].status]_vars
  <2> SUFFICES ASSUME TypeOK, [Next]_vars, NEW r \in Runs, runs[r].status \in Terminal
               PROVE  runs'[r].status = runs[r].status
    OBVIOUS
  <2>1. runs[r].status \in Statuses /\ runs[r] \in RunRecord
    BY DEF Statuses, TypeOK
  <2>2. /\ runs[r].status # Absent
        /\ ~ MayClaim(runs[r])
        /\ \A w \in Owners : ~ MayBeat(runs[r], w)
    BY DEF Terminal, Absent, MayClaim, MayBeat
  <2>3. ASSUME NEW target \in Statuses, NEW expected, NEW owner,
               MayTransition(runs[r], target, expected, owner)
        PROVE  Transitioned(runs[r], target).status = runs[r].status
    <3>1. target = runs[r].status
      BY <2>1, <2>3, SuccessorFacts DEF MayTransition
    <3> QED
      BY <2>1, <3>1 DEF Transitioned, RunRecord
  <2>4. runs'[r] = runs[r] \/ RowStep(r)
    <3>1. (UNCHANGED runs) \/ \E s \in Runs : \E new :
            runs' = [runs EXCEPT ![s] = new] /\ RowStep(s)
      BY OneRowStep
    <3> QED
      BY <3>1 DEF TypeOK
  <2> QED
    BY <2>2, <2>3, <2>4 DEF RowStep
<1> QED
  BY <1>1, StoreTypeOK, PTL DEF Spec, EndedStaysEnded

\* Each step of the store is a grant, a release or a closing of one run's term,
\* or invisible: no call starts a term while another one lasts.
LEMMA TenureStep ==
    ASSUME IInv, [Next]_vars
    PROVE  [Tenure!Next]_(Tenure!vars)
<1> DEFINE H == [r \in Runs |-> runs[r].owner]
           T == [r \in Runs |-> runs[r].attempt]
           C == {r \in Runs : runs[r].status \in Terminal}
<1>1. CASE UNCHANGED runs
  BY <1>1 DEF Tenure!vars
<1>2. ASSUME NEW r \in Runs, NEW new, runs' = [runs EXCEPT ![r] = new],
             runs'[r] = new, RowStep(r)
      PROVE  [Tenure!Next]_(Tenure!vars)
  <2>1. RowOK(runs[r]) /\ runs[r] \in RunRecord
    BY RowsOK DEF RowOK
  <2>2. /\ H' = [H EXCEPT ![r] = new.owner]
        /\ T' = [T EXCEPT ![r] = new.attempt]
        /\ C' = IF new.status \in Terminal THEN C \cup {r} ELSE C \ {r}
    BY <1>2 DEF IInv, TypeOK
  <2>3. new.owner = H[r] /\ new.attempt = T[r] => H' = H /\ T' = T
    BY <2>2
  <2>4. CASE runs[r].status = Absent /\ new = QueuedRun
    <3>1. runs[r] = AbsentRun
      BY <2>4 DEF IInv, AbsentIsBlank
    <3>2. /\ new.owner = H[r] /\ new.attempt = T[r]
          /\ runs[r].status \notin Terminal /\ new.status \notin Terminal
      BY <2>4, <3>1 DEF QueuedRun, AbsentRun, Terminal, Absent
    <3>3. C' = C
      BY <2>2, <3>2
    <3> QED
      BY <2>3, <3>2, <3>3 DEF Tenure!vars
  <2>5. ASSUME NEW target \in Statuses, NEW expected \in SUBSET Statuses,
               NEW owner \in Owners \cup {NoOwner},
               MayTransition(runs[r], target, expected, owner),
               new = Transitioned(runs[r], target)
        PROVE  [Tenure!Next]_(Tenure!vars)
    <3>1. /\ new.status = target
          /\ new.attempt = T[r]
          /\ new.owner = IF target \in {"running", "waiting_approval"} THEN H[r] ELSE NoOwner
      BY <2>1, <2>5 DEF Transitioned, RunRecord
    <3>2. T' = T
      BY <2>2, <3>1
    <3>3. target \notin Terminal => r \notin C
      BY <2>1, <2>5, SuccessorFacts DEF MayTransition, RunRecord
    <3>4. CASE target \in Terminal
      <4>1. H' = [H EXCEPT ![r] = NoOwner] /\ C' = C \cup {r}
        BY <2>2, <3>1, <3>4 DEF Terminal
      <4> QED
        BY <3>2, <4>1 DEF Tenure!Next, Tenure!Close
    <3>5. CASE target \in {"running", "waiting_approval"}
      <4>1. H' = H /\ C' = C
        BY <2>2, <3>1, <3>3, <3>5 DEF Terminal
      <4> QED
        BY <3>2, <4>1 DEF Tenure!vars
    <3>6. CASE target \notin Terminal \cup {"running", "waiting_approval"}
      <4>1. H' = [H EXCEPT ![r] = NoOwner] /\ C' = C
        BY <2>2, <3>1, <3>3, <3>6
      <4> QED
        BY <3>2, <3>3, <3>6, <4>1 DEF Tenure!Next, Tenure!Release
    <3> QED
      BY <3>4, <3>5, <3>6
  <2>6. ASSUME NEW w \in Owners, MayBeat(runs[r], w), new = Beaten(runs[r], now, LeaseSeconds)
        PROVE  [Tenure!Next]_(Tenure!vars)
    <3>1. new.owner = H[r] /\ new.attempt = T[r] /\ new.status = "running" /\ r \notin C
      BY <2>1, <2>6 DEF Beaten, MayBeat, RunRecord, Terminal
    <3>2. C' = C
      BY <2>2, <3>1 DEF Terminal
    <3> QED
      BY <2>3, <3>1, <3>2 DEF Tenure!vars
  <2>7. ASSUME NEW w \in Owners, MayClaim(runs[r]), new = Claimed(runs[r], w, now, LeaseSeconds)
        PROVE  [Tenure!Next]_(Tenure!vars)
    <3>1. /\ H[r] = NoOwner
          /\ new.owner = w /\ new.attempt = T[r] + 1 /\ new.status = "running"
      BY <2>1, <2>7, ClaimGrants DEF IInv, TypeOK
    <3>2. r \notin C
      BY <2>7 DEF MayClaim, Terminal
    <3>3. C' = C
      BY <2>2, <3>1, <3>2 DEF Terminal
    <3>4. Tenure!Grant(r, w)
      BY <2>2, <3>1, <3>2, <3>3 DEF Tenure!Grant
    <3> QED
      BY <3>4 DEF Tenure!Next
  <2>8. CASE runs'[r] = runs[r]
    <3>1. UNCHANGED runs
      BY <1>2, <2>8 DEF IInv, TypeOK
    <3> QED
      BY <1>1, <3>1
  <2> QED
    BY <1>2, <2>4, <2>5, <2>6, <2>7, <2>8 DEF RowStep
<1> QED
  BY <1>1, <1>2, OneRowStep DEF IInv

\* The run table implements the numbered exclusive terms of RunTenure.
THEOREM StoreImplementsTenure == Spec => ImplementsTenure
<1>1. Init => Tenure!Init
  <2> SUFFICES ASSUME Init PROVE Tenure!Init
    OBVIOUS
  <2>1. \A r \in Runs : runs[r].owner = NoOwner /\ runs[r].attempt = 0
                         /\ runs[r].status \notin Terminal
    BY DEF Init, AbsentRun, Absent, Terminal
  <2> QED
    BY <2>1 DEF Tenure!Init
<1>2. IInv /\ [Next]_vars => [Tenure!Next]_(Tenure!vars)
  BY TenureStep
<1> QED
  BY <1>1, <1>2, StoreIInv, PTL DEF Spec, ImplementsTenure, Tenure!Spec

=============================================================================
