-------------------------- MODULE RunRecordsProofs --------------------------
(***************************************************************************)
(* Lemmas about the rows of RunRecords: what each store operation writes   *)
(* is a row, which of its fields change, and which statuses follow others. *)
(* The proofs about RunStore, Scheduler and ChatSession rest on them, and  *)
(* on the facts about least and greatest numbers at the end.               *)
(***************************************************************************)
EXTENDS RunRecords, FiniteSetsExt, WellFoundedInduction, TLAPS

\* transition() writes a well-formed row.
LEMMA TransitionedType ==
    ASSUME NEW run \in RunRecord, NEW target \in Statuses
    PROVE  Transitioned(run, target) \in RunRecord
<1> DEFINE o == IF target \in {"running", "waiting_approval"} THEN run.owner ELSE NoOwner
           l == IF target = "running" THEN run.lease ELSE NoLease
           s == IF target = "running" THEN TRUE ELSE run.started
           f == IF target \in Terminal THEN TRUE ELSE run.finished
           v == run.version + 1
<1>1. o \in Owners \cup {NoOwner} /\ l \in Nat /\ v \in Nat
  BY DEF RunRecord, NoLease
<1>0. s \in BOOLEAN /\ f \in BOOLEAN
  BY Zenon DEF RunRecord
<1>2. Transitioned(run, target) =
        [run EXCEPT !.status = target, !.owner = o, !.lease = l,
                    !.started = s, !.finished = f, !.version = v]
  BY Zenon DEF Transitioned
<1>3. [run EXCEPT !.status = target, !.owner = o, !.lease = l,
                  !.started = s, !.finished = f, !.version = v] \in RunRecord
  <2> HIDE DEF o, l, s, f, v
  <2> QED
    BY <1>0, <1>1 DEF RunRecord
<1> QED
  BY <1>2, <1>3

\* claim() writes a well-formed row with a lease that is not NULL.
LEMMA ClaimedType ==
    ASSUME NEW run \in RunRecord, NEW w \in Owners, NEW t \in Nat, NEW seconds \in Nat
    PROVE  Claimed(run, w, t, seconds) \in RunRecord
<1> DEFINE l == LeaseFrom(t, seconds)
           a == run.attempt + 1
           v == run.version + 1
<1>1. l \in Nat /\ a \in Nat /\ v \in Nat
  BY DEF LeaseFrom, RunRecord
<1>2. [run EXCEPT !.status = "running", !.owner = w, !.attempt = a,
                  !.version = v, !.started = TRUE, !.lease = l] \in RunRecord
  <2> HIDE DEF l, a, v
  <2> QED
    BY <1>1 DEF RunRecord, Statuses
<1> QED
  BY <1>2, Zenon DEF Claimed

\* heartbeat() writes a well-formed row.
LEMMA BeatenType ==
    ASSUME NEW run \in RunRecord, NEW t \in Nat, NEW seconds \in Nat
    PROVE  Beaten(run, t, seconds) \in RunRecord
<1> DEFINE l == LeaseFrom(t, seconds)
           v == run.version + 1
<1>1. l \in Nat /\ v \in Nat
  BY DEF LeaseFrom, RunRecord
<1>2. [run EXCEPT !.lease = l, !.version = v] \in RunRecord
  <2> HIDE DEF l, v
  <2> QED
    BY <1>1 DEF RunRecord
<1> QED
  BY <1>2, Zenon DEF Beaten

\* The blank row and a fresh row are rows.
LEMMA FreshType == AbsentRun \in RunRecord /\ QueuedRun \in RunRecord
BY DEF AbsentRun, QueuedRun, RunRecord, NoLease, Statuses

\* Nothing follows an ending, and only real statuses follow anything.
LEMMA SuccessorFacts ==
    ASSUME NEW s \in Statuses
    PROVE  /\ Successors[s] \subseteq Statuses
           /\ s \in Terminal => Successors[s] = {}
BY DEF Successors, Statuses, Terminal

\* What the row operators say of a row's status and owner.
LEMMA TransitionedFields ==
    ASSUME NEW run \in RunRecord, NEW target
    PROVE  Transitioned(run, target).status = target
BY DEF Transitioned, RunRecord

LEMMA ClaimedFields ==
    ASSUME NEW run \in RunRecord, NEW w, NEW t, NEW seconds
    PROVE  Claimed(run, w, t, seconds).status = "running" /\ Claimed(run, w, t, seconds).owner = w
BY DEF Claimed, RunRecord

LEMMA BeatenFields ==
    ASSUME NEW run \in RunRecord, NEW t, NEW seconds
    PROVE  /\ Beaten(run, t, seconds).status = run.status
           /\ Beaten(run, t, seconds).owner = run.owner
BY DEF Beaten, RunRecord

LEMMA FreshFields == AbsentRun.status = Absent /\ QueuedRun.status = "queued"
BY DEF AbsentRun, QueuedRun

\* A run's own report is an ending.
LEMMA CompletionEnds == ASSUME NEW completion PROVE RunStatusForCompletion(completion) \in Terminal
BY DEF RunStatusForCompletion, Terminal

-----------------------------------------------------------------------------
(* Numbers. *)

\* The naturals are well ordered.
LEMMA LeastExists ==
    ASSUME NEW S \in SUBSET Nat, S # {}
    PROVE  \E x \in S : \A y \in S : x <= y
<1> DEFINE less == {ss \in Nat \X Nat : ss[1] < ss[2]}
<1>1. IsWellFoundedOn(less, Nat)
  BY NatLessThanWellFounded DEF OpToRel
<1> HIDE DEF less
<1>2. PICK x \in S : \A y \in S : ~ (<<y, x>> \in less)
  BY <1>1, WFMin
<1>3. \A y \in S : ~ (y < x)
  BY <1>2 DEF less
<1> QED
  BY <1>3

\* What Min and Max of the library return.
LEMMA MinFacts ==
    ASSUME NEW S \in SUBSET Nat, S # {}
    PROVE  Min(S) \in S /\ \A y \in S : Min(S) <= y
BY LeastExists DEF Min

LEMMA MaxFacts ==
    ASSUME NEW S \in SUBSET Nat, S # {}, NEW b \in Nat, \A x \in S : x <= b
    PROVE  Max(S) \in S /\ \A y \in S : y <= Max(S)
<1> DEFINE U == {n \in Nat : \A y \in S : y <= n}
<1>1. PICK m \in U : \A n \in U : m <= n
  <2>1. b \in U
    OBVIOUS
  <2> QED
    BY <2>1, LeastExists
<1>2. m \in S
  <2>1. SUFFICES ASSUME m \notin S PROVE FALSE
    OBVIOUS
  <2>2. \A y \in S : y < m
    BY <2>1
  <2>3. m \in Nat /\ m # 0
    <3>1. PICK s \in S : TRUE
      OBVIOUS
    <3>2. s \in Nat /\ s < m
      BY <2>2, <3>1
    <3> QED
      BY <3>2
  <2>4. m - 1 \in U
    BY <2>2, <2>3
  <2> QED
    BY <1>1, <2>3, <2>4
<1> QED
  BY <1>1, <1>2 DEF Max

=============================================================================
