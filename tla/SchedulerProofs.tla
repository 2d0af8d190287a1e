--------------------------- MODULE SchedulerProofs ---------------------------
(***************************************************************************)
(* Proofs about Scheduler, for any set of items and invocations.  IInv is  *)
(* the inductive invariant: besides the properties it says what an         *)
(* invocation may still believe of a child run that others see change, and *)
(* which runs may work although their item was taken from them.            *)
(***************************************************************************)
EXTENDS Scheduler, RunRecordsProofs, WellFoundedInduction, FiniteSetTheorems

\* An item is handed out at most twice, and one that has a result has a run.
ItemOK(item) ==
    /\ item.claimed => item.attempt \in 1..2
    /\ ~ item.claimed => item.attempt \in 0..1 /\ item.result = NoResult
ItemsAreSound == \A i \in Items : ItemOK(items[i])

\* A row that nobody will ever claim or work on.
Over(row) == row.status \notin {"absent", "queued", "running"}

\* A result in a row is a worker's report, and the row's last word.
ReportsAreFinal == \A k \in Children :
    results[k] # NoResult => results[k] \in Outcomes /\ runs[k].status \in Terminal

\* Whoever is to submit a result has recorded it.
RecordedFirst == \A v \in Invocations, k \in Children :
    tasks[v][k].phase = "submit" => results[k] # NoResult

\* A run that works, may be claimed or is about to be made is its item's current run,
\* unless the item was given up before the run had a row.
OnesOwn == \A k \in Children :
    \/ runs[k].status \in {"queued", "running"}
    \/ runs[k].status = "absent" /\ \E v \in Invocations : tasks[v][k].phase = "new"
    => Belongs(k) \/ k \in late

\* What an invocation that recovers holds of the run it judges is still so: the row is
\* over, with the result read. Of a run without a row nothing is known. The items left
\* to judge, or to weigh, had a run in the plan that was read.
Judged(p) == <<Min(p.todo), p.plan[Min(p.todo)].attempt>>
InvOK(p, rows0, results0) ==
    /\ \A i \in Items : ItemOK(p.plan[i])
    /\ \A i \in p.todo : p.plan[i].claimed
    /\ p.pc \in {"orphan", "settle"} => p.todo # {}
    /\ p.pc \notin {"look", "orphan", "settle", "weigh"} => p.todo = {}
    /\ p.pc = "fill" => p.slot \in Slots
    /\ p.pc = "orphan" => p.seen = NoResult
    /\ p.pc = "settle" /\ p.seen # "absent" =>
            Over(rows0[Judged(p)]) /\ results0[Judged(p)] = p.seen
JudgementsStand == \A v \in Invocations : InvOK(inv[v], runs, results)

IInv ==
    /\ TypeOK
    /\ ItemsAreSound
    /\ ReportsAreFinal
    /\ RecordedFirst
    /\ OnesOwn
    /\ JudgementsStand
    /\ AcceptedIsRecorded

-----------------------------------------------------------------------------
(* Numbers. *)

\* The children are finitely many, and what they may spend are numbers.
LEMMA Counts ==
    /\ \A S \in SUBSET Children : Cardinality(S) \in Nat
    /\ \A S \in SUBSET Items : Cardinality(S) \in Nat
    /\ Limit \in Nat
<1>1. IsFiniteSet(Items) /\ Cardinality(Items) \in Nat /\ Cardinality(Items) # 0
  BY ItemsAreNumbered, FS_CardinalityType, FS_EmptySet
<1>2. IsFiniteSet(Attempts)
  <2>1. Attempts \in SUBSET Nat /\ \A a \in Attempts : a <= 3
    BY DEF Attempts
  <2> QED
    BY <2>1, FS_BoundedSetOfNaturals
<1>3. IsFiniteSet(Children)
  BY <1>1, <1>2, FS_Product DEF Children
<1>4. \A S \in SUBSET Children : Cardinality(S) \in Nat
  BY <1>3, FS_Subset, FS_CardinalityType
<1>5. \A S \in SUBSET Items : Cardinality(S) \in Nat
  BY <1>1, FS_Subset, FS_CardinalityType
<1>6. Limit \in Nat
  <2>1. TotalTokens \in Nat
    BY SchedulerAssumption
  <2> QED
    BY <1>1, <2>1 DEF Limit
<1> QED
  BY <1>4, <1>5, <1>6

LEMMA SpentIsANumber == ASSUME NEW plan PROVE Spent(plan) \in Nat
<1> DEFINE c == Cardinality({i \in Items : plan[i].result = "completed"})
           p == Cardinality({i \in Items : plan[i].result = "partial"})
<1>1. c \in Nat /\ p \in Nat
  BY Counts
<1>2. Spent(plan) = c + 2 * p
  BY Zenon DEF Spent
<1> HIDE DEF c, p
<1> QED
  BY <1>1, <1>2

-----------------------------------------------------------------------------
(* What a step must keep, by the part of the state that it writes. *)

\* The item an invocation judges, and its run.
LEMMA JudgedIsChild ==
    ASSUME NEW p \in Invocation, NEW rows0, NEW results0, InvOK(p, rows0, results0), p.todo # {}
    PROVE  /\ Min(p.todo) \in p.todo /\ Min(p.todo) \in Items
           /\ p.plan[Min(p.todo)] \in Item /\ p.plan[Min(p.todo)].claimed
           /\ p.plan[Min(p.todo)].attempt \in 1..2
           /\ Judged(p) \in Children
<1>1. p.todo \in SUBSET Items /\ p.todo \in SUBSET Nat /\ p.plan \in [Items -> Item]
  BY ItemsAreNumbered DEF Invocation
<1>2. Min(p.todo) \in p.todo
  BY <1>1, MinFacts
<1>3. p.plan[Min(p.todo)].claimed /\ p.plan[Min(p.todo)].attempt \in 1..2
  BY <1>1, <1>2 DEF InvOK, ItemOK
<1> QED
  BY <1>1, <1>2, <1>3 DEF Judged, Children, Attempts

\* One invocation goes on, and no row that is over changes.
LEMMA InvPart ==
    ASSUME IInv, NEW v, NEW p \in Invocation, p.room <= TotalTokens,
           inv' = [inv EXCEPT ![v] = p],
           p = inv[v] \/ InvOK(p, runs', results'),
           \A k \in Children : Over(runs[k]) => Over(runs'[k]) /\ results'[k] = results[k]
    PROVE  /\ inv' \in [Invocations -> Invocation]
           /\ \A u \in Invocations : inv'[u].room <= TotalTokens
           /\ JudgementsStand'
<1>1. inv \in [Invocations -> Invocation] /\ \A u \in Invocations : inv[u].room <= TotalTokens
  BY DEF IInv, TypeOK
<1>2. ASSUME NEW u \in Invocations PROVE InvOK(inv'[u], runs', results')
  <2>1. CASE inv'[u] = inv[u]
    <3>1. InvOK(inv[u], runs, results) /\ inv[u] \in Invocation
      BY <1>1 DEF IInv, JudgementsStand
    <3>2. inv[u].todo # {} => Judged(inv[u]) \in Children
      BY <3>1, JudgedIsChild
    <3> QED
      BY <2>1, <3>1, <3>2 DEF InvOK
  <2>2. CASE inv'[u] # inv[u]
    BY <1>1, <2>2
  <2> QED
    BY <2>1, <2>2
<1>3. JudgementsStand'
  BY <1>2 DEF JudgementsStand
<1> QED
  BY <1>1, <1>3

\* A step of one invocation, or of time, that writes neither rows nor items.
LEMMA QuietStep ==
    ASSUME IInv, UNCHANGED <<items, runs, results, late>>,
           expired' \subseteq Children, faults' \in 0..MaxFaults, alone' \subseteq Invocations,
           tasks' \in [Invocations -> [Children -> Task]],
           \A u \in Invocations, j \in Children :
               tasks'[u][j].phase \in {"new", "submit"} => tasks'[u][j].phase = tasks[u][j].phase,
           NEW v \in Invocations, NEW p \in Invocation, p.room <= TotalTokens,
           inv' = [inv EXCEPT ![v] = p], p = inv[v] \/ InvOK(p, runs, results)
    PROVE  IInv'
<1> USE DEF IInv
<1>1. /\ inv' \in [Invocations -> Invocation]
      /\ \A u \in Invocations : inv'[u].room <= TotalTokens
      /\ JudgementsStand'
  BY InvPart
<1>2. TypeOK'
  BY <1>1 DEF TypeOK
<1>3. ItemsAreSound' /\ ReportsAreFinal' /\ AcceptedIsRecorded'
  BY DEF ItemsAreSound, ReportsAreFinal, AcceptedIsRecorded
<1>4. RecordedFirst'
  BY DEF RecordedFirst
<1>5. OnesOwn'
  BY DEF OnesOwn, Belongs
<1> QED
  BY <1>1, <1>2, <1>3, <1>4, <1>5

\* A step that writes a row that is not over, and with it perhaps its result.
LEMMA RowStep ==
    ASSUME IInv, NEW k \in Children, NEW row \in RunRecord,
           runs' = [runs EXCEPT ![k] = row],
           ~ Over(runs[k]), row.status # "absent",
           row.status = "running" => row.owner \in Invocations,
           row.status \in {"queued", "running"} => Belongs(k) \/ k \in late,
           \/ results' = results
           \/ row.status \in Terminal /\ \E r \in Outcomes : results' = [results EXCEPT ![k] = r],
           expired' \subseteq Children, faults' \in 0..MaxFaults,
           tasks' \in [Invocations -> [Children -> Task]],
           \A u \in Invocations, j \in Children :
               /\ tasks'[u][j].phase = "new" => tasks[u][j].phase = "new"
               /\ tasks'[u][j].phase = "submit" =>
                      tasks[u][j].phase = "submit" \/ results'[j] # NoResult,
           NEW v \in Invocations, NEW p \in Invocation, p.room <= TotalTokens,
           inv' = [inv EXCEPT ![v] = p], p = inv[v] \/ InvOK(p, runs', results'),
           UNCHANGED <<items, late, alone>>
    PROVE  IInv'
<1> USE DEF IInv
<1>1. /\ runs' \in [Children -> RunRecord] /\ runs'[k] = row
      /\ \A j \in Children : j # k => runs'[j] = runs[j]
  BY DEF TypeOK
<1>2. /\ results' \in [Children -> Results \cup {NoResult}]
      /\ \A j \in Children : j # k => results'[j] = results[j]
      /\ results'[k] # NoResult => results'[k] \in Outcomes /\ row.status \in Terminal
      /\ results[k] = NoResult
  <2>1. results[k] = NoResult
    BY DEF ReportsAreFinal, Over, Terminal
  <2> QED
    BY <2>1 DEF TypeOK, Results
<1>3. \A j \in Children : Over(runs[j]) => Over(runs'[j]) /\ results'[j] = results[j]
  BY <1>1, <1>2
<1>4. /\ inv' \in [Invocations -> Invocation]
      /\ \A u \in Invocations : inv'[u].room <= TotalTokens
      /\ JudgementsStand'
  BY <1>3, InvPart
<1>5. TypeOK'
  <2>1. \A j \in Children : runs'[j].status = "running" => runs'[j].owner \in Invocations
    BY <1>1 DEF TypeOK
  <2> QED
    BY <1>1, <1>2, <1>4, <2>1 DEF TypeOK
<1>6. ItemsAreSound'
  BY DEF ItemsAreSound
<1>7. ReportsAreFinal'
  BY <1>1, <1>2 DEF ReportsAreFinal
<1>8. AcceptedIsRecorded'
  <2>1. ASSUME NEW i \in Items, items[i].result \in Outcomes
        PROVE  /\ results'[Child(i, items[i])] = items[i].result
               /\ runs'[Child(i, items[i])].status \in Terminal
    <3>1. Child(i, items[i]) \in Children
      <4>1. items[i].result # NoResult
        BY <2>1, SchedulerAssumption DEF NoResult
      <4>2. items[i].attempt \in 1..2
        BY <4>1 DEF ItemsAreSound, ItemOK
      <4> QED
        BY <4>2 DEF Child, Children, Attempts
    <3>2. /\ results[Child(i, items[i])] = items[i].result
          /\ runs[Child(i, items[i])].status \in Terminal
      BY <2>1 DEF AcceptedIsRecorded
    <3> QED
      BY <1>1, <1>2, <3>1, <3>2 DEF Over, Terminal
  <2> QED
    BY <2>1 DEF AcceptedIsRecorded
<1>9. RecordedFirst'
  BY <1>2 DEF RecordedFirst
<1>10. OnesOwn'
  <2> SUFFICES ASSUME NEW j \in Children,
                      \/ runs'[j].status \in {"queued", "running"}
                      \/ runs'[j].status = "absent" /\ \E u \in Invocations : tasks'[u][j].phase = "new"
               PROVE  Belongs(j) \/ j \in late
    BY DEF OnesOwn, Belongs
  <2>1. CASE j = k
    BY <1>1, <2>1
  <2>2. CASE j # k
    BY <1>1, <2>2 DEF OnesOwn
  <2> QED
    BY <2>1, <2>2
<1> QED
  BY <1>4, <1>5, <1>6, <1>7, <1>8, <1>9, <1>10

\* A step that writes one item, and takes it from no run that may still work, unless
\* the run was given up before it had a row.
LEMMA ItemStep ==
    ASSUME IInv, NEW i \in Items, NEW new \in Item, ItemOK(new),
           items' = [items EXCEPT ![i] = new],
           new.result \in Outcomes => results[<<i, new.attempt>>] = new.result,
           late \subseteq late', late' \subseteq Children,
           \A a \in Attempts : items[i].claimed /\ items[i].attempt = a =>
               \/ new.claimed /\ new.attempt = a
               \/ <<i, a>> \in late'
               \/ Over(runs[<<i, a>>]),
           tasks' \in [Invocations -> [Children -> Task]],
           \A u \in Invocations, j \in Children :
               /\ tasks'[u][j].phase = "new" =>
                      \/ tasks[u][j].phase = "new"
                      \/ items'[j[1]].claimed /\ items'[j[1]].attempt = j[2]
                      \/ runs[j].status # "absent"
               /\ tasks'[u][j].phase = "submit" => tasks[u][j].phase = "submit",
           NEW v, NEW p \in Invocation, p.room <= TotalTokens,
           inv' = [inv EXCEPT ![v] = p], p = inv[v] \/ InvOK(p, runs, results),
           UNCHANGED <<runs, results, expired, faults, alone>>
    PROVE  IInv'
<1> USE DEF IInv
<1>1. /\ items' \in [Items -> Item] /\ items'[i] = new
      /\ \A j \in Items : j # i => items'[j] = items[j]
  BY DEF TypeOK
<1>2. /\ inv' \in [Invocations -> Invocation]
      /\ \A u \in Invocations : inv'[u].room <= TotalTokens
      /\ JudgementsStand'
  BY InvPart
<1>3. TypeOK'
  BY <1>1, <1>2 DEF TypeOK
<1>4. ItemsAreSound' /\ ReportsAreFinal' /\ RecordedFirst'
  BY <1>1 DEF ItemsAreSound, ReportsAreFinal, RecordedFirst
<1>5. AcceptedIsRecorded'
  <2>1. ASSUME NEW j \in Items, items'[j].result \in Outcomes
        PROVE  /\ results[Child(j, items'[j])] = items'[j].result
               /\ runs[Child(j, items'[j])].status \in Terminal
    <3>1. CASE j # i
      BY <1>1, <2>1, <3>1 DEF AcceptedIsRecorded
    <3>2. CASE j = i
      <4>1. <<i, new.attempt>> \in Children
        BY <1>1, <2>1, <3>2, SchedulerAssumption DEF ItemOK, NoResult, Children, Attempts
      <4>2. results[<<i, new.attempt>>] = new.result /\ new.result # NoResult
        BY <1>1, <2>1, <3>2, SchedulerAssumption DEF NoResult
      <4> QED
        BY <1>1, <3>2, <4>1, <4>2 DEF ReportsAreFinal, Child
    <3> QED
      BY <3>1, <3>2
  <2> QED
    BY <2>1 DEF AcceptedIsRecorded
<1>6. OnesOwn'
  <2> SUFFICES ASSUME NEW j \in Children,
                      \/ runs[j].status \in {"queued", "running"}
                      \/ runs[j].status = "absent" /\ \E u \in Invocations : tasks'[u][j].phase = "new"
               PROVE  (items'[j[1]].claimed /\ items'[j[1]].attempt = j[2]) \/ j \in late'
    BY DEF OnesOwn, Belongs
  <2>1. CASE items'[j[1]].claimed /\ items'[j[1]].attempt = j[2]
    BY <2>1
  <2>2. CASE Belongs(j) \/ j \in late
    <3>1. j[1] \in Items /\ j[2] \in Attempts /\ j = <<j[1], j[2]>>
      BY DEF Children
    <3>2. ~ Over(runs[j])
      BY DEF Over
    <3> QED
      BY <1>1, <2>2, <3>1, <3>2 DEF Belongs
  <2> QED
    BY <2>1, <2>2 DEF OnesOwn
<1> QED
  BY <1>2, <1>3, <1>4, <1>5, <1>6

-----------------------------------------------------------------------------
(* The records of an invocation. *)

PCs == {"idle", "look", "orphan", "settle", "weigh", "move", "fill", "unwind", "finish"} \cup AtAwait \cup Ended

\* An invocation without anything in mind is well formed wherever it stands.
LEMMA IdleIsInvocation ==
    /\ Idle \in Invocation /\ Idle.room = 0 /\ Idle.todo = {} /\ Idle.plan = NoPlan
    /\ \A i \in Items : ItemOK(NoPlan[i])
    /\ 0 <= TotalTokens
<1>1. NewItem(0, 0) \in Item
  BY SchedulerAssumption DEF NewItem, Item, Slots
<1>2. NoPlan \in [Items -> Item] /\ \A i \in Items : ItemOK(NoPlan[i])
  BY <1>1 DEF NoPlan, NewItem, ItemOK
<1>3. Idle \in Invocation /\ Idle.room = 0 /\ Idle.todo = {} /\ Idle.plan = NoPlan
  BY <1>2 DEF Idle, Invocation
<1> QED
  BY <1>2, <1>3, SchedulerAssumption

LEMMA IdleFacts ==
    ASSUME NEW pc \in PCs \ {"look", "orphan", "settle", "fill"}, NEW rows0, NEW results0
    PROVE  /\ [Idle EXCEPT !.pc = pc] \in Invocation
           /\ [Idle EXCEPT !.pc = pc].room <= TotalTokens
           /\ InvOK([Idle EXCEPT !.pc = pc], rows0, results0)
<1> DEFINE p == [Idle EXCEPT !.pc = pc]
<1>1. p \in Invocation /\ p.pc = pc /\ p.room = 0 /\ p.todo = {} /\ p.plan = NoPlan
  BY IdleIsInvocation DEF Invocation, PCs
<1> HIDE DEF p
<1>2. p.room <= TotalTokens /\ InvOK(p, rows0, results0)
  BY <1>1, IdleIsInvocation DEF InvOK
<1> QED
  BY <1>1, <1>2 DEF p

\* A coroutine that is not recovering goes anywhere but into a recovery.
LEMMA GoesFacts ==
    ASSUME NEW p \in Invocation, NEW pc \in PCs \ {"orphan", "settle", "fill"},
           NEW rows0, NEW results0, NEW rows1, NEW results1, InvOK(p, rows0, results0),
           p.pc \notin {"look", "orphan", "settle", "weigh"}
    PROVE  /\ [p EXCEPT !.pc = pc] \in Invocation
           /\ [p EXCEPT !.pc = pc].room = p.room
           /\ InvOK([p EXCEPT !.pc = pc], rows1, results1)
BY DEF Invocation, InvOK, PCs

\* The loop's top.
LEMMA TopFacts ==
    ASSUME IInv, NEW v \in Invocations, Top(v)
    PROVE  \E p \in Invocation : /\ inv' = [inv EXCEPT ![v] = p]
                                 /\ p.room <= TotalTokens
                                 /\ InvOK(p, runs, results)
<1> DEFINE todo == {i \in Unfinished(items) : items[i].claimed}
           p == [Idle EXCEPT !.pc = "look", !.plan = items, !.todo = todo]
<1>1. items \in [Items -> Item] /\ \A i \in Items : ItemOK(items[i])
  BY DEF IInv, TypeOK, ItemsAreSound
<1>2. todo \in SUBSET Items /\ \A i \in todo : items[i].claimed
  BY DEF Unfinished
<1>3. Idle \in Invocation /\ Idle.room = 0 /\ 0 <= TotalTokens
  BY IdleIsInvocation
<1>4. inv' = [inv EXCEPT ![v] = p]
  BY DEF Top
<1> HIDE DEF todo
<1>5. p \in Invocation /\ p.room = 0 /\ p.pc = "look" /\ p.plan = items /\ p.todo = todo
  BY <1>1, <1>2, <1>3 DEF Invocation
<1> HIDE DEF p
<1>6. InvOK(p, runs, results)
  BY <1>1, <1>2, <1>5 DEF InvOK
<1> QED
  BY <1>3, <1>4, <1>5, <1>6

\* On to the next item to judge.
LEMMA PassedFacts ==
    ASSUME IInv, NEW v \in Invocations, inv[v].pc \in {"look", "orphan", "settle"},
           NEW rows0, NEW results0
    PROVE  /\ Passed(v) \in Invocation
           /\ Passed(v).room = inv[v].room
           /\ InvOK(Passed(v), rows0, results0)
<1> DEFINE todo == inv[v].todo \ {Subject(v)}
           p == [inv[v] EXCEPT !.pc = "look", !.todo = todo, !.seen = NoResult]
<1>1. inv[v] \in Invocation /\ InvOK(inv[v], runs, results)
  BY DEF IInv, TypeOK, JudgementsStand
<1>2. todo \in SUBSET Items /\ todo \subseteq inv[v].todo
  BY <1>1 DEF Invocation
<1>3. Passed(v) = p
  BY DEF Passed, NoResult
<1> HIDE DEF todo
<1>4. p \in Invocation /\ p.room = inv[v].room /\ p.pc = "look" /\ p.plan = inv[v].plan /\ p.todo = todo
  BY <1>1, <1>2 DEF Invocation
<1> HIDE DEF p
<1>5. InvOK(p, rows0, results0)
  BY <1>1, <1>2, <1>4 DEF InvOK
<1> QED
  BY <1>3, <1>4, <1>5

\* Handing out goes on, or the coroutine waits.
LEMMA FillOrWaitFacts ==
    ASSUME NEW p \in Invocation, NEW active \in BOOLEAN, p.room <= TotalTokens, p.todo = {},
           \A i \in Items : ItemOK(p.plan[i]), NEW rows0, NEW results0
    PROVE  /\ FillOrWait(p, active) \in Invocation
           /\ FillOrWait(p, active).room <= TotalTokens
           /\ InvOK(FillOrWait(p, active), rows0, results0)
<1>1. CASE OpenSlots(p) # {}
  <2> DEFINE slot == Min(OpenSlots(p))
             q == [p EXCEPT !.pc = "fill", !.slot = slot]
  <2>1. OpenSlots(p) \in SUBSET Nat /\ OpenSlots(p) \subseteq Slots
    BY DEF OpenSlots, Invocation, Slots
  <2>2. slot \in Slots
    BY <1>1, <2>1, MinFacts
  <2>3. FillOrWait(p, active) = q
    BY <1>1 DEF FillOrWait
  <2>6. slot \in 0..2
    BY <2>2 DEF Slots
  <2> HIDE DEF slot
  <2>4. q \in Invocation /\ q.room = p.room /\ q.pc = "fill" /\ q.slot = slot
        /\ q.todo = {} /\ q.plan = p.plan
    BY <2>6 DEF Invocation
  <2> HIDE DEF q
  <2>5. InvOK(q, rows0, results0)
    BY <2>2, <2>4 DEF InvOK
  <2> QED
    BY <2>3, <2>4, <2>5
<1>2. CASE OpenSlots(p) = {}
  <2> DEFINE pc == IF active THEN "wait" ELSE "sleep"
  <2>1. FillOrWait(p, active) = [Idle EXCEPT !.pc = pc]
    BY <1>2 DEF FillOrWait
  <2>2. pc \in PCs \ {"look", "orphan", "settle", "fill"}
    BY DEF PCs, AtAwait
  <2> HIDE DEF pc
  <2> QED
    BY <2>1, <2>2, IdleFacts
<1> QED
  BY <1>1, <1>2

\* A task changes its phase.
LEMMA PhaseFacts ==
    ASSUME IInv, NEW v \in Invocations, NEW k \in Children,
           NEW phase \in {"new", "claim", "work", "submit", "done", "interrupted"}, Phase(v, k, phase)
    PROVE  /\ tasks' \in [Invocations -> [Children -> Task]]
           /\ tasks'[v][k].phase = phase
           /\ \A u \in Invocations, j \in Children :
                  u # v \/ j # k => tasks'[u][j] = tasks[u][j]
<1> DEFINE new == [tasks[v][k] EXCEPT !.phase = phase]
<1>1. tasks \in [Invocations -> [Children -> Task]]
  BY DEF IInv, TypeOK
<1>2. new \in Task /\ new.phase = phase
  BY <1>1 DEF Task
<1>3. tasks' = [tasks EXCEPT ![v][k] = new]
  BY <1>1 DEF Phase
<1> HIDE DEF new
<1> QED
  BY <1>1, <1>2, <1>3

\* Or is forgotten.
LEMMA NoTaskFacts ==
    NoTask \in Task /\ NoTask.phase = "none"
BY SchedulerAssumption DEF NoTask, Task, Slots

-----------------------------------------------------------------------------
(* The coroutine.                                                           *)

LEMMA InitIInv == Init => IInv
<1> SUFFICES ASSUME Init PROVE IInv
  OBVIOUS
<1>1. PICK slot \in [Items -> Slots] : items = [i \in Items |-> NewItem(slot[i], 1)]
  BY DEF Init
<1>2. /\ items \in [Items -> Item]
      /\ \A i \in Items : items[i].result = NoResult /\ ItemOK(items[i])
  BY <1>1, SchedulerAssumption DEF NewItem, Item, ItemOK
<1>3. AbsentRun.status = "absent" /\ AbsentRun \in RunRecord
  BY FreshType DEF AbsentRun, Absent
<1>4. /\ Idle \in Invocation /\ Idle.room <= TotalTokens
      /\ InvOK(Idle, runs, results)
  BY IdleIsInvocation DEF Idle, InvOK
<1>5. TypeOK
  BY <1>2, <1>3, <1>4, NoTaskFacts, SchedulerAssumption DEF Init, TypeOK
<1>6. ReportsAreFinal /\ RecordedFirst /\ OnesOwn
  BY <1>3, NoTaskFacts DEF Init, ReportsAreFinal, RecordedFirst, OnesOwn
<1>7. JudgementsStand
  BY <1>4 DEF Init, JudgementsStand
<1>8. ItemsAreSound /\ AcceptedIsRecorded
  BY <1>2, SchedulerAssumption DEF ItemsAreSound, AcceptedIsRecorded, NoResult
<1> QED
  BY <1>5, <1>6, <1>7, <1>8 DEF IInv

\* What a step reads of its own invocation.
LEMMA Own ==
    ASSUME IInv, NEW v \in Invocations
    PROVE  /\ inv[v] \in Invocation /\ inv[v].room <= TotalTokens
           /\ InvOK(inv[v], runs, results)
           /\ inv = [inv EXCEPT ![v] = inv[v]]
           /\ faults \in 0..MaxFaults /\ expired \subseteq Children /\ alone \subseteq Invocations
           /\ late \subseteq Children
           /\ tasks \in [Invocations -> [Children -> Task]]
BY DEF IInv, TypeOK, JudgementsStand

LEMMA BeginStep == ASSUME IInv, NEW v \in Invocations, Begin(v) PROVE IInv'
<1>1. PICK p \in Invocation : inv' = [inv EXCEPT ![v] = p] /\ p.room <= TotalTokens
                              /\ InvOK(p, runs, results)
  BY TopFacts DEF Begin
<1>2. alone' \subseteq Invocations
  BY Own DEF Begin
<1>3. UNCHANGED <<items, runs, results, expired, tasks, faults, late>>
  BY DEF Begin, rows
<1> QED
  BY <1>1, <1>2, <1>3, Own, QuietStep

LEMMA LookStep == ASSUME IInv, NEW v \in Invocations, Look(v) PROVE IInv'
<1> DEFINE k == SubjectRun(v)
           judged == [inv[v] EXCEPT !.pc = "settle", !.seen = results[k]]
           absent == [judged EXCEPT !.seen = "absent"]
           orphan == [judged EXCEPT !.pc = "orphan"]
<1>1. inv[v].pc = "look" /\ inv[v].todo # {}
      /\ UNCHANGED <<items, runs, results, expired, tasks, faults, late, alone>>
  BY DEF Look, At, rows, observer
<1>2. inv[v] \in Invocation /\ InvOK(inv[v], runs, results)
  BY Own
<1>3. k = Judged(inv[v]) /\ k \in Children
  BY <1>1, <1>2, JudgedIsChild DEF SubjectRun, Subject, Child, Judged
<1>4. results[k] \in Results \cup {NoResult}
  BY <1>3 DEF IInv, TypeOK
<1>5. \/ inv' = [inv EXCEPT ![v] = Passed(v)]
      \/ inv' = [inv EXCEPT ![v] = absent]
      \/ inv' = [inv EXCEPT ![v] = orphan] /\ runs[k].status = "running"
      \/ inv' = [inv EXCEPT ![v] = judged] /\ Over(runs[k])
  <2> DEFINE verdict == CASE runs[k].status = "absent" ->
                             IF inv[v].plan[Subject(v)].aged THEN absent ELSE Passed(v)
                        [] runs[k].status = "running" ->
                             IF Live(k) THEN Passed(v) ELSE orphan
                        [] runs[k].status = "queued" -> Passed(v)
                        [] OTHER -> judged
  <2>1. inv' = [inv EXCEPT ![v] = verdict]
    BY DEF Look
  <2> HIDE DEF k, judged, absent, orphan
  <2>2. \/ verdict = Passed(v) \/ verdict = absent
        \/ verdict = orphan /\ runs[k].status = "running"
        \/ verdict = judged /\ Over(runs[k])
    BY DEF Over
  <2> HIDE DEF verdict
  <2> QED
    BY <2>1, <2>2
<1> HIDE DEF k
<1>6. /\ judged \in Invocation /\ absent \in Invocation /\ orphan \in Invocation
      /\ judged.room = inv[v].room /\ absent.room = inv[v].room /\ orphan.room = inv[v].room
  BY <1>2, <1>4 DEF Invocation
<1>7. /\ judged.plan = inv[v].plan /\ judged.todo = inv[v].todo
      /\ judged.pc = "settle" /\ judged.seen = results[k]
      /\ absent.plan = inv[v].plan /\ absent.todo = inv[v].todo
      /\ absent.pc = "settle" /\ absent.seen = "absent"
      /\ orphan.plan = inv[v].plan /\ orphan.todo = inv[v].todo
      /\ orphan.pc = "orphan" /\ orphan.seen = results[k]
  BY <1>2 DEF Invocation
<1> HIDE DEF judged, absent, orphan
<1>8. InvOK(absent, runs, results)
  BY <1>1, <1>2, <1>7 DEF InvOK
<1>9. runs[k].status = "running" => InvOK(orphan, runs, results)
  <2>1. runs[k].status = "running" => results[k] = NoResult
    BY <1>3 DEF IInv, ReportsAreFinal, Terminal
  <2> QED
    BY <1>1, <1>2, <1>7, <2>1 DEF InvOK
<1>10. Over(runs[k]) => InvOK(judged, runs, results)
  <2>1. Judged(judged) = k
    BY <1>3, <1>7 DEF Judged
  <2> QED
    BY <1>1, <1>2, <1>7, <2>1 DEF InvOK
<1>11. /\ Passed(v) \in Invocation /\ Passed(v).room = inv[v].room
       /\ InvOK(Passed(v), runs, results)
  BY <1>1, PassedFacts
<1>12. PICK p \in Invocation : inv' = [inv EXCEPT ![v] = p] /\ p.room = inv[v].room
                               /\ InvOK(p, runs, results)
  BY <1>5, <1>6, <1>8, <1>9, <1>10, <1>11
<1> QED
  BY <1>1, <1>12, Own, QuietStep

LEMMA OrphanStep == ASSUME IInv, NEW v \in Invocations, Orphan(v) PROVE IInv'
<1> DEFINE k == SubjectRun(v)
           p == [inv[v] EXCEPT !.pc = "settle"]
<1>1. inv[v].pc = "orphan" /\ UNCHANGED <<items, results, expired, tasks, faults, late, alone>>
  BY DEF Orphan, At, observer
<1>2. inv[v] \in Invocation /\ InvOK(inv[v], runs, results) /\ inv[v].todo # {}
  BY <1>1, Own DEF InvOK
<1>3. k = Judged(inv[v]) /\ k \in Children
  BY <1>2, JudgedIsChild DEF SubjectRun, Subject, Child, Judged
<1> HIDE DEF k
<1>4. CASE MayTransition(runs[k], "orphaned", {"running"}, NoOwner)
  <2> DEFINE row == Transitioned(runs[k], "orphaned")
  <2>1. runs' = [runs EXCEPT ![k] = row] /\ inv' = [inv EXCEPT ![v] = p]
    BY <1>4 DEF Orphan, Goes, OrphanedRow, k
  <2>2. runs[k] \in RunRecord /\ runs \in [Children -> RunRecord] /\ runs[k].status = "running"
    BY <1>3, <1>4 DEF IInv, TypeOK, MayTransition
  <2>3. row \in RunRecord /\ row.status = "orphaned"
    <3>1. "orphaned" \in Statuses
      BY DEF Statuses
    <3> QED
      BY <2>2, <3>1, TransitionedType, TransitionedFields
  <2> HIDE DEF row
  <2>4. /\ p \in Invocation /\ p.room = inv[v].room /\ p.pc = "settle"
        /\ p.plan = inv[v].plan /\ p.todo = inv[v].todo /\ p.seen = NoResult
    BY <1>1, <1>2 DEF Invocation, InvOK
  <2> HIDE DEF p
  <2>5. InvOK(p, runs', results')
    <3>1. Judged(p) = k
      BY <1>3, <2>4 DEF Judged
    <3>2. Over(runs'[k])
      BY <1>3, <2>1, <2>2, <2>3 DEF Over
    <3>3. results[k] = NoResult
      BY <1>3, <2>2 DEF IInv, ReportsAreFinal, Terminal
    <3> QED
      BY <1>1, <1>2, <2>4, <3>1, <3>2, <3>3 DEF InvOK
  <2>6. ~ Over(runs[k])
    BY <2>2 DEF Over
  <2> QED
    BY <1>1, <1>3, <2>1, <2>3, <2>4, <2>5, <2>6, Own, RowStep
<1>5. CASE ~ MayTransition(runs[k], "orphaned", {"running"}, NoOwner)
  <2>1. runs' = runs /\ inv' = [inv EXCEPT ![v] = Passed(v)]
    BY <1>5 DEF Orphan, k
  <2>2. /\ Passed(v) \in Invocation /\ Passed(v).room = inv[v].room
        /\ InvOK(Passed(v), runs, results)
    BY <1>1, PassedFacts
  <2> QED
    BY <1>1, <2>1, <2>2, Own, QuietStep
<1> QED
  BY <1>4, <1>5

\* A result for the item's current run.
LEMMA FinishStep ==
    ASSUME IInv, NEW k \in Children, NEW item, item.attempt = k[2], NEW result \in Results,
           result \in Outcomes => results[k] = result,
           Finish(k[1], item, result),
           late \subseteq late', late' \subseteq Children,
           tasks' \in [Invocations -> [Children -> Task]],
           \A u \in Invocations, j \in Children :
               tasks'[u][j].phase \in {"new", "submit"} => tasks'[u][j].phase = tasks[u][j].phase,
           NEW v \in Invocations, NEW p \in Invocation, p.room <= TotalTokens,
           inv' = [inv EXCEPT ![v] = p], p = inv[v] \/ InvOK(p, runs, results),
           UNCHANGED <<runs, results, expired, faults, alone>>
    PROVE  IInv'
<1> DEFINE i == k[1]
<1>1. i \in Items /\ k[2] \in Attempts /\ items[i] \in Item /\ ItemOK(items[i])
      /\ items \in [Items -> Item] /\ k = <<i, k[2]>>
  BY DEF IInv, TypeOK, ItemsAreSound, Children
<1> HIDE DEF i
<1>2. CASE IsCurrent(i, item)
  <2> DEFINE new == [items[i] EXCEPT !.result = result]
  <2>1. items' = [items EXCEPT ![i] = new]
    BY <1>1, <1>2 DEF Finish, i
  <2>2. new \in Item /\ new.result = result /\ new.claimed = items[i].claimed
        /\ new.attempt = items[i].attempt
    BY <1>1 DEF Item
  <2> HIDE DEF new
  <2>3. ItemOK(new) /\ new.claimed /\ new.attempt = k[2]
    BY <1>1, <1>2, <2>2 DEF ItemOK, IsCurrent
  <2>4. new.result \in Outcomes => results[<<i, new.attempt>>] = new.result
    BY <1>1, <2>2, <2>3
  <2>5. \A a \in Attempts : items[i].claimed /\ items[i].attempt = a => new.claimed /\ new.attempt = a
    BY <2>2
  <2> QED
    BY <1>1, <2>1, <2>2, <2>3, <2>4, <2>5, ItemStep
<1>3. CASE ~ IsCurrent(i, item)
  <2>1. items' = [items EXCEPT ![i] = items[i]]
    BY <1>1, <1>3 DEF Finish, i
  <2>2. items[i].result \in Outcomes => results[<<i, items[i].attempt>>] = items[i].result
    BY <1>1 DEF IInv, AcceptedIsRecorded, Child
  <2> QED
    BY <1>1, <2>1, <2>2, ItemStep
<1> QED
  BY <1>2, <1>3

LEMMA SettleStep == ASSUME IInv, NEW v \in Invocations, Settle(v) PROVE IInv'
<1> DEFINE i == Subject(v)
           item == inv[v].plan[i]
           k == Judged(inv[v])
           seen == inv[v].seen
<1>1. inv[v].pc = "settle" /\ UNCHANGED <<runs, results, expired, tasks, faults, alone>>
      /\ inv' = [inv EXCEPT ![v] = Passed(v)]
  BY DEF Settle, At, rows
<1>2. inv[v] \in Invocation /\ InvOK(inv[v], runs, results) /\ inv[v].todo # {}
      /\ (seen # "absent" => Over(runs[k]) /\ results[k] = seen)
  BY <1>1, Own DEF InvOK
<1>3. i \in Items /\ item \in Item /\ item.claimed /\ item.attempt \in 1..2 /\ k \in Children
      /\ k = <<i, item.attempt>> /\ Child(i, item) = k
  BY <1>2, JudgedIsChild DEF Subject, Child, Judged
<1>4. /\ Passed(v) \in Invocation /\ Passed(v).room = inv[v].room
      /\ InvOK(Passed(v), runs, results)
  BY <1>1, PassedFacts
<1>5. late' = (IF seen = "absent" /\ items' # items THEN late \cup {k} ELSE late)
  BY <1>3 DEF Settle
<1>6. late \subseteq late' /\ late' \subseteq Children
  BY <1>3, <1>5, Own
<1>7. \/ seen \in Outcomes /\ Finish(i, item, seen)
      \/ Finish(i, item, "exhausted")
      \/ seen \notin Outcomes /\ ~ Exhausted(item) /\ Requeue(i, item)
  BY DEF Settle, Resubmits
<1> HIDE DEF i, item, k, seen
<1>8. CASE \E r \in Results : (r \in Outcomes => results[k] = r) /\ Finish(i, item, r)
  <2>1. k[1] = i /\ item.attempt = k[2]
    BY <1>3
  <2> QED
    BY <1>1, <1>3, <1>4, <1>6, <1>8, <2>1, Own, FinishStep
<1>9. CASE seen \notin Outcomes /\ ~ Exhausted(item) /\ Requeue(i, item)
  <2>1. items[i] \in Item /\ ItemOK(items[i]) /\ items \in [Items -> Item]
    BY <1>3 DEF IInv, TypeOK, ItemsAreSound
  <2>2. CASE IsCurrent(i, item)
    <3> DEFINE new == [items[i] EXCEPT !.claimed = FALSE, !.aged = FALSE]
    <3>1. items' = [items EXCEPT ![i] = new]
      BY <1>9, <2>1, <2>2 DEF Requeue
    <3>2. new \in Item /\ new.result = items[i].result /\ ~ new.claimed
          /\ new.attempt = items[i].attempt
      BY <2>1 DEF Item
    <3> HIDE DEF new
    <3>3. items[i].claimed /\ items[i].result = NoResult /\ items[i].attempt = item.attempt
      BY <2>2 DEF IsCurrent
    <3>4. ItemOK(new)
      BY <1>3, <1>9, <3>2, <3>3 DEF ItemOK, Exhausted
    <3>5. new.result \notin Outcomes
      BY <3>2, <3>3, SchedulerAssumption DEF NoResult
    <3>6. items' # items
      BY <1>3, <2>1, <3>1, <3>2, <3>3
    <3>7. k \in late' \/ Over(runs[k])
      BY <1>2, <1>5, <3>6
    <3>8. \A a \in Attempts : items[i].claimed /\ items[i].attempt = a =>
              <<i, a>> \in late' \/ Over(runs[<<i, a>>])
      BY <1>3, <3>3, <3>7
    <3> QED
      BY <1>1, <1>3, <1>4, <1>6, <3>1, <3>2, <3>4, <3>5, <3>8, Own, ItemStep
  <2>3. CASE ~ IsCurrent(i, item)
    <3>1. items' = [items EXCEPT ![i] = items[i]]
      BY <1>9, <2>1, <2>3 DEF Requeue
    <3>2. items[i].result \in Outcomes => results[<<i, items[i].attempt>>] = items[i].result
      BY <1>3 DEF IInv, AcceptedIsRecorded, Child
    <3> QED
      BY <1>1, <1>3, <1>4, <1>6, <2>1, <3>1, <3>2, Own, ItemStep
  <2> QED
    BY <2>2, <2>3
<1>10. "exhausted" \in Results /\ "exhausted" \notin Outcomes /\ Outcomes \subseteq Results
       /\ "absent" \notin Outcomes
  BY SchedulerAssumption DEF Results
<1> QED
  BY <1>2, <1>7, <1>8, <1>9, <1>10

\* An invocation after it read the plan, and after a row.
LEMMA SurveyedFacts ==
    ASSUME NEW p \in Invocation, NEW plan \in [Items -> Item], NEW todo \in SUBSET Items,
           NEW room \in Int, NEW busy \in SUBSET Slots,
           NEW q, q = [p EXCEPT !.pc = "weigh", !.plan = plan, !.todo = todo, !.slot = 0,
                                !.room = room, !.busy = busy]
    PROVE  q \in Invocation
<1>1. 0 \in 0..2
  OBVIOUS
<1> QED
  BY <1>1 DEF Invocation

LEMMA SurveyStep == ASSUME IInv, NEW v \in Invocations, Survey(v) PROVE IInv'
<1> DEFINE others == {i \in Unfinished(items) : /\ items[i].claimed
                                                /\ Child(i, items[i]) \notin Active(v)}
           room == TotalTokens - Spent(items) - Limit * Cardinality(Active(v))
           busy == {tasks[v][k].slot : k \in Active(v)}
           surveyed == [inv[v] EXCEPT !.pc = "weigh", !.plan = items, !.todo = others, !.slot = 0,
                             !.room = room, !.busy = busy]
<1>1. /\ inv' = [inv EXCEPT ![v] = IF Unfinished(items) = {} THEN [Idle EXCEPT !.pc = "finish"]
                                   ELSE surveyed]
      /\ UNCHANGED <<items, runs, results, expired, tasks, faults, late, alone>>
  BY DEF Survey, rows, observer
<1>2. items \in [Items -> Item] /\ \A i \in Items : ItemOK(items[i])
  BY DEF IInv, TypeOK, ItemsAreSound
<1>3. room \in Int /\ room <= TotalTokens
  <2> DEFINE reserved == Limit * Cardinality(Active(v))
  <2>1. Cardinality(Active(v)) \in Nat /\ Limit \in Nat
    BY Counts DEF Active
  <2>2. Spent(items) \in Nat /\ TotalTokens \in Nat
    BY SpentIsANumber, SchedulerAssumption
  <2>3. reserved \in Nat
    BY <2>1
  <2>4. room = TotalTokens - Spent(items) - reserved
    OBVIOUS
  <2> HIDE DEF reserved, room
  <2> QED
    BY <2>2, <2>3, <2>4
<1>4. busy \in SUBSET Slots
  BY <1>2, Own DEF Active, Task
<1>5. others \in SUBSET Items /\ \A i \in others : items[i].claimed
  BY DEF Unfinished
<1> HIDE DEF room, busy, others
<1>0. inv[v] \in Invocation
  BY Own
<1>6. /\ surveyed.room = room /\ surveyed.todo = others
      /\ surveyed.plan = items /\ surveyed.pc = "weigh"
  BY <1>0 DEF Invocation
<1>7. surveyed \in Invocation
  <2>1. surveyed = [inv[v] EXCEPT !.pc = "weigh", !.plan = items, !.todo = others, !.slot = 0,
                             !.room = room, !.busy = busy]
    OBVIOUS
  <2> HIDE DEF surveyed
  <2> QED
    BY <1>0, <1>2, <1>3, <1>4, <1>5, <2>1, SurveyedFacts
<1> HIDE DEF surveyed
<1>8. InvOK(surveyed, runs, results)
  BY <1>2, <1>5, <1>6 DEF InvOK
<1>9. /\ [Idle EXCEPT !.pc = "finish"] \in Invocation
      /\ [Idle EXCEPT !.pc = "finish"].room <= TotalTokens
      /\ InvOK([Idle EXCEPT !.pc = "finish"], runs, results)
  <2>1. "finish" \in PCs \ {"look", "orphan", "settle", "fill"}
    BY DEF PCs
  <2> QED
    BY <2>1, IdleFacts
<1>10. PICK p \in Invocation : inv' = [inv EXCEPT ![v] = p] /\ p.room <= TotalTokens
                               /\ InvOK(p, runs, results)
  BY <1>1, <1>3, <1>6, <1>7, <1>8, <1>9
<1> QED
  BY <1>1, <1>10, Own, QuietStep

\* What a look at one row makes of an invocation that weighs.
Next1(v) ==
    IF Live(SubjectRun(v))
    THEN [inv[v] EXCEPT !.todo = @ \ {Subject(v)}, !.room = @ - Limit,
                        !.busy = @ \cup {inv[v].plan[Subject(v)].slot}]
    ELSE [inv[v] EXCEPT !.todo = @ \ {Subject(v)}]

LEMMA NextFacts ==
    ASSUME IInv, NEW v \in Invocations, inv[v].pc = "weigh", inv[v].todo # {}
    PROVE  /\ Next1(v) \in Invocation
           /\ Next1(v).todo = inv[v].todo \ {Subject(v)}
           /\ Next1(v).room <= inv[v].room
           /\ Next1(v).pc = "weigh" /\ Next1(v).plan = inv[v].plan /\ Next1(v).slot = inv[v].slot
           /\ Subject(v) \in inv[v].todo
           /\ ~ Live(SubjectRun(v)) => Next1(v).room = inv[v].room /\ Next1(v).busy = inv[v].busy
<1> DEFINE i == Subject(v)
           todo == inv[v].todo \ {i}
           room == inv[v].room - Limit
           busy == inv[v].busy \cup {inv[v].plan[i].slot}
<1>1. inv[v] \in Invocation
  BY Own
<1>2. i \in inv[v].todo
  <2>1. inv[v].todo \in SUBSET Nat
    BY <1>1, ItemsAreNumbered DEF Invocation
  <2> QED
    BY <2>1, MinFacts DEF Subject
<1>3. inv[v].plan[i] \in Item /\ todo \in SUBSET Items /\ inv[v].busy \in SUBSET Slots
      /\ inv[v].room \in Int
  BY <1>1, <1>2 DEF Invocation
<1>4. busy \in SUBSET Slots
  BY <1>3 DEF Item
<1>5. room \in Int /\ room <= inv[v].room
  BY <1>3, Counts
<1>6. Next1(v) = IF Live(SubjectRun(v))
                 THEN [inv[v] EXCEPT !.todo = todo, !.room = room, !.busy = busy]
                 ELSE [inv[v] EXCEPT !.todo = todo, !.room = inv[v].room, !.busy = inv[v].busy]
  BY <1>1 DEF Next1, Invocation
<1> HIDE DEF room, busy
<1>7. todo = inv[v].todo \ {Subject(v)}
  OBVIOUS
<1> HIDE DEF todo
<1>8. CASE Live(SubjectRun(v))
  <2>1. Next1(v) = [inv[v] EXCEPT !.todo = todo, !.room = room, !.busy = busy]
    BY <1>6, <1>8
  <2>2. Next1(v) \in Invocation
    BY <1>1, <1>3, <1>4, <1>5, <2>1 DEF Invocation
  <2>3. /\ Next1(v).todo = todo /\ Next1(v).room = room /\ Next1(v).pc = inv[v].pc
        /\ Next1(v).plan = inv[v].plan /\ Next1(v).slot = inv[v].slot
    BY <1>1, <2>1 DEF Invocation
  <2> QED
    BY <1>2, <1>5, <1>7, <1>8, <2>2, <2>3
<1>9. CASE ~ Live(SubjectRun(v))
  <2>1. Next1(v) = [inv[v] EXCEPT !.todo = todo, !.room = inv[v].room, !.busy = inv[v].busy]
    BY <1>6, <1>9
  <2>2. Next1(v) \in Invocation
    BY <1>1, <1>3, <2>1 DEF Invocation
  <2>3. /\ Next1(v).todo = todo /\ Next1(v).room = inv[v].room /\ Next1(v).pc = inv[v].pc
        /\ Next1(v).plan = inv[v].plan /\ Next1(v).slot = inv[v].slot /\ Next1(v).busy = inv[v].busy
    BY <1>1, <2>1 DEF Invocation
  <2> QED
    BY <1>2, <1>3, <1>7, <2>2, <2>3
<1> QED
  BY <1>8, <1>9

LEMMA WeighStep == ASSUME IInv, NEW v \in Invocations, Weigh(v) PROVE IInv'
<1> DEFINE p == inv[v]
           move == [p EXCEPT !.pc = "move"]
<1>1. p.pc = "weigh" /\ UNCHANGED <<items, runs, results, expired, tasks, faults, late, alone>>
  BY DEF Weigh, At, rows, observer
<1>2. \/ p.todo # {} /\ inv' = [inv EXCEPT ![v] = Next1(v)]
      \/ p.todo = {} /\ inv' = [inv EXCEPT ![v] = move]
      \/ p.todo = {} /\ \E active \in BOOLEAN : inv' = [inv EXCEPT ![v] = FillOrWait(p, active)]
  <2> DEFINE active == Active(v) # {}
  <2>1. inv' = [inv EXCEPT ![v] =
              IF p.todo # {} THEN Next1(v)
              ELSE IF Active(v) # {} /\ Movable(p) # {} THEN move
              ELSE FillOrWait(p, active)]
    BY DEF Weigh, Next1
  <2>2. active \in BOOLEAN
    OBVIOUS
  <2> HIDE DEF p, active, move
  <2> QED
    BY <2>1, <2>2
<1>3. p \in Invocation /\ InvOK(p, runs, results) /\ p.room <= TotalTokens
  BY Own
<1>4. p.room \in Int /\ TotalTokens \in Int /\ \A i \in Items : ItemOK(p.plan[i])
  BY <1>3, SchedulerAssumption DEF Invocation, InvOK
<1>5. ASSUME p.todo # {}
      PROVE  Next1(v) \in Invocation /\ Next1(v).room <= TotalTokens /\ InvOK(Next1(v), runs, results)
  <2>1. /\ Next1(v) \in Invocation /\ Next1(v).pc = "weigh" /\ Next1(v).plan = p.plan
        /\ Next1(v).todo = p.todo \ {Subject(v)} /\ Next1(v).room <= p.room
    BY <1>1, <1>5, NextFacts
  <2>2. Next1(v).room \in Int
    BY <2>1 DEF Invocation
  <2>3. InvOK(Next1(v), runs, results)
    BY <1>3, <2>1 DEF InvOK
  <2> QED
    BY <1>3, <1>4, <2>1, <2>2, <2>3
<1>6. ASSUME p.todo = {}
      PROVE  move \in Invocation /\ move.room <= TotalTokens /\ InvOK(move, runs, results)
  <2>1. move \in Invocation /\ move.room = p.room /\ move.pc = "move" /\ move.todo = {}
        /\ move.plan = p.plan
    BY <1>3, <1>6 DEF Invocation
  <2> HIDE DEF move
  <2> QED
    BY <1>3, <1>4, <2>1 DEF InvOK
<1>7. ASSUME p.todo = {}, NEW active \in BOOLEAN
      PROVE  /\ FillOrWait(p, active) \in Invocation
             /\ FillOrWait(p, active).room <= TotalTokens
             /\ InvOK(FillOrWait(p, active), runs, results)
  BY <1>3, <1>4, <1>7, FillOrWaitFacts
<1> HIDE DEF move
<1>8. PICK q \in Invocation : inv' = [inv EXCEPT ![v] = q] /\ q.room <= TotalTokens
                              /\ InvOK(q, runs, results)
  BY <1>2, <1>5, <1>6, <1>7
<1> QED
  BY <1>1, <1>8, Own, QuietStep

LEMMA MoveStep == ASSUME IInv, NEW v \in Invocations, Move(v) PROVE IInv'
<1>1. /\ inv[v].pc = "move" /\ UNCHANGED <<runs, results, expired, tasks, faults, late, alone>>
      /\ \E plan \in {inv[v].plan, items'} :
             inv' = [inv EXCEPT ![v] = FillOrWait([inv[v] EXCEPT !.plan = plan], TRUE)]
  <2>1. inv[v] = [inv[v] EXCEPT !.plan = inv[v].plan]
    BY Own DEF Invocation
  <2> QED
    BY <2>1 DEF Move, At, rows, observer
<1>0. PICK plan \in {inv[v].plan, items'} :
             inv' = [inv EXCEPT ![v] = FillOrWait([inv[v] EXCEPT !.plan = plan], TRUE)]
  BY <1>1
<1> DEFINE p == [inv[v] EXCEPT !.plan = plan]
           q == FillOrWait(p, TRUE)
<1>2. inv[v] \in Invocation /\ InvOK(inv[v], runs, results) /\ inv[v].room <= TotalTokens
      /\ inv[v].todo = {}
  BY <1>1, Own DEF InvOK
<1>3. items \in [Items -> Item] /\ \A i \in Items : ItemOK(items[i])
  BY DEF IInv, TypeOK, ItemsAreSound
<1>4. PICK i \in Items : \/ items' = [items EXCEPT ![i] = items[i]]
                         \/ Revision(items) < MaxRevision /\ MayMove(i, inv[v].plan) /\ items' = Moved(i)
  <2>1. Items # {}
    BY ItemsAreNumbered
  <2> QED
    BY <1>3, <2>1 DEF Move, Movable, Unfinished
<1>5. \E new \in Item : /\ items' = [items EXCEPT ![i] = new] /\ ItemOK(new)
                        /\ new.result = items[i].result /\ new.claimed = items[i].claimed
                        /\ new.attempt = items[i].attempt
  <2>1. CASE items' = [items EXCEPT ![i] = items[i]]
    BY <1>3, <2>1
  <2>2. CASE Revision(items) < MaxRevision /\ MayMove(i, inv[v].plan) /\ items' = Moved(i)
    <3> DEFINE slot == 1 - items[i].slot
               revision == Revision(items) + 1
               new == [items[i] EXCEPT !.slot = slot, !.revision = revision]
    <3>1. Revision(items) \in Nat
      <4> DEFINE S == {items[j].revision : j \in Items}
      <4>1. S \in SUBSET Nat /\ S # {} /\ MaxRevision \in Nat /\ \A x \in S : x <= MaxRevision
        BY <1>3, ItemsAreNumbered, SchedulerAssumption DEF Item
      <4>2. Max(S) \in S
        BY <4>1, MaxFacts
      <4> QED
        BY <4>1, <4>2 DEF Revision
    <3>2. revision \in 0..MaxRevision /\ slot \in Slots
      BY <1>3, <2>2, <3>1, SchedulerAssumption DEF Item, Slots
    <3>3. items' = [items EXCEPT ![i] = new]
      BY <1>3, <2>2 DEF Moved
    <3> HIDE DEF slot, revision
    <3>4. new \in Item /\ new.result = items[i].result /\ new.claimed = items[i].claimed
          /\ new.attempt = items[i].attempt
      BY <1>3, <3>2 DEF Item
    <3> HIDE DEF new
    <3>5. ItemOK(new)
      BY <1>3, <3>4 DEF ItemOK
    <3> QED
      BY <3>3, <3>4, <3>5
  <2> QED
    BY <1>4, <2>1, <2>2
<1>6. items' \in [Items -> Item] /\ \A j \in Items : ItemOK(items'[j])
  BY <1>3, <1>5
<1>11. inv' = [inv EXCEPT ![v] = q]
  BY <1>0
<1>12. plan \in [Items -> Item] /\ \A j \in Items : ItemOK(plan[j])
  BY <1>2, <1>6 DEF Invocation, InvOK
<1>7. p \in Invocation /\ p.room = inv[v].room /\ p.todo = {} /\ p.plan = plan
  BY <1>2, <1>12 DEF Invocation
<1> HIDE DEF p
<1>8. q \in Invocation /\ q.room <= TotalTokens /\ InvOK(q, runs, results)
  <2>1. p.room <= TotalTokens /\ \A j \in Items : ItemOK(p.plan[j])
    BY <1>2, <1>7, <1>12
  <2> QED
    BY <1>7, <2>1, FillOrWaitFacts
<1> HIDE DEF q
<1>9. items[i].result \in Outcomes => results[<<i, items[i].attempt>>] = items[i].result
  BY DEF IInv, AcceptedIsRecorded, Child
<1>10. PICK new \in Item : /\ items' = [items EXCEPT ![i] = new] /\ ItemOK(new)
                           /\ new.result = items[i].result /\ new.claimed = items[i].claimed
                           /\ new.attempt = items[i].attempt
  BY <1>5
<1> QED
  BY <1>1, <1>8, <1>9, <1>10, <1>11, Own, ItemStep

\* Which item is handed out, and for which run.
LEMMA FillStep == ASSUME IInv, NEW v \in Invocations, Fill(v) PROVE IInv'
<1> DEFINE slot == inv[v].slot
           candidates == Candidates(inv[v], slot)
           i == Min(IF candidates = {} THEN Items ELSE candidates)
           claims == i \in candidates /\ ~ inv[v].plan[i].claimed /\ MayBeClaimed(i, slot)
           starts == claims \/ (i \in candidates /\ inv[v].plan[i].claimed)
           claimed == [items[i] EXCEPT !.claimed = TRUE, !.attempt = @ + 1]
           item == IF claims THEN claimed ELSE inv[v].plan[i]
           task == [phase |-> "new", slot |-> slot, revision |-> item.revision]
           room == IF starts THEN inv[v].room - Limit ELSE inv[v].room
           p == [inv[v] EXCEPT !.slot = slot + 1, !.room = room]
           q == FillOrWait(p, starts \/ Active(v) # {})
           k == Child(i, item)
           new == IF claims THEN claimed ELSE items[i]
<1>1. inv[v].pc = "fill" /\ UNCHANGED <<runs, results, expired, faults, late, alone>>
  BY DEF Fill, At, rows, observer
<1>2. inv[v] \in Invocation /\ InvOK(inv[v], runs, results) /\ inv[v].room <= TotalTokens
      /\ inv[v].todo = {} /\ slot \in Slots
  BY <1>1, Own DEF InvOK
<1>3. items \in [Items -> Item] /\ \A j \in Items : ItemOK(items[j])
  BY DEF IInv, TypeOK, ItemsAreSound
<1>4. /\ items' = IF claims THEN [items EXCEPT ![i] = claimed] ELSE items
      /\ tasks' = IF starts THEN [tasks EXCEPT ![v][k] = task] ELSE tasks
      /\ inv' = [inv EXCEPT ![v] = q]
  BY Zenon DEF Fill
<1>5. i \in Items
  <2> DEFINE S == IF candidates = {} THEN Items ELSE candidates
  <2>1. S \in SUBSET Nat /\ S # {} /\ S \subseteq Items
    BY ItemsAreNumbered DEF Candidates, Unfinished
  <2>2. Min(S) \in S
    BY <2>1, MinFacts
  <2> QED
    BY <2>1, <2>2
<1>6. i \in candidates /\ inv[v].plan[i].claimed => runs[Child(i, inv[v].plan[i])].status = "queued"
  BY DEF Candidates
<1>7. inv[v].plan[i] \in Item /\ ItemOK(inv[v].plan[i])
  BY <1>2, <1>5 DEF Invocation, InvOK
<1> HIDE DEF candidates, i
<1>8. claims => /\ ~ items[i].claimed /\ items[i].result = NoResult
                /\ items[i].attempt \in 0..1 /\ items[i] \in Item
  BY <1>3, <1>5 DEF MayBeClaimed, ItemOK
<1>9. claims => /\ claimed \in Item /\ claimed.claimed /\ claimed.attempt = items[i].attempt + 1
                /\ claimed.result = NoResult
  <2> SUFFICES ASSUME claims PROVE /\ claimed \in Item /\ claimed.claimed
                                   /\ claimed.attempt = items[i].attempt + 1
                                   /\ claimed.result = NoResult
    OBVIOUS
  <2> DEFINE attempt == items[i].attempt + 1
  <2>1. attempt \in 0..3
    BY <1>8
  <2>2. claimed = [items[i] EXCEPT !.claimed = TRUE, !.attempt = attempt]
    OBVIOUS
  <2> HIDE DEF attempt, claimed, claims
  <2>3. claimed \in Item /\ claimed.claimed /\ claimed.attempt = attempt
        /\ claimed.result = items[i].result
    BY <1>8, <2>1, <2>2 DEF Item
  <2> QED
    BY <1>8, <2>3 DEF attempt
<1>10. starts /\ ~ claims => inv[v].plan[i].claimed /\ i \in candidates
  OBVIOUS
<1> HIDE DEF claims, claimed
<1>11. new \in Item /\ ItemOK(new) /\ items' = [items EXCEPT ![i] = new]
  <2>1. claims => ItemOK(claimed)
    BY <1>8, <1>9 DEF ItemOK, Item
  <2> QED
    BY <1>3, <1>4, <1>5, <1>9, <2>1
<1>12. starts => item \in Item /\ item.attempt \in 1..2 /\ k \in Children
  <2>1. starts => item \in Item /\ item.attempt \in 1..2
    BY <1>7, <1>8, <1>9, <1>10 DEF ItemOK
  <2> HIDE DEF item, starts
  <2> QED
    BY <1>5, <2>1 DEF Child, Children, Attempts
<1>13. starts => task \in Task /\ task.phase = "new"
  <2>1. starts => item.revision \in 0..MaxRevision
    BY <1>12 DEF Item
  <2> HIDE DEF item, starts, slot
  <2> QED
    BY <1>2, <2>1 DEF Task
<1>14. starts => \/ items'[k[1]].claimed /\ items'[k[1]].attempt = k[2]
                 \/ runs[k].status # "absent"
  <2>1. CASE claims
    <3>1. items'[i] = claimed /\ k = <<i, claimed.attempt>>
      BY <1>3, <1>4, <1>5, <2>1 DEF Child
    <3> QED
      BY <1>9, <2>1, <3>1
  <2>2. CASE ~ claims
    BY <1>6, <1>10, <2>2
  <2> QED
    BY <2>1, <2>2
<1>15. new.result \in Outcomes => results[<<i, new.attempt>>] = new.result
  <2>1. claims => new.result \notin Outcomes
    BY <1>9, SchedulerAssumption DEF NoResult
  <2>2. ~ claims => new = items[i]
    OBVIOUS
  <2> QED
    BY <1>5, <2>1, <2>2 DEF IInv, AcceptedIsRecorded, Child
<1>16. \A a \in Attempts : items[i].claimed /\ items[i].attempt = a => new.claimed /\ new.attempt = a
  BY <1>8
<1>17. q \in Invocation /\ q.room <= TotalTokens /\ InvOK(q, runs, results)
  <2>1. slot + 1 \in 0..2
    BY <1>2 DEF Slots
  <2>2. room \in Int /\ room <= TotalTokens
    BY <1>2, Counts, SchedulerAssumption DEF Invocation
  <2> HIDE DEF room, starts
  <2>3. p \in Invocation /\ p.room = room /\ p.todo = {} /\ p.plan = inv[v].plan
    BY <1>2, <2>1, <2>2 DEF Invocation
  <2> HIDE DEF p
  <2>4. p.room <= TotalTokens /\ \A j \in Items : ItemOK(p.plan[j])
    BY <1>2, <2>2, <2>3 DEF InvOK
  <2> QED
    BY <2>3, <2>4, FillOrWaitFacts
<1> HIDE DEF starts, item, task, room, p, q, k, new
<1>18. tasks' \in [Invocations -> [Children -> Task]]
  BY <1>4, <1>12, <1>13, Own
<1>19. \A u \in Invocations, j \in Children :
               /\ tasks'[u][j].phase = "new" =>
                      \/ tasks[u][j].phase = "new"
                      \/ items'[j[1]].claimed /\ items'[j[1]].attempt = j[2]
                      \/ runs[j].status # "absent"
               /\ tasks'[u][j].phase = "submit" => tasks[u][j].phase = "submit"
  BY <1>4, <1>12, <1>13, <1>14, Own
<1> QED
  BY <1>1, <1>4, <1>5, <1>11, <1>15, <1>16, <1>17, <1>18, <1>19, Own, ItemStep

LEMMA CheckStep == ASSUME IInv, NEW v \in Invocations, Check(v) PROVE IInv'
<1>1. inv[v].pc = "sleep" /\ UNCHANGED <<items, runs, results, expired, tasks, faults, late, alone>>
      /\ (Top(v) \/ Goes(v, "finish"))
  BY DEF Check, At, rows, observer
<1>2. CASE Top(v)
  BY <1>1, <1>2, TopFacts, Own, QuietStep
<1>3. CASE Goes(v, "finish")
  <2> DEFINE p == [inv[v] EXCEPT !.pc = "finish"]
  <2>1. "finish" \in PCs \ {"orphan", "settle", "fill"}
    BY DEF PCs
  <2>2. inv[v] \in Invocation /\ InvOK(inv[v], runs, results) /\ inv[v].room <= TotalTokens
    BY Own
  <2>3. p \in Invocation /\ p.room = inv[v].room /\ InvOK(p, runs, results)
    BY <1>1, <2>1, <2>2, GoesFacts
  <2>4. inv' = [inv EXCEPT ![v] = p]
    BY <1>3 DEF Goes
  <2> HIDE DEF p
  <2> QED
    BY <1>1, <2>2, <2>3, <2>4, Own, QuietStep
<1> QED
  BY <1>1, <1>2, <1>3

\* A coroutine at an await, or on its way out, goes on.
LEMMA GoesStep ==
    ASSUME IInv, NEW v \in Invocations, NEW pc \in PCs \ {"orphan", "settle", "fill"}, Goes(v, pc),
           inv[v].pc \notin {"look", "orphan", "settle", "weigh"},
           UNCHANGED <<items, runs, results, expired, late, alone>>, faults' \in 0..MaxFaults,
           tasks' \in [Invocations -> [Children -> Task]],
           \A u \in Invocations, j \in Children :
               tasks'[u][j].phase \in {"new", "submit"} => tasks'[u][j].phase = tasks[u][j].phase
    PROVE  IInv'
<1> DEFINE p == [inv[v] EXCEPT !.pc = pc]
<1>1. inv[v] \in Invocation /\ InvOK(inv[v], runs, results) /\ inv[v].room <= TotalTokens
  BY Own
<1>2. p \in Invocation /\ p.room = inv[v].room /\ InvOK(p, runs, results)
  BY <1>1, GoesFacts
<1>3. inv' = [inv EXCEPT ![v] = p]
  BY DEF Goes
<1> HIDE DEF p
<1> QED
  BY <1>1, <1>2, <1>3, Own, QuietStep

LEMMA WakeStep == ASSUME IInv, NEW v \in Invocations, Wake(v) PROVE IInv'
<1> DEFINE done == {k \in Children : tasks[v][k].phase \in {"done", "interrupted"}}
<1>1. inv[v].pc = "wait" /\ UNCHANGED <<items, runs, results, expired, faults, late, alone>>
      /\ (Top(v) \/ Goes(v, "unwind"))
      /\ tasks' = [tasks EXCEPT ![v] = [k \in Children |-> IF k \in done THEN NoTask ELSE @[k]]]
  BY DEF Wake, At, rows, observer
<1>2. /\ tasks' \in [Invocations -> [Children -> Task]]
      /\ \A u \in Invocations, j \in Children :
             tasks'[u][j].phase \in {"new", "submit"} => tasks'[u][j].phase = tasks[u][j].phase
  BY <1>1, Own, NoTaskFacts
<1> HIDE DEF done
<1>3. CASE Top(v)
  BY <1>1, <1>2, <1>3, TopFacts, Own, QuietStep
<1>4. CASE Goes(v, "unwind")
  <2>1. "unwind" \in PCs \ {"orphan", "settle", "fill"}
    BY DEF PCs
  <2> QED
    BY <1>1, <1>2, <1>4, <2>1, Own, GoesStep
<1> QED
  BY <1>1, <1>3, <1>4

\* A run is canceled, if it is the invocation's.
LEMMA CanceledStep ==
    ASSUME IInv, NEW v \in Invocations, NEW k \in Children, CanceledRow(v, k),
           UNCHANGED <<items, results, expired, inv, late, alone>>, faults' \in 0..MaxFaults,
           tasks' \in [Invocations -> [Children -> Task]],
           \A u \in Invocations, j \in Children :
               tasks'[u][j].phase \in {"new", "submit"} => tasks'[u][j].phase = tasks[u][j].phase
    PROVE  IInv'
<1>1. CASE UNCHANGED runs
  BY <1>1, Own, QuietStep
<1>2. CASE MayTransition(runs[k], "canceled", {"running"}, v)
           /\ runs' = [runs EXCEPT ![k] = Transitioned(@, "canceled")]
  <2> DEFINE row == Transitioned(runs[k], "canceled")
  <2>1. runs[k] \in RunRecord /\ runs \in [Children -> RunRecord] /\ runs[k].status = "running"
    BY <1>2 DEF IInv, TypeOK, MayTransition
  <2>2. runs' = [runs EXCEPT ![k] = row]
    BY <1>2, <2>1
  <2>3. row \in RunRecord /\ row.status = "canceled"
    <3>1. "canceled" \in Statuses
      BY DEF Statuses, Terminal
    <3> QED
      BY <2>1, <3>1, TransitionedType, TransitionedFields
  <2> HIDE DEF row
  <2>4. ~ Over(runs[k])
    BY <2>1 DEF Over
  <2> QED
    BY <2>2, <2>3, <2>4, Own, RowStep
<1> QED
  BY <1>1, <1>2 DEF CanceledRow

LEMMA UnwindStep == ASSUME IInv, NEW v \in Invocations, Unwind(v) PROVE IInv'
<1>1. inv[v].pc \in {"unwind", "finish"} /\ UNCHANGED <<items, results, expired, faults, late, alone>>
  BY DEF Unwind, observer
<1>2. CASE UNCHANGED <<runs, tasks>> /\ \E pc \in {"returned", "raised"} : Goes(v, pc)
  <2>1. PICK pc \in {"returned", "raised"} : Goes(v, pc)
    BY <1>2
  <2>2. pc \in PCs \ {"orphan", "settle", "fill"}
    BY <2>1 DEF PCs, Ended
  <2> QED
    BY <1>1, <1>2, <2>1, <2>2, Own, GoesStep
<1>3. ASSUME NEW k \in Children, CanceledRow(v, k), inv' = inv,
             tasks' = [tasks EXCEPT ![v][k] = NoTask]
      PROVE  IInv'
  <2>1. /\ tasks' \in [Invocations -> [Children -> Task]]
        /\ \A u \in Invocations, j \in Children :
               tasks'[u][j].phase \in {"new", "submit"} => tasks'[u][j].phase = tasks[u][j].phase
    BY <1>3, Own, NoTaskFacts
  <2> QED
    BY <1>1, <1>3, <2>1, Own, CanceledStep
<1> QED
  BY <1>2, <1>3 DEF Unwind, Active

-----------------------------------------------------------------------------
(* The tasks.                                                               *)

LEMMA StartStep ==
    ASSUME IInv, NEW v \in Invocations, NEW k \in Children, Start(v, k) PROVE IInv'
<1>1. /\ tasks[v][k].phase = "new" /\ Phase(v, k, "claim")
      /\ UNCHANGED <<items, results, expired, inv, faults, late, alone>>
      /\ runs' = IF runs[k].status = "absent" THEN [runs EXCEPT ![k] = QueuedRun] ELSE runs
  BY DEF Start, Runnable, observer
<1>2. /\ tasks' \in [Invocations -> [Children -> Task]]
      /\ tasks'[v][k].phase = "claim"
      /\ \A u \in Invocations, j \in Children : u # v \/ j # k => tasks'[u][j] = tasks[u][j]
  BY <1>1, PhaseFacts
<1>3. CASE runs[k].status = "absent"
  <2>1. Belongs(k) \/ k \in late
    BY <1>1, <1>3 DEF IInv, OnesOwn
  <2>2. ~ Over(runs[k])
    BY <1>3 DEF Over
  <2> QED
    BY <1>1, <1>2, <1>3, <2>1, <2>2, FreshType, FreshFields, Own, RowStep
<1>4. CASE runs[k].status # "absent"
  BY <1>1, <1>2, <1>4, Own, QuietStep
<1> QED
  BY <1>3, <1>4

LEMMA ClaimRunStep ==
    ASSUME IInv, NEW v \in Invocations, NEW k \in Children, ClaimRun(v, k) PROVE IInv'
<1>1. UNCHANGED <<items, results, expired, inv, faults, late, alone>>
  BY DEF ClaimRun, observer
<1>2. CASE MayClaim(runs[k]) /\ runs' = [runs EXCEPT ![k] = Claimed(@, v, 0, 1)] /\ Phase(v, k, "work")
  <2> DEFINE row == Claimed(runs[k], v, 0, 1)
  <2>1. runs[k] \in RunRecord /\ runs \in [Children -> RunRecord] /\ runs[k].status = "queued"
    BY <1>2 DEF IInv, TypeOK, MayClaim
  <2>2. runs' = [runs EXCEPT ![k] = row]
    BY <1>2, <2>1
  <2>3. row \in RunRecord /\ row.status = "running" /\ row.owner = v
    BY <2>1, ClaimedType, ClaimedFields DEF Invocations
  <2> HIDE DEF row
  <2>4. ~ Over(runs[k]) /\ (Belongs(k) \/ k \in late)
    BY <2>1 DEF Over, IInv, OnesOwn
  <2>5. /\ tasks' \in [Invocations -> [Children -> Task]]
        /\ tasks'[v][k].phase = "work"
        /\ \A u \in Invocations, j \in Children : u # v \/ j # k => tasks'[u][j] = tasks[u][j]
    BY <1>2, PhaseFacts
  <2> QED
    BY <1>1, <2>2, <2>3, <2>4, <2>5, Own, RowStep
<1>3. CASE runs' = runs /\ Phase(v, k, "done")
  <2>1. /\ tasks' \in [Invocations -> [Children -> Task]]
        /\ tasks'[v][k].phase = "done"
        /\ \A u \in Invocations, j \in Children : u # v \/ j # k => tasks'[u][j] = tasks[u][j]
    BY <1>3, PhaseFacts
  <2> QED
    BY <1>1, <1>3, <2>1, Own, QuietStep
<1> QED
  BY <1>2, <1>3 DEF ClaimRun

LEMMA ReportStep ==
    ASSUME IInv, NEW v \in Invocations, NEW k \in Children, Report(v, k) PROVE IInv'
<1>1. UNCHANGED <<items, expired, inv, faults, late, alone>>
  BY DEF Report, observer
<1>2. ASSUME NEW outcome \in Outcomes,
             MayTransition(runs[k], RunStatusForCompletion(outcome), {"running"}, v),
             runs' = [runs EXCEPT ![k] = Transitioned(@, RunStatusForCompletion(outcome))],
             results' = [results EXCEPT ![k] = outcome], Phase(v, k, "submit")
      PROVE  IInv'
  <2> DEFINE status == RunStatusForCompletion(outcome)
             row == Transitioned(runs[k], status)
  <2>1. status \in Terminal
    BY CompletionEnds
  <2>2. runs[k] \in RunRecord /\ runs \in [Children -> RunRecord] /\ runs[k].status = "running"
    BY <1>2 DEF IInv, TypeOK, MayTransition
  <2>3. runs' = [runs EXCEPT ![k] = row]
    BY <1>2, <2>2
  <2> HIDE DEF status
  <2>4. row \in RunRecord /\ row.status = status
    <3>1. status \in Statuses
      BY <2>1 DEF Statuses
    <3> QED
      BY <2>2, <3>1, TransitionedType, TransitionedFields
  <2> HIDE DEF row
  <2>5. ~ Over(runs[k]) /\ status \notin {"absent", "queued", "running"}
    BY <2>1, <2>2 DEF Over, Terminal
  <2>6. /\ tasks' \in [Invocations -> [Children -> Task]]
        /\ tasks'[v][k].phase = "submit"
        /\ \A u \in Invocations, j \in Children : u # v \/ j # k => tasks'[u][j] = tasks[u][j]
    BY <1>2, PhaseFacts
  <2>7. results'[k] # NoResult
    BY <1>2, SchedulerAssumption DEF IInv, TypeOK, NoResult
  <2> QED
    BY <1>1, <1>2, <2>1, <2>3, <2>4, <2>5, <2>6, <2>7, Own, RowStep
<1>3. CASE UNCHANGED <<runs, results>> /\ Phase(v, k, "done")
  <2>1. /\ tasks' \in [Invocations -> [Children -> Task]]
        /\ tasks'[v][k].phase = "done"
        /\ \A u \in Invocations, j \in Children : u # v \/ j # k => tasks'[u][j] = tasks[u][j]
    BY <1>3, PhaseFacts
  <2> QED
    BY <1>1, <1>3, <2>1, Own, QuietStep
<1> QED
  BY <1>2, <1>3 DEF Report

LEMMA SubmitStep ==
    ASSUME IInv, NEW v \in Invocations, NEW k \in Children, Submit(v, k) PROVE IInv'
<1> DEFINE item == [attempt |-> k[2], revision |-> tasks[v][k].revision]
<1>1. /\ tasks[v][k].phase = "submit" /\ Finish(k[1], item, results[k]) /\ Phase(v, k, "done")
      /\ UNCHANGED <<runs, results, expired, inv, faults, late, alone>>
  BY DEF Submit, Runnable, rows, observer
<1>2. results[k] \in Results
  BY <1>1 DEF IInv, RecordedFirst, TypeOK
<1>3. item.attempt = k[2]
  OBVIOUS
<1>4. /\ tasks' \in [Invocations -> [Children -> Task]]
      /\ tasks'[v][k].phase = "done"
      /\ \A u \in Invocations, j \in Children : u # v \/ j # k => tasks'[u][j] = tasks[u][j]
  BY <1>1, PhaseFacts
<1> HIDE DEF item
<1> QED
  BY <1>1, <1>2, <1>3, <1>4, Own, FinishStep

LEMMA InterruptStep ==
    ASSUME IInv, NEW v \in Invocations, NEW k \in Children, Interrupt(v, k) PROVE IInv'
<1>1. /\ CanceledRow(v, k) /\ Phase(v, k, "interrupted")
      /\ faults < MaxFaults /\ faults' = faults + 1
      /\ UNCHANGED <<items, results, expired, inv, late, alone>>
  BY DEF Interrupt, observer
<1>2. /\ tasks' \in [Invocations -> [Children -> Task]]
      /\ tasks'[v][k].phase = "interrupted"
      /\ \A u \in Invocations, j \in Children : u # v \/ j # k => tasks'[u][j] = tasks[u][j]
  BY <1>1, PhaseFacts
<1>3. faults' \in 0..MaxFaults
  BY <1>1, Own, SchedulerAssumption
<1> QED
  BY <1>1, <1>2, <1>3, CanceledStep

LEMMA HeartbeatStep ==
    ASSUME IInv, NEW v \in Invocations, NEW k \in Children, Heartbeat(v, k) PROVE IInv'
<1> DEFINE row == Beaten(runs[k], 0, 1)
<1>1. /\ MayBeat(runs[k], v) /\ runs' = [runs EXCEPT ![k] = Beaten(@, 0, 1)]
      /\ expired' = expired \ {k}
      /\ UNCHANGED <<items, results, inv, tasks, faults, late, alone>>
  BY DEF Heartbeat, observer
<1>2. runs[k] \in RunRecord /\ runs \in [Children -> RunRecord] /\ runs[k].status = "running"
      /\ runs[k].owner = v
  BY <1>1 DEF IInv, TypeOK, MayBeat
<1>3. runs' = [runs EXCEPT ![k] = row]
  BY <1>1, <1>2
<1>4. row \in RunRecord /\ row.status = "running" /\ row.owner = v
  BY <1>2, BeatenType, BeatenFields
<1> HIDE DEF row
<1>5. ~ Over(runs[k]) /\ (Belongs(k) \/ k \in late)
  BY <1>2 DEF Over, IInv, OnesOwn
<1> QED
  BY <1>1, <1>3, <1>4, <1>5, Own, RowStep

-----------------------------------------------------------------------------
(* Time and faults.                                                         *)

LEMMA AgeStep == ASSUME IInv, NEW i \in Items, Age(i) PROVE IInv'
<1> DEFINE new == [items[i] EXCEPT !.aged = TRUE]
           p == [Idle EXCEPT !.pc = "sleep"]
<1>1. items[i].claimed /\ UNCHANGED <<runs, results, expired, inv, tasks, faults, late, alone>>
      /\ items' = [items EXCEPT ![i].aged = TRUE]
  BY DEF Age, rows, observer
<1>2. items \in [Items -> Item] /\ items[i] \in Item /\ ItemOK(items[i])
  BY DEF IInv, TypeOK, ItemsAreSound
<1>3. items' = [items EXCEPT ![i] = new]
  BY <1>1, <1>2
<1>4. new \in Item /\ new.result = items[i].result /\ new.claimed = items[i].claimed
      /\ new.attempt = items[i].attempt
  BY <1>2 DEF Item
<1> HIDE DEF new
<1>5. ItemOK(new)
  BY <1>2, <1>4 DEF ItemOK
<1>6. new.result \in Outcomes => results[<<i, new.attempt>>] = new.result
  BY <1>4 DEF IInv, AcceptedIsRecorded, Child
<1>7. ASSUME NEW v \in Invocations PROVE IInv'
  <2>1. inv' = [inv EXCEPT ![v] = inv[v]] /\ inv[v] \in Invocation /\ inv[v].room <= TotalTokens
    BY <1>1, Own
  <2> QED
    BY <1>1, <1>2, <1>3, <1>4, <1>5, <1>6, <2>1, Own, ItemStep
<1>8. CASE Invocations = {}
  <2>1. p \in Invocation /\ p.room <= TotalTokens /\ InvOK(p, runs, results)
    <3>1. "sleep" \in PCs \ {"look", "orphan", "settle", "fill"}
      BY DEF PCs, AtAwait
    <3> QED
      BY <3>1, IdleFacts
  <2>2. \A v : inv' = [inv EXCEPT ![v] = p]
    BY <1>1, <1>8 DEF IInv, TypeOK
  <2>3. late \subseteq Children /\ tasks \in [Invocations -> [Children -> Task]]
    BY DEF IInv, TypeOK
  <2> HIDE DEF p
  <2> QED
    BY <1>1, <1>3, <1>4, <1>5, <1>6, <2>1, <2>2, <2>3, ItemStep
<1> QED
  BY <1>7, <1>8

LEMMA ExpireStep == ASSUME IInv, NEW k \in Children, Expire(k) PROVE IInv'
<1>1. /\ runs[k].status = "running" /\ expired' = expired \cup {k}
      /\ UNCHANGED <<items, runs, results, inv, tasks, late, alone>>
      /\ (faults' = faults) \/ (faults < MaxFaults /\ faults' = faults + 1)
  BY DEF Expire, Live, observer
<1>2. PICK v \in Invocations : TRUE
  BY <1>1 DEF IInv, TypeOK
<1>3. faults' \in 0..MaxFaults /\ expired' \subseteq Children
  BY <1>1, <1>2, Own, SchedulerAssumption
<1> QED
  BY <1>1, <1>2, <1>3, Own, QuietStep

LEMMA CancelStep == ASSUME IInv, NEW v \in Invocations, Cancel(v) PROVE IInv'
<1>1. /\ Goes(v, "unwind") /\ inv[v].pc \in AtAwait
      /\ faults < MaxFaults /\ faults' = faults + 1
      /\ UNCHANGED <<items, runs, results, expired, tasks, late, alone>>
  BY DEF Cancel, At, rows, observer
<1>2. "unwind" \in PCs \ {"orphan", "settle", "fill"} /\ inv[v].pc \notin {"look", "orphan", "settle", "weigh"}
  BY <1>1 DEF PCs, AtAwait
<1>3. faults' \in 0..MaxFaults
  BY <1>1, Own, SchedulerAssumption
<1> QED
  BY <1>1, <1>2, <1>3, Own, GoesStep

LEMMA CrashStep == ASSUME IInv, NEW v \in Invocations, Crash(v) PROVE IInv'
<1> DEFINE p == [Idle EXCEPT !.pc = "crashed"]
<1>1. /\ inv' = [inv EXCEPT ![v] = p]
      /\ tasks' = [tasks EXCEPT ![v] = [k \in Children |-> NoTask]]
      /\ faults < MaxFaults /\ faults' = faults + 1
      /\ UNCHANGED <<items, runs, results, expired, late, alone>>
  BY DEF Crash, rows, observer
<1>2. faults' \in 0..MaxFaults
  BY <1>1, Own, SchedulerAssumption
<1>3. p \in Invocation /\ p.room <= TotalTokens /\ InvOK(p, runs, results)
  <2>1. "crashed" \in PCs \ {"look", "orphan", "settle", "fill"}
    BY DEF PCs, Ended
  <2> QED
    BY <2>1, IdleFacts
<1>4. /\ tasks' \in [Invocations -> [Children -> Task]]
      /\ \A u \in Invocations, j \in Children :
             tasks'[u][j].phase \in {"new", "submit"} => tasks'[u][j].phase = tasks[u][j].phase
  BY <1>1, Own, NoTaskFacts
<1> HIDE DEF p
<1> QED
  BY <1>1, <1>2, <1>3, <1>4, Own, QuietStep

-----------------------------------------------------------------------------
(* Theorems.                                                                *)

LEMMA Inductive == ASSUME IInv, [Next]_vars PROVE IInv'
<1>1. ASSUME NEW v \in Invocations, Begin(v) \/ Coroutine(v) \/ Cancel(v) \/ Crash(v)
      PROVE  IInv'
  BY <1>1, BeginStep, LookStep, OrphanStep, SettleStep, SurveyStep, WeighStep, MoveStep,
     FillStep, CheckStep, WakeStep, UnwindStep, CancelStep, CrashStep DEF Coroutine
<1>2. ASSUME NEW v \in Invocations, NEW k \in Children,
             Works(v, k) \/ Interrupt(v, k) \/ Heartbeat(v, k)
      PROVE  IInv'
  BY <1>2, StartStep, ClaimRunStep, ReportStep, SubmitStep, InterruptStep, HeartbeatStep DEF Works
<1>3. ASSUME NEW i \in Items, Age(i) PROVE IInv'
  BY <1>3, AgeStep
<1>4. ASSUME NEW k \in Children, Expire(k) PROVE IInv'
  BY <1>4, ExpireStep
<1>5. CASE UNCHANGED vars
  BY <1>5 DEF vars, rows, observer, IInv, TypeOK, ItemsAreSound, ReportsAreFinal, RecordedFirst,
              OnesOwn, Belongs, JudgementsStand, AcceptedIsRecorded
<1> QED
  BY <1>1, <1>2, <1>3, <1>4, <1>5 DEF Next

LEMMA Invariance == Spec => []IInv
BY InitIInv, Inductive, PTL DEF Spec

-----------------------------------------------------------------------------
(* What a step may do to an item. *)

Granted(old, new) ==
    /\ ~ old.claimed /\ old.result = NoResult
    /\ new.claimed /\ new.result = NoResult /\ new.attempt = old.attempt + 1
Requeued(i, old, new) ==
    /\ old.claimed /\ old.result = NoResult
    /\ ~ new.claimed /\ new.result = NoResult /\ new.attempt = old.attempt
    /\ results[Child(i, old)] # NoResult => Child(i, old) \in late'
Finished(old, new) ==
    /\ old.claimed /\ old.result = NoResult
    /\ new.claimed /\ new.result \in Results
    /\ new.attempt = old.attempt /\ new.slot = old.slot /\ new.revision = old.revision
Rearranged(old, new) ==
    /\ new.claimed = old.claimed /\ new.result = old.result /\ new.attempt = old.attempt
    /\ old.claimed => new.slot = old.slot /\ new.revision = old.revision
Effect(i, old, new) ==
    Granted(old, new) \/ Requeued(i, old, new) \/ Finished(old, new) \/ Rearranged(old, new)
OneItem == items' = items \/ \E i \in Items, new \in Item :
                items' = [items EXCEPT ![i] = new] /\ Effect(i, items[i], new)

LEMMA FinishEffect ==
    ASSUME IInv, NEW i \in Items, NEW item, NEW result \in Results, Finish(i, item, result)
    PROVE  OneItem
<1>1. items \in [Items -> Item] /\ items[i] \in Item
  BY DEF IInv, TypeOK
<1>2. CASE IsCurrent(i, item)
  <2> DEFINE new == [items[i] EXCEPT !.result = result]
  <2>1. items' = [items EXCEPT ![i] = new]
    BY <1>1, <1>2 DEF Finish
  <2>2. new \in Item /\ new.result = result /\ new.claimed = items[i].claimed
        /\ new.attempt = items[i].attempt
    BY <1>1 DEF Item
  <2>3. new.slot = items[i].slot /\ new.revision = items[i].revision
    BY <1>1 DEF Item
  <2> HIDE DEF new
  <2>4. Finished(items[i], new)
    BY <1>2, <2>2, <2>3 DEF IsCurrent, Finished
  <2> QED
    BY <2>1, <2>2, <2>4 DEF OneItem, Effect
<1>3. CASE ~ IsCurrent(i, item)
  BY <1>3 DEF Finish, OneItem
<1> QED
  BY <1>2, <1>3

LEMMA SettleEffect == ASSUME IInv, NEW v \in Invocations, Settle(v) PROVE OneItem
<1> DEFINE i == Subject(v)
           item == inv[v].plan[i]
           k == Judged(inv[v])
           seen == inv[v].seen
<1>1. inv[v].pc = "settle"
  BY DEF Settle, At
<1>2. inv[v] \in Invocation /\ InvOK(inv[v], runs, results) /\ inv[v].todo # {}
      /\ (seen # "absent" => results[k] = seen)
  BY <1>1, Own DEF InvOK
<1>3. i \in Items /\ k \in Children /\ k = <<i, item.attempt>> /\ Child(i, item) = k
  BY <1>2, JudgedIsChild DEF Subject, Child, Judged
<1>4. late' = IF seen = "absent" /\ items' # items THEN late \cup {k} ELSE late
  BY <1>3 DEF Settle
<1>5. \/ \E result \in Results : Finish(i, item, result)
      \/ seen \notin Outcomes /\ Requeue(i, item)
  <2>1. "exhausted" \in Results /\ Outcomes \subseteq Results
    BY DEF Results
  <2> QED
    BY <2>1 DEF Settle, Resubmits
<1> HIDE DEF i, item, k, seen
<1>6. CASE seen \notin Outcomes /\ Requeue(i, item) /\ IsCurrent(i, item)
  <2> DEFINE new == [items[i] EXCEPT !.claimed = FALSE, !.aged = FALSE]
  <2>1. items \in [Items -> Item] /\ items[i] \in Item
    BY <1>3 DEF IInv, TypeOK
  <2>2. items' = [items EXCEPT ![i] = new]
    BY <1>6, <2>1 DEF Requeue
  <2>3. new \in Item /\ new.result = items[i].result /\ ~ new.claimed
        /\ new.attempt = items[i].attempt
    BY <2>1 DEF Item
  <2> HIDE DEF new
  <2>4. items[i].claimed /\ items[i].result = NoResult /\ items[i].attempt = item.attempt
    BY <1>6 DEF IsCurrent
  <2>5. items' # items
    BY <1>3, <2>1, <2>2, <2>3, <2>4
  <2>6. Child(i, items[i]) = k
    BY <1>3, <2>4 DEF Child
  <2>7. results[k] # NoResult => k \in late'
    <3>1. results[k] # NoResult => results[k] \in Outcomes
      BY <1>3 DEF IInv, ReportsAreFinal
    <3> QED
      BY <1>2, <1>4, <1>6, <2>5, <3>1
  <2>8. Requeued(i, items[i], new)
    BY <2>3, <2>4, <2>6, <2>7 DEF Requeued
  <2> QED
    BY <1>3, <2>2, <2>3, <2>8 DEF OneItem, Effect
<1>7. CASE Requeue(i, item) /\ ~ IsCurrent(i, item)
  BY <1>7 DEF Requeue, OneItem
<1> QED
  BY <1>3, <1>5, <1>6, <1>7, FinishEffect

LEMMA MoveEffect == ASSUME IInv, NEW v \in Invocations, Move(v) PROVE OneItem
<1>1. items \in [Items -> Item]
  BY DEF IInv, TypeOK
<1>2. CASE UNCHANGED items
  BY <1>2 DEF OneItem
<1>3. ASSUME NEW i \in Items, Revision(items) < MaxRevision, MayMove(i, inv[v].plan), items' = Moved(i)
      PROVE  OneItem
  <2> DEFINE slot == 1 - items[i].slot
             revision == Revision(items) + 1
             new == [items[i] EXCEPT !.slot = slot, !.revision = revision]
  <2>1. Revision(items) \in Nat
    <3> DEFINE S == {items[j].revision : j \in Items}
    <3>1. S \in SUBSET Nat /\ S # {} /\ MaxRevision \in Nat /\ \A x \in S : x <= MaxRevision
      BY <1>1, ItemsAreNumbered, SchedulerAssumption DEF Item
    <3>2. Max(S) \in S
      BY <3>1, MaxFacts
    <3> QED
      BY <3>1, <3>2 DEF Revision
  <2>2. revision \in 0..MaxRevision /\ slot \in Slots
    BY <1>1, <1>3, <2>1, SchedulerAssumption DEF Item, Slots
  <2>3. items' = [items EXCEPT ![i] = new]
    BY <1>1, <1>3 DEF Moved
  <2> HIDE DEF slot, revision
  <2>4. new \in Item /\ new.result = items[i].result /\ new.claimed = items[i].claimed
        /\ new.attempt = items[i].attempt
    BY <1>1, <2>2 DEF Item
  <2> HIDE DEF new
  <2>5. Rearranged(items[i], new)
    BY <1>3, <2>4 DEF MayMove, Rearranged
  <2> QED
    BY <2>3, <2>4, <2>5 DEF OneItem, Effect
<1> QED
  BY <1>2, <1>3 DEF Move, Movable, Unfinished, OneItem

LEMMA FillEffect == ASSUME IInv, NEW v \in Invocations, Fill(v) PROVE OneItem
<1> DEFINE slot == inv[v].slot
           candidates == Candidates(inv[v], slot)
           i == Min(IF candidates = {} THEN Items ELSE candidates)
           claims == i \in candidates /\ ~ inv[v].plan[i].claimed /\ MayBeClaimed(i, slot)
           attempt == items[i].attempt + 1
           new == [items[i] EXCEPT !.claimed = TRUE, !.attempt = attempt]
<1>1. items' = IF claims THEN [items EXCEPT ![i] = new] ELSE items
  BY Zenon DEF Fill
<1>2. CASE claims
  <2>1. i \in Items
    BY <1>2 DEF Candidates, Unfinished
  <2> HIDE DEF i, candidates
  <2>2. items[i] \in Item /\ ~ items[i].claimed /\ items[i].result = NoResult
        /\ items[i].attempt \in 0..1
    BY <1>2, <2>1 DEF IInv, TypeOK, ItemsAreSound, ItemOK, MayBeClaimed
  <2>3. attempt \in 0..3
    BY <2>2
  <2>4. items' = [items EXCEPT ![i] = new]
    BY <1>1, <1>2
  <2>5. attempt = items[i].attempt + 1
    OBVIOUS
  <2> HIDE DEF attempt, claims
  <2>6. new \in Item /\ new.claimed /\ new.result = items[i].result /\ new.attempt = attempt
    BY <2>2, <2>3 DEF Item
  <2> HIDE DEF new
  <2>7. Granted(items[i], new)
    BY <2>2, <2>5, <2>6 DEF Granted
  <2> QED
    BY <2>1, <2>4, <2>6, <2>7 DEF OneItem, Effect
<1>3. CASE ~ claims
  BY <1>1, <1>3 DEF OneItem
<1> QED
  BY <1>2, <1>3

LEMMA AgeEffect == ASSUME IInv, NEW i \in Items, Age(i) PROVE OneItem
<1> DEFINE new == [items[i] EXCEPT !.aged = TRUE]
<1>1. items \in [Items -> Item] /\ items[i] \in Item
  BY DEF IInv, TypeOK
<1>2. items' = [items EXCEPT ![i] = new]
  BY <1>1 DEF Age
<1>3. new \in Item /\ new.result = items[i].result /\ new.claimed = items[i].claimed
      /\ new.attempt = items[i].attempt
  BY <1>1 DEF Item
<1>4. new.slot = items[i].slot /\ new.revision = items[i].revision
  BY <1>1 DEF Item
<1> HIDE DEF new
<1>5. Rearranged(items[i], new)
  BY <1>3, <1>4 DEF Rearranged
<1> QED
  BY <1>2, <1>3, <1>5 DEF OneItem, Effect

\* No step touches two items, and each does one of four things to the one it touches.
LEMMA StepEffect == ASSUME IInv, [Next]_vars PROVE OneItem
<1>1. ASSUME NEW v \in Invocations, NEW k \in Children, Submit(v, k) PROVE OneItem
  <2>1. results[k] \in Results /\ k[1] \in Items
    BY <1>1 DEF Submit, Runnable, IInv, RecordedFirst, TypeOK, Children
  <2> QED
    BY <1>1, <2>1, FinishEffect DEF Submit
<1>2. ASSUME NEW v \in Invocations PROVE Settle(v) \/ Move(v) \/ Fill(v) => OneItem
  BY SettleEffect, MoveEffect, FillEffect
<1>3. ASSUME NEW i \in Items PROVE Age(i) => OneItem
  BY AgeEffect
<1>4. ASSUME NEW v \in Invocations,
             \/ Begin(v) \/ Look(v) \/ Orphan(v) \/ Survey(v) \/ Weigh(v) \/ Check(v) \/ Wake(v)
             \/ Unwind(v) \/ Cancel(v) \/ Crash(v)
      PROVE  UNCHANGED items
  BY <1>4 DEF Begin, Look, Orphan, Survey, Weigh, Check, Wake, Unwind, Cancel, Crash
<1>5. ASSUME NEW v \in Invocations, NEW k \in Children,
             \/ Start(v, k) \/ ClaimRun(v, k) \/ Report(v, k) \/ Interrupt(v, k) \/ Heartbeat(v, k)
      PROVE  UNCHANGED items
  BY <1>5 DEF Start, ClaimRun, Report, Interrupt, Heartbeat
<1>6. ASSUME NEW k \in Children, Expire(k) PROVE UNCHANGED items
  BY <1>6 DEF Expire
<1>7. UNCHANGED vars => UNCHANGED items
  BY DEF vars
<1>8. UNCHANGED items => OneItem
  BY DEF OneItem
<1> HIDE DEF OneItem
<1> QED
  BY <1>1, <1>2, <1>3, <1>4, <1>5, <1>6, <1>7, <1>8 DEF Next, Coroutine, Works

-----------------------------------------------------------------------------
(* Who works for an item.                                                   *)

\* A task that works has its row, or the row says that it was given up.
Entitled(v, k) ==
    runs[k].status = "orphaned" \/ (runs[k].status = "running" /\ runs[k].owner = v)
WorkersKnown == \A v \in Invocations, k \in Children :
    tasks[v][k].phase = "work" => Entitled(v, k)

\* A run that was given up without a row has lost its item for good.
Out(k) ==
    \/ k[2] < items[k[1]].attempt
    \/ /\ k[2] = items[k[1]].attempt /\ items[k[1]].result \notin Outcomes
       /\ ~ items[k[1]].claimed \/ items[k[1]].result # NoResult
LateIsOut == \A k \in late : Out(k)

\* What keeps a worker entitled.
LEMMA WorkersFrame ==
    ASSUME WorkersKnown,
           \A v \in Invocations, k \in Children : tasks'[v][k].phase = "work" =>
               \/ Entitled(v, k)'
               \/ tasks[v][k].phase = "work" /\ runs'[k] = runs[k]
    PROVE  WorkersKnown'
<1> SUFFICES ASSUME NEW v \in Invocations, NEW k \in Children, tasks'[v][k].phase = "work"
             PROVE  Entitled(v, k)'
  BY DEF WorkersKnown
<1>1. CASE tasks[v][k].phase = "work" /\ runs'[k] = runs[k]
  BY <1>1 DEF WorkersKnown, Entitled
<1> QED
  BY <1>1

\* The row of a worker's run goes from running to an end only by the worker's own doing.
LEMMA WorkersAndRow ==
    ASSUME IInv, WorkersKnown, NEW v \in Invocations, NEW k \in Children, NEW status \in Terminal,
           MayTransition(runs[k], status, {"running"}, v),
           runs' = [runs EXCEPT ![k] = Transitioned(@, status)],
           tasks' \in [Invocations -> [Children -> Task]], tasks'[v][k].phase # "work",
           \A u \in Invocations, j \in Children : u # v \/ j # k => tasks'[u][j] = tasks[u][j]
    PROVE  WorkersKnown'
<1>1. runs[k].status = "running" /\ runs[k].owner = v
  BY NoOwnerIsNotAnOwner DEF MayTransition, Invocations
<1>2. \A j \in Children : j # k => runs'[j] = runs[j]
  BY DEF IInv, TypeOK
<1>3. ASSUME NEW u \in Invocations, NEW j \in Children, tasks'[u][j].phase = "work"
      PROVE  tasks[u][j].phase = "work" /\ runs'[j] = runs[j]
  <2>1. tasks[u][j].phase = "work"
    BY <1>3
  <2>2. j # k
    BY <1>1, <1>3, <2>1 DEF WorkersKnown, Entitled
  <2> QED
    BY <1>2, <2>1, <2>2
<1> QED
  BY <1>3, WorkersFrame

LEMMA WorkersCanceled ==
    ASSUME IInv, WorkersKnown, NEW v \in Invocations, NEW k \in Children, CanceledRow(v, k),
           tasks' \in [Invocations -> [Children -> Task]], tasks'[v][k].phase # "work",
           \A u \in Invocations, j \in Children : u # v \/ j # k => tasks'[u][j] = tasks[u][j]
    PROVE  WorkersKnown'
<1>1. CASE UNCHANGED runs
  BY <1>1, WorkersFrame
<1>2. CASE MayTransition(runs[k], "canceled", {"running"}, v)
           /\ runs' = [runs EXCEPT ![k] = Transitioned(@, "canceled")]
  <2>1. "canceled" \in Terminal
    BY DEF Terminal
  <2> QED
    BY <1>2, <2>1, WorkersAndRow
<1> QED
  BY <1>1, <1>2 DEF CanceledRow

\* What is handed out has not begun.
LEMMA FillGives ==
    ASSUME NEW v \in Invocations, Fill(v), tasks \in [Invocations -> [Children -> Task]],
           NEW u \in Invocations, NEW j \in Children, tasks'[u][j].phase = "work"
    PROVE  tasks[u][j].phase = "work"
<1> DEFINE slot == inv[v].slot
           candidates == Candidates(inv[v], slot)
           i == Min(IF candidates = {} THEN Items ELSE candidates)
           claims == i \in candidates /\ ~ inv[v].plan[i].claimed /\ MayBeClaimed(i, slot)
           starts == claims \/ (i \in candidates /\ inv[v].plan[i].claimed)
           claimed == [items[i] EXCEPT !.claimed = TRUE, !.attempt = @ + 1]
           item == IF claims THEN claimed ELSE inv[v].plan[i]
           task == [phase |-> "new", slot |-> slot, revision |-> item.revision]
           k == Child(i, item)
<1>1. tasks' = IF starts THEN [tasks EXCEPT ![v][k] = task] ELSE tasks
  BY Zenon DEF Fill
<1>2. task.phase = "new"
  OBVIOUS
<1> HIDE DEF starts, k, task
<1> QED
  BY <1>1, <1>2

LEMMA WorkersStep == ASSUME IInv, WorkersKnown, [Next]_vars PROVE WorkersKnown'
<1>0. /\ runs \in [Children -> RunRecord] /\ tasks \in [Invocations -> [Children -> Task]]
      /\ inv \in [Invocations -> Invocation]
  BY DEF IInv, TypeOK
<1>1. ASSUME NEW v \in Invocations, Orphan(v) PROVE WorkersKnown'
  <2> DEFINE k == SubjectRun(v)
  <2>1. UNCHANGED tasks
    BY <1>1 DEF Orphan
  <2>2. runs' = runs \/ runs' = [runs EXCEPT ![k] = Transitioned(@, "orphaned")]
    BY <1>1 DEF Orphan, OrphanedRow
  <2> HIDE DEF k
  <2>3. ASSUME NEW j \in Children PROVE runs'[j] = runs[j] \/ runs'[j].status = "orphaned"
    <3>1. Transitioned(runs[j], "orphaned").status = "orphaned"
      BY <1>0, TransitionedFields
    <3> QED
      BY <1>0, <2>2, <3>1
  <2> QED
    BY <2>1, <2>3, WorkersFrame DEF Entitled
<1>2. ASSUME NEW v \in Invocations,
             \/ Begin(v) \/ Look(v) \/ Settle(v) \/ Survey(v) \/ Weigh(v) \/ Move(v) \/ Check(v)
             \/ Cancel(v)
      PROVE  WorkersKnown'
  <2>1. UNCHANGED <<runs, tasks>>
    BY <1>2 DEF Begin, Look, Settle, Survey, Weigh, Move, Check, Cancel, rows
  <2> QED
    BY <2>1, WorkersFrame
<1>3. ASSUME NEW v \in Invocations, Fill(v) \/ Wake(v) \/ Crash(v) PROVE WorkersKnown'
  <2>1. UNCHANGED runs
    BY <1>3 DEF Fill, Wake, Crash, rows
  <2>2. \A u \in Invocations, j \in Children :
            tasks'[u][j].phase = "work" => tasks[u][j].phase = "work"
    <3>1. CASE Wake(v) \/ Crash(v)
      BY <1>0, <3>1, NoTaskFacts DEF Wake, Crash
    <3>2. CASE Fill(v)
      BY <1>0, <3>2, FillGives
    <3> QED
      BY <1>3, <3>1, <3>2
  <2> QED
    BY <2>1, <2>2, WorkersFrame
<1>4. ASSUME NEW v \in Invocations, Unwind(v) PROVE WorkersKnown'
  <2>1. CASE UNCHANGED <<runs, tasks>>
    BY <2>1, WorkersFrame
  <2>2. ASSUME NEW k \in Children, CanceledRow(v, k), tasks' = [tasks EXCEPT ![v][k] = NoTask]
        PROVE  WorkersKnown'
    BY <1>0, <2>2, NoTaskFacts, WorkersCanceled
  <2> QED
    BY <1>4, <2>1, <2>2 DEF Unwind, Active
<1>5. ASSUME NEW v \in Invocations, NEW k \in Children, Start(v, k) PROVE WorkersKnown'
  <2>1. /\ tasks' \in [Invocations -> [Children -> Task]]
        /\ tasks'[v][k].phase = "claim"
        /\ \A u \in Invocations, j \in Children : u # v \/ j # k => tasks'[u][j] = tasks[u][j]
    BY <1>5, PhaseFacts DEF Start
  <2>2. \A j \in Children : runs'[j] = runs[j] \/ runs[j].status = "absent"
    BY <1>0, <1>5 DEF Start
  <2>3. \A u \in Invocations, j \in Children :
            tasks'[u][j].phase = "work" => tasks[u][j].phase = "work" /\ runs'[j] = runs[j]
    BY <2>1, <2>2 DEF WorkersKnown, Entitled
  <2> QED
    BY <2>3, WorkersFrame
<1>6. ASSUME NEW v \in Invocations, NEW k \in Children, ClaimRun(v, k) PROVE WorkersKnown'
  <2>1. CASE MayClaim(runs[k]) /\ runs' = [runs EXCEPT ![k] = Claimed(@, v, 0, 1)] /\ Phase(v, k, "work")
    <3>1. /\ tasks' \in [Invocations -> [Children -> Task]]
          /\ \A u \in Invocations, j \in Children : u # v \/ j # k => tasks'[u][j] = tasks[u][j]
      BY <2>1, PhaseFacts
    <3>2. runs'[k].status = "running" /\ runs'[k].owner = v
      BY <1>0, <2>1, ClaimedFields
    <3>3. \A j \in Children : j # k => runs'[j] = runs[j]
      BY <1>0, <2>1
    <3>4. ASSUME NEW u \in Invocations, NEW j \in Children, tasks'[u][j].phase = "work"
          PROVE  \/ Entitled(u, j)'
                 \/ tasks[u][j].phase = "work" /\ runs'[j] = runs[j]
      <4>1. CASE u = v /\ j = k
        BY <3>2, <4>1 DEF Entitled
      <4>2. CASE u # v \/ j # k
        <5>1. tasks[u][j].phase = "work"
          BY <3>1, <3>4, <4>2
        <5>2. j # k
          BY <2>1, <5>1 DEF WorkersKnown, Entitled, MayClaim
        <5> QED
          BY <3>3, <5>1, <5>2
      <4> QED
        BY <4>1, <4>2
    <3> QED
      BY <3>4, WorkersFrame
  <2>2. CASE runs' = runs /\ Phase(v, k, "done")
    <3>1. /\ tasks' \in [Invocations -> [Children -> Task]]
          /\ tasks'[v][k].phase = "done"
          /\ \A u \in Invocations, j \in Children : u # v \/ j # k => tasks'[u][j] = tasks[u][j]
      BY <2>2, PhaseFacts
    <3>2. \A u \in Invocations, j \in Children :
              tasks'[u][j].phase = "work" => tasks[u][j].phase = "work" /\ runs'[j] = runs[j]
      BY <2>2, <3>1
    <3> QED
      BY <3>2, WorkersFrame
  <2> QED
    BY <1>6, <2>1, <2>2 DEF ClaimRun
<1>7. ASSUME NEW v \in Invocations, NEW k \in Children, Report(v, k) PROVE WorkersKnown'
  <2>1. ASSUME NEW outcome \in Outcomes,
               MayTransition(runs[k], RunStatusForCompletion(outcome), {"running"}, v),
               runs' = [runs EXCEPT ![k] = Transitioned(@, RunStatusForCompletion(outcome))],
               Phase(v, k, "submit")
        PROVE  WorkersKnown'
    <3>1. /\ tasks' \in [Invocations -> [Children -> Task]]
          /\ tasks'[v][k].phase = "submit"
          /\ \A u \in Invocations, j \in Children : u # v \/ j # k => tasks'[u][j] = tasks[u][j]
      BY <2>1, PhaseFacts
    <3>2. RunStatusForCompletion(outcome) \in Terminal
      BY CompletionEnds
    <3> QED
      BY <2>1, <3>1, <3>2, WorkersAndRow
  <2>2. CASE UNCHANGED runs /\ Phase(v, k, "done")
    <3>1. /\ tasks' \in [Invocations -> [Children -> Task]]
          /\ tasks'[v][k].phase = "done"
          /\ \A u \in Invocations, j \in Children : u # v \/ j # k => tasks'[u][j] = tasks[u][j]
      BY <2>2, PhaseFacts
    <3>2. \A u \in Invocations, j \in Children :
              tasks'[u][j].phase = "work" => tasks[u][j].phase = "work" /\ runs'[j] = runs[j]
      BY <2>2, <3>1
    <3> QED
      BY <3>2, WorkersFrame
  <2> QED
    BY <1>7, <2>1, <2>2 DEF Report
<1>8. ASSUME NEW v \in Invocations, NEW k \in Children, Submit(v, k) PROVE WorkersKnown'
  <2>1. /\ tasks' \in [Invocations -> [Children -> Task]]
        /\ tasks'[v][k].phase = "done"
        /\ \A u \in Invocations, j \in Children : u # v \/ j # k => tasks'[u][j] = tasks[u][j]
    BY <1>8, PhaseFacts DEF Submit
  <2>2. UNCHANGED runs
    BY <1>8 DEF Submit, rows
  <2>3. \A u \in Invocations, j \in Children :
            tasks'[u][j].phase = "work" => tasks[u][j].phase = "work" /\ runs'[j] = runs[j]
    BY <2>1, <2>2
  <2> QED
    BY <2>3, WorkersFrame
<1>9. ASSUME NEW v \in Invocations, NEW k \in Children, Interrupt(v, k) PROVE WorkersKnown'
  <2>1. /\ tasks' \in [Invocations -> [Children -> Task]]
        /\ tasks'[v][k].phase = "interrupted"
        /\ \A u \in Invocations, j \in Children : u # v \/ j # k => tasks'[u][j] = tasks[u][j]
    BY <1>9, PhaseFacts DEF Interrupt
  <2> QED
    BY <1>9, <2>1, WorkersCanceled DEF Interrupt
<1>10. ASSUME NEW v \in Invocations, NEW k \in Children, Heartbeat(v, k) PROVE WorkersKnown'
  <2>1. UNCHANGED tasks /\ runs' = [runs EXCEPT ![k] = Beaten(@, 0, 1)]
    BY <1>10 DEF Heartbeat
  <2>2. ASSUME NEW j \in Children
        PROVE  runs'[j].status = runs[j].status /\ runs'[j].owner = runs[j].owner
    <3>1. /\ Beaten(runs[j], 0, 1).status = runs[j].status
          /\ Beaten(runs[j], 0, 1).owner = runs[j].owner
      BY <1>0, BeatenFields
    <3> QED
      BY <1>0, <2>1, <3>1
  <2> QED
    BY <2>1, <2>2 DEF WorkersKnown, Entitled
<1>11. CASE (\E i \in Items : Age(i)) \/ (\E k \in Children : Expire(k)) \/ UNCHANGED vars
  <2>1. UNCHANGED <<runs, tasks>>
    BY <1>11 DEF Age, Expire, vars, rows
  <2> QED
    BY <2>1, WorkersFrame
<1> QED
  BY <1>1, <1>2, <1>3, <1>4, <1>5, <1>6, <1>7, <1>8, <1>9, <1>10, <1>11 DEF Next, Coroutine, Works

\* Who was given up late stays out, and only a recovery gives up.
LEMMA LateStep == ASSUME IInv, LateIsOut, [Next]_vars, IInv' PROVE LateIsOut'
<1>0. items \in [Items -> Item] /\ late \subseteq Children /\ \A i \in Items : ItemOK(items[i])
  BY DEF IInv, TypeOK, ItemsAreSound
<1>1. ASSUME NEW k \in late PROVE Out(k)'
  <2>1. k[1] \in Items /\ k[2] \in Nat /\ Out(k)
    BY <1>0, <1>1 DEF Children, Attempts, LateIsOut
  <2>2. items[k[1]].attempt \in Nat /\ items'[k[1]].attempt \in Nat
    <3>1. items[k[1]] \in Item /\ items'[k[1]] \in Item
      BY <1>0, <2>1 DEF IInv, TypeOK
    <3> QED
      BY <3>1 DEF Item
  <2>3. \/ items'[k[1]] = items[k[1]]
        \/ Effect(k[1], items[k[1]], items'[k[1]])
    BY <1>0, <2>1, StepEffect DEF OneItem
  <2> QED
    BY <2>1, <2>2, <2>3 DEF Out, Effect, Granted, Requeued, Finished, Rearranged
<1>2. ASSUME NEW v \in Invocations, Settle(v), NEW k \in late', k \notin late PROVE Out(k)'
  <2> DEFINE i == Subject(v)
             item == inv[v].plan[i]
             seen == inv[v].seen
  <2>1. k = Child(i, item) /\ seen = "absent" /\ items' # items
    BY <1>2 DEF Settle
  <2>2. inv[v].pc = "settle" /\ inv[v].todo # {} /\ inv[v] \in Invocation
    BY <1>2, Own DEF Settle, At, InvOK
  <2>3. i \in Items
    BY <2>2, JudgedIsChild, Own DEF Subject, Judged, Children
  <2>4. "absent" \notin Outcomes /\ "exhausted" \notin Outcomes /\ NoResult \notin Outcomes
    BY SchedulerAssumption DEF NoResult
  <2>5. Finish(i, item, "exhausted") \/ Requeue(i, item)
    BY <1>2, <2>1, <2>4 DEF Settle, Resubmits
  <2>6. IsCurrent(i, item)
    BY <2>1, <2>5 DEF Finish, Requeue
  <2>7. items[i].attempt = item.attempt /\ items[i].result = NoResult /\ items[i] \in Item
    BY <1>0, <2>3, <2>6 DEF IsCurrent
  <2>8. /\ items'[i].attempt = items[i].attempt
        /\ items'[i].result \notin Outcomes
        /\ ~ items'[i].claimed \/ items'[i].result # NoResult
    <3>1. CASE Finish(i, item, "exhausted")
      BY <1>0, <2>3, <2>4, <2>6, <2>7, <3>1 DEF Finish, Item, NoResult
    <3>2. CASE Requeue(i, item)
      BY <1>0, <2>3, <2>4, <2>6, <2>7, <3>2 DEF Requeue, Item
    <3> QED
      BY <2>5, <3>1, <3>2
  <2>9. k[1] = i /\ k[2] = item.attempt
    BY <2>1 DEF Child
  <2> HIDE DEF i, item, seen
  <2> QED
    BY <2>7, <2>8, <2>9 DEF Out
<1>3. late' = late \/ \E v \in Invocations : Settle(v)
  <2>1. ASSUME NEW v \in Invocations,
               \/ Begin(v) \/ Look(v) \/ Orphan(v) \/ Survey(v) \/ Weigh(v) \/ Move(v) \/ Fill(v)
               \/ Check(v) \/ Wake(v) \/ Unwind(v) \/ Cancel(v) \/ Crash(v)
        PROVE  late' = late
    BY <2>1 DEF Begin, Look, Orphan, Survey, Weigh, Move, Fill, Check, Wake, Unwind, Cancel, Crash, observer
  <2>2. ASSUME NEW v \in Invocations, NEW k \in Children,
               Works(v, k) \/ Interrupt(v, k) \/ Heartbeat(v, k)
        PROVE  late' = late
    BY <2>2 DEF Works, Start, ClaimRun, Report, Submit, Interrupt, Heartbeat, observer
  <2>3. CASE (\E i \in Items : Age(i)) \/ (\E k \in Children : Expire(k)) \/ UNCHANGED vars
    BY <2>3 DEF Age, Expire, vars, observer
  <2> QED
    BY <2>1, <2>2, <2>3 DEF Next, Coroutine
<1> QED
  BY <1>1, <1>2, <1>3 DEF LateIsOut

\* An item's work is done once: of the workers at an item all but the owner of its run
\* are marked, or were given up before they had a row, and none of those is heard; no
\* item is tried a third time; and the result taken is the one its own run recorded.
THEOREM SchedulerWork == Spec => []WorkIsDoneOnce
<1>1. Init => WorkersKnown /\ LateIsOut
  BY NoTaskFacts DEF Init, WorkersKnown, LateIsOut
<1>2. IInv /\ WorkersKnown /\ LateIsOut /\ [Next]_vars => WorkersKnown' /\ LateIsOut'
  BY Inductive, WorkersStep, LateStep
<1>3. IInv /\ WorkersKnown /\ LateIsOut => WorkIsDoneOnce
  <2> SUFFICES ASSUME IInv, WorkersKnown, LateIsOut PROVE WorkIsDoneOnce
    OBVIOUS
  <2>1. TypeOK /\ AcceptedIsRecorded
    BY DEF IInv
  <2>2. TwiceAtMost
    BY DEF IInv, TypeOK, ItemsAreSound, ItemOK, TwiceAtMost
  <2>3. SupersededIsMarked
    BY DEF WorkersKnown, Entitled, IInv, OnesOwn, SupersededIsMarked
  <2>4. SupersededIsRefused
    <3> SUFFICES ASSUME NEW k \in Children, runs[k].status = "orphaned" \/ k \in late,
                        items[k[1]].attempt = k[2]
                 PROVE  items[k[1]].result \notin Outcomes
      BY DEF SupersededIsRefused
    <3>1. k[1] \in Items /\ k = <<k[1], k[2]>> /\ k[2] \in Nat
      BY DEF Children, Attempts
    <3>2. CASE k \in late
      BY <3>1, <3>2 DEF LateIsOut, Out
    <3>3. CASE runs[k].status = "orphaned"
      <4>1. Child(k[1], items[k[1]]) = k
        BY <3>1 DEF Child
      <4> QED
        BY <3>1, <3>3, <4>1 DEF IInv, AcceptedIsRecorded, Terminal
    <3> QED
      BY <3>2, <3>3
  <2> QED
    BY <2>1, <2>2, <2>3, <2>4 DEF WorkIsDoneOnce
<1> QED
  BY <1>1, <1>2, <1>3, Invariance, PTL DEF Spec

-----------------------------------------------------------------------------
(* The results and the terms of an item.                                    *)

\* Whatever crashes, the report of an item's own run is not thrown away, and an item
\* is not moved under its worker.
THEOREM SchedulerKeeps == Spec => NothingIsLost
<1>1. ASSUME IInv, [Next]_vars, NEW i \in Items, items[i].claimed,
             results[Child(i, items[i])] # NoResult
      PROVE  items'[i].claimed \/ Child(i, items[i]) \in late'
  BY <1>1, StepEffect
     DEF OneItem, Effect, Granted, Requeued, Finished, Rearranged, IInv, TypeOK
<1>2. ASSUME IInv, [Next]_vars, NEW i \in Items, items[i].claimed, items'[i].claimed
      PROVE  /\ items'[i].slot = items[i].slot /\ items'[i].revision = items[i].revision
             /\ items'[i].attempt = items[i].attempt
  BY <1>2, StepEffect
     DEF OneItem, Effect, Granted, Requeued, Finished, Rearranged, IInv, TypeOK
<1>3. IInv /\ [Next]_vars =>
        [\A i \in Items : LET k == Child(i, items[i])
                          IN  items[i].claimed /\ results[k] # NoResult =>
                                  items'[i].claimed \/ k \in late']_vars
  BY <1>1
<1>4. IInv /\ [Next]_vars =>
        [\A i \in Items : items[i].claimed /\ items'[i].claimed =>
            /\ items'[i].slot = items[i].slot /\ items'[i].revision = items[i].revision
            /\ items'[i].attempt = items[i].attempt]_vars
  BY <1>2
<1> QED
  BY <1>3, <1>4, Invariance, PTL DEF Spec, NothingIsLost, EvidenceIsKept, ClaimedStays

\* Each step is a grant, a release or a closing of one item's term, or invisible.
LEMMA TenureStep == ASSUME IInv, IInv', [Next]_vars PROVE [Tenure!Next]_(Tenure!vars)
<1> DEFINE Holds(i, item) == IF item.claimed /\ item.result = NoResult
                             THEN Child(i, item) ELSE <<>>
           H == [i \in Items |-> Holds(i, items[i])]
           T == [i \in Items |-> items[i].attempt]
           C == Items \ Unfinished(items)
<1>1. /\ Tenure!vars = <<H, T, C>>
      /\ (Tenure!vars)' = <<H', T', C'>>
  BY DEF Tenure!vars
<1>2. CASE items' = items
  BY <1>2 DEF Tenure!vars, Unfinished, Child
<1>3. ASSUME NEW i \in Items, NEW new \in Item, items' = [items EXCEPT ![i] = new],
             Effect(i, items[i], new)
      PROVE  [Tenure!Next]_(Tenure!vars)
  <2>1. items \in [Items -> Item] /\ items'[i] = new /\ ItemOK(new)
    BY <1>3 DEF IInv, TypeOK, ItemsAreSound
  <2>2. /\ H' = [H EXCEPT ![i] = Holds(i, new)]
        /\ T' = [T EXCEPT ![i] = new.attempt]
        /\ i \in C <=> items[i].result # NoResult
        /\ C' = IF new.result = NoResult THEN C \ {i} ELSE C \cup {i}
    BY <1>3, <2>1 DEF Unfinished, Child
  <2>3. CASE Granted(items[i], new)
    <3>1. H[i] = <<>> /\ i \notin C /\ C' = C
      BY <2>2, <2>3 DEF Granted
    <3>2. Holds(i, new) = <<i, new.attempt>> /\ <<i, new.attempt>> \in Children
      BY <2>1, <2>3 DEF Granted, ItemOK, Child, Children, Attempts
    <3>3. T' = [T EXCEPT ![i] = @ + 1]
      BY <2>2, <2>3 DEF Granted
    <3>4. Tenure!Grant(i, <<i, new.attempt>>)
      BY <2>2, <3>1, <3>2, <3>3 DEF Tenure!Grant
    <3> QED
      BY <3>2, <3>4 DEF Tenure!Next
  <2>4. CASE Requeued(i, items[i], new)
    <3>1. i \notin C /\ C' = C /\ T' = T /\ H' = [H EXCEPT ![i] = <<>>]
      BY <2>2, <2>4 DEF Requeued
    <3> QED
      BY <3>1 DEF Tenure!Next, Tenure!Release
  <2>5. CASE Finished(items[i], new)
    <3>1. new.result # NoResult
      BY <2>5, SchedulerAssumption DEF Finished, Results, NoResult
    <3>2. C' = C \cup {i} /\ T' = T /\ H' = [H EXCEPT ![i] = <<>>]
      BY <2>2, <2>5, <3>1 DEF Finished
    <3> QED
      BY <3>2 DEF Tenure!Next, Tenure!Close
  <2>6. CASE Rearranged(items[i], new)
    <3>1. Holds(i, new) = H[i] /\ new.attempt = T[i] /\ new.result = items[i].result
      BY <2>6 DEF Rearranged, Child
    <3>2. C' = C /\ T' = T
      BY <2>2, <3>1
    <3>3. H' = H
      <4>1. H' = [H EXCEPT ![i] = H[i]]
        BY <2>2, <3>1
      <4> HIDE DEF Holds
      <4> QED
        BY <4>1
    <3> QED
      BY <1>1, <3>2, <3>3
  <2> QED
    BY <1>3, <2>3, <2>4, <2>5, <2>6 DEF Effect
<1> QED
  BY <1>2, <1>3, StepEffect DEF OneItem

\* The schedule is a tenure: an item is granted in numbered terms to one run at a time,
\* and never again once it has a result.
THEOREM SchedulerImplementsTenure == Spec => ImplementsTenure
<1>1. Init => Tenure!Init
  <2> SUFFICES ASSUME Init PROVE Tenure!Init
    OBVIOUS
  <2>1. \A i \in Items : /\ ~ items[i].claimed /\ items[i].attempt = 0
                         /\ items[i].result = NoResult
    BY DEF Init, NewItem
  <2> QED
    BY <2>1 DEF Tenure!Init, Unfinished
<1>2. IInv /\ IInv' /\ [Next]_vars => [Tenure!Next]_(Tenure!vars)
  BY TenureStep
<1> QED
  BY <1>1, <1>2, Invariance, PTL DEF Spec, ImplementsTenure, Tenure!Spec

-----------------------------------------------------------------------------
(* An invocation that is alone.                                             *)

\* What it may return with.
Settled ==
    \/ Unfinished(items) = {} \/ Spent(items) + Limit > TotalTokens
    \/ \E i \in Unfinished(items) : Abandoned(i)

\* Nobody else takes a step.
ByItself(v) == \A u \in Invocations \ {v} : ~ UnderWay(u)

\* Recovering, it judges the items' runs of now, and each run that is over is still to
\* be judged or its own.
OverlooksNone(v) == inv[v].pc \in {"look", "orphan", "settle"} =>
    /\ \A i \in inv[v].todo : IsCurrent(i, inv[v].plan[i])
    /\ \A i \in Unfinished(items) :
           items[i].claimed /\ Over(runs[Child(i, items[i])]) =>
               i \in inv[v].todo \/ Child(i, items[i]) \in Active(v)
    /\ inv[v].pc = "orphan" => runs[Judged(inv[v])].status = "running"

\* Handing out, it knows the items of the slots to come and has one to hand out.
Knows(v, i) ==
    /\ items[i].claimed = inv[v].plan[i].claimed
    /\ items[i].result = inv[v].plan[i].result
    /\ items[i].slot = inv[v].plan[i].slot
HandsOut(v) == inv[v].pc = "fill" =>
    /\ Candidates(inv[v], inv[v].slot) # {}
    /\ \A i \in Items : inv[v].plan[i].slot >= inv[v].slot => Knows(v, i)

\* Weighing and moving, it knows all of them; where nobody works, nothing is reserved.
NobodyWorks(v) ==
    /\ Active(v) = {}
    /\ \A i \in Unfinished(items) :
           ~ (items[i].claimed /\ runs[Child(i, items[i])].status = "running")
Weighs(v) == inv[v].pc \in {"weigh", "move"} =>
    /\ inv[v].slot = 0 /\ (inv[v].pc = "move" => Active(v) # {})
    /\ \A i \in Items : Knows(v, i) /\ items[i].attempt = inv[v].plan[i].attempt
    /\ inv[v].todo \subseteq Unfinished(items)
    /\ \A i \in Unfinished(items) :
           items[i].claimed /\ Over(runs[Child(i, items[i])]) => Child(i, items[i]) \in Active(v)
    /\ NobodyWorks(v) => inv[v].room = TotalTokens - Spent(items) /\ inv[v].busy = {}

\* Asleep, it had no tokens for a worker, or some other worker to wait for, or nothing
\* but claims whose runs had no row.
HasToWait ==
    \/ Spent(items) + Limit > TotalTokens
    \/ \E i \in Unfinished(items) :
           items[i].claimed /\ runs[Child(i, items[i])].status = "running"
    \/ \A i \in Unfinished(items) :
           items[i].claimed /\ runs[Child(i, items[i])].status = "absent"
Leaves(v) ==
    /\ inv[v].pc = "sleep" => Active(v) = {} /\ HasToWait
    /\ inv[v].pc = "finish" => Settled /\ (Unfinished(items) = {} \/ Active(v) = {})
    /\ inv[v].pc = "returned" => Settled

Alone(v) == ByItself(v) /\ OverlooksNone(v) /\ Weighs(v) /\ HandsOut(v) /\ Leaves(v)
AloneInv == \A v \in alone : Alone(v)

Watched == {"look", "orphan", "settle", "weigh", "move", "fill", "sleep", "finish", "returned"}

\* Where it goes, the others stay.
LEMMA StaysByItself ==
    ASSUME NEW v \in Invocations, NEW p, inv' = [inv EXCEPT ![v] = p], ByItself(v),
           inv \in [Invocations -> Invocation]
    PROVE  ByItself(v)' /\ inv'[v] = p
<1>1. inv'[v] = p /\ \A u \in Invocations \ {v} : inv'[u] = inv[u]
  OBVIOUS
<1> QED
  BY <1>1 DEF ByItself, UnderWay

LEMMA AloneElsewhere ==
    ASSUME IInv, NEW v \in Invocations, ByItself(v), NEW p, inv' = [inv EXCEPT ![v] = p],
           p.pc \notin Watched
    PROVE  Alone(v)'
<1>1. ByItself(v)' /\ inv'[v] = p
  BY StaysByItself DEF IInv, TypeOK
<1> QED
  BY <1>1 DEF Alone, OverlooksNone, Weighs, HandsOut, Leaves, Watched

\* The loop's top overlooks nothing.
LEMMA AloneTop ==
    ASSUME IInv, NEW v \in Invocations, ByItself(v), Top(v), UNCHANGED items
    PROVE  Alone(v)'
<1> DEFINE todo == {i \in Unfinished(items) : items[i].claimed}
           p == [Idle EXCEPT !.pc = "look", !.plan = items, !.todo = todo]
<1>1. inv' = [inv EXCEPT ![v] = p]
  BY DEF Top
<1> HIDE DEF todo
<1>2. p.pc = "look" /\ p.plan = items /\ p.todo = todo
  BY DEF Idle
<1> HIDE DEF p
<1>3. ByItself(v)' /\ inv'[v] = p
  BY <1>1, StaysByItself DEF IInv, TypeOK
<1>4. OverlooksNone(v)'
  <2>1. \A i \in todo : IsCurrent(i, items[i])
    BY DEF todo, Unfinished, IsCurrent
  <2>2. \A i \in Unfinished(items) : items[i].claimed => i \in todo
    BY DEF todo
  <2> QED
    BY <1>2, <1>3, <2>1, <2>2 DEF OverlooksNone, IsCurrent, Unfinished
<1>5. Weighs(v)' /\ HandsOut(v)' /\ Leaves(v)'
  BY <1>2, <1>3 DEF Weighs, HandsOut, Leaves
<1> QED
  BY <1>3, <1>4, <1>5 DEF Alone

\* The judged item has its result, or no run, or one that is not over.
LEMMA AlonePassed ==
    ASSUME IInv, NEW v \in Invocations, Alone(v), inv[v].pc \in {"look", "orphan", "settle"},
           inv' = [inv EXCEPT ![v] = Passed(v)], UNCHANGED <<runs, tasks>>,
           \A i \in Items : i # Subject(v) => items'[i] = items[i],
           \/ items'[Subject(v)].result # NoResult \/ ~ items'[Subject(v)].claimed
           \/ ~ Over(runs[Child(Subject(v), items'[Subject(v)])])
    PROVE  Alone(v)'
<1> DEFINE s == Subject(v)
           todo == inv[v].todo \ {s}
           p == [inv[v] EXCEPT !.pc = "look", !.todo = todo, !.seen = NoResult]
<1>1. inv[v] \in Invocation
  BY Own
<1>2. Passed(v) = p
  BY DEF Passed, NoResult
<1> HIDE DEF todo
<1>3. p.pc = "look" /\ p.plan = inv[v].plan /\ p.todo = todo
  BY <1>1 DEF Invocation
<1> HIDE DEF p
<1>4. ByItself(v)' /\ inv'[v] = p
  BY <1>2, StaysByItself DEF IInv, TypeOK, Alone
<1>5. OverlooksNone(v)'
  <2>1. \A i \in todo : i \in Items /\ i \in inv[v].todo /\ i # s
    BY <1>1 DEF todo, Invocation
  <2>2. \A i \in todo : IsCurrent(i, inv[v].plan[i])'
    <3> SUFFICES ASSUME NEW i \in todo PROVE IsCurrent(i, inv[v].plan[i])'
      OBVIOUS
    <3>1. IsCurrent(i, inv[v].plan[i]) /\ items'[i] = items[i]
      BY <2>1 DEF Alone, OverlooksNone
    <3>2. inv'[v].plan = inv[v].plan
      BY <1>3, <1>4
    <3> QED
      BY <3>1, <3>2 DEF IsCurrent
  <2>3. ASSUME NEW i \in Items, items'[i].result = NoResult, items'[i].claimed,
               Over(runs'[Child(i, items'[i])])
        PROVE  i \in todo \/ Child(i, items'[i]) \in Active(v)'
    <3>1. i # s
      BY <2>3
    <3>2. items'[i] = items[i]
      BY <3>1
    <3>3. i \in inv[v].todo \/ Child(i, items[i]) \in Active(v)
      BY <2>3, <3>2 DEF Alone, OverlooksNone, Unfinished
    <3> QED
      BY <3>1, <3>2, <3>3 DEF todo, Active
  <2> QED
    BY <1>3, <1>4, <2>2, <2>3 DEF OverlooksNone, Unfinished
<1>6. Weighs(v)' /\ HandsOut(v)' /\ Leaves(v)'
  BY <1>3, <1>4 DEF Weighs, HandsOut, Leaves
<1> QED
  BY <1>4, <1>5, <1>6 DEF Alone

\* The run of the judged item is the item's run of now.
LEMMA SubjectIsCurrent ==
    ASSUME IInv, NEW v \in Invocations, Alone(v), inv[v].pc \in {"look", "orphan", "settle"},
           inv[v].todo # {}
    PROVE  /\ Subject(v) \in Items /\ Subject(v) \in inv[v].todo
           /\ inv[v].plan[Subject(v)] \in Item
           /\ IsCurrent(Subject(v), inv[v].plan[Subject(v)])
           /\ Child(Subject(v), items[Subject(v)]) = Judged(inv[v])
           /\ SubjectRun(v) = Judged(inv[v])
<1>1. inv[v] \in Invocation /\ InvOK(inv[v], runs, results)
  BY Own
<1>2. Subject(v) \in Items /\ Subject(v) \in inv[v].todo /\ inv[v].plan[Subject(v)] \in Item
  BY <1>1, JudgedIsChild DEF Subject
<1>3. IsCurrent(Subject(v), inv[v].plan[Subject(v)])
  BY <1>2 DEF Alone, OverlooksNone
<1>4. SubjectRun(v) = Judged(inv[v])
  BY DEF SubjectRun, Subject, Child, Judged
<1>5. Child(Subject(v), items[Subject(v)]) = SubjectRun(v)
  BY <1>3 DEF IsCurrent, SubjectRun, Child
<1> QED
  BY <1>2, <1>3, <1>4, <1>5

LEMMA AloneLook ==
    ASSUME IInv, NEW v \in Invocations, Alone(v), Look(v) PROVE Alone(v)'
<1> DEFINE k == SubjectRun(v)
           judged == [inv[v] EXCEPT !.pc = "settle", !.seen = results[k]]
           absent == [judged EXCEPT !.seen = "absent"]
           orphan == [judged EXCEPT !.pc = "orphan"]
<1>1. inv[v].pc = "look" /\ inv[v].todo # {}
      /\ UNCHANGED <<items, runs, results, expired, tasks, faults, late, alone>>
  BY DEF Look, At, rows, observer
<1>2. inv[v] \in Invocation
  BY Own
<1>3. k = Judged(inv[v]) /\ Child(Subject(v), items[Subject(v)]) = k
  BY <1>1, SubjectIsCurrent
<1>4. \/ inv' = [inv EXCEPT ![v] = Passed(v)] /\ ~ Over(runs[k])
      \/ inv' = [inv EXCEPT ![v] = absent]
      \/ inv' = [inv EXCEPT ![v] = orphan] /\ runs[k].status = "running"
      \/ inv' = [inv EXCEPT ![v] = judged]
  <2> DEFINE verdict == CASE runs[k].status = "absent" ->
                             IF inv[v].plan[Subject(v)].aged THEN absent ELSE Passed(v)
                        [] runs[k].status = "running" ->
                             IF Live(k) THEN Passed(v) ELSE orphan
                        [] runs[k].status = "queued" -> Passed(v)
                        [] OTHER -> judged
  <2>1. inv' = [inv EXCEPT ![v] = verdict]
    BY DEF Look
  <2> HIDE DEF k, judged, absent, orphan
  <2>2. \/ verdict = Passed(v) /\ ~ Over(runs[k])
        \/ verdict = absent
        \/ verdict = orphan /\ runs[k].status = "running"
        \/ verdict = judged
    BY DEF Over
  <2> HIDE DEF verdict
  <2> QED
    BY <2>1, <2>2
<1> HIDE DEF k
<1>5. /\ judged.plan = inv[v].plan /\ judged.todo = inv[v].todo /\ judged.pc = "settle"
      /\ absent.plan = inv[v].plan /\ absent.todo = inv[v].todo /\ absent.pc = "settle"
      /\ orphan.plan = inv[v].plan /\ orphan.todo = inv[v].todo /\ orphan.pc = "orphan"
  BY <1>2 DEF Invocation
<1> HIDE DEF judged, absent, orphan
<1>6. CASE inv' = [inv EXCEPT ![v] = Passed(v)] /\ ~ Over(runs[k])
  BY <1>1, <1>3, <1>6, AlonePassed
<1>7. ASSUME NEW p, inv' = [inv EXCEPT ![v] = p], p.plan = inv[v].plan, p.todo = inv[v].todo,
             p.pc = "settle" \/ (p.pc = "orphan" /\ runs[k].status = "running")
      PROVE  Alone(v)'
  <2>1. ByItself(v)' /\ inv'[v] = p
    BY <1>7, StaysByItself DEF IInv, TypeOK, Alone
  <2>2. Judged(p) = k
    BY <1>3, <1>7 DEF Judged
  <2>3. OverlooksNone(v)'
    <3>1. /\ \A i \in inv[v].todo : IsCurrent(i, inv[v].plan[i])
          /\ \A i \in Unfinished(items) :
                 items[i].claimed /\ Over(runs[Child(i, items[i])]) =>
                     i \in inv[v].todo \/ Child(i, items[i]) \in Active(v)
      BY <1>1 DEF Alone, OverlooksNone
    <3>2. Active(v)' = Active(v)
      BY <1>1 DEF Active
    <3> QED
      BY <1>1, <1>7, <2>1, <2>2, <3>1, <3>2 DEF OverlooksNone, IsCurrent, Unfinished
  <2>4. Weighs(v)' /\ HandsOut(v)' /\ Leaves(v)'
    BY <1>7, <2>1 DEF Weighs, HandsOut, Leaves
  <2> QED
    BY <2>1, <2>3, <2>4 DEF Alone
<1>8. CASE inv' = [inv EXCEPT ![v] = absent]
  BY <1>5, <1>7, <1>8
<1>9. CASE inv' = [inv EXCEPT ![v] = judged]
  BY <1>5, <1>7, <1>9
<1>10. CASE inv' = [inv EXCEPT ![v] = orphan] /\ runs[k].status = "running"
  BY <1>5, <1>7, <1>10
<1> QED
  BY <1>4, <1>6, <1>8, <1>9, <1>10

LEMMA AloneOrphan ==
    ASSUME IInv, NEW v \in Invocations, Alone(v), Orphan(v) PROVE Alone(v)'
<1> DEFINE k == SubjectRun(v)
           p == [inv[v] EXCEPT !.pc = "settle"]
<1>1. inv[v].pc = "orphan" /\ UNCHANGED <<items, results, expired, tasks, faults, late, alone>>
  BY DEF Orphan, At, observer
<1>2. inv[v] \in Invocation /\ inv[v].todo # {}
  BY <1>1, Own DEF InvOK
<1>3. k = Judged(inv[v]) /\ Child(Subject(v), items[Subject(v)]) = k /\ k \in Children
      /\ Subject(v) \in inv[v].todo /\ Subject(v) \in Items
  BY <1>1, <1>2, SubjectIsCurrent, Own, JudgedIsChild
<1>4. runs[k].status = "running"
  BY <1>1, <1>3 DEF Alone, OverlooksNone
<1>5. MayTransition(runs[k], "orphaned", {"running"}, NoOwner)
  BY <1>4 DEF MayTransition, Absent, Successors, Statuses
<1>6. inv' = [inv EXCEPT ![v] = p] /\ runs' = [runs EXCEPT ![k] = OrphanedRow(@)]
  BY <1>5 DEF Orphan, Goes
<1>7. p.pc = "settle" /\ p.plan = inv[v].plan /\ p.todo = inv[v].todo
  BY <1>2 DEF Invocation
<1> HIDE DEF p, k
<1>8. ByItself(v)' /\ inv'[v] = p
  BY <1>6, StaysByItself DEF IInv, TypeOK, Alone
<1>9. OverlooksNone(v)'
  <2>1. \A i \in inv[v].todo : IsCurrent(i, inv[v].plan[i])
    BY <1>1 DEF Alone, OverlooksNone
  <2>2. ASSUME NEW i \in Items, items[i].result = NoResult, items[i].claimed,
               Over(runs'[Child(i, items[i])])
        PROVE  i \in inv[v].todo \/ Child(i, items[i]) \in Active(v)
    <3>1. CASE Child(i, items[i]) = k
      BY <1>3, <3>1 DEF Child
    <3>2. CASE Child(i, items[i]) # k
      <4>1. runs'[Child(i, items[i])] = runs[Child(i, items[i])]
        BY <1>6, <2>2, <3>2 DEF IInv, TypeOK, Item, ItemsAreSound, ItemOK, Child, Children, Attempts
      <4> QED
        BY <1>1, <2>2, <4>1 DEF Alone, OverlooksNone, Unfinished
    <3> QED
      BY <3>1, <3>2
  <2>3. Active(v)' = Active(v)
    BY <1>1 DEF Active
  <2> QED
    BY <1>1, <1>7, <1>8, <2>1, <2>2, <2>3 DEF OverlooksNone, IsCurrent, Unfinished
<1>10. Weighs(v)' /\ HandsOut(v)' /\ Leaves(v)'
  BY <1>7, <1>8 DEF Weighs, HandsOut, Leaves
<1> QED
  BY <1>8, <1>9, <1>10 DEF Alone

LEMMA AloneSettle ==
    ASSUME IInv, NEW v \in Invocations, Alone(v), Settle(v) PROVE Alone(v)'
<1> DEFINE i == Subject(v)
           item == inv[v].plan[i]
           seen == inv[v].seen
<1>1. inv[v].pc = "settle" /\ UNCHANGED <<runs, results, expired, tasks, faults, alone>>
      /\ inv' = [inv EXCEPT ![v] = Passed(v)]
  BY DEF Settle, At, rows
<1>2. inv[v].todo # {}
  BY <1>1, Own DEF InvOK
<1>3. i \in Items /\ IsCurrent(i, item) /\ items \in [Items -> Item]
  BY <1>1, <1>2, SubjectIsCurrent DEF IInv, TypeOK
<1>4. \/ seen \in Outcomes /\ Finish(i, item, seen)
      \/ Finish(i, item, "exhausted")
      \/ Requeue(i, item)
  BY DEF Settle, Resubmits
<1> HIDE DEF i, item, seen
<1>5. /\ \A j \in Items : j # i => items'[j] = items[j]
      /\ items'[i].result # NoResult \/ ~ items'[i].claimed
  <2>1. CASE seen \in Outcomes /\ Finish(i, item, seen)
    BY <1>3, <2>1, SchedulerAssumption DEF Finish, NoResult, Item
  <2>2. CASE Finish(i, item, "exhausted")
    BY <1>3, <2>2 DEF Finish, NoResult, Item
  <2>3. CASE Requeue(i, item)
    BY <1>3, <2>3 DEF Requeue, Item
  <2> QED
    BY <1>4, <2>1, <2>2, <2>3
<1> QED
  BY <1>1, <1>5, AlonePassed DEF i

\* Handing out goes on, or it waits, or it has to wait for others.
LEMMA AloneFillOrWait ==
    ASSUME IInv, NEW v \in Invocations, ByItself(v), NEW p \in Invocation, NEW active \in BOOLEAN,
           inv' = [inv EXCEPT ![v] = FillOrWait(p, active)], UNCHANGED runs,
           \A i \in Items : p.plan[i].slot >= p.slot =>
               /\ items'[i].claimed = p.plan[i].claimed
               /\ items'[i].result = p.plan[i].result
               /\ items'[i].slot = p.plan[i].slot,
           ~ active /\ OpenSlots(p) = {} => Active(v)' = {} /\ HasToWait'
    PROVE  Alone(v)'
<1>1. CASE OpenSlots(p) # {}
  <2> DEFINE slot == Min(OpenSlots(p))
             q == [p EXCEPT !.pc = "fill", !.slot = slot]
  <2>1. OpenSlots(p) \in SUBSET Nat
    BY DEF OpenSlots, Invocation
  <2>2. slot \in OpenSlots(p)
    BY <1>1, <2>1, MinFacts
  <2>3. FillOrWait(p, active) = q
    BY <1>1 DEF FillOrWait
  <2>10. p.slot \in Nat /\ \A i \in Items : p.plan[i].slot \in Nat
    <3>1. p.slot \in 0..2 /\ \A i \in Items : p.plan[i] \in Item
      BY DEF Invocation
    <3> QED
      BY <3>1 DEF Item, Slots
  <2>4. slot \in Nat /\ slot >= p.slot /\ Candidates(p, slot) # {}
    BY <2>2, <2>10 DEF OpenSlots
  <2> HIDE DEF slot
  <2>5. q.pc = "fill" /\ q.slot = slot /\ q.plan = p.plan
    BY DEF Invocation
  <2> HIDE DEF q
  <2>6. ByItself(v)' /\ inv'[v] = q
    BY <2>3, StaysByItself DEF IInv, TypeOK
  <2>7. Candidates(inv[v], inv[v].slot)' = Candidates(p, slot)
    BY <2>5, <2>6 DEF Candidates, Unfinished
  <2>8. HandsOut(v)'
    BY <2>4, <2>5, <2>6, <2>7, <2>10 DEF HandsOut, Knows
  <2>9. OverlooksNone(v)' /\ Weighs(v)' /\ Leaves(v)'
    BY <2>5, <2>6 DEF OverlooksNone, Weighs, Leaves
  <2> QED
    BY <2>6, <2>8, <2>9 DEF Alone
<1>2. CASE OpenSlots(p) = {}
  <2> DEFINE pc == IF active THEN "wait" ELSE "sleep"
             q == [Idle EXCEPT !.pc = pc]
  <2>1. FillOrWait(p, active) = q
    BY <1>2 DEF FillOrWait
  <2>2. q.pc = pc
    BY DEF Idle
  <2> HIDE DEF q
  <2>3. ByItself(v)' /\ inv'[v] = q
    BY <2>1, StaysByItself DEF IInv, TypeOK
  <2>4. inv'[v].pc = "wait" \/ (inv'[v].pc = "sleep" /\ Active(v)' = {} /\ HasToWait')
    BY <1>2, <2>2, <2>3
  <2>5. OverlooksNone(v)' /\ Weighs(v)' /\ Leaves(v)' /\ HandsOut(v)'
    BY <2>4 DEF OverlooksNone, Weighs, Leaves, HandsOut
  <2> QED
    BY <2>3, <2>5 DEF Alone
<1> QED
  BY <1>1, <1>2

\* The plan that is read is the items of now.
LEMMA AloneSurvey ==
    ASSUME IInv, NEW v \in Invocations, Alone(v), Survey(v) PROVE Alone(v)'
<1> DEFINE others == {i \in Unfinished(items) : /\ items[i].claimed
                                                /\ Child(i, items[i]) \notin Active(v)}
           room == TotalTokens - Spent(items) - Limit * Cardinality(Active(v))
           busy == {tasks[v][k].slot : k \in Active(v)}
           surveyed == [inv[v] EXCEPT !.pc = "weigh", !.plan = items, !.todo = others, !.slot = 0,
                             !.room = room, !.busy = busy]
<1>1. /\ inv[v].pc = "look" /\ inv[v].todo = {}
      /\ inv' = [inv EXCEPT ![v] = IF Unfinished(items) = {} THEN [Idle EXCEPT !.pc = "finish"]
                                   ELSE surveyed]
      /\ UNCHANGED <<items, runs, results, expired, tasks, faults, late, alone>>
  BY DEF Survey, At, rows, observer
<1>2. Unfinished(items)' = Unfinished(items) /\ Active(v)' = Active(v) /\ Spent(items)' = Spent(items)
  BY <1>1 DEF Unfinished, Active, Spent
<1>3. Active(v) = {} => room = TotalTokens - Spent(items) /\ busy = {}
  <2>1. Limit \in Nat /\ Spent(items) \in Nat /\ TotalTokens \in Nat
    BY Counts, SpentIsANumber, SchedulerAssumption
  <2>2. Cardinality({}) = 0
    BY FS_EmptySet
  <2> QED
    BY <2>1, <2>2
<1>4. others \subseteq Unfinished(items)
  OBVIOUS
<1>5. \A i \in Unfinished(items) :
           items[i].claimed /\ Over(runs[Child(i, items[i])]) => Child(i, items[i]) \in Active(v)
  BY <1>1 DEF Alone, OverlooksNone
<1> HIDE DEF room, busy, others
<1>6. CASE Unfinished(items) = {}
  <2> DEFINE p == [Idle EXCEPT !.pc = "finish"]
  <2>1. p.pc = "finish"
    BY DEF Idle
  <2>2. inv' = [inv EXCEPT ![v] = p]
    BY <1>1, <1>6
  <2> HIDE DEF p
  <2>3. ByItself(v)' /\ inv'[v] = p
    BY <2>2, StaysByItself DEF IInv, TypeOK, Alone
  <2>4. OverlooksNone(v)' /\ Weighs(v)' /\ HandsOut(v)' /\ Leaves(v)'
    BY <1>2, <1>6, <2>1, <2>3 DEF OverlooksNone, Weighs, HandsOut, Leaves, Settled
  <2> QED
    BY <2>3, <2>4 DEF Alone
<1>7. CASE Unfinished(items) # {}
  <2>1. inv' = [inv EXCEPT ![v] = surveyed]
    BY <1>1, <1>7
  <2>2. /\ surveyed.pc = "weigh" /\ surveyed.plan = items /\ surveyed.todo = others
        /\ surveyed.slot = 0 /\ surveyed.room = room /\ surveyed.busy = busy
    BY Own DEF Invocation
  <2> HIDE DEF surveyed
  <2>3. ByItself(v)' /\ inv'[v] = surveyed
    BY <2>1, StaysByItself DEF IInv, TypeOK, Alone
  <2>4. OverlooksNone(v)' /\ HandsOut(v)' /\ Leaves(v)'
    BY <2>2, <2>3 DEF OverlooksNone, HandsOut, Leaves
  <2>5. Weighs(v)'
    <3>1. \A i \in Items : Knows(v, i)' /\ items'[i].attempt = inv'[v].plan[i].attempt
      BY <1>1, <2>2, <2>3 DEF Knows
    <3>2. inv'[v].todo \subseteq Unfinished(items)'
      BY <1>2, <1>4, <2>2, <2>3
    <3>3. \A i \in Unfinished(items)' :
             items'[i].claimed /\ Over(runs'[Child(i, items'[i])]) => Child(i, items'[i]) \in Active(v)'
      BY <1>1, <1>2, <1>5
    <3>4. NobodyWorks(v)' => inv'[v].room = TotalTokens - Spent(items)' /\ inv'[v].busy = {}
      BY <1>2, <1>3, <2>2, <2>3 DEF NobodyWorks
    <3> QED
      BY <2>2, <2>3, <3>1, <3>2, <3>3, <3>4 DEF Weighs
  <2> QED
    BY <2>3, <2>4, <2>5 DEF Alone
<1> QED
  BY <1>6, <1>7

\* With no run of its own it has a reason to sleep.
LEMMA AloneWeigh ==
    ASSUME IInv, NEW v \in Invocations, Alone(v), Weigh(v) PROVE Alone(v)'
<1> DEFINE p == inv[v]
           move == [p EXCEPT !.pc = "move"]
           active == Active(v) # {}
<1>1. p.pc = "weigh" /\ UNCHANGED <<items, runs, results, expired, tasks, faults, late, alone>>
  BY DEF Weigh, At, rows, observer
<1>2. inv' = [inv EXCEPT ![v] =
              IF p.todo # {} THEN Next1(v)
              ELSE IF active /\ Movable(p) # {} THEN move
              ELSE FillOrWait(p, active)]
  BY DEF Weigh, Next1
<1>3. p \in Invocation /\ items \in [Items -> Item]
  BY Own DEF IInv, TypeOK
<1>4. Unfinished(items)' = Unfinished(items) /\ Active(v)' = Active(v) /\ Spent(items)' = Spent(items)
      /\ (NobodyWorks(v)' <=> NobodyWorks(v))
  BY <1>1 DEF Unfinished, Active, Spent, NobodyWorks
<1>5. /\ p.slot = 0 /\ p.todo \subseteq Unfinished(items)
      /\ \A i \in Items : Knows(v, i) /\ items[i].attempt = p.plan[i].attempt
      /\ \A i \in Unfinished(items) :
             items[i].claimed /\ Over(runs[Child(i, items[i])]) => Child(i, items[i]) \in Active(v)
      /\ NobodyWorks(v) => p.room = TotalTokens - Spent(items) /\ p.busy = {}
  BY <1>1 DEF Alone, Weighs
<1>6. ASSUME NEW q, inv' = [inv EXCEPT ![v] = q], q.pc \in {"weigh", "move"}, q.slot = 0,
             q.plan = p.plan, q.todo \subseteq p.todo, q.pc = "move" => active,
             NobodyWorks(v) => q.room = p.room /\ q.busy = p.busy
      PROVE  Alone(v)'
  <2>1. ByItself(v)' /\ inv'[v] = q
    BY <1>6, StaysByItself DEF IInv, TypeOK, Alone
  <2>2. OverlooksNone(v)' /\ HandsOut(v)' /\ Leaves(v)'
    BY <1>6, <2>1 DEF OverlooksNone, HandsOut, Leaves
  <2>3. \A i \in Items : Knows(v, i)' /\ items'[i].attempt = inv'[v].plan[i].attempt
    BY <1>1, <1>5, <1>6, <2>1 DEF Knows
  <2>4. \A i \in Unfinished(items)' :
           items'[i].claimed /\ Over(runs'[Child(i, items'[i])]) => Child(i, items'[i]) \in Active(v)'
    BY <1>1, <1>4, <1>5
  <2>5. NobodyWorks(v)' => inv'[v].room = TotalTokens - Spent(items)' /\ inv'[v].busy = {}
    BY <1>4, <1>5, <1>6, <2>1
  <2>6. inv'[v].todo \subseteq Unfinished(items)' /\ inv'[v].slot = 0
        /\ (inv'[v].pc = "move" => Active(v)' # {})
    BY <1>4, <1>5, <1>6, <2>1
  <2> QED
    BY <2>1, <2>2, <2>3, <2>4, <2>5, <2>6 DEF Alone, Weighs
<1>7. CASE p.todo # {}
  <2>1. inv' = [inv EXCEPT ![v] = Next1(v)]
    BY <1>2, <1>7
  <2>2. /\ Next1(v).todo = p.todo \ {Subject(v)} /\ Next1(v).pc = "weigh"
        /\ Next1(v).plan = p.plan /\ Next1(v).slot = p.slot /\ Subject(v) \in p.todo
        /\ ~ Live(SubjectRun(v)) => Next1(v).room = p.room /\ Next1(v).busy = p.busy
    BY <1>1, <1>7, NextFacts
  <2>3. NobodyWorks(v) => ~ Live(SubjectRun(v))
    <3> DEFINE i == Subject(v)
    <3>1. i \in Unfinished(items) /\ i \in Items /\ i \in p.todo
      BY <1>5, <2>2 DEF Unfinished
    <3>2. p.plan[i].claimed
      BY <3>1, Own DEF InvOK
    <3>3. items[i].claimed /\ SubjectRun(v) = Child(i, items[i])
      BY <1>5, <3>1, <3>2 DEF Knows, SubjectRun, Child
    <3> QED
      BY <3>1, <3>3 DEF NobodyWorks, Live
  <2> QED
    BY <1>5, <1>6, <2>1, <2>2, <2>3
<1>8. CASE p.todo = {} /\ active /\ Movable(p) # {}
  <2>1. inv' = [inv EXCEPT ![v] = move]
    BY <1>2, <1>8
  <2>2. /\ move.pc = "move" /\ move.plan = p.plan /\ move.todo = p.todo /\ move.slot = p.slot
        /\ move.room = p.room /\ move.busy = p.busy
    BY <1>3 DEF Invocation
  <2> HIDE DEF move
  <2> QED
    BY <1>5, <1>6, <1>8, <2>1, <2>2
<1>9. CASE p.todo = {} /\ inv' = [inv EXCEPT ![v] = FillOrWait(p, active)]
  <2>1. ~ active /\ OpenSlots(p) = {} => Active(v)' = {} /\ HasToWait'
    <3> SUFFICES ASSUME Active(v) = {}, OpenSlots(p) = {},
                        ~ (Spent(items) + Limit > TotalTokens),
                        \A i \in Unfinished(items) :
                            ~ (items[i].claimed /\ runs[Child(i, items[i])].status = "running"),
                        NEW i \in Unfinished(items)
                 PROVE  items[i].claimed /\ runs[Child(i, items[i])].status = "absent"
      BY <1>1, <1>4 DEF HasToWait
    <3>1. p.room = TotalTokens - Spent(items) /\ p.busy = {}
      BY <1>5 DEF NobodyWorks
    <3>2. Limit \in Nat /\ Spent(items) \in Nat /\ TotalTokens \in Nat
      BY Counts, SpentIsANumber, SchedulerAssumption
    <3>3. p.room >= Limit
      BY <3>1, <3>2
    <3>4. items[i] \in Item /\ i \in Items /\ items[i].result = NoResult
      BY <1>3 DEF Unfinished
    <3>5. i \notin Candidates(p, items[i].slot)
      <4>1. items[i].slot \in p.slot..1
        BY <1>5, <3>4 DEF Item, Slots
      <4> HIDE DEF p
      <4> QED
        BY <3>1, <3>3, <4>1 DEF OpenSlots
    <3>6. /\ p.plan[i].claimed = items[i].claimed /\ p.plan[i].result = NoResult
          /\ p.plan[i].slot = items[i].slot /\ Child(i, p.plan[i]) = Child(i, items[i])
      BY <1>5, <3>4 DEF Knows, Child
    <3>7. items[i].claimed /\ runs[Child(i, items[i])].status # "queued"
      BY <3>4, <3>5, <3>6 DEF Candidates, Unfinished
    <3>8. ~ Over(runs[Child(i, items[i])])
      BY <1>5, <3>7
    <3> QED
      BY <3>7, <3>8 DEF Over
  <2>2. \A i \in Items : /\ items'[i].claimed = p.plan[i].claimed
                         /\ items'[i].result = p.plan[i].result
                         /\ items'[i].slot = p.plan[i].slot
    BY <1>1, <1>5 DEF Knows
  <2>3. active \in BOOLEAN /\ ByItself(v) /\ UNCHANGED runs
    BY <1>1 DEF Alone
  <2> HIDE DEF active, p
  <2> QED
    BY <1>3, <1>9, <2>1, <2>2, <2>3, AloneFillOrWait
<1> HIDE DEF active, move
<1> QED
  BY <1>2, <1>7, <1>8, <1>9

LEMMA AloneMove ==
    ASSUME IInv, NEW v \in Invocations, Alone(v), Move(v), IInv' PROVE Alone(v)'
<1>1. UNCHANGED runs /\ inv[v].pc = "move"
  BY DEF Move, At, rows
<1>2. inv[v] \in Invocation /\ items' \in [Items -> Item]
  BY Own DEF IInv, TypeOK
<1>3. CASE UNCHANGED items /\ inv' = [inv EXCEPT ![v] = FillOrWait(inv[v], TRUE)]
  <2>1. \A i \in Items : /\ items'[i].claimed = inv[v].plan[i].claimed
                         /\ items'[i].result = inv[v].plan[i].result
                         /\ items'[i].slot = inv[v].plan[i].slot
    BY <1>1, <1>3 DEF Alone, Weighs, Knows
  <2> QED
    BY <1>1, <1>2, <1>3, <2>1, AloneFillOrWait DEF Alone
<1>4. CASE inv' = [inv EXCEPT ![v] = FillOrWait([@ EXCEPT !.plan = items'], TRUE)]
  <2> DEFINE p == [inv[v] EXCEPT !.plan = items']
  <2>1. p \in Invocation /\ p.plan = items'
    BY <1>2 DEF Invocation
  <2>2. inv' = [inv EXCEPT ![v] = FillOrWait(p, TRUE)]
    BY <1>4
  <2> HIDE DEF p
  <2> QED
    BY <1>1, <2>1, <2>2, AloneFillOrWait DEF Alone
<1> QED
  BY <1>3, <1>4 DEF Move

\* It has one to hand out and does.
LEMMA AloneFill ==
    ASSUME IInv, NEW v \in Invocations, Alone(v), Fill(v) PROVE Alone(v)'
<1> DEFINE slot == inv[v].slot
           candidates == Candidates(inv[v], slot)
           i == Min(IF candidates = {} THEN Items ELSE candidates)
           claims == i \in candidates /\ ~ inv[v].plan[i].claimed /\ MayBeClaimed(i, slot)
           starts == claims \/ (i \in candidates /\ inv[v].plan[i].claimed)
           claimed == [items[i] EXCEPT !.claimed = TRUE, !.attempt = @ + 1]
           item == IF claims THEN claimed ELSE inv[v].plan[i]
           task == [phase |-> "new", slot |-> slot, revision |-> item.revision]
           room == IF starts THEN inv[v].room - Limit ELSE inv[v].room
           p == [inv[v] EXCEPT !.slot = slot + 1, !.room = room]
           active == starts \/ Active(v) # {}
<1>1. inv[v].pc = "fill" /\ UNCHANGED <<runs, results, expired, faults, late, alone>>
  BY DEF Fill, At, rows, observer
<1>2. inv[v] \in Invocation /\ slot \in Slots /\ items \in [Items -> Item]
  BY <1>1, Own DEF InvOK, IInv, TypeOK
<1>3. /\ items' = IF claims THEN [items EXCEPT ![i] = claimed] ELSE items
      /\ inv' = [inv EXCEPT ![v] = FillOrWait(p, active)]
  BY Zenon DEF Fill
<1>4. candidates # {} /\ \A j \in Items : inv[v].plan[j].slot >= slot =>
           /\ items[j].claimed = inv[v].plan[j].claimed
           /\ items[j].result = inv[v].plan[j].result
           /\ items[j].slot = inv[v].plan[j].slot
  BY <1>1 DEF Alone, HandsOut, Knows
<1>5. i \in candidates /\ i \in Items /\ inv[v].plan[i].slot = slot
      /\ inv[v].plan[i].result = NoResult
  <2>1. candidates \in SUBSET Nat /\ candidates \subseteq Items
    BY ItemsAreNumbered DEF Candidates, Unfinished
  <2>2. i \in candidates
    BY <1>4, <2>1, MinFacts
  <2> QED
    BY <2>1, <2>2 DEF Candidates, Unfinished
<1>6. starts
  BY <1>2, <1>4, <1>5 DEF MayBeClaimed, Slots
<1>7. \A j \in Items : j # i => items'[j] = items[j]
  BY <1>2, <1>3
<1>8. active = TRUE
  BY <1>6
<1> HIDE DEF candidates, i, claims, starts, claimed, item, active
<1>9. p \in Invocation /\ p.slot = slot + 1 /\ p.plan = inv[v].plan
  <2>1. slot + 1 \in 0..2
    BY <1>2 DEF Slots
  <2>2. room \in Int
    BY <1>2, Counts DEF Invocation
  <2> HIDE DEF room
  <2> QED
    BY <1>2, <2>1, <2>2 DEF Invocation
<1> HIDE DEF p
<1>10. ASSUME NEW j \in Items, p.plan[j].slot >= p.slot
       PROVE  /\ items'[j].claimed = p.plan[j].claimed
              /\ items'[j].result = p.plan[j].result
              /\ items'[j].slot = p.plan[j].slot
  <2>1. inv[v].plan[j].slot >= slot + 1 /\ inv[v].plan[j].slot \in Nat /\ slot \in Nat
    <3>1. inv[v].plan[j] \in Item
      BY <1>2 DEF Invocation
    <3> QED
      BY <1>2, <1>9, <1>10, <3>1 DEF Item, Slots
  <2>2. inv[v].plan[j].slot >= slot /\ j # i
    BY <1>5, <2>1
  <2> QED
    BY <1>4, <1>7, <1>9, <2>2
<1> HIDE DEF slot, room
<1> QED
  BY <1>1, <1>3, <1>8, <1>9, <1>10, AloneFillOrWait DEF Alone

\* Nobody is at work: what it had to wait for was abandoned.
LEMMA AloneCheck ==
    ASSUME IInv, NEW v \in Invocations, Alone(v), Check(v) PROVE Alone(v)'
<1> DEFINE someone == \E i \in Unfinished(items) :
                /\ items[i].claimed
                /\ \/ Live(Child(i, items[i]))
                   \/ runs[Child(i, items[i])].status = "absent" /\ ~ items[i].aged
<1>1. inv[v].pc = "sleep" /\ UNCHANGED <<items, runs, results, expired, tasks, faults, late, alone>>
      /\ IF someone THEN Top(v) ELSE Goes(v, "finish")
  BY DEF Check, At, rows, observer
<1>2. CASE someone
  BY <1>1, <1>2, AloneTop DEF Alone
<1>3. CASE ~ someone
  <2> DEFINE p == [inv[v] EXCEPT !.pc = "finish"]
  <2>1. inv' = [inv EXCEPT ![v] = p] /\ p.pc = "finish"
    BY <1>1, <1>3, Own DEF Goes, Invocation
  <2> HIDE DEF p
  <2>2. ByItself(v)' /\ inv'[v] = p
    BY <2>1, StaysByItself DEF IInv, TypeOK, Alone
  <2>3. Active(v) = {} /\ HasToWait
    BY <1>1 DEF Alone, Leaves
  <2>4. Settled
    <3> SUFFICES ASSUME Unfinished(items) # {}, ~ (Spent(items) + Limit > TotalTokens)
                 PROVE  \E i \in Unfinished(items) : Abandoned(i)
      BY DEF Settled
    <3>1. PICK i \in Unfinished(items) :
              items[i].claimed /\ runs[Child(i, items[i])].status \in {"running", "absent"}
      BY <2>3 DEF HasToWait
    <3>2. Child(i, items[i]) \in expired \/ runs[Child(i, items[i])].status = "absent"
      BY <1>3, <3>1 DEF Live
    <3> QED
      BY <1>3, <3>1, <3>2 DEF Abandoned
  <2>5. Active(v)' = {} /\ Settled'
    BY <1>1, <2>3, <2>4 DEF Active, Settled, Unfinished, Spent, Abandoned
  <2>6. OverlooksNone(v)' /\ Weighs(v)' /\ HandsOut(v)' /\ Leaves(v)'
    BY <2>1, <2>2, <2>5 DEF OverlooksNone, Weighs, HandsOut, Leaves
  <2> QED
    BY <2>2, <2>6 DEF Alone
<1> QED
  BY <1>2, <1>3

LEMMA AloneWake ==
    ASSUME IInv, NEW v \in Invocations, Alone(v), Wake(v) PROVE Alone(v)'
<1>1. UNCHANGED items /\ (Top(v) \/ Goes(v, "unwind"))
  BY DEF Wake
<1>2. CASE Top(v)
  BY <1>1, <1>2, AloneTop DEF Alone
<1>3. CASE Goes(v, "unwind")
  <2>1. [inv[v] EXCEPT !.pc = "unwind"].pc = "unwind"
    BY Own DEF Invocation
  <2> QED
    BY <1>3, <2>1, AloneElsewhere DEF Goes, Alone, Watched
<1> QED
  BY <1>1, <1>2, <1>3

\* It returns with what it had when it decided to.
LEMMA AloneUnwind ==
    ASSUME IInv, NEW v \in Invocations, Alone(v), Unwind(v) PROVE Alone(v)'
<1>1. inv[v].pc \in {"unwind", "finish"} /\ UNCHANGED <<items, results, expired>>
  BY DEF Unwind
<1>2. CASE Active(v) = {} /\ UNCHANGED <<runs, tasks>>
           /\ Goes(v, IF inv[v].pc = "finish" THEN "returned" ELSE "raised")
  <2> DEFINE pc == IF inv[v].pc = "finish" THEN "returned" ELSE "raised"
             p == [inv[v] EXCEPT !.pc = pc]
  <2>1. inv' = [inv EXCEPT ![v] = p] /\ p.pc = pc
    BY <1>2, Own DEF Goes, Invocation
  <2> HIDE DEF p
  <2>2. ByItself(v)' /\ inv'[v] = p
    BY <2>1, StaysByItself DEF IInv, TypeOK, Alone
  <2>3. pc = "returned" => Settled'
    <3>1. pc = "returned" => Settled
      BY DEF Alone, Leaves
    <3> QED
      BY <1>1, <1>2, <3>1 DEF Settled, Unfinished, Spent, Abandoned
  <2>4. pc \in {"returned", "raised"}
    OBVIOUS
  <2>5. OverlooksNone(v)' /\ Weighs(v)' /\ HandsOut(v)' /\ Leaves(v)'
    BY <2>1, <2>2, <2>3, <2>4 DEF OverlooksNone, Weighs, HandsOut, Leaves
  <2> QED
    BY <2>2, <2>5 DEF Alone
<1>3. CASE Active(v) # {} /\ inv' = inv
  <2>1. inv[v].pc = "finish" => Unfinished(items) = {}
    BY <1>3 DEF Alone, Leaves
  <2>2. Unfinished(items)' = Unfinished(items)
    BY <1>1 DEF Unfinished
  <2>3. OverlooksNone(v)' /\ Weighs(v)' /\ HandsOut(v)' /\ Leaves(v)'
    BY <1>1, <1>3, <2>1, <2>2 DEF OverlooksNone, Weighs, HandsOut, Leaves, Settled
  <2>4. ByItself(v)'
    BY <1>3 DEF Alone, ByItself, UnderWay
  <2> QED
    BY <2>3, <2>4 DEF Alone
<1> QED
  BY <1>2, <1>3 DEF Unwind

LEMMA AloneFaults ==
    ASSUME IInv, NEW v \in Invocations, Alone(v), Cancel(v) \/ Crash(v) PROVE Alone(v)'
<1>1. PICK p : inv' = [inv EXCEPT ![v] = p] /\ p.pc \in {"unwind", "crashed"}
  <2>1. [inv[v] EXCEPT !.pc = "unwind"].pc = "unwind" /\ [Idle EXCEPT !.pc = "crashed"].pc = "crashed"
    BY Own DEF Invocation, Idle
  <2>2. CASE Cancel(v)
    BY <2>1, <2>2 DEF Cancel, Goes
  <2>3. CASE Crash(v)
    BY <2>1, <2>3 DEF Crash
  <2> QED
    BY <2>2, <2>3
<1> QED
  BY <1>1, AloneElsewhere DEF Alone, Watched

\* Its tasks go on while it waits, and it only waits for tasks it has.
LEMMA AloneWorks ==
    ASSUME IInv, NEW v \in Invocations, NEW k \in Children, Alone(v),
           Works(v, k) \/ Interrupt(v, k) \/ Heartbeat(v, k)
    PROVE  Alone(v)'
<1>1. inv' = inv /\ \E phase \in {"new", "claim", "work", "submit"} : Runnable(v, k, phase)
  BY DEF Works, Start, ClaimRun, Report, Submit, Interrupt, Heartbeat
<1>2. inv[v].pc \in AtAwait /\ k \in Active(v)
  BY <1>1 DEF Runnable, Active
<1>3. inv[v].pc = "wait"
  BY <1>2 DEF AtAwait, Alone, Leaves
<1>4. inv' = [inv EXCEPT ![v] = inv[v]]
  BY <1>1, Own
<1> QED
  BY <1>3, <1>4, AloneElsewhere DEF Alone, Watched

\* Time passes: claims age and leases expire.
LEMMA AloneStays ==
    ASSUME IInv, NEW v \in Invocations, Alone(v), UNCHANGED <<runs, tasks, inv>>, expired \subseteq expired',
           \A i \in Items : /\ items'[i].claimed = items[i].claimed
                            /\ items'[i].result = items[i].result
                            /\ items'[i].slot = items[i].slot
                            /\ items'[i].attempt = items[i].attempt
                            /\ items'[i].revision = items[i].revision
                            /\ items[i].aged => items'[i].aged
    PROVE  Alone(v)'
<1>1. \A i \in Items : Child(i, items'[i]) = Child(i, items[i])
  BY DEF Child
<1>2. Unfinished(items)' = Unfinished(items) /\ Unfinished(items) \subseteq Items
  BY DEF Unfinished
<1>3. Spent(items)' = Spent(items)
  <2>1. \A r : {i \in Items : items'[i].result = r} = {i \in Items : items[i].result = r}
    OBVIOUS
  <2> QED
    BY <2>1, Zenon DEF Spent
<1>4. Active(v)' = Active(v)
  BY DEF Active
<1>5. ByItself(v)'
  BY DEF Alone, ByItself, UnderWay
<1>6. OverlooksNone(v)'
  <2> SUFFICES ASSUME inv[v].pc \in {"look", "orphan", "settle"}
               PROVE  OverlooksNone(v)'
    BY DEF OverlooksNone
  <2>1. \A i \in inv[v].todo : IsCurrent(i, inv[v].plan[i])'
    <3>1. inv[v].todo \subseteq Items
      BY Own DEF Invocation
    <3> QED
      BY <3>1 DEF Alone, OverlooksNone, IsCurrent
  <2>2. \A i \in Unfinished(items) :
           items'[i].claimed /\ Over(runs'[Child(i, items'[i])]) =>
               i \in inv[v].todo \/ Child(i, items'[i]) \in Active(v)
    BY <1>1, <1>2 DEF Alone, OverlooksNone
  <2>3. inv'[v].pc = "orphan" => runs'[Judged(inv'[v])].status = "running"
    BY DEF Alone, OverlooksNone
  <2> QED
    BY <1>2, <1>4, <2>1, <2>2, <2>3 DEF OverlooksNone
<1>7. HandsOut(v)'
  <2>1. Candidates(inv[v], inv[v].slot)' = Candidates(inv[v], inv[v].slot)
    BY DEF Candidates
  <2> QED
    BY <2>1 DEF Alone, HandsOut, Knows
<1>11. Weighs(v)'
  <2> SUFFICES ASSUME inv[v].pc \in {"weigh", "move"}
               PROVE  Weighs(v)'
    BY DEF Weighs
  <2>1. \A i \in Items : Knows(v, i)' /\ items'[i].attempt = inv'[v].plan[i].attempt
    BY DEF Alone, Weighs, Knows
  <2>2. \A i \in Unfinished(items) :
           items'[i].claimed /\ Over(runs'[Child(i, items'[i])]) => Child(i, items'[i]) \in Active(v)
    BY <1>1, <1>2 DEF Alone, Weighs
  <2>3. NobodyWorks(v)' <=> NobodyWorks(v)
    BY <1>1, <1>2, <1>4 DEF NobodyWorks
  <2>4. /\ inv'[v].slot = 0 /\ (inv'[v].pc = "move" => Active(v)' # {})
        /\ inv'[v].todo \subseteq Unfinished(items)'
        /\ NobodyWorks(v)' => inv'[v].room = TotalTokens - Spent(items)' /\ inv'[v].busy = {}
    BY <1>2, <1>3, <1>4, <2>3 DEF Alone, Weighs
  <2> QED
    BY <1>2, <1>4, <2>1, <2>2, <2>4 DEF Weighs
<1>8. Settled => Settled'
  <2>1. \A i \in Unfinished(items) : Abandoned(i) => Abandoned(i)'
    BY <1>1, <1>2 DEF Abandoned
  <2> QED
    BY <1>2, <1>3, <2>1 DEF Settled
<1>9. HasToWait => HasToWait'
  BY <1>1, <1>2, <1>3 DEF HasToWait
<1>10. Leaves(v)'
  BY <1>2, <1>4, <1>8, <1>9 DEF Alone, Leaves
<1> QED
  BY <1>5, <1>6, <1>7, <1>10, <1>11 DEF Alone

LEMMA AloneStep == ASSUME IInv, AloneInv, [Next]_vars, IInv' PROVE AloneInv'
<1>0. alone \subseteq Invocations
  BY DEF IInv, TypeOK
<1>1. ASSUME NEW v \in Invocations, Alone(v), UNCHANGED vars PROVE Alone(v)'
  BY <1>1, AloneStays DEF vars, rows
<1>2. ASSUME NEW v \in Invocations, NEW i \in Items, Alone(v), Age(i) PROVE Alone(v)'
  <2>1. items \in [Items -> Item]
    BY DEF IInv, TypeOK
  <2>2. \A j \in Items : /\ items'[j].claimed = items[j].claimed
                         /\ items'[j].result = items[j].result
                         /\ items'[j].slot = items[j].slot
                         /\ items'[j].attempt = items[j].attempt
                         /\ items'[j].revision = items[j].revision
                         /\ items[j].aged => items'[j].aged
    BY <1>2, <2>1 DEF Age, Item
  <2> QED
    BY <1>2, <2>2, AloneStays DEF Age, rows
<1>3. ASSUME NEW v \in Invocations, NEW k \in Children, Alone(v), Expire(k) PROVE Alone(v)'
  BY <1>3, AloneStays DEF Expire
<1>4. ASSUME NEW u \in Invocations, NEW v \in Invocations, Alone(v),
             \/ Coroutine(u) \/ Cancel(u) \/ Crash(u)
             \/ \E k \in Children : Works(u, k) \/ Interrupt(u, k) \/ Heartbeat(u, k)
      PROVE  u = v
  <2>1. UnderWay(u)
    BY <1>4 DEF Coroutine, Look, Orphan, Settle, Survey, Weigh, Move, Fill, Check, Wake, Unwind, Cancel, Crash,
                At, Works, Start, ClaimRun, Report, Submit, Interrupt, Heartbeat, Runnable,
                AtAwait, UnderWay, Ended
  <2> QED
    BY <1>4, <2>1 DEF Alone, ByItself
<1>5. ASSUME NEW u \in Invocations, NEW v \in Invocations, Alone(v),
             \/ Coroutine(u) \/ Cancel(u) \/ Crash(u)
             \/ \E k \in Children : Works(u, k) \/ Interrupt(u, k) \/ Heartbeat(u, k)
      PROVE  Alone(v)'
  BY <1>4, <1>5, AloneLook, AloneOrphan, AloneSettle, AloneSurvey, AloneWeigh, AloneMove,
     AloneFill, AloneCheck, AloneWake, AloneUnwind, AloneFaults, AloneWorks DEF Coroutine
<1>6. ASSUME NEW u \in Invocations, Begin(u) PROVE AloneInv'
  <2>1. CASE \A w \in Invocations \ {u} : ~ UnderWay(w)
    <3>1. Alone(u)'
      BY <1>6, <2>1, AloneTop DEF Begin, ByItself
    <3>2. {w \in Invocations \ {u} : UnderWay(w)} = {}
      BY <2>1
    <3>3. alone' = {u}
      BY <1>6, <3>2 DEF Begin
    <3> QED
      BY <3>1, <3>3 DEF AloneInv
  <2>2. CASE ~ \A w \in Invocations \ {u} : ~ UnderWay(w)
    <3>1. {w \in Invocations \ {u} : UnderWay(w)} # {}
      BY <2>2
    <3>2. alone' = {}
      BY <1>6, <3>1 DEF Begin
    <3> QED
      BY <3>2 DEF AloneInv
  <2> QED
    BY <2>1, <2>2
<1>7. CASE \E u \in Invocations :
              \/ Coroutine(u) \/ Cancel(u) \/ Crash(u)
              \/ \E k \in Children : Works(u, k) \/ Interrupt(u, k) \/ Heartbeat(u, k)
  <2>1. ASSUME NEW u \in Invocations, Coroutine(u) \/ Cancel(u) \/ Crash(u)
        PROVE  alone' = alone
    BY <2>1 DEF Coroutine, Look, Orphan, Settle, Survey, Weigh, Move, Fill, Check, Wake, Unwind, Cancel, Crash,
                observer
  <2>2. ASSUME NEW u \in Invocations, NEW k \in Children,
               Works(u, k) \/ Interrupt(u, k) \/ Heartbeat(u, k)
        PROVE  alone' = alone
    BY <2>2 DEF Works, Start, ClaimRun, Report, Submit, Interrupt, Heartbeat, observer
  <2>3. alone' = alone
    BY <1>7, <2>1, <2>2
  <2> QED
    BY <1>0, <1>5, <1>7, <2>3 DEF AloneInv
<1>8. CASE (\E i \in Items : Age(i)) \/ (\E k \in Children : Expire(k)) \/ UNCHANGED vars
  <2>1. alone' = alone
    BY <1>8 DEF Age, Expire, vars, observer
  <2> QED
    BY <1>0, <1>1, <1>2, <1>3, <1>8, <2>1 DEF AloneInv
<1> QED
  BY <1>6, <1>7, <1>8 DEF Next

\* An invocation that was alone returns with a result for each item, or without the
\* tokens for another worker, or it waited for one that was abandoned at last.
THEOREM SchedulerReturns == Spec => []ReturnsWhatItCould
<1>1. Init => AloneInv
  BY DEF Init, AloneInv
<1>2. IInv /\ AloneInv /\ [Next]_vars => AloneInv'
  BY Inductive, AloneStep
<1>3. AloneInv => ReturnsWhatItCould
  BY DEF AloneInv, Alone, Leaves, Settled, ReturnsWhatItCould
<1> QED
  BY <1>1, <1>2, <1>3, Invariance, PTL DEF Spec
=============================================================================
