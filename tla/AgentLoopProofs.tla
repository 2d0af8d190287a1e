--------------------------- MODULE AgentLoopProofs ---------------------------
(***************************************************************************)
(* Proofs about AgentLoop, for any calls, limits and thresholds.  IInv is  *)
(* the inductive invariant: what the lifecycle events say at each point of *)
(* the coroutine, that a forced run only finalizes, and that a check whose *)
(* last result failed is remembered wherever its result is kept meanwhile. *)
(***************************************************************************)
EXTENDS AgentLoop, TLAPS

\* FINALIZE, the turn and RUN_END come in this order, each once, and a run that was
\* broken off skips the turn.
EventsInOrder ==
    /\ pc \notin {"final", "end"} => life.finalized = <<>> /\ life.ends = 0 /\ life.turns = 0
    /\ pc = "final" => /\ life.finalized = <<life.status>> /\ life.status \in Statuses
                       /\ life.ends = 0 /\ life.turns = 1 /\ ~ life.open
    /\ pc = "end" => /\ life.finalized = <<life.status>> /\ life.ends = 1 /\ ~ life.open
                     /\ life.turns = 1 <=> life.status \in Statuses

\* A request is a finalization exactly when the run is forced to finalize.
ForcedIsFinalizing ==
    /\ pc = "model" => (finalizing <=> forced # "")
    /\ pc = "tools" => forced = ""

\* A check whose last result failed is unverified, as soon as its result is there.
Remembers(c) == \A check \in Checks : c.last[check] = "failed" => check \in unverified
FailuresAreRemembered ==
    /\ pc \in {"start", "round", "model", "yield"} => Remembers(ctl)
    /\ pc = "tools" => Remembers(noted.ctl)

IInv == TypeOK /\ EventsInOrder /\ ForcedIsFinalizing /\ FailuresAreRemembered /\ CompletedIsEarned

-----------------------------------------------------------------------------
(* The controller. *)

\* A counter stops at its bound.
LEMMA UptoType == ASSUME NEW n \in Nat, NEW bound \in Nat PROVE Upto(n, bound) \in 0..bound
BY DEF Upto

LEMMA Bounds ==
    /\ MaxStalled \in Nat /\ MaxStalled + 1 \in Nat
    /\ MaxRecovery \in Nat /\ MaxRecovery + 1 \in Nat
    /\ Repeats \in Nat /\ Retries \in Nat
BY LoopAssumption

LEMMA ControllerFields ==
    ASSUME NEW c, NEW last \in [Calls -> Outcomes \cup {NoOutcome}], NEW count \in [Calls -> 0..Repeats],
           NEW fails \in [Calls -> [Failures -> 0..MaxRecovery + 1]],
           NEW stalled \in 0..MaxStalled + 1, NEW recovery \in 0..MaxRecovery + 1,
           c = [last |-> last, count |-> count, fails |-> fails, stalled |-> stalled,
                recovery |-> recovery]
    PROVE  c \in Controller /\ c.last = last
BY DEF Controller

LEMMA NewNotes ==
    /\ NewController \in Controller
    /\ \A call \in Calls : NewController.last[call] # "failed"
    /\ \A c \in Controller : NoNotes(c) \in Notes /\ NoNotes(c).ctl = c
<1>1. NewController \in Controller
  <2>1. 0 \in 0..Repeats /\ 0 \in 0..MaxStalled + 1 /\ 0 \in 0..MaxRecovery + 1
    BY Bounds
  <2> QED
    BY <2>1 DEF NewController, Controller
<1>2. \A call \in Calls : NewController.last[call] # "failed"
  BY DEF NewController, NoOutcome
<1>3. ASSUME NEW c \in Controller PROVE NoNotes(c) \in Notes /\ NoNotes(c).ctl = c
  <2>1. 0 \in 0..MaxRecovery + 1
    BY Bounds
  <2> QED
    BY <2>1 DEF NoNotes, Notes
<1> QED
  BY <1>1, <1>2, <1>3

\* Noting a result changes the call's last result and no other.
LEMMA NotedFacts ==
    ASSUME NEW acc \in Notes, NEW c \in Calls, NEW outcome \in Outcomes
    PROVE  /\ Noted(acc, c, outcome) \in Notes
           /\ Noted(acc, c, outcome).ctl.last = [acc.ctl.last EXCEPT ![c] = outcome]
<1> DEFINE same == acc.ctl.last[c] = outcome
           count == Upto(acc.ctl.count[c] + 1, Repeats)
           failed == outcome \in Failures
           fails == IF failed THEN Upto(acc.ctl.fails[c][outcome] + 1, MaxRecovery + 1) ELSE 0
           last1 == [acc.ctl.last EXCEPT ![c] = outcome]
           count1 == [acc.ctl.count EXCEPT ![c] = count]
           fails0 == IF failed THEN [acc.ctl.fails[c] EXCEPT ![outcome] = fails] ELSE acc.ctl.fails[c]
           fails1 == [acc.ctl.fails EXCEPT ![c] = fails0]
           ctl1 == [acc.ctl EXCEPT !.last = last1, !.count = count1, !.fails = fails1]
           progress == acc.progress \/ (~ failed /\ (outcome = "passed" \/ ~ same))
           news == acc.news \/ fails = 1
           failing == IF fails >= MaxRecovery THEN fails ELSE acc.failing
           repeated == acc.repeated \/ (same /\ count >= Repeats)
<1>1. acc.ctl \in Controller /\ acc.failing \in 0..MaxRecovery + 1
  BY DEF Notes
<1>2. count \in 0..Repeats
  <2>1. acc.ctl.count[c] \in 0..Repeats
    BY <1>1 DEF Controller
  <2>2. acc.ctl.count[c] + 1 \in Nat
    BY <2>1, Bounds
  <2> QED
    BY <2>2, Bounds, UptoType
<1>3. fails \in 0..MaxRecovery + 1
  <2>1. CASE failed
    <3>1. acc.ctl.fails[c][outcome] \in 0..MaxRecovery + 1
      BY <1>1, <2>1 DEF Controller
    <3>2. acc.ctl.fails[c][outcome] + 1 \in Nat
      BY <3>1, Bounds
    <3> QED
      BY <2>1, <3>2, Bounds, UptoType
  <2>2. CASE ~ failed
    BY <2>2, Bounds
  <2> QED
    BY <2>1, <2>2
<1>4. Noted(acc, c, outcome) = [ctl |-> ctl1, progress |-> progress, news |-> news,
                                failing |-> failing, repeated |-> repeated]
  BY DEF Noted
<1> HIDE DEF count, fails
<1>5. fails0 \in [Failures -> 0..MaxRecovery + 1]
  BY <1>1, <1>3 DEF Controller
<1> HIDE DEF fails0
<1>6. /\ last1 \in [Calls -> Outcomes \cup {NoOutcome}] /\ count1 \in [Calls -> 0..Repeats]
      /\ fails1 \in [Calls -> [Failures -> 0..MaxRecovery + 1]]
  BY <1>1, <1>2, <1>5 DEF Controller
<1> HIDE DEF last1, count1, fails1
<1>7. ctl1 \in Controller /\ ctl1.last = last1
  BY <1>1, <1>6 DEF Controller
<1> HIDE DEF ctl1
<1>8. failing \in 0..MaxRecovery + 1
  BY <1>1, <1>3
<1>9. progress \in BOOLEAN /\ news \in BOOLEAN /\ repeated \in BOOLEAN
  BY Zenon DEF Notes
<1> HIDE DEF progress, news, failing, repeated
<1> QED
  BY <1>4, <1>7, <1>8, <1>9 DEF Notes, last1

\* A decision changes only the counters of rounds.
LEMMA ObservedFacts ==
    ASSUME NEW all \in Notes
    PROVE  /\ Observed(all).ctl \in Controller
           /\ Observed(all).ctl.last = all.ctl.last
           /\ Observed(all).decision \in {"continue", "recover", "finalize"}
<1> DEFINE stalled == Upto(all.ctl.stalled + 1, MaxStalled + 1)
           recovery == Upto(all.ctl.recovery + 1, MaxRecovery + 1)
           stuck == [all.ctl EXCEPT !.stalled = stalled]
           tried == [all.ctl EXCEPT !.stalled = stalled, !.recovery = recovery]
           fresh == [all.ctl EXCEPT !.stalled = 0, !.recovery = 0]
           Good(c) == c \in Controller /\ c.last = all.ctl.last
<1>1. all.ctl \in Controller
  BY DEF Notes
<1>2. stalled \in 0..MaxStalled + 1 /\ recovery \in 0..MaxRecovery + 1
  <2>1. all.ctl.stalled + 1 \in Nat /\ all.ctl.recovery + 1 \in Nat
    BY <1>1, Bounds DEF Controller
  <2> QED
    BY <2>1, Bounds, UptoType
<1>3. 0 \in 0..MaxStalled + 1 /\ 0 \in 0..MaxRecovery + 1
  BY Bounds
<1>4. [stuck EXCEPT !.recovery = Upto(@ + 1, MaxRecovery + 1)] = tried
  BY <1>1 DEF Controller
<1>5. /\ Observed(all).ctl \in {fresh, stuck, tried}
      /\ Observed(all).decision \in {"continue", "recover", "finalize"}
  BY <1>4 DEF Observed, Stall
<1> HIDE DEF stalled, recovery
<1>6. Good(fresh) /\ Good(stuck) /\ Good(tried)
  BY <1>1, <1>2, <1>3 DEF Controller
<1> QED
  BY <1>5, <1>6

LEMMA ConvergeFacts ==
    ASSUME TypeOK, NEW all \in Notes, Converge(all)
    PROVE  /\ ctl' \in Controller /\ ctl'.last = all.ctl.last
           /\ decision' \in {"continue", "recover", "finalize"}
           /\ forced' \in {"", "finalize"}
BY ObservedFacts DEF Converge, TypeOK

-----------------------------------------------------------------------------
(* Endings. *)

LEMMA OutcomeIsStatus ==
    ASSUME NEW reason
    PROVE  /\ Outcome(reason) \in Statuses
           /\ Outcome(reason) = "completed" =>
                  reason = "model_answer" /\ PlanComplete /\ plan # "open" /\ unverified = {}
BY DEF Outcome, Statuses

LEMMA FinalFacts ==
    ASSUME TypeOK, EventsInOrder, pc \notin {"final", "end"}, NEW reason, Final(reason)
    PROVE  /\ pc' = "final" /\ life' \in Life /\ EventsInOrder'
           /\ life'.finalized = <<Outcome(reason)>>
<1> DEFINE o == Outcome(reason)
           finalized == Append(life.finalized, o)
           turns == life.turns + 1
<1>1. life \in Life /\ life.finalized = <<>> /\ life.ends = 0 /\ life.turns = 0
  BY DEF TypeOK, EventsInOrder
<1>2. o \in Statuses
  BY OutcomeIsStatus
<1>3. pc' = "final" /\ life' = [life EXCEPT !.open = FALSE, !.status = o, !.turns = turns,
                                            !.finalized = finalized]
  BY DEF Final
<1> HIDE DEF o
<1>4. finalized = <<o>> /\ turns = 1 /\ <<o>> \in Seq(Statuses \cup Broken)
  BY <1>1, <1>2
<1> HIDE DEF finalized, turns
<1>5. /\ ~ life'.open /\ life'.status = o /\ life'.turns = 1 /\ life'.finalized = <<o>>
      /\ life'.ends = 0
  BY <1>1, <1>3, <1>4 DEF Life
<1>6. life' \in Life
  <2>1. finalized \in Seq(Statuses \cup Broken) /\ turns \in 0..1
    BY <1>4
  <2> QED
    BY <1>1, <1>2, <1>3, <2>1 DEF Life
<1> QED
  BY <1>2, <1>3, <1>5, <1>6 DEF EventsInOrder, o

\* A run that is broken off is finalized then.
LEMMA BrokenFacts ==
    ASSUME TypeOK, EventsInOrder, pc \notin {"final", "end"}, NEW status \in Broken, Leave(status)
    PROVE  /\ pc' = "end" /\ life' \in Life /\ EventsInOrder'
           /\ life'.finalized = <<status>>
<1> DEFINE finalized == IF life.finalized = <<>> THEN <<status>> ELSE life.finalized
           ends == life.ends + 1
<1>1. life \in Life /\ life.finalized = <<>> /\ life.ends = 0 /\ life.turns = 0
  BY DEF TypeOK, EventsInOrder
<1>2. pc' = "end" /\ life' = [life EXCEPT !.open = FALSE, !.status = status, !.ends = ends,
                                          !.finalized = finalized]
  BY DEF Leave
<1>3. finalized = <<status>> /\ ends = 1 /\ <<status>> \in Seq(Statuses \cup Broken)
  BY <1>1
<1> HIDE DEF finalized, ends
<1>4. /\ ~ life'.open /\ life'.status = status /\ life'.turns = 0 /\ life'.finalized = <<status>>
      /\ life'.ends = 1
  BY <1>1, <1>2, <1>3 DEF Life
<1>6. life' \in Life
  <2>1. finalized \in Seq(Statuses \cup Broken) /\ ends \in 0..1
    BY <1>3
  <2> QED
    BY <1>1, <1>2, <2>1 DEF Life
<1>5. status \notin Statuses
  BY DEF Statuses, Broken
<1> QED
  BY <1>2, <1>4, <1>5, <1>6 DEF EventsInOrder

LEMMA NothingClaimed ==
    ASSUME NEW status, status # "completed", life'.finalized \in {<<>>, <<status>>}
    PROVE  CompletedIsEarned'
<1>1. "completed" \notin ToSet(life'.finalized)
  BY DEF ToSet
<1> QED
  BY <1>1 DEF CompletedIsEarned

\* While a run goes on nothing was published.
LEMMA GoesOn ==
    ASSUME TypeOK, EventsInOrder, pc \notin {"final", "end"}, pc' \notin {"final", "end"},
           life' = life \/ life' = [life EXCEPT !.open = TRUE]
    PROVE  life' \in Life /\ EventsInOrder' /\ CompletedIsEarned'
<1>1. life \in Life /\ life.finalized = <<>> /\ life.ends = 0 /\ life.turns = 0
  BY DEF TypeOK, EventsInOrder
<1>2. life' \in Life /\ life'.finalized = <<>> /\ life'.ends = 0 /\ life'.turns = 0
  BY <1>1 DEF Life
<1>3. "running" # "completed" /\ life'.finalized \in {<<>>, <<"running">>}
  BY <1>2
<1>4. CompletedIsEarned'
  BY <1>3, NothingClaimed
<1> QED
  BY <1>2, <1>4 DEF EventsInOrder

-----------------------------------------------------------------------------
(* The steps. *)

LEMMA InitIInv == Init => IInv
<1> SUFFICES ASSUME Init PROVE IInv
  OBVIOUS
<1>1. TypeOK
  <2>1. NewController \in Controller /\ NoNotes(NewController) \in Notes
    BY NewNotes
  <2>2. 0 \in 0..limit /\ 0 \in 0..Retries + 1
    <3>1. limit \in Nat
      BY LoopAssumption DEF Init
    <3> QED
      BY <3>1, Bounds
  <2>3. life \in Life
    <3>1. life = [open |-> FALSE, status |-> "running", finalized |-> <<>>, ends |-> 0, turns |-> 0]
      BY DEF Init
    <3>2. <<>> \in Seq(Statuses \cup Broken)
      OBVIOUS
    <3> QED
      BY <3>1, <3>2 DEF Life
  <2>4. batch \in Seq(Calls) /\ Len(batch) <= MaxBatch
    <3>1. batch = <<>>
      BY DEF Init
    <3> QED
      BY <3>1, LoopAssumption
  <2> QED
    BY <2>1, <2>2, <2>3, <2>4 DEF Init, TypeOK
<1>2. EventsInOrder /\ ForcedIsFinalizing
  BY DEF Init, EventsInOrder, ForcedIsFinalizing
<1>3. FailuresAreRemembered
  BY NewNotes DEF Init, FailuresAreRemembered, Remembers, Calls
<1>4. CompletedIsEarned
  <2>1. life.finalized = <<>>
    BY DEF Init
  <2>2. "completed" \notin ToSet(life.finalized)
    BY <2>1 DEF ToSet
  <2> QED
    BY <2>2 DEF CompletedIsEarned
<1> QED
  BY <1>1, <1>2, <1>3, <1>4 DEF IInv

LEMMA StartStep == ASSUME IInv, Start PROVE IInv'
<1> USE DEF IInv
<1>1. pc = "start" /\ pc' = "round" /\ used' = 0
      /\ UNCHANGED <<limit, required, plan, ctl, decision, forced, finalizing, attempt, batch,
                     noted, over, unverified, life>>
  BY DEF Start, controls
<1>2. life' \in Life /\ EventsInOrder' /\ CompletedIsEarned'
  BY <1>1, GoesOn
<1>3. TypeOK'
  <2>1. used' \in 0..limit
    <3>1. limit \in Nat
      BY LoopAssumption DEF TypeOK
    <3> QED
      BY <1>1, <3>1
  <2> QED
    BY <1>1, <1>2, <2>1 DEF TypeOK
<1>4. ForcedIsFinalizing' /\ FailuresAreRemembered'
  BY <1>1 DEF ForcedIsFinalizing, FailuresAreRemembered, Remembers
<1> QED
  BY <1>2, <1>3, <1>4

\* A run that ends here for any reason but its answer says it is partial.
LEMMA FinalStep ==
    ASSUME IInv, pc \notin {"final", "end"}, NEW reason, Final(reason), reason # "model_answer",
           ctl' \in Controller, noted' \in Notes, decision' \in {"continue", "recover", "finalize"},
           forced' \in {"", "finalize"}, finalizing' \in BOOLEAN, attempt' \in 0..Retries + 1,
           UNCHANGED <<limit, required, plan, batch, used, over, unverified>>
    PROVE  IInv'
<1> USE DEF IInv
<1>1. /\ pc' = "final" /\ life' \in Life /\ EventsInOrder'
      /\ life'.finalized = <<Outcome(reason)>>
  BY FinalFacts
<1>2. CompletedIsEarned'
  <2>1. Outcome(reason) # "completed"
    BY OutcomeIsStatus
  <2> QED
    BY <1>1, <2>1, NothingClaimed
<1>3. TypeOK'
  BY <1>1 DEF TypeOK
<1>4. ForcedIsFinalizing' /\ FailuresAreRemembered'
  BY <1>1 DEF ForcedIsFinalizing, FailuresAreRemembered
<1> QED
  BY <1>1, <1>2, <1>3, <1>4

LEMMA RoundStep == ASSUME IInv, Round PROVE IInv'
<1> USE DEF IInv
<1>1. pc = "round" /\ finalizing' = (forced # "") /\ attempt' = 1
      /\ UNCHANGED <<limit, required, plan, ctl, decision, forced, batch, noted, used, over,
                     unverified>>
  BY DEF Round, controls, work
<1>2. attempt' \in 0..Retries + 1 /\ finalizing' \in BOOLEAN
  <2>1. attempt' = 1
    BY <1>1
  <2>2. attempt' \in 0..Retries + 1
    BY <2>1, Bounds
  <2>3. (forced # "") \in BOOLEAN
    OBVIOUS
  <2>4. finalizing' \in BOOLEAN
    BY <1>1, <2>3, Zenon
  <2> QED
    BY <2>2, <2>4
<1>3. CASE pc' = "model" /\ life' = [life EXCEPT !.open = TRUE]
  <2>1. life' \in Life /\ EventsInOrder' /\ CompletedIsEarned'
    BY <1>1, <1>3, GoesOn
  <2>2. TypeOK'
    BY <1>1, <1>2, <1>3, <2>1 DEF TypeOK
  <2>3. ForcedIsFinalizing' /\ FailuresAreRemembered'
    BY <1>1, <1>3 DEF ForcedIsFinalizing, FailuresAreRemembered, Remembers
  <2> QED
    BY <2>1, <2>2, <2>3
<1>4. CASE \E reason \in {"context_hard_limit", "time_limit", "tool_call_limit"} : Final(reason)
  <2>1. PICK reason \in {"context_hard_limit", "time_limit", "tool_call_limit"} : Final(reason)
    BY <1>4
  <2>2. reason # "model_answer"
    BY <2>1
  <2>3. ctl \in Controller /\ noted \in Notes /\ decision \in {"continue", "recover", "finalize"}
        /\ forced \in {"", "finalize"}
    BY DEF TypeOK
  <2> QED
    BY <1>1, <1>2, <2>1, <2>2, <2>3, FinalStep
<1> QED
  BY <1>3, <1>4 DEF Round

LEMMA TimeoutStep == ASSUME IInv, Timeout PROVE IInv'
<1> USE DEF IInv
<1>1. pc = "model"
      /\ UNCHANGED <<limit, required, plan, ctl, decision, forced, finalizing, batch, noted, used,
                     over, unverified>>
  BY DEF Timeout, controls, work
<1>2. ctl \in Controller /\ noted \in Notes /\ decision \in {"continue", "recover", "finalize"}
      /\ forced \in {"", "finalize"} /\ finalizing \in BOOLEAN /\ attempt \in 0..Retries + 1
  BY DEF TypeOK
<1>3. CASE attempt <= Retries /\ attempt' = attempt + 1 /\ UNCHANGED <<pc, life>>
  <2>1. life' \in Life /\ EventsInOrder' /\ CompletedIsEarned'
    BY <1>1, <1>3, GoesOn
  <2>2. attempt' \in 0..Retries + 1
    <3>1. attempt \in 0..Retries + 1 /\ attempt <= Retries /\ attempt' = attempt + 1
      BY <1>2, <1>3
    <3> QED
      BY <3>1, Bounds
  <2>3. TypeOK'
    BY <1>1, <1>3, <2>1, <2>2 DEF TypeOK
  <2>4. ForcedIsFinalizing' /\ FailuresAreRemembered'
    BY <1>1, <1>3 DEF ForcedIsFinalizing, FailuresAreRemembered, Remembers
  <2> QED
    BY <2>1, <2>3, <2>4
<1>4. CASE Final("llm_timeout") /\ attempt' = 0
  <2>1. "llm_timeout" # "model_answer" /\ attempt' \in 0..Retries + 1
    BY <1>4, Bounds
  <2> QED
    BY <1>1, <1>2, <1>4, <2>1, FinalStep
<1> QED
  BY <1>3, <1>4 DEF Timeout

LEMMA TextStep == ASSUME IInv, NEW empty \in BOOLEAN, Text(empty) PROVE IInv'
<1> USE DEF IInv
<1>1. pc = "model" /\ attempt' = 0
      /\ UNCHANGED <<limit, required, plan, finalizing, batch, noted, used, over, unverified>>
  BY DEF Text, work
<1>2. ctl \in Controller /\ noted \in Notes /\ decision \in {"continue", "recover", "finalize"}
      /\ forced \in {"", "finalize"} /\ finalizing \in BOOLEAN
  BY DEF TypeOK
<1>7. attempt' \in 0..Retries + 1
  BY <1>1, Bounds
<1>3. /\ ctl' \in Controller /\ ctl'.last = ctl.last
      /\ decision' \in {"continue", "recover", "finalize"} /\ forced' \in {"", "finalize"}
  <2>1. CASE Converge(NoNotes(ctl))
    BY <1>2, <2>1, NewNotes, ConvergeFacts
  <2>2. CASE decision' = "continue" /\ UNCHANGED <<ctl, forced>>
    BY <1>2, <2>2
  <2> QED
    BY <2>1, <2>2 DEF Text
<1>4. CASE Final("finalize")
  <2>1. "finalize" # "model_answer"
    OBVIOUS
  <2> QED
    BY <1>1, <1>2, <1>3, <1>4, <1>7, <2>1, FinalStep
<1>5. CASE pc' = "yield" /\ UNCHANGED life
  <2>1. life' \in Life /\ EventsInOrder' /\ CompletedIsEarned'
    BY <1>1, <1>5, GoesOn
  <2>2. TypeOK'
    BY <1>1, <1>2, <1>3, <1>5, <1>7, <2>1 DEF TypeOK
  <2>3. ForcedIsFinalizing' /\ FailuresAreRemembered'
    BY <1>1, <1>3, <1>5 DEF ForcedIsFinalizing, FailuresAreRemembered, Remembers
  <2> QED
    BY <2>1, <2>2, <2>3
<1>6. CASE ~ finalizing /\ PlanComplete /\ UNCHANGED <<ctl, forced>> /\ Final("model_answer")
  <2>1. /\ pc' = "final" /\ life' \in Life /\ EventsInOrder'
        /\ life'.finalized = <<Outcome("model_answer")>>
    BY <1>1, <1>6, FinalFacts
  <2>2. TypeOK'
    BY <1>1, <1>2, <1>3, <1>7, <2>1 DEF TypeOK
  <2>3. ForcedIsFinalizing' /\ FailuresAreRemembered'
    BY <2>1 DEF ForcedIsFinalizing, FailuresAreRemembered
  <2>4. CompletedIsEarned'
    <3> SUFFICES ASSUME "completed" \in ToSet(life'.finalized)
                 PROVE  /\ forced' = "" /\ PlanComplete' /\ plan' # "open"
                        /\ \A c \in Checks : ctl'.last[c] # "failed"
      BY DEF CompletedIsEarned
    <3>1. Outcome("model_answer") = "completed"
      BY <2>1 DEF ToSet
    <3>2. plan # "open" /\ unverified = {}
      BY <3>1, OutcomeIsStatus
    <3>3. forced = ""
      BY <1>1, <1>6 DEF ForcedIsFinalizing
    <3>4. \A c \in Checks : ctl.last[c] # "failed"
      BY <1>1, <3>2 DEF FailuresAreRemembered, Remembers
    <3> QED
      BY <1>1, <1>6, <3>2, <3>3, <3>4 DEF PlanComplete
  <2> QED
    BY <2>1, <2>2, <2>3, <2>4
<1> QED
  BY <1>4, <1>5, <1>6 DEF Text

LEMMA CallsForStep ==
    ASSUME IInv, NEW n \in 1..MaxBatch, NEW calls \in [1..n -> Calls], CallsFor(calls)
    PROVE  IInv'
<1> USE DEF IInv
<1>1. pc = "model" /\ ~ finalizing /\ pc' = "tools" /\ batch' = calls /\ noted' = NoNotes(ctl)
      /\ over' \in BOOLEAN /\ attempt' = 0
      /\ UNCHANGED <<limit, required, plan, ctl, decision, forced, finalizing, used, unverified,
                     life>>
  BY DEF CallsFor, controls
<1>2. life' \in Life /\ EventsInOrder' /\ CompletedIsEarned'
  BY <1>1, GoesOn
<1>3. TypeOK'
  <2>1. calls \in Seq(Calls) /\ Len(calls) = n /\ n <= MaxBatch
    BY LoopAssumption
  <2>2. ctl \in Controller /\ NoNotes(ctl) \in Notes
    BY NewNotes DEF TypeOK
  <2>3. attempt' \in 0..Retries + 1
    BY <1>1, Bounds
  <2> QED
    BY <1>1, <1>2, <2>1, <2>2, <2>3 DEF TypeOK
<1>4. ForcedIsFinalizing'
  BY <1>1 DEF ForcedIsFinalizing
<1>5. FailuresAreRemembered'
  <2>1. noted'.ctl = ctl
    BY <1>1, NewNotes DEF TypeOK
  <2> QED
    BY <1>1, <2>1 DEF FailuresAreRemembered, Remembers
<1> QED
  BY <1>2, <1>3, <1>4, <1>5

LEMMA ExecuteStep == ASSUME IInv, Execute PROVE IInv'
<1> USE DEF IInv
<1> DEFINE c == Head(batch)
<1>1. pc = "tools" /\ pc' = "tools" /\ batch # <<>> /\ batch' = Tail(batch)
      /\ UNCHANGED <<limit, required, ctl, decision, forced, finalizing, attempt, over, life>>
  BY DEF Execute, controls
<1>2. PICK outcome \in CanEnd(c) :
        /\ noted' = Noted(noted, c, outcome)
        /\ plan' = IF outcome = "planned" THEN c ELSE plan
        /\ used' = IF limit = 0 \/ Gated(c) \/ Exhausted THEN used ELSE used + 1
        /\ unverified' = Verified(c, outcome)
  BY DEF Execute
<1>3. batch \in Seq(Calls) /\ Len(batch) <= MaxBatch /\ noted \in Notes
  BY DEF TypeOK
<1>4. c \in Calls /\ batch' \in Seq(Calls) /\ Len(batch') <= MaxBatch
  BY <1>1, <1>3, LoopAssumption
<1> HIDE DEF c
<1>5. /\ outcome \in Outcomes
      /\ outcome = "planned" => c \in Plans
  BY <1>2 DEF CanEnd, Outcomes, Successes, Failures
<1>6. noted' \in Notes /\ noted'.ctl.last = [noted.ctl.last EXCEPT ![c] = outcome]
  BY <1>2, <1>3, <1>4, <1>5, NotedFacts
<1>7. life' \in Life /\ EventsInOrder' /\ CompletedIsEarned'
  BY <1>1, GoesOn
<1>8. TypeOK'
  <2>1. plan' \in {"none", "open", "complete"}
    BY <1>2, <1>5, LoopAssumption DEF TypeOK
  <2>2. used' \in 0..limit
    <3>1. limit \in Nat /\ used \in 0..limit
      BY LoopAssumption DEF TypeOK
    <3> QED
      BY <1>2, <3>1 DEF Exhausted
  <2>3. unverified' \subseteq Checks
    BY <1>2 DEF TypeOK, Verified
  <2> QED
    BY <1>1, <1>4, <1>6, <1>7, <2>1, <2>2, <2>3 DEF TypeOK
<1>9. ForcedIsFinalizing'
  BY <1>1 DEF ForcedIsFinalizing
<1>10. FailuresAreRemembered'
  <2> SUFFICES ASSUME NEW check \in Checks, noted'.ctl.last[check] = "failed"
               PROVE  check \in unverified'
    BY <1>1 DEF FailuresAreRemembered, Remembers
  <2>1. noted.ctl.last \in [Calls -> Outcomes \cup {NoOutcome}] /\ check \in Calls
    BY <1>3 DEF Notes, Controller, Calls
  <2>2. CASE check = c
    <3>1. outcome = "failed"
      BY <1>6, <2>1, <2>2
    <3> QED
      BY <1>2, <2>2, <3>1 DEF Verified
  <2>3. CASE check # c
    <3>1. noted.ctl.last[check] = "failed"
      BY <1>6, <2>1, <2>3
    <3>2. check \in unverified
      BY <1>1, <3>1 DEF FailuresAreRemembered, Remembers
    <3> QED
      BY <1>2, <2>3, <3>2 DEF Verified
  <2> QED
    BY <2>2, <2>3
<1> QED
  BY <1>7, <1>8, <1>9, <1>10

LEMMA BatchAfterStep == ASSUME IInv, BatchAfter PROVE IInv'
<1> USE DEF IInv
<1>1. pc = "tools" /\ Converge(noted) /\ noted' = NoNotes(NewController)
      /\ UNCHANGED <<limit, required, plan, finalizing, attempt, batch, used, over, unverified>>
  BY DEF BatchAfter
<1>2. noted \in Notes /\ finalizing \in BOOLEAN /\ attempt \in 0..Retries + 1
  BY DEF TypeOK
<1>3. /\ ctl' \in Controller /\ ctl'.last = noted.ctl.last
      /\ decision' \in {"continue", "recover", "finalize"} /\ forced' \in {"", "finalize"}
      /\ noted' \in Notes
  BY <1>1, <1>2, NewNotes, ConvergeFacts
<1>4. CASE Final("emergency")
  <2>1. "emergency" # "model_answer"
    OBVIOUS
  <2> QED
    BY <1>1, <1>2, <1>3, <1>4, <2>1, FinalStep
<1>5. CASE pc' = "yield" /\ UNCHANGED life
  <2>1. life' \in Life /\ EventsInOrder' /\ CompletedIsEarned'
    BY <1>1, <1>5, GoesOn
  <2>2. TypeOK'
    BY <1>1, <1>2, <1>3, <1>5, <2>1 DEF TypeOK
  <2>3. ForcedIsFinalizing' /\ FailuresAreRemembered'
    BY <1>1, <1>3, <1>5 DEF ForcedIsFinalizing, FailuresAreRemembered, Remembers
  <2> QED
    BY <2>1, <2>2, <2>3
<1> QED
  BY <1>4, <1>5 DEF BatchAfter

LEMMA ResumeStep == ASSUME IInv, Resume PROVE IInv'
<1> USE DEF IInv
<1>1. pc = "yield" /\ pc' = "round"
      /\ UNCHANGED <<limit, required, plan, ctl, decision, forced, finalizing, attempt, batch,
                     noted, used, over, unverified, life>>
  BY DEF Resume, controls, work
<1>2. life' \in Life /\ EventsInOrder' /\ CompletedIsEarned'
  BY <1>1, GoesOn
<1>3. TypeOK'
  BY <1>1, <1>2 DEF TypeOK
<1>4. ForcedIsFinalizing' /\ FailuresAreRemembered'
  BY <1>1 DEF ForcedIsFinalizing, FailuresAreRemembered, Remembers
<1> QED
  BY <1>2, <1>3, <1>4

LEMMA ReturnStep == ASSUME IInv, Return PROVE IInv'
<1> USE DEF IInv
<1>1. pc = "final" /\ pc' = "end"
      /\ UNCHANGED <<limit, required, plan, ctl, decision, forced, finalizing, attempt, batch,
                     noted, used, over, unverified>>
  BY DEF Return, Leave, controls, work
<1> DEFINE finalized == IF life.finalized = <<>> THEN <<life.status>> ELSE life.finalized
           ends == life.ends + 1
<1>2. life \in Life /\ life.finalized = <<life.status>> /\ life.status \in Statuses
      /\ life.ends = 0 /\ life.turns = 1
  BY <1>1 DEF TypeOK, EventsInOrder
<1>3. life' = [life EXCEPT !.open = FALSE, !.status = life.status, !.ends = ends,
                           !.finalized = finalized]
  BY DEF Return, Leave
<1>4. finalized = life.finalized /\ ends = 1
  BY <1>2
<1> HIDE DEF finalized, ends
<1>5. /\ life' \in Life /\ ~ life'.open /\ life'.status = life.status /\ life'.turns = 1
      /\ life'.finalized = life.finalized /\ life'.ends = 1
  BY <1>2, <1>3, <1>4 DEF Life
<1>6. EventsInOrder'
  BY <1>1, <1>2, <1>5 DEF EventsInOrder
<1>7. TypeOK'
  BY <1>1, <1>5 DEF TypeOK
<1>8. ForcedIsFinalizing' /\ FailuresAreRemembered'
  BY <1>1 DEF ForcedIsFinalizing, FailuresAreRemembered
<1>9. CompletedIsEarned'
  BY <1>1, <1>5 DEF CompletedIsEarned, PlanComplete
<1> QED
  BY <1>6, <1>7, <1>8, <1>9

LEMMA LeaveStep ==
    ASSUME IInv, pc \notin {"final", "end"}, NEW status \in Broken, Leave(status),
           UNCHANGED <<limit, required, plan, ctl, decision, forced, finalizing, attempt, batch,
                       noted, used, over, unverified>>
    PROVE  IInv'
<1> USE DEF IInv
<1>1. /\ pc' = "end" /\ life' \in Life /\ EventsInOrder'
      /\ life'.finalized = <<status>>
  BY BrokenFacts
<1>2. CompletedIsEarned'
  <2>1. status # "completed"
    BY DEF Broken
  <2> QED
    BY <1>1, <2>1, NothingClaimed
<1>3. TypeOK'
  BY <1>1 DEF TypeOK
<1>4. ForcedIsFinalizing' /\ FailuresAreRemembered'
  BY <1>1 DEF ForcedIsFinalizing, FailuresAreRemembered
<1> QED
  BY <1>1, <1>2, <1>3, <1>4

LEMMA Inductive == ASSUME IInv, [Next]_vars PROVE IInv'
<1>1. CASE Close
  <2>1. "cancelled" \in Broken
    BY DEF Broken
  <2> QED
    BY <1>1, <2>1, LeaveStep DEF Close, controls, work
<1>2. ASSUME NEW status \in Broken, Raise(status) PROVE IInv'
  BY <1>2, LeaveStep DEF Raise, controls, work
<1>3. CASE UNCHANGED vars
  <2>1. UNCHANGED <<pc, limit, required, plan, ctl, decision, forced, finalizing, attempt, batch,
                    noted, used, over, unverified, life>>
    BY <1>3 DEF vars
  <2>2. TypeOK' /\ CompletedIsEarned'
    BY <2>1 DEF IInv, TypeOK, CompletedIsEarned, PlanComplete
  <2>3. EventsInOrder' /\ ForcedIsFinalizing' /\ FailuresAreRemembered'
    BY <2>1 DEF IInv, EventsInOrder, ForcedIsFinalizing, FailuresAreRemembered, Remembers
  <2> QED
    BY <2>2, <2>3 DEF IInv
<1> QED
  BY <1>1, <1>2, <1>3, StartStep, RoundStep, TimeoutStep, TextStep, CallsForStep, ExecuteStep,
     BatchAfterStep, ResumeStep, ReturnStep DEF Next

LEMMA Invariance == Spec => []IInv
BY InitIInv, Inductive, PTL DEF Spec

\* Whatever the model answers and the tools return, and wherever the run is broken off, it
\* is finalized once and as what RUN_END says, it counts as completed only when it earned
\* that, its answer is in the conversation, and a forced run calls no tool.
THEOREM LoopEndsAsItSays == Spec => []EndsAsItSays
<1>1. IInv => EndsAsItSays
  <2> SUFFICES ASSUME IInv PROVE EndsAsItSays
    OBVIOUS
  <2>1. EndsOnce
    BY DEF IInv, EventsInOrder, EndsOnce
  <2>2. AnswerIsRecorded
    BY DEF IInv, EventsInOrder, AnswerIsRecorded
  <2>3. ForcedRunsNoTool
    BY DEF IInv, ForcedIsFinalizing, ForcedRunsNoTool
  <2> QED
    BY <2>1, <2>2, <2>3 DEF IInv, EndsAsItSays
<1> QED
  BY <1>1, Invariance, PTL

=============================================================================
