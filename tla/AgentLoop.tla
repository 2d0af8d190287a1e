------------------------------ MODULE AgentLoop ------------------------------
(***************************************************************************)
(* One run of the agent: the function-calling loop (react_runtime/         *)
(* fc_loop.py), the model call with its retries (fc_model.py), the batch   *)
(* of tools (tool_round_executor.py) and the policies hooked to them:      *)
(* ConvergenceController (convergence.py), ExecutionBudget (core/policy.py)*)
(* and the todo plan (core/hooks.py).                                      *)
(*                                                                         *)
(* The model is the environment: it answers with anything, the calls of a  *)
(* batch end in any way.  A call stands for a tool with its arguments, an  *)
(* outcome for a result the controller tells apart from others.  Counters  *)
(* of the controller stop where no comparison distinguishes them; its pass *)
(* over a batch's details is made call by call and used at the batch's     *)
(* end.  Context compaction, evidence, wording and prompts are left out;   *)
(* hooks do not suspend.                                                   *)
(***************************************************************************)
EXTENDS Integers, Sequences, SequencesExt

CONSTANTS
    Checks,         \* calls that verify something
    Looks,          \* calls that only observe
    Plans,          \* calls of todo_write, named for the plan they leave
    MaxStalled,     \* max_stalled_rounds
    MaxRecovery,    \* max_recovery_rounds
    Repeats,        \* repeat_action_threshold
    ToolLimits,     \* values of max_tool_calls, 0 for no limit
    Retries,        \* llm_timeout_retries
    MaxBatch        \* bound on the calls in one answer

ASSUME LoopAssumption ==
    /\ MaxStalled \in Nat \ {0} /\ MaxRecovery \in Nat \ {0} /\ Repeats \in Nat \ {0, 1}
    /\ ToolLimits \subseteq Nat /\ Retries \in Nat /\ MaxBatch \in Nat \ {0}
    /\ Plans \subseteq {"open", "complete"}

Calls == Checks \cup Looks \cup Plans
Successes == {"seen", "passed", "planned"}
Failures == {"failed", "blocked"}
Outcomes == Successes \cup Failures
NoOutcome == "never"
Statuses == {"completed", "partial", "timed_out", "budget_exceeded"}
Broken == {"waiting_approval", "cancelled", "failed"}

VARIABLES
    pc,         \* the await, or the yield, the coroutine stands at
    limit,      \* max_tool_calls
    required,   \* runtime.requires_todo_plan and requires_acceptance_todos
    plan,       \* runtime.todos: "none", "open" or "complete"
    ctl,        \* the ConvergenceController
    decision,   \* runtime.control_decision
    forced,     \* forced_finalization_reason
    finalizing, \* finalization_mode of the round
    attempt,    \* of the model call
    batch,      \* calls of the answer not executed yet
    noted,      \* what the controller will make of the executed ones
    used,       \* budget.tool_call_count
    over,       \* budget.emergency_limit_reached
    unverified, \* keys of agent._run_verifications that are False
    life        \* the lifecycle events, and the turns added to the conversation

vars == <<pc, limit, required, plan, ctl, decision, forced, finalizing, attempt, batch,
          noted, used, over, unverified, life>>

\* Counters stop at the bound after which nothing distinguishes them.
Upto(n, bound) == IF n < bound THEN n ELSE bound

Controller == [last : [Calls -> Outcomes \cup {NoOutcome}],
               count : [Calls -> 0..Repeats],
               fails : [Calls -> [Failures -> 0..MaxRecovery + 1]],
               stalled : 0..MaxStalled + 1, recovery : 0..MaxRecovery + 1]
NewController == [last |-> [c \in Calls |-> NoOutcome], count |-> [c \in Calls |-> 0],
                  fails |-> [c \in Calls |-> [f \in Failures |-> 0]],
                  stalled |-> 0, recovery |-> 0]

\* What observe() gathers in its pass over the details of a round.
Notes == [ctl : Controller, progress : BOOLEAN, news : BOOLEAN,
          failing : 0..MaxRecovery + 1, repeated : BOOLEAN]
NoNotes(c) == [ctl |-> c, progress |-> FALSE, news |-> FALSE, failing |-> 0, repeated |-> FALSE]

Life == [open : BOOLEAN, status : {"running"} \cup Statuses \cup Broken,
         finalized : Seq(Statuses \cup Broken), ends : 0..1, turns : 0..1]

TypeOK ==
    /\ pc \in {"start", "round", "model", "tools", "after", "yield", "final", "end"}
    /\ required \in BOOLEAN /\ finalizing \in BOOLEAN /\ over \in BOOLEAN
    /\ plan \in {"none", "open", "complete"}
    /\ ctl \in Controller /\ noted \in Notes
    /\ decision \in {"continue", "recover", "finalize"}
    /\ forced \in {"", "finalize"}
    /\ attempt \in 0..Retries + 1
    /\ batch \in Seq(Calls) /\ Len(batch) <= MaxBatch
    /\ limit \in ToolLimits /\ used \in 0..limit
    /\ unverified \subseteq Checks
    /\ life \in Life

Init ==
    /\ pc = "start" /\ limit \in ToolLimits
    /\ required \in BOOLEAN /\ (required => Plans # {})
    /\ plan = "none"
    /\ ctl = NewController /\ noted = NoNotes(NewController)
    /\ decision = "continue" /\ forced = "" /\ finalizing = FALSE /\ attempt = 0
    /\ batch = <<>> /\ used = 0 /\ over = FALSE
    /\ unverified = {}
    /\ life = [open |-> FALSE, status |-> "running", finalized |-> <<>>,
               ends |-> 0, turns |-> 0]

\* todo_plan_complete().
PlanComplete == required => plan = "complete"

-----------------------------------------------------------------------------
(* ConvergenceController.                                                    *)

\* One detail: the results and counts, what it contributes to the round.
Noted(acc, c, outcome) ==
    LET same == acc.ctl.last[c] = outcome
        count == Upto(acc.ctl.count[c] + 1, Repeats)
        failed == outcome \in Failures
        fails == IF failed THEN Upto(acc.ctl.fails[c][outcome] + 1, MaxRecovery + 1) ELSE 0
    IN [ctl |-> [acc.ctl EXCEPT !.last[c] = outcome, !.count[c] = count,
                    !.fails[c] = IF failed THEN [@ EXCEPT ![outcome] = fails] ELSE @],
        progress |-> acc.progress \/ (~ failed /\ (outcome = "passed" \/ ~ same)),
        news |-> acc.news \/ fails = 1,
        failing |-> IF fails >= MaxRecovery THEN fails ELSE acc.failing,
        repeated |-> acc.repeated \/ (same /\ count >= Repeats)]

\* _stalled_decision()
Stall(c) ==
    IF c.stalled >= MaxStalled THEN [decision |-> "finalize", ctl |-> c]
    ELSE IF c.stalled >= MaxStalled - 1
    THEN [decision |-> "recover", ctl |-> [c EXCEPT !.recovery = Upto(@ + 1, MaxRecovery + 1)]]
    ELSE [decision |-> "continue", ctl |-> c]

\* A bug: a repeated failure is always worth another recovery.
ObservedPatient(all) ==
    LET stuck == [all.ctl EXCEPT !.stalled = Upto(@ + 1, MaxStalled + 1)]
    IN IF all.progress \/ all.news
       THEN [decision |-> "continue", ctl |-> [all.ctl EXCEPT !.stalled = 0, !.recovery = 0]]
       ELSE IF all.failing > 0 THEN [decision |-> "recover", ctl |-> stuck]
       ELSE Stall(stuck)

\* observe(): the decision about a round and the controller after it.
Observed(all) ==
    LET stuck == [all.ctl EXCEPT !.stalled = Upto(@ + 1, MaxStalled + 1)]
        tried == [stuck EXCEPT !.recovery = Upto(@ + 1, MaxRecovery + 1)]
    IN IF all.progress \/ all.news
       THEN [decision |-> "continue", ctl |-> [all.ctl EXCEPT !.stalled = 0, !.recovery = 0]]
       ELSE IF all.failing > MaxRecovery THEN [decision |-> "finalize", ctl |-> stuck]
       ELSE IF all.failing > 0 THEN [decision |-> "recover", ctl |-> tried]
       ELSE IF all.repeated
       THEN [decision |-> IF tried.recovery > MaxRecovery THEN "finalize" ELSE "recover",
             ctl |-> tried]
       ELSE Stall(stuck)

\* TOOL_BATCH_AFTER, and what the loop makes of the decision.
Converge(all) ==
    LET seen == Observed(all)
    IN /\ ctl' = seen.ctl
       /\ decision' = seen.decision
       /\ forced' = IF seen.decision = "finalize" THEN "finalize" ELSE forced

-----------------------------------------------------------------------------
(* Endings.                                                                  *)

\* RunOutcome.from_stop()
Outcome(reason) ==
    CASE reason \in {"time_limit", "llm_timeout"} -> "timed_out"
      [] reason \in {"context_hard_limit", "emergency"} -> "budget_exceeded"
      [] reason = "model_answer" ->
            IF PlanComplete /\ plan # "open" /\ unverified = {} THEN "completed" ELSE "partial"
      [] OTHER -> "partial"

\* _record_turn() and _final_progress(): the round is closed, FINALIZE published, the
\* final progress yielded.
Final(reason) ==
    /\ life' = [life EXCEPT !.open = FALSE, !.status = Outcome(reason), !.turns = @ + 1,
                            !.finalized = Append(@, Outcome(reason))]
    /\ pc' = "final"

\* The except and finally clauses of _run_fc_loop_impl().
\* A bug: FINALIZE is published whether or not it was.
LeaveAgain(status) ==
    /\ life' = [life EXCEPT !.open = FALSE, !.status = status,
                            !.finalized = Append(@, status), !.ends = @ + 1]
    /\ pc' = "end"
Leave(status) ==
    /\ life' = [life EXCEPT !.open = FALSE, !.status = status, !.ends = @ + 1,
                            !.finalized = IF @ = <<>> THEN <<status>> ELSE @]
    /\ pc' = "end"

controls == <<ctl, decision, forced>>
work == <<batch, noted, used, over, unverified>>

-----------------------------------------------------------------------------
(* The loop.                                                                 *)

\* RUN_START: budget.start().
Start ==
    /\ pc = "start" /\ pc' = "round" /\ used' = 0
    /\ UNCHANGED <<limit, required, plan, controls, finalizing, attempt, batch, noted, over,
                   unverified, life>>

\* before_llm() and before_tool(), of the calls.
Exhausted == limit > 0 /\ used >= limit

\* The top of the loop up to the first attempt: ROUND_BEFORE, the request's size, the
\* hooks of MODEL_BEFORE.
Round ==
    /\ pc = "round"
    /\ finalizing' = (forced # "") /\ attempt' = 1
    /\ \/ ~ Exhausted /\ pc' = "model" /\ life' = [life EXCEPT !.open = TRUE]
       \/ Final("context_hard_limit")
       \/ Final("time_limit")
       \/ Exhausted /\ Final("tool_call_limit")
    /\ UNCHANGED <<limit, required, plan, controls, work>>

Timeout ==
    /\ pc = "model"
    /\ IF attempt <= Retries THEN attempt' = attempt + 1 /\ UNCHANGED <<pc, life>>
                             ELSE Final("llm_timeout") /\ attempt' = 0
    /\ UNCHANGED <<limit, required, plan, controls, finalizing, work>>

\* The model answers with text, or with nothing.
Text(empty) ==
    /\ pc = "model"
    /\ IF empty \/ ~ PlanComplete THEN Converge(NoNotes(ctl))
                                  ELSE decision' = "continue" /\ UNCHANGED <<ctl, forced>>
    /\ IF finalizing THEN Final("finalize")
       ELSE IF empty \/ ~ PlanComplete THEN pc' = "yield" /\ UNCHANGED life
       ELSE Final("model_answer")
    /\ attempt' = 0
    /\ UNCHANGED <<limit, required, plan, finalizing, work>>

\* It answers with calls; a finalization request ignores them and keeps the text.
CallsFor(calls) ==
    /\ pc = "model" /\ calls # <<>> /\ ~ finalizing
    /\ batch' = calls /\ noted' = NoNotes(ctl) /\ over' \in BOOLEAN /\ pc' = "tools"
    /\ attempt' = 0
    /\ UNCHANGED <<limit, required, plan, controls, finalizing, used, unverified, life>>

\* What a call can come to, after the plan's gate and the budget's.
Gated(c) == required /\ plan = "none" /\ c \notin Plans
CanEnd(c) ==
    IF Gated(c) \/ Exhausted THEN {"blocked"}
    ELSE IF c \in Plans THEN {"planned"}
    ELSE IF c \in Checks THEN {"passed", "failed"} ELSE {"seen", "failed"}

\* _execute_one() and the notes execute() makes of it.
Verified(c, outcome) ==
    CASE outcome = "failed" /\ c \in Checks -> unverified \cup {c}
      [] outcome = "passed" -> unverified \ {c}
      [] OTHER -> unverified

Execute ==
    /\ pc = "tools" /\ batch # <<>>
    /\ LET c == Head(batch) IN \E outcome \in CanEnd(c) :
        /\ noted' = Noted(noted, c, outcome)
        /\ plan' = IF outcome = "planned" THEN c ELSE plan
        /\ used' = IF limit = 0 \/ Gated(c) \/ Exhausted THEN used ELSE used + 1
        /\ unverified' = Verified(c, outcome)
    /\ batch' = Tail(batch)
    /\ UNCHANGED <<pc, limit, required, controls, finalizing, attempt, over, life>>

\* The batch is done.
BatchAfter ==
    /\ pc = "tools" /\ batch = <<>>
    /\ Converge(noted) /\ noted' = NoNotes(NewController)
    /\ IF over THEN Final("emergency") ELSE pc' = "yield" /\ UNCHANGED life
    /\ UNCHANGED <<limit, required, plan, finalizing, attempt, batch, used, over, unverified>>

\* The consumer takes the progress and asks for more.
Resume ==
    /\ pc = "yield" /\ pc' = "round"
    /\ UNCHANGED <<limit, required, plan, controls, finalizing, attempt, work, life>>

\* The consumer has the answer; it asks for more or closes the stream.
Return ==
    /\ pc = "final" /\ Leave(life.status)
    /\ UNCHANGED <<limit, required, plan, controls, finalizing, attempt, work>>

\* The consumer closes the stream between two rounds (GeneratorExit).
Close ==
    /\ pc = "yield" /\ Leave("cancelled")
    /\ UNCHANGED <<limit, required, plan, controls, finalizing, attempt, work>>

\* The stop flag, the task's cancellation, a review or an error, at an await.
Raise(status) ==
    /\ \/ pc = "round" /\ status = "cancelled"
       \/ pc = "model" /\ status \in {"cancelled", "failed"}
       \/ pc = "tools" /\ batch # <<>>
    /\ Leave(status)
    /\ UNCHANGED <<limit, required, plan, controls, finalizing, attempt, work>>

Next ==
    \/ Start \/ Round \/ Timeout \/ Execute \/ BatchAfter \/ Resume \/ Return \/ Close
    \/ \E empty \in BOOLEAN : Text(empty)
    \/ \E n \in 1..MaxBatch : \E calls \in [1..n -> Calls] : CallsFor(calls)
    \/ \E status \in Broken : Raise(status)

\* The coroutine goes on: a request has a timeout and a tool has its own, the consumer
\* reads the stream to its end or closes it.
Spec == Init /\ [][Next]_vars /\ WF_vars(Next)

-----------------------------------------------------------------------------
(* Properties.                                                               *)

\* However a run ends, its rounds are closed, FINALIZE was published once and with the
\* status of RUN_END, and RUN_END was published once (the finally clause of the loop
\* against _final_progress(), which finalizes before the last yield).
EndsOnce ==
    /\ pc = "end" => /\ ~ life.open /\ life.ends = 1
                     /\ life.finalized = <<life.status>>
    /\ pc = "final" => Len(life.finalized) = 1

\* A run that says it completed was not cut short, finished the plan it was asked for or
\* made for itself, and no check's last result was a failure (RunOutcome.from_stop()).
CompletedIsEarned ==
    "completed" \in ToSet(life.finalized) =>
        /\ forced = "" /\ PlanComplete /\ plan # "open"
        /\ \A c \in Checks : ctl.last[c] # "failed"

\* The conversation has the turn when the consumer sees the answer, for the consumer may
\* close the stream then; a run that was broken off adds none (fc_loop.py:502).
AnswerIsRecorded ==
    /\ pc = "final" => life.turns = 1
    /\ pc = "end" => (life.turns = 1 <=> life.status \in Statuses)

\* Once exploration was stopped, no tool runs any more (fc_loop.py:401).
ForcedRunsNoTool == pc = "tools" => forced = ""

\* A run that makes no progress ends, whatever the model answers: the repetitions the
\* controller forgives are finitely many (convergence.py).
Stops == <>[](ctl.stalled > 0) => <>(pc = "end")

\* A run ends once and as what it says it is: the four facts above, with the types.
EndsAsItSays ==
    TypeOK /\ EndsOnce /\ CompletedIsEarned /\ AnswerIsRecorded /\ ForcedRunsNoTool

=============================================================================
