------------------------------- MODULE EvalRun -------------------------------
(***************************************************************************)
(* One evaluation case (EvalRunner.run_case() in evals/runner.py): a       *)
(* workspace, a trace session, an agent, the turns of the script with      *)
(* their checkers under one deadline, the checkers of the case, and one    *)
(* row of results.jsonl, whatever fails on the way.                        *)
(*                                                                         *)
(* The agent is the production one, driven through the coordinator of      *)
(* agent_execution, which writes its own summary of each turn; or one that *)
(* is injected with the tools of it, whose task the runner itself binds    *)
(* and finalizes; or a bare one, without a registry of tools, whose turns  *)
(* are only recorded: their checkers are skipped.  Every step may raise, a *)
(* TimeoutError of its own included, and the process may cancel the run.   *)
(* What checkers look at, scores, tokens and the snapshot are left out (an *)
(* agent_failure whose trace shows a failed tool is called tool_failure);  *)
(* the change set is the subject of ChangeSet.                             *)
(***************************************************************************)
EXTENDS Naturals

CONSTANT Turns      \* turns of the script

VARIABLES
    agent,      \* "production", "injected" or "bare"
    pc,         \* where the coroutine is
    turn,       \* active_turn["turn"]
    phase,      \* failure_phase
    written,    \* active_turn["summary_written"]
    summaries,  \* summary events in the trace, by turn
    gates,      \* the hard checkers so far: each turn, the reviews, the case
    failure,    \* execution_error is set
    budget,     \* the strongest token_budget_stop_reason
    task,       \* the runner's task binding
    result,     \* status, passed, failure_category
    rows        \* of results.jsonl

runVars == <<agent, pc, turn, phase, written, summaries, gates, failure, budget, task, result, rows>>

Stages == {"fixture", "session", "agent", "turn", "turn_checks", "commit", "case_checks",
           "finalize", "exit", "record"}
Ended == {"returned", "escaped", "cancelled"}
\* The hard checkers of each turn, and those of the reviews and of the case.
Reviews == 0
Case == Turns + 1
Gates == Reviews..Case
Statuses == {"running", "passed", "failed", "error", "timeout", "budget_exceeded", "budget_finalized"}
Agents == {"production", "injected", "bare"}
Verdicts == {"passed", "failed"}
Categories == {"none", "environment_failure", "checker_failure", "agent_failure", "timeout",
               "budget_exceeded"}

TypeOK ==
    /\ agent \in Agents /\ pc \in Stages \cup Ended
    /\ turn \in 0..Turns /\ phase \in {"environment", "agent", "checker"}
    /\ written \in BOOLEAN /\ summaries \in [1..Turns -> 0..2]
    /\ gates \in [Gates -> Verdicts \cup {"unknown", "skipped"}]
    /\ failure \in BOOLEAN /\ budget \in {"none", "finalization", "hard"}
    /\ task \in [is : {"none", "running", "completed", "failed", "timed_out", "budget_exceeded"},
                 finalized : BOOLEAN, refused : BOOLEAN]
    /\ result \in [status : Statuses, passed : BOOLEAN, category : Categories]
    /\ rows \in 0..1

Init ==
    /\ agent \in Agents /\ pc = "fixture"
    /\ turn = 0 /\ phase = "environment" /\ written = FALSE
    /\ summaries = [n \in 1..Turns |-> 0] /\ gates = [g \in Gates |-> "unknown"]
    /\ failure = FALSE /\ budget = "none"
    /\ task = [is |-> "none", finalized |-> FALSE, refused |-> FALSE]
    /\ result = [status |-> "running", passed |-> FALSE, category |-> "none"] /\ rows = 0

-----------------------------------------------------------------------------
(* How it fails.                                                             *)

\* finalize_task(): once, and a store that cannot be written is only logged.
\* A bug: an attempt counts although it was refused.
FinalizedOnTry(status) ==
    IF task.is = "none" \/ task.finalized THEN {task}
    ELSE {[is |-> status, finalized |-> TRUE, refused |-> FALSE],
          [task EXCEPT !.finalized = TRUE, !.refused = TRUE]}
Finalized(status) ==
    IF task.is = "none" \/ task.finalized THEN {task}
    ELSE {[is |-> status, finalized |-> TRUE, refused |-> FALSE], [task EXCEPT !.refused = TRUE]}

\* _write_turn_summary().
Summed == IF turn = 0 \/ written THEN summaries ELSE [summaries EXCEPT ![turn] = @ + 1]

Category == CASE phase = "checker" -> "checker_failure" [] phase = "agent" -> "agent_failure"
              [] OTHER -> "environment_failure"

\* The except clauses of run_case(): TimeoutError, and every other exception.
Handle(kind) ==
    /\ summaries' = Summed /\ written' = TRUE
    /\ IF kind = "timeout"
       THEN /\ result' = [result EXCEPT !.status = "timeout", !.category = "timeout"]
            /\ task' \in Finalized("timed_out")
       ELSE /\ result' = [result EXCEPT !.status = "error", !.category = Category]
            /\ task' \in Finalized("failed")
    /\ pc' = "record"

\* Anything but the deadline, at an await or between two.
Raises ==
    /\ pc \in {"turn", "turn_checks", "commit", "case_checks", "exit"}
    /\ \E kind \in {"timeout", "error"} : Handle(kind)
    /\ UNCHANGED <<agent, turn, phase, gates, failure, budget, rows>>

\* The handlers call finalize_task(), which a case without an agent has not got.
Escapes ==
    /\ pc \in {"session", "agent"} /\ pc' = "escaped"
    /\ UNCHANGED <<agent, turn, phase, written, summaries, gates, failure, budget, task, result, rows>>

\* wait_for() cancels the turns: the coordinator of the production agent writes its
\* summary before it lets go; the task is finalized inside and outside the session.
Deadline ==
    /\ pc \in {"turn", "turn_checks"}
    /\ LET own == pc = "turn" /\ agent = "production"
       IN  /\ summaries' = IF own THEN [Summed EXCEPT ![turn] = @ + 1] ELSE Summed
           /\ written' = TRUE
    /\ result' = [result EXCEPT !.status = "timeout", !.category = "timeout"]
    /\ task' \in Finalized("timed_out")
    /\ pc' = "record"
    /\ UNCHANGED <<agent, turn, phase, gates, failure, budget, rows>>

Cancel ==
    /\ pc \notin Ended \cup {"record", "fixture"} /\ pc' = "cancelled"
    /\ UNCHANGED <<agent, turn, phase, written, summaries, gates, failure, budget, task, result, rows>>

-----------------------------------------------------------------------------
(* How it goes.                                                              *)

\* resolve_fixture() and _prepare_workspace().
Fixture ==
    /\ pc = "fixture"
    /\ \/ pc' = "session" /\ UNCHANGED <<result, rows>>
       \/ /\ pc' = "returned" /\ rows' = rows + 1
          /\ result' = [result EXCEPT !.status = "error", !.category = "environment_failure"]
    /\ UNCHANGED <<agent, turn, phase, written, summaries, gates, failure, budget, task>>

Session ==
    /\ pc = "session" /\ pc' = "agent"
    /\ UNCHANGED <<agent, turn, phase, written, summaries, gates, failure, budget, task, result, rows>>

\* The next turn of consume().
Begin(n) == turn' = n /\ written' = FALSE /\ pc' = "turn"

Agent ==
    /\ pc = "agent" /\ Begin(1) /\ phase' = "agent"
    /\ task' \in IF agent # "injected" THEN {task} ELSE {task, [task EXCEPT !.is = "running"]}
    /\ UNCHANGED <<agent, summaries, gates, failure, budget, result, rows>>

Stronger(a, b) == IF "hard" \in {a, b} THEN "hard" ELSE IF "finalization" \in {a, b} THEN "finalization" ELSE "none"

\* The agent's answer; only the coordinator turns its exceptions into an error event.
\* A turn need not have checkers.
Turn ==
    /\ pc = "turn" /\ agent # "bare" /\ pc' = "turn_checks" /\ phase' \in {"agent", "checker"}
    /\ failure' \in IF agent = "production" THEN {failure, TRUE} ELSE {failure}
    /\ \E reason \in {"none", "finalization", "hard"} : budget' = Stronger(budget, reason)
    /\ IF agent = "production" THEN summaries' = [summaries EXCEPT ![turn] = @ + 1] /\ written' = TRUE
       ELSE UNCHANGED <<summaries, written>>
    /\ UNCHANGED <<agent, turn, gates, task, result, rows>>

\* The turn is summed up and the next one begins, or the script is done.
Goes ==
    /\ summaries' = Summed /\ phase' = "agent"
    /\ IF turn < Turns THEN Begin(turn + 1)
       ELSE pc' = "commit" /\ written' = TRUE /\ UNCHANGED turn

TurnChecks ==
    /\ pc = "turn_checks" /\ Goes
    /\ \E verdict \in IF phase = "checker" THEN Verdicts ELSE {"passed"} :
        gates' = [gates EXCEPT ![turn] = verdict]
    /\ UNCHANGED <<agent, failure, budget, task, result, rows>>

\* The turn of a bare agent, which ends in "continue".
BareTurn ==
    /\ pc = "turn" /\ agent = "bare" /\ Goes
    /\ gates' = [gates EXCEPT ![turn] = "skipped"]
    /\ UNCHANGED <<agent, failure, budget, task, result, rows>>

\* change_set.commit() and _record_auto_approval_result().
Commit ==
    /\ pc = "commit" /\ pc' = "case_checks" /\ phase' = "checker"
    /\ \E verdict \in Verdicts : gates' = [gates EXCEPT ![Reviews] = verdict]
    /\ UNCHANGED <<agent, turn, written, summaries, failure, budget, task, result, rows>>

\* _evaluate_case_checkers().
Passed(verdict) == verdict = "passed" /\ \A g \in Gates \ {Case} : gates[g] \in {"passed", "skipped"}

Outcome(verdict) ==
    IF failure THEN [status |-> "error", passed |-> FALSE, category |-> "agent_failure"]
    ELSE IF budget = "hard"
    THEN [status |-> "budget_exceeded", passed |-> FALSE, category |-> "budget_exceeded"]
    ELSE IF budget = "finalization"
    THEN [status |-> "budget_finalized", passed |-> Passed(verdict),
          category |-> IF Passed(verdict) THEN "none" ELSE "budget_exceeded"]
    ELSE [status |-> IF Passed(verdict) THEN "passed" ELSE "failed", passed |-> Passed(verdict),
          category |-> IF Passed(verdict) THEN "none" ELSE "agent_failure"]

CaseChecks ==
    /\ pc = "case_checks" /\ pc' = "finalize"
    /\ \E verdict \in Verdicts :
        /\ gates' = [gates EXCEPT ![Case] = verdict] /\ result' = Outcome(verdict)
    /\ UNCHANGED <<agent, turn, phase, written, summaries, failure, budget, task, rows>>

Finalize ==
    /\ pc = "finalize" /\ pc' = "exit"
    /\ task' \in Finalized(IF budget = "hard" THEN "budget_exceeded"
                           ELSE IF result.passed THEN "completed" ELSE "failed")
    /\ UNCHANGED <<agent, turn, phase, written, summaries, gates, failure, budget, result, rows>>

\* The session drains its background tasks.
Exit ==
    /\ pc = "exit" /\ pc' = "record"
    /\ UNCHANGED <<agent, turn, phase, written, summaries, gates, failure, budget, task, result, rows>>

\* _persist_workspace_snapshot() and _record_completed_result().
Record ==
    /\ pc = "record" /\ pc' = "returned" /\ rows' = rows + 1
    /\ UNCHANGED <<agent, turn, phase, written, summaries, gates, failure, budget, task, result>>

Next == \/ Fixture \/ Session \/ Agent \/ Turn \/ TurnChecks \/ BareTurn \/ Commit \/ CaseChecks \/ Finalize
        \/ Exit \/ Record \/ Raises \/ Escapes \/ Deadline \/ Cancel

Spec == Init /\ [][Next]_runVars

-----------------------------------------------------------------------------
(* No later turn masks a failed one: a result that counts as passed had     *)
(* every hard checker of every turn, the reviews and the case pass, and no  *)
(* error of the agent and no exhausted budget, whatever raised afterwards.   *)
(* Those of a turn may have been skipped if the agent was bare; the reviews *)
(* and the case never.                                                       *)
PassedIsEarned == result.passed =>
    /\ \A g \in Gates : \/ gates[g] = "passed"
                        \/ gates[g] = "skipped" /\ agent = "bare" /\ g \in 1..Turns
    /\ ~failure /\ budget # "hard" /\ result.status \notin {"failed", "budget_exceeded"}

(* A turn that was begun is summed up in the trace, once; twice only if the *)
(* deadline interrupts the production agent, which leaves its own summary.   *)
EveryTurnIsSummedUp == pc = "returned" =>
    \A n \in 1..turn : summaries[n] = 1 \/ (summaries[n] = 2 /\ n = turn
                                            /\ agent = "production" /\ result.status = "timeout")

(* A task the run bound does not stay running behind it, unless the store   *)
(* refused each attempt to write its end.                                    *)
TaskIsSettled == (pc = "returned" /\ task.is = "running") => (task.refused /\ ~task.finalized)
=============================================================================
