------------------------------ MODULE Subagent ------------------------------
(***************************************************************************)
(* A run of the delegated agent (SpawnSubagentTool._execute_impl() in      *)
(* tools/my_tools/subagent_tool.py) under its cumulative token budget      *)
(* (core/subagent_budget.py): what a request may still cost, when the run  *)
(* is made to summarise, and that it ends and leaves its lifecycle closed. *)
(*                                                                         *)
(* Token counts are the real ones, the ratio of real to estimated input is *)
(* a number per thousand.  The provider's ratio is any of a few and does   *)
(* not change during a run, it reports the input it counted, and it keeps  *)
(* to the output it was allowed.  The controller's decision on a batch is  *)
(* a choice (see AgentLoop); tools, messages and evidence are left out.    *)
(***************************************************************************)
EXTENDS Integers

CONSTANTS
    TokenLimit,     \* max_cumulative_tokens
    SummaryTokens,  \* summary_output_tokens
    ReserveTokens,  \* finalization_reserve_tokens
    Estimates,      \* estimated sizes of requests
    Ratios,         \* real input per 1000 estimated tokens
    MaxStalls       \* max_stalled_rounds of the child's controller

VARIABLES
    stage,      \* of the child's loop
    spent,      \* budget.total_tokens
    ratio,      \* input_estimate_ratio
    real,       \* the provider's
    request,    \* the request under way: estimate and allowance
    sent,       \* requests answered: none, one, more
    wrapping,   \* forced_finalization_reason
    summaries,  \* requests made in finalization mode: none, one, more
    stalls,     \* the controller's stalled_rounds
    ending,     \* how the run ends, while and after the finally clause
    published   \* lifecycle: the round is open, FINALIZE and RUN_END so far

childVars == <<stage, spent, ratio, real, request, sent, wrapping, summaries, stalls, ending,
               published>>

Least(a, b) == IF a < b THEN a ELSE b
Most(a, b) == IF a > b THEN a ELSE b
NoRequest == [estimate |-> 0, input |-> 0, output |-> 0]
Endings == {"answered", "stopped", "token_limit", "context_limit", "failed", "cancelled"}

TypeOK ==
    /\ stage \in {"round", "ask", "wait", "tools", "closing", "over", "cut"}
    /\ ending \in Endings \cup {"none"}
    /\ spent \in Nat /\ ratio \in Nat /\ real \in Ratios
    /\ request \in [estimate : Nat, input : Nat, output : 0..Most(4096, SummaryTokens)]
    /\ sent \in 0..2 /\ summaries \in 0..2
    /\ wrapping \in {"", "budget", "convergence"}
    /\ stalls \in 0..MaxStalls
    /\ published \in [open : 0..1, finalized : 0..1, ended : 0..1]

Init ==
    /\ stage = "round" /\ spent = 0 /\ ratio = 1250 /\ real \in Ratios
    /\ request = NoRequest /\ sent = 0 /\ wrapping = "" /\ summaries = 0 /\ stalls = 0
    /\ ending = "none" /\ published = [open |-> 0, finalized |-> 0, ended |-> 0]

-----------------------------------------------------------------------------
(* CumulativeTokenBudget.                                                    *)

Remaining == Most(0, TokenLimit - spent)
Input(estimate) == (estimate * ratio) \div 1000 + 256

\* What a summary needs: an input request as well as its output.
SummaryReserve(estimate) ==
    Most((Least(estimate, 6000) * ratio) \div 1000 + 256 + SummaryTokens,
         Least(ReserveTokens, Remaining \div 2))

\* allowance(): the tokens a request may cost, or that it is time to summarise.
Target == IF wrapping # "" THEN SummaryTokens ELSE Least(4096, Most(256, Remaining \div 4))
MustWrapUp(estimate) ==
    wrapping = "" /\ Input(estimate) + Target + SummaryReserve(estimate) >= Remaining
Allowance(estimate) ==
    [estimate |-> estimate, input |-> Input(estimate),
     output |-> Most(0, Least(Target, Remaining - Input(estimate)))]

Observed(actual, estimate) ==
    IF actual > 0 THEN Most(ratio, (actual * 1100) \div Most(1, estimate)) ELSE ratio

-----------------------------------------------------------------------------
\* The way to the finally clause.
Leave(why) ==
    /\ stage' = "closing" /\ ending' = why
    /\ UNCHANGED <<ratio, real, sent, wrapping, summaries, stalls, published>>

\* The top of the loop: ROUND_AFTER of the round before, ROUND_BEFORE, the messages.
RoundAfter ==
    /\ stage \in {"round", "closing"} /\ published.open = 1
    /\ published' = [published EXCEPT !.open = 0]
    /\ UNCHANGED <<stage, spent, ratio, real, request, sent, wrapping, summaries, stalls, ending>>

\* compact_tool_history() folds what tools returned to a share of what is left.  It leaves
\* the other messages, and its checkpoint comes on top: a summary may ask for more.
Share == Most(1, Least(6000, Remaining \div 3))

Round ==
    /\ stage = "round" /\ published.open = 0
    /\ \E estimate \in Estimates \cup {Share} : request' = [NoRequest EXCEPT !.estimate = estimate]
    /\ stage' = "ask" /\ published' = [published EXCEPT !.open = 1]
    /\ UNCHANGED <<spent, ratio, real, sent, wrapping, summaries, stalls, ending>>

WrapUp ==
    /\ stage = "ask" /\ MustWrapUp(request.estimate)
    /\ wrapping' = "budget" /\ stage' = "round" /\ request' = NoRequest
    /\ UNCHANGED <<spent, ratio, real, sent, summaries, stalls, ending, published>>

Ask ==
    /\ stage = "ask" /\ ~ MustWrapUp(request.estimate)
    /\ request' = Allowance(request.estimate) /\ spent' = spent
    /\ IF request'.output < 128 THEN Leave("token_limit")
       ELSE \/ Leave("context_limit")
            \/ /\ stage' = "wait"
               /\ summaries' = IF wrapping = "" THEN 0 ELSE Least(summaries + 1, 2)
               /\ UNCHANGED <<ratio, real, sent, wrapping, stalls, ending, published>>

\* The answer, and what it cost.
Answered(output) ==
    LET actual == (request.estimate * real) \div 1000
    IN /\ spent' = spent + actual + output
       /\ ratio' = Observed(actual, request.estimate)
       /\ sent' = Least(sent + 1, 2)
       /\ request' = NoRequest

Text ==
    /\ stage = "wait" /\ Answered(request.output)
    /\ stage' = "closing" /\ ending' = "answered"
    /\ UNCHANGED <<real, wrapping, summaries, stalls, published>>

\* Nothing usable: a summary that calls tools counts as nothing.
Empty ==
    /\ stage = "wait" /\ \E output \in {0, request.output} : Answered(output)
    /\ stalls' = Least(stalls + 1, MaxStalls)
    /\ IF stalls' = MaxStalls
       THEN stage' = "closing" /\ ending' = "stopped"
       ELSE stage' = "round" /\ UNCHANGED ending
    /\ UNCHANGED <<real, wrapping, summaries, published>>

CallsTools ==
    /\ stage = "wait" /\ wrapping = "" /\ Answered(request.output)
    /\ stage' = "tools"
    /\ UNCHANGED <<real, wrapping, summaries, stalls, ending, published>>

\* The batch is done and observed.
ToolsDone ==
    /\ stage = "tools" /\ stage' = "round"
    /\ \E decision \in {"progress", "stalled", "finalize"} :
        /\ stalls' = IF decision = "progress" THEN 0 ELSE Least(stalls + 1, MaxStalls)
        /\ wrapping' = IF decision = "finalize" \/ stalls' = MaxStalls THEN "convergence" ELSE wrapping
    /\ UNCHANGED <<spent, ratio, real, request, sent, summaries, ending, published>>

\* An error degrades to a failure report, a cancellation is raised again; both may come
\* while an event is published, too.
Raise ==
    /\ stage \in {"round", "ask", "wait", "tools"}
    /\ \E why \in {"failed", "cancelled"} : Leave(why)
    /\ UNCHANGED <<spent, request>>

\* The finally clause: ROUND_AFTER (above), FINALIZE and RUN_END, each of them awaited.
Finalize ==
    /\ stage = "closing" /\ published.open = 0 /\ published.finalized = 0
    /\ published' = [published EXCEPT !.finalized = 1]
    /\ UNCHANGED <<stage, spent, ratio, real, request, sent, wrapping, summaries, stalls, ending>>

RunEnd ==
    /\ stage = "closing" /\ published.finalized = 1 /\ stage' = "over"
    /\ published' = [published EXCEPT !.ended = 1]
    /\ UNCHANGED <<spent, ratio, real, request, sent, wrapping, summaries, stalls, ending>>

\* A cancellation that arrives at one of these awaits takes the place of what the run
\* returned, and the rest of the clause is not reached.
CutShort ==
    /\ stage = "closing" /\ stage' = "cut" /\ ending' = "cancelled"
    /\ UNCHANGED <<spent, ratio, real, request, sent, wrapping, summaries, stalls, published>>

Next == \/ RoundAfter \/ Round \/ WrapUp \/ Ask \/ Text \/ Empty \/ CallsTools \/ ToolsDone \/ Raise
        \/ Finalize \/ RunEnd \/ CutShort

-----------------------------------------------------------------------------
\* The budget is overrun at most by the first request: once the provider's count of one
\* request is known, none is let through that could exceed what is left
\* (subagent_budget.py:observe_input, subagent_tool.py:allowance).
OverrunOnlyUnobserved == spent > TokenLimit => sent <= 1

\* A run that stops exploring for its budget can afford at least a third of the summary it
\* is asked for: "A summary needs another input request as well as output tokens"
\* (subagent_budget.py:29), as long as what cannot be folded fits the 6000 tokens that are
\* set aside for its input.
SummaryIsAffordable ==
    stage = "wait" /\ wrapping = "budget" /\ summaries = 1 /\ sent = 2 /\ request.estimate <= 6000 =>
        3 * request.output >= SummaryTokens

\* FINALIZE is published when no round is open, RUN_END after it, and no round is begun
\* after either; a run that is over has published both, whatever ended it, and only one
\* that was canceled while it published them has not.
ChildIsClosed ==
    /\ published.finalized = 1 => published.open = 0 /\ stage \in {"closing", "over", "cut"}
    /\ stage = "over" => published.finalized = 1 /\ published.ended = 1
=============================================================================
