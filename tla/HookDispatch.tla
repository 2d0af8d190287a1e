---------------------------- MODULE HookDispatch ----------------------------
(***************************************************************************)
(* One event goes through the hooks of its stage (HookRegistry._trigger()  *)
(* and _emit() in core/hooks.py), in their order: who sees it, who decides *)
(* and what a hook that fails does to the others.                          *)
(*                                                                         *)
(* trigger() serves the stages where the first result decides, emit() the  *)
(* end of a tool batch, where every result counts and the strongest goes   *)
(* into the run's control_decision.  The records of the trace, and the     *)
(* snapshots the observers get, are left out.                              *)
(***************************************************************************)
EXTENDS Naturals, Sequences

CONSTANT MaxHooks

None == "none"
Stages == {"model_before", "tool_before", "tool_after", "batch_after"}

\* What a hook returns or raises.
Raised == {"error", "interrupt", "cancel"}
Returned == {None, "continue", "stop", "veto", "replace", "recover", "finalize"}

\* What a control hook may decide at each stage (_validate_result()).
Allowed == [model_before |-> {"stop"}, tool_before |-> {"stop", "veto"},
            tool_after |-> {}, batch_after |-> {"recover", "finalize"}]

Hooks == [mode : {"observer", "control", "transform", "service"}, closed : BOOLEAN,
          gives : Returned \cup Raised]

\* Declarations validate_contributions() lets through.  Of the results of a mode
\* that may give none, one stands for all.
Declared(stage) == {h \in Hooks :
    /\ h.closed => h.mode = "control"
    /\ h.mode = "control" => stage # "tool_after"
    /\ h.mode = "service" => h.gives = None
    /\ h.mode = "observer" => h.gives \in {None, "stop"} \cup Raised
    /\ h.mode = "transform" => h.gives \in {None, "replace", "error"}
    /\ h.mode = "control" => h.gives \in {None, "continue", "replace"} \cup Allowed[stage] \cup Raised}

VARIABLES
    stage, hooks, observersOnly,    \* the event and its stage's hooks, in order
    next,       \* the hook whose turn it is
    ran,        \* those that were called
    results,    \* what counted of what they gave: pairs of a hook and its decision
    ended       \* how the dispatch ended

hookVars == <<stage, hooks, observersOnly, next, ran, results, ended>>

TypeOK ==
    /\ stage \in Stages /\ hooks \in Seq(Hooks) /\ Len(hooks) <= MaxHooks
    /\ observersOnly \in BOOLEAN
    /\ next \in 1..MaxHooks + 1
    /\ ran \in Seq(1..MaxHooks)
    /\ results \in Seq((1..MaxHooks) \X Returned)
    /\ ended \in {"no", "returned", "interrupt", "cancel"}

Init ==
    /\ stage \in Stages /\ observersOnly \in BOOLEAN
    /\ hooks \in [1..MaxHooks -> Declared(stage)]
    /\ next = 1 /\ ran = <<>> /\ results = <<>> /\ ended = "no"

-----------------------------------------------------------------------------
\* _validate_result(): a decision the mode or the stage does not know is an error.
Validated(h) ==
    IF h.mode = "control" /\ h.gives \in Returned \ ({None, "continue"} \cup Allowed[stage]) THEN "error"
    ELSE IF h.mode = "transform" /\ h.gives = "replace" /\ stage # "tool_after" THEN "error"
    ELSE h.gives

\* The decision of a fail_closed hook that failed.
Blocks == CASE stage = "tool_before" -> "veto" [] stage = "batch_after" -> "finalize" [] OTHER -> "stop"

\* Passed over in silence: executors, and everybody but observers when only they are asked.
PassedOver(h) == h.mode = "service" \/ (observersOnly /\ h.mode # "observer")

\* After the first decision of a trigger, the deciding hooks are skipped.
Skipped(h) == stage # "batch_after" /\ results # <<>> /\ h.mode # "observer"

\* What a call adds to the results.
Counts(h) ==
    IF h.mode = "observer" THEN <<>>
    ELSE IF Validated(h) = "error" THEN (IF h.closed THEN << <<next, Blocks>> >> ELSE <<>>)
    ELSE IF Validated(h) = None \/ (Validated(h) = "continue" /\ stage # "batch_after") THEN <<>>
    ELSE << <<next, Validated(h)>> >>

\* An observer may not interrupt; a cancellation reaches everybody.
Stops(h) == Validated(h) = "cancel" \/ (Validated(h) = "interrupt" /\ h.mode # "observer")

Call ==
    LET h == hooks[next]
    IN  /\ ended = "no" /\ next <= Len(hooks)
        /\ next' = next + 1
        /\ IF PassedOver(h) \/ Skipped(h) THEN UNCHANGED <<ran, results, ended>>
           ELSE /\ ran' = Append(ran, next)
                /\ IF Stops(h) THEN ended' = Validated(h) /\ UNCHANGED results
                   ELSE /\ results' = IF Validated(h) = "interrupt" THEN results ELSE results \o Counts(h)
                        /\ UNCHANGED ended
        /\ UNCHANGED <<stage, hooks, observersOnly>>

Return ==
    /\ ended = "no" /\ next > Len(hooks)
    /\ ended' = "returned"
    /\ UNCHANGED <<stage, hooks, observersOnly, next, ran, results>>

Next == Call \/ Return
Spec == Init /\ [][Next]_hookVars

\* What the caller gets: the first result, or the strongest of a batch.
Given(decision) == \E k \in DOMAIN results : results[k][2] = decision
Strongest ==
    IF Given("finalize") THEN "finalize" ELSE IF Given("recover") THEN "recover" ELSE None
Decision == IF stage = "batch_after" THEN Strongest
            ELSE IF results = <<>> THEN None ELSE results[1][2]

-----------------------------------------------------------------------------
Called(i) == \E k \in DOMAIN ran : ran[k] = i

(* An event that was dispatched to its end reached every observer, whatever *)
(* the others decided or failed at, and it cost nobody two calls.            *)
ObserversSee == ended = "returned" =>
    /\ \A i \in DOMAIN hooks : hooks[i].mode = "observer" => Called(i)
    /\ \A k, l \in DOMAIN ran : ran[k] = ran[l] => k = l

(* No tool runs and no model is asked past a control hook that failed and   *)
(* must not: when such a hook was called, something was decided.             *)
FailedGuardBlocks == ended = "returned" =>
    \A i \in DOMAIN hooks :
        (Called(i) /\ hooks[i].closed /\ Validated(hooks[i]) = "error") => Decision # None

(* A hook that wants a batch to be the last is not overruled by one that    *)
(* would rather recover, in whatever order they come.                        *)
FinalizeWins == (ended = "returned" /\ stage = "batch_after" /\ ~observersOnly) =>
    ((\E i \in DOMAIN hooks : hooks[i].mode = "control" /\ hooks[i].gives = "finalize")
        => Decision = "finalize")

=============================================================================
