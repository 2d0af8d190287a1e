----------------------------- MODULE MCRunStore ------------------------------
(* TLC instances of RunStore: two workers and two runs are interchangeable. *)
EXTENDS RunStore, TLC

\* Callers that expect nothing of the status can do whatever others can.
MCOneExpectedSet == {{}}

\* Two endings are enough where every ending is treated alike.
MCFewTargets == (Statuses \ Terminal) \cup {"succeeded", "canceled"}

Symmetry == Permutations(Owners) \cup Permutations(Runs)

=============================================================================
