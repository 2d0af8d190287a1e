---------------------------- MODULE MCChangeSet ----------------------------
(* ChangeSet for TLC: edits, and the files of each kind, are interchangeable. *)
EXTENDS ChangeSet, TLC

Interchangeable == Permutations(AgentEdits) \cup Permutations(UserEdits)

=============================================================================
