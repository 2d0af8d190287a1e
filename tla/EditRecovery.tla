---------------------------- MODULE EditRecovery ----------------------------
(***************************************************************************)
(* Two memories of failed edits inside one run of the agent.  The executor *)
(* (tool_round_executor.py) refuses an edit of a path whose last edit      *)
(* failed on stale content until the path was read or found again.  The    *)
(* recovery controller (failure_recovery.py) keeps the failures the system *)
(* message reports to the model as unresolved.  Both look at the same      *)
(* results, the executor while it notes them, the controller afterwards.   *)
(*                                                                         *)
(* A batch is parsed before any of it runs, so what a call finds out does  *)
(* not protect the later calls of its batch.  The message names only the   *)
(* newest failures and of each the first paths; a command stands for the   *)
(* other tools, whose failures take their place in it.  The resolution of  *)
(* aliases and the counting of attempts are left out.                      *)
(***************************************************************************)
EXTENDS Naturals, Sequences, FiniteSets, SequencesExt

CONSTANTS
    Paths,          \* numbered in their alphabetical order
    MaxBatch,
    FailuresShown,  \* failures[-8:] of _render()
    PathsShown      \* failure.paths[:3]

\* Codes of a failed edit: in EDIT_REFRESH_CODES or not.
Codes == {"refresh", "other"}

\* read_file names its path, search_text shows the paths it found something in.
Calls == [tool : {"read"}, paths : {{p} : p \in Paths}]
            \cup [tool : {"search", "edit"}, paths : SUBSET Paths \ {{}}]
            \cup [tool : {"command"}, paths : {{}}]

VARIABLES
    parsed,     \* the batch: calls, and whether they are blocked
    noted,      \* the results of those that ran, in order
    pending,    \* the executor's _edit_recovery_paths
    active,     \* the controller's failures, in the order of its dictionary
    unseen      \* observer: failed on stale content in an earlier batch, not seen since

editVars == <<parsed, noted, pending, active, unseen>>

Failures == [tool : {"edit", "command"}, paths : SUBSET Paths, code : Codes]
Results == [call : Calls, status : {"success", "blocked"} \cup Codes, paths : SUBSET Paths]

\* The keys of the controller's dictionary.
SameKey(f, g) == f.tool = g.tool /\ f.paths = g.paths

TypeOK ==
    /\ parsed \in Seq([call : Calls, blocked : BOOLEAN])
    /\ noted \in Seq(Results) /\ Len(parsed) + Len(noted) <= MaxBatch
    /\ pending \subseteq Paths
    /\ active \in Seq(Failures)
    /\ \A i, j \in DOMAIN active : SameKey(active[i], active[j]) => i = j
    /\ unseen \subseteq Paths

Init ==
    /\ parsed = <<>> /\ noted = <<>>
    /\ pending = {} /\ unseen = {}
    /\ active = <<>>

-----------------------------------------------------------------------------
\* _parse_calls() of one call.
Stale(call) == call.tool = "edit" /\ call.paths \cap pending # {}

\* The model answers with calls.
Answer(calls) ==
    /\ parsed = <<>> /\ noted = <<>>
    /\ parsed' = [i \in DOMAIN calls |-> [call |-> calls[i], blocked |-> Stale(calls[i])]]
    /\ UNCHANGED <<noted, pending, active, unseen>>

\* What a call can come to: an edit fails as a whole or, when the tool reports the index
\* of a change, on the paths of that change.
Ends(item) ==
    IF item.blocked THEN {[call |-> item.call, status |-> "blocked", paths |-> item.call.paths]}
    ELSE {[call |-> item.call, status |-> "success", paths |-> item.call.paths]}
         \cup CASE item.call.tool = "edit" ->
                   [call : {item.call}, status : Codes, paths : SUBSET item.call.paths \ {{}}]
                [] item.call.tool = "command" ->
                   {[call |-> item.call, status |-> "other", paths |-> {}]}
                [] OTHER -> {}

\* _update_edit_recovery_state()
\* A bug: a later success anywhere ends the recovery.
RefreshedByAny(now, r) ==
    IF r.status = "refresh" THEN now \cup r.paths
    ELSE IF r.status = "success" THEN {} ELSE now
Refreshed(now, r) ==
    IF r.status = "refresh" THEN now \cup r.paths
    ELSE IF r.status = "success" THEN now \ r.paths ELSE now

Execute ==
    /\ parsed # <<>>
    /\ \E r \in Ends(Head(parsed)) : noted' = Append(noted, r)
    /\ parsed' = Tail(parsed)
    /\ UNCHANGED <<pending, active, unseen>>

-----------------------------------------------------------------------------
(* FailureRecoveryController.update().                                       *)

\* A key that is there keeps its place.
Drop(failures, f) == SelectSeq(failures, LAMBDA g : ~SameKey(f, g))
Put(failures, f) ==
    IF \E i \in DOMAIN failures : SameKey(f, failures[i])
    THEN [i \in DOMAIN failures |-> IF SameKey(f, failures[i]) THEN f ELSE failures[i]]
    ELSE Append(failures, f)

\* A success takes its paths out of the failures of edits that it resolves; what remains
\* of a failure moves to the key of its remaining paths.  A command resolves its own.
Resolved(failures, r) ==
    LET hits(f) == IF f.tool = "command" THEN r.call.tool = "command"
                   ELSE f.paths \cap r.paths # {} /\ (r.call.tool = "edit" \/ f.code = "refresh")
        left(f) == [f EXCEPT !.paths = @ \ r.paths]
        resolve(now, f) == IF ~hits(f) THEN now
                           ELSE IF left(f).paths = {} THEN Drop(now, f)
                           ELSE Put(Drop(now, f), left(f))
    IN FoldLeft(resolve, failures, failures)

\* A failure replaces the one at its key; a blocked edit counts as another attempt at the
\* failures that block it.
Added(failures, r) ==
    LET failure == [tool |-> r.call.tool, paths |-> r.paths,
                    code |-> IF r.status = "refresh" THEN "refresh" ELSE "other"]
        guarded == \E i \in DOMAIN failures : /\ failures[i].tool = "edit" /\ failures[i].code = "refresh"
                                              /\ failures[i].paths \cap r.paths # {}
    IN IF r.status = "blocked" /\ guarded THEN failures ELSE Put(failures, failure)

Updated(failures, r) == IF r.status = "success" THEN Resolved(failures, r) ELSE Added(failures, r)

\* The batch is over: the executor goes through the results, then the controller does.
Update ==
    /\ parsed = <<>> /\ noted # <<>>
    /\ pending' = FoldLeft(Refreshed, pending, noted)
    /\ active' = FoldLeft(Updated, active, noted)
    /\ LET fails(p) == {i \in DOMAIN noted : noted[i].status = "refresh" /\ p \in noted[i].paths}
           shows(p) == {i \in DOMAIN noted : noted[i].status = "success" /\ p \in noted[i].paths}
       IN unseen' = {p \in Paths :
                \/ p \in unseen /\ shows(p) = {}
                \/ \E i \in fails(p) : \A j \in shows(p) : j < i}
    /\ noted' = <<>> /\ UNCHANGED parsed

Next ==
    \/ \E n \in 1..MaxBatch : \E calls \in [1..n -> Calls] : Answer(calls)
    \/ Execute \/ Update

Spec == Init /\ [][Next]_editVars

-----------------------------------------------------------------------------
\* An edit is executed only if none of its paths failed on stale content in an earlier
\* batch without having been shown or rewritten since: "A failed edit must be based on a
\* fresh observation" (tool_round_executor.py:79).
NoBlindEdit ==
    \A i \in DOMAIN parsed :
        parsed[i].call.tool = "edit" /\ ~ parsed[i].blocked => parsed[i].call.paths \cap unseen = {}

\* What _render() leaves out: the older failures, of which the message gives the number,
\* and the later paths of a failure, of which it says nothing.
Older(i) == Len(active) - i >= FailuresShown
Later(i, p) == Cardinality({q \in active[i].paths : q < p}) >= PathsShown
Named(p) == \E i \in DOMAIN active :
    active[i].tool = "edit" /\ p \in active[i].paths /\ ~Older(i) /\ ~Later(i, p)

\* What the system message tells the model to read again is what the executor waits for:
\* the advice never outlives the block (failure_recovery.py against the executor).
AdviceIsEnforced ==
    parsed = <<>> /\ noted = <<>> =>
        \A i \in DOMAIN active :
            active[i].tool = "edit" /\ active[i].code = "refresh" => active[i].paths \subseteq pending

\* What the executor refuses is reported: the system message names each path it waits for,
\* unless enough newer failures or earlier paths of the same failure take its place there
\* (the controller keys failures by sets of paths that shrink, are replaced and collide;
\* none may be lost on the way).
BlockIsReported ==
    parsed = <<>> /\ noted = <<>> =>
        \A p \in pending : Named(p) \/ \E i \in DOMAIN active :
            active[i].tool = "edit" /\ p \in active[i].paths /\ (Older(i) \/ Later(i, p))
=============================================================================
