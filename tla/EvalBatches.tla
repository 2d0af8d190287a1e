----------------------------- MODULE EvalBatches -----------------------------
(***************************************************************************)
(* Batches of evaluation cases (EvalBatchManager in evals/batches.py): the *)
(* manager keeps those of this process in memory, a file has one row of    *)
(* each that ended, and what is merged of them becomes a performance       *)
(* result (batches.py, performance.py).  A batch runs its cases one after  *)
(* the other in a background task; requests come in between.  How a case   *)
(* goes is the subject of EvalRun: here it comes back with a result, or    *)
(* raises and fails the batch.                                             *)
(*                                                                         *)
(* A run from the command line (evals/cli.py) registers its results as a   *)
(* performance without a batch.  A result is named by its batch, or by     *)
(* that run, its case and its place in the batch: a request may name a     *)
(* case twice, which then runs twice.  Left out: labels, suites, archives  *)
(* (copies nothing reads back), rows that cannot be read.                  *)
(***************************************************************************)
EXTENDS Naturals, Sequences

CONSTANTS
    Batches,    \* ids
    Rounds,     \* runs from the command line
    Versions,
    Catalog,    \* the cases, numbered in the order of their ids
    Baseline,   \* those of the formal baseline
    Selections, \* what is requested: sequences of cases, sorted by their ids
    RoundCases  \* the cases a run from the command line has results of

VARIABLES
    batches,        \* the objects, which a task that runs holds too
    memory,         \* _batches: the ids whose objects the manager has
    tasks,          \* the ids whose task has not ended
    file,           \* batches.jsonl
    performance,    \* performance results: sets of results
    deleted         \* observer: ids that were deleted

batchVars == <<batches, memory, tasks, file, performance, deleted>>

NoBatch == [status |-> "none", version |-> "", cases |-> <<>>, results |-> <<>>]
ActiveStatuses == {"queued", "running"}
FinalStatuses == {"completed", "failed", "cancelled"}
Results == [from : Batches \cup Rounds, version : Versions, case : Catalog, place : Nat]
Batch == [status : ActiveStatuses \cup FinalStatuses, version : Versions,
          cases : Seq(Catalog), results : Seq(Results)]

TypeOK ==
    /\ batches \in [Batches -> Batch \cup {NoBatch}] /\ memory \subseteq Batches
    /\ tasks \subseteq Batches
    /\ file \in [Batches -> Batch \cup {NoBatch}]
    /\ \A p \in performance : p \subseteq Results
    /\ deleted \subseteq Batches

Init ==
    /\ batches = [b \in Batches |-> NoBatch] /\ file = batches /\ memory = {} /\ tasks = {}
    /\ performance = {} /\ deleted = {}

-----------------------------------------------------------------------------
Active == {b \in memory : batches[b].status \in ActiveStatuses}

\* get(): the manager's, else the file's.
Known(b) == IF b \in memory THEN batches[b] ELSE file[b]

Start(b, version, cases) ==
    /\ Active = {}
    /\ batches[b] = NoBatch /\ file[b] = NoBatch /\ b \notin deleted     \* a new id
    /\ memory' = memory \cup {b} /\ tasks' = tasks \cup {b}
    /\ batches' = [batches EXCEPT ![b] = [status |-> "queued", version |-> version,
                                          cases |-> cases, results |-> <<>>]]
    /\ UNCHANGED <<file, performance, deleted>>

\* The first step of _run().
Run(b) ==
    /\ batches[b].status = "queued" /\ b \in tasks
    /\ batches' = [batches EXCEPT ![b].status = "running"]
    /\ UNCHANGED <<memory, tasks, file, performance, deleted>>

\* A task that is cancelled before its first step runs none of _run(), its "finally"
\* neither: the batch stays queued.
NeverRuns(b) ==
    /\ batches[b].status = "queued" /\ b \in tasks /\ tasks' = tasks \ {b}
    /\ UNCHANGED <<batches, memory, file, performance, deleted>>

\* The end of _run(): the status, and the row, which may fail to be written.
Ends(b, final) ==
    /\ batches' = [batches EXCEPT ![b] = final] /\ tasks' = tasks \ {b} /\ UNCHANGED memory
    /\ file' \in {file, [file EXCEPT ![b] = final]}

\* The result of the i-th case of a batch.
ResultOf(b, batch, i) == [from |-> b, version |-> batch.version, case |-> batch.cases[i], place |-> i]

\* run_case() comes back, or raises.
CaseReturns(b) ==
    LET batch == batches[b]
        results == Append(batch.results, ResultOf(b, batch, Len(batch.results) + 1))
    IN  /\ batch.status = "running"
        /\ IF Len(results) = Len(batch.cases)
           THEN Ends(b, [batch EXCEPT !.results = results, !.status = "completed"])
           ELSE batches' = [batches EXCEPT ![b].results = results] /\ UNCHANGED <<memory, tasks, file>>
        /\ UNCHANGED <<performance, deleted>>

StatusAfter(why) == why

Stops(b) ==
    /\ batches[b].status = "running"
    /\ \E why \in {"failed", "cancelled"} : Ends(b, [batches[b] EXCEPT !.status = StatusAfter(why)])
    /\ UNCHANGED <<performance, deleted>>

\* delete().
Deletable(b) == Known(b).status \in FinalStatuses

Delete(b) ==
    /\ Deletable(b)
    /\ memory' = memory \ {b} /\ file' = [file EXCEPT ![b] = NoBatch]
    /\ deleted' = deleted \cup {b}
    /\ UNCHANGED <<batches, tasks, performance>>

\* merge() and _write_performance_result().
CasesOf(results) == {r.case : r \in results}
Covers(results) == results # {} /\ CasesOf(results) = Baseline
Agree(results) == \A r, s \in results : r.case = s.case => r = s
ResultsIn(batch) == {batch.results[i] : i \in DOMAIN batch.results}

Merge(chosen) ==
    LET results == {r \in UNION {ResultsIn(Known(b)) : b \in chosen} : r.case \in Baseline}
    IN  /\ \A b \in chosen : Known(b).status = "completed"
        /\ \A b, c \in chosen : Known(b).version = Known(c).version
        /\ Agree(results) /\ Covers(results)
        /\ performance' = performance \cup {results}
    /\ UNCHANGED <<batches, memory, tasks, file, deleted>>

\* write_performance_result(): what a run from the command line has of the cases it
\* was to run, those that raised left out.
Register(round, version, cases) ==
    /\ \A p \in performance : \A r \in p : r.from # round              \* another run
    /\ performance' = performance \cup
          {{[from |-> round, version |-> version, case |-> c, place |-> 1] : c \in cases}}
    /\ UNCHANGED <<batches, memory, tasks, file, deleted>>

DeletePerformance(results) ==
    /\ results \in performance /\ performance' = performance \ {results}
    /\ UNCHANGED <<batches, memory, tasks, file, deleted>>

\* The process goes, and with it the batch that runs.
Restart ==
    /\ memory' = {} /\ tasks' = {} /\ batches' = [b \in Batches |-> NoBatch]
    /\ UNCHANGED <<file, performance, deleted>>

Next ==
    \/ \E b \in Batches : \/ Run(b) \/ NeverRuns(b) \/ CaseReturns(b) \/ Stops(b) \/ Delete(b)
                          \/ \E v \in Versions, cases \in Selections : Start(b, v, cases)
    \/ \E chosen \in SUBSET Batches \ {{}} : Merge(chosen)
    \/ \E round \in Rounds, v \in Versions, cases \in RoundCases : Register(round, v, cases)
    \/ \E results \in performance : DeletePerformance(results)
    \/ Restart

Spec == Init /\ [][Next]_batchVars

-----------------------------------------------------------------------------
(* A performance result has a case once at most and is of one version, and   *)
(* one that was merged has each case of the baseline, however many batches,  *)
(* some with other or with repeated cases, it was made from, and although    *)
(* those may have been deleted since.  Only the runs from the command line   *)
(* are registered with the cases they happen to have.                        *)
PerformanceIsWhole == \A p \in performance :
    /\ p # {} /\ Agree(p) /\ \A r, s \in p : r.version = s.version
    /\ (\E r \in p : r.from \in Batches) => CasesOf(p) = Baseline

(* A batch that says it is completed has a result of each case requested.   *)
CompletedIsWhole == \A b \in Batches : \A batch \in {batches[b], file[b]} :
    batch.status = "completed" => [i \in DOMAIN batch.results |-> batch.results[i].case] = batch.cases

(* A batch that was deleted does not come back with the end of its run.     *)
DeletedIsGone == \A b \in deleted : Known(b) = NoBatch
=============================================================================
