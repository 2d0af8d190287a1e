----------------------------- MODULE TaskSystem -----------------------------
(***************************************************************************)
(* The durable tasks of a project and their git worktrees                  *)
(* (backend/app/agent_base/tools/task_system.py): one JSON file per task,  *)
(* which an operation reads whole, changes and writes whole.  The lock an  *)
(* operation holds meanwhile belongs to its store object, and there are    *)
(* several over one directory: the store of the task tools, the one inside *)
(* the worktree store, whose operations hold a lock of their own, and one  *)
(* for every run that binds a task.  So an operation is a step that reads  *)
(* and decides and steps that write, with the other stores in between.     *)
(*                                                                         *)
(* Reading several files counts as one step.  Tasks' texts, todos and      *)
(* checkpoints are left out, and so is the numbering of tasks.             *)
(***************************************************************************)
EXTENDS Naturals

CONSTANTS Tasks, Names, Runs

VARIABLES
    files,      \* the task files
    git,        \* worktrees registered with git
    branches,   \* their branches, which outlive them
    work,       \* what each store has read and will write
    binding,    \* the runs' task bindings
    stale       \* observer: tasks whose file was overwritten by one who had not read it

taskVars == <<files, git, branches, work, binding, stale>>

Tools == "tools"
Trees == "trees"
Stores == {Tools, Trees} \cup Runs
Agent == "agent"
None == "none"

Row == [status : {"pending", "in_progress", "completed"}, owner : {None, Agent} \cup Runs,
        blockedBy : SUBSET Tasks, worktree : Names \cup {None}, run : Runs \cup {None},
        result : {"pending", "running", "waiting_approval", "failed", "completed"}]
NewTask == [status |-> "pending", owner |-> None, blockedBy |-> {}, worktree |-> None,
            run |-> None, result |-> "pending"]
NoFile == [NewTask EXCEPT !.status = "no_file"]
Idle == [op |-> None, name |-> None, rows |-> <<>>, fresh |-> {}]
NoBinding == [task |-> None, stage |-> "none"]

TypeOK ==
    /\ DOMAIN files = Tasks /\ \A t \in Tasks : files[t] \in Row \cup {NoFile}
    /\ git \subseteq branches /\ branches \subseteq Names
    /\ DOMAIN work = Stores
    /\ \A s \in Stores :
        /\ DOMAIN work[s].rows \subseteq Tasks /\ work[s].fresh \subseteq Tasks
        /\ work[s].name \in Names \cup {None}
    /\ binding \in [Runs -> [task : Tasks \cup {None},
                             stage : {"none", "made", "bound", "waiting", "over", "unbound"}]]
    /\ stale \subseteq Tasks

Init ==
    /\ files = [t \in Tasks |-> NoFile]
    /\ git = {} /\ branches = {} /\ stale = {}
    /\ work = [s \in Stores |-> Idle]
    /\ binding = [r \in Runs |-> NoBinding]

-----------------------------------------------------------------------------
(* Reading and writing.                                                      *)

Known == {t \in Tasks : files[t] # NoFile}

\* What a task waits for, itself included: the walk of _task_depends_on() goes from
\* each task to those that block it.
Closed(seen) == \A u \in seen : files[u].blockedBy \subseteq seen
WaitsFor(t) == {u \in Tasks : \A seen \in SUBSET Tasks : t \in seen /\ Closed(seen) => u \in seen}
DependsOn(t, target) == target \in WaitsFor(t)

CanStart(t) == \A d \in files[t].blockedBy : d \in Known /\ files[d].status = "completed"
Unclaimed(t) == files[t].status = "pending" /\ files[t].owner = None

\* A store that holds its lock has read the files and has these left to write.
Reads(s, op, name, rows) ==
    /\ work[s] = Idle
    /\ work' = [work EXCEPT ![s] = [op |-> op, name |-> name, rows |-> rows,
                                    fresh |-> DOMAIN rows]]

\* save_task(): the file becomes what this store made of what it read.
Save(s) == \E t \in DOMAIN work[s].rows :
    LET rest == [u \in DOMAIN work[s].rows \ {t} |-> work[s].rows[u]]
    IN  /\ work[s].op \notin {"add_worktree", "remove_worktree"}
        /\ files' = [files EXCEPT ![t] = work[s].rows[t]]
        /\ stale' = IF t \in work[s].fresh THEN stale ELSE stale \cup {t}
        /\ work' = [u \in Stores |->
                        IF u # s THEN [work[u] EXCEPT !.fresh = @ \ {t}]
                        ELSE IF DOMAIN rest = {} THEN Idle ELSE [work[s] EXCEPT !.rows = rest]]
        /\ binding' = IF s \in Runs /\ work[s].op # "sync"
                      THEN [binding EXCEPT ![s].stage = work[s].op] ELSE binding
        /\ UNCHANGED <<git, branches>>

-----------------------------------------------------------------------------
(* The task tools.                                                           *)

\* create_task() is one step: the file is made exclusively.
CreateTask(t) ==
    /\ work[Tools] = Idle /\ files[t] = NoFile
    /\ files' = [files EXCEPT ![t] = NewTask]
    /\ UNCHANGED <<git, branches, work, binding, stale>>

\* update_task()
UpdateTask(t, deps) ==
    /\ t \in Known /\ Unclaimed(t)
    /\ t \notin deps /\ deps \subseteq Known
    /\ \A d \in deps \ files[t].blockedBy : ~DependsOn(d, t)
    /\ Reads(Tools, "update", None,
             [u \in {t} |-> [files[t] EXCEPT !.blockedBy = @ \cup deps]])
    /\ UNCHANGED <<files, git, branches, binding, stale>>

\* claim_task()
Claimable(t) ==
    /\ Unclaimed(t) /\ CanStart(t)
    /\ ~\E u \in Known : files[u].status = "in_progress" /\ files[u].owner = Agent

Claim(t) ==
    /\ t \in Known /\ Claimable(t)
    /\ Reads(Tools, "claim", None,
             [u \in {t} |-> [files[t] EXCEPT !.owner = Agent, !.status = "in_progress",
                                             !.result = "running"]])
    /\ UNCHANGED <<files, git, branches, binding, stale>>

\* complete_task()
Complete(t) ==
    /\ t \in Known /\ files[t].status = "in_progress" /\ files[t].owner = Agent
    /\ Reads(Tools, "complete", None,
             [u \in {t} |-> [files[t] EXCEPT !.status = "completed", !.result = "completed"]])
    /\ UNCHANGED <<files, git, branches, binding, stale>>

-----------------------------------------------------------------------------
(* The worktree store.                                                       *)

\* create_worktree() up to the git commands.
AddWorktree(n, t) ==
    /\ t \in Known /\ Unclaimed(t) /\ files[t].worktree = None
    /\ ~\E u \in Known : files[u].worktree = n
    /\ n \notin branches
    /\ Reads(Trees, "add_worktree", n, [u \in {t} |-> [files[t] EXCEPT !.worktree = n]])
    /\ UNCHANGED <<files, git, branches, binding, stale>>

\* remove_worktree() up to them.
\* A bug: tasks that only wait are no reason to keep it.
RemovableUnlessStarted(n) ==
    \A t \in Known : files[t].worktree = n => files[t].status # "in_progress"
Removable(n) == \A t \in Known : files[t].worktree = n => files[t].status = "completed"

RemoveWorktree(n) ==
    LET bound == {t \in Known : files[t].worktree = n}
    IN  /\ n \in git /\ bound # {} /\ Removable(n)
        /\ Reads(Trees, "remove_worktree", n,
                 [t \in bound |-> [files[t] EXCEPT !.worktree = None]])
        /\ UNCHANGED <<files, git, branches, binding, stale>>

\* git does it, or refuses (or the check of the worktree's state does).
GitRuns(ok) ==
    LET n == work[Trees].name
    IN  /\ work[Trees].op \in {"add_worktree", "remove_worktree"}
        /\ IF ~ok THEN work' = [work EXCEPT ![Trees] = Idle] /\ UNCHANGED <<git, branches>>
           ELSE /\ git' = IF work[Trees].op = "add_worktree" THEN git \cup {n} ELSE git \ {n}
                /\ branches' = branches \cup {n}
                /\ work' = [work EXCEPT ![Trees].op = "bind_worktree"]
        /\ UNCHANGED <<files, binding, stale>>

\* The save after it fails: the worktree stays as it is.
SaveFails ==
    /\ work[Trees].op = "bind_worktree"
    /\ work' = [work EXCEPT ![Trees] = Idle]
    /\ UNCHANGED <<files, git, branches, binding, stale>>

-----------------------------------------------------------------------------
(* A run's binding (create_task_execution() and TaskExecutionBinding).       *)

CreateForRun(r, t) ==
    /\ binding[r] = NoBinding /\ files[t] = NoFile
    /\ binding' = [binding EXCEPT ![r] = [task |-> t, stage |-> "made"]]
    /\ files' = [files EXCEPT ![t] = NewTask]
    /\ UNCHANGED <<git, branches, work, stale>>

\* bind_execution(); when it raises, the run goes on without a task.
MayBind(r, t) == files[t].status = "pending" \/ files[t].owner \in {None, r}

BindExecution(r) ==
    LET t == binding[r].task
    IN  /\ binding[r].stage = "made"
        /\ IF MayBind(r, t)
           THEN /\ Reads(r, "bound", None,
                         [u \in {t} |-> [files[t] EXCEPT !.owner = r, !.run = r, !.result = "running",
                             !.status = IF @ = "pending" THEN "in_progress" ELSE @]])
                /\ UNCHANGED binding
           ELSE /\ work[r] = Idle
                /\ binding' = [binding EXCEPT ![r].stage = "unbound"]
                /\ UNCHANGED work
        /\ UNCHANGED <<files, git, branches, stale>>

\* The task is not the run's any more: sync() and finalize() raise and are logged.
Bound(r) == files[binding[r].task].run = r

\* update_execution()
Sync(r) ==
    LET t == binding[r].task
    IN  /\ binding[r].stage = "bound" /\ Bound(r)
        /\ Reads(r, "sync", None, [u \in {t} |-> files[t]])
        /\ UNCHANGED <<files, git, branches, binding, stale>>

\* finalize_execution(), by the run or, after a deferred review, by its decision.
FinalizeExecution(r, status) ==
    LET t == binding[r].task
        stage == IF status = "waiting_approval" THEN "waiting" ELSE "over"
    IN  /\ binding[r].stage \in {"bound", "waiting"} /\ status # files[t].result
        /\ IF Bound(r)
           THEN /\ Reads(r, stage, None,
                         [u \in {t} |-> [files[t] EXCEPT !.result = status,
                             !.status = IF status = "completed" THEN "completed" ELSE @]])
                /\ UNCHANGED binding
           ELSE /\ work[r] = Idle
                /\ binding' = [binding EXCEPT ![r].stage = "over"]
                /\ UNCHANGED work
        /\ UNCHANGED <<files, git, branches, stale>>

Next ==
    \/ \E s \in Stores : Save(s)
    \/ \E t \in Tasks : CreateTask(t) \/ Claim(t) \/ Complete(t)
    \/ \E t \in Tasks, deps \in SUBSET Tasks : UpdateTask(t, deps)
    \/ \E n \in Names, t \in Tasks : AddWorktree(n, t)
    \/ \E n \in Names : RemoveWorktree(n)
    \/ \E ok \in BOOLEAN : GitRuns(ok)
    \/ SaveFails
    \/ \E r \in Runs, t \in Tasks : CreateForRun(r, t)
    \/ \E r \in Runs : BindExecution(r) \/ Sync(r)
    \/ \E r \in Runs, status \in {"waiting_approval", "failed", "completed"} :
            FinalizeExecution(r, status)

-----------------------------------------------------------------------------
(* No task waits for itself, directly or through others, unless one of them *)
(* was overwritten by a store that did not know its file.  With two tool    *)
(* stores over one directory it could without.                               *)
Acyclic == \A t \in Known : \A d \in files[t].blockedBy :
    t \notin WaitsFor(d) \/ WaitsFor(d) \cap stale # {}

(* What the agent works on or has finished waited for nothing unfinished,   *)
(* unless a file of the two was overwritten by a store that did not know it. *)
StartedIsUnblocked == \A t \in Known :
    (files[t].status # "pending" /\ files[t].owner = Agent) =>
        \A d \in files[t].blockedBy : files[d].status = "completed" \/ {d, t} \cap stale # {}

(* The agent works on one task at a time, whatever the other stores write   *)
(* over its claims.                                                          *)
OneAtATime == \A t, u \in {v \in Known : files[v].status = "in_progress" /\ files[v].owner = Agent} :
    t = u

(* The worktree an unfinished task names is there, unless its file was      *)
(* overwritten by a store that did not know it.                              *)
ActiveHasItsWorktree == \A t \in Known \ stale :
    (files[t].worktree # None /\ files[t].status # "completed") => files[t].worktree \in git

Spec == Init /\ [][Next]_taskVars

=============================================================================
