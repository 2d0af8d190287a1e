----------------------------- MODULE ChatSession -----------------------------
(***************************************************************************)
(* One chat session: the commands a user sends over successive WebSocket   *)
(* connections (chat_session.py), the background task that executes a run  *)
(* (agent_execution.py), the human review that suspends it                 *)
(* (pending_review.py, run_lifecycle.py, tools/review.py), the session     *)
(* registry (agent_runtime.py) and the durable run rows of RunRecords.     *)
(*                                                                         *)
(* Commands hold ChatConnection.command_lock from start to finish, so one  *)
(* command is in progress at a time; at each of its awaits the execution   *)
(* tasks, other connections and a crash may step in.  An action is the     *)
(* code between two awaits.  Every connection coroutine keeps its own      *)
(* reference to the review manager and to the agent, taken when it opened. *)
(*                                                                         *)
(* Left out: the messages sent to the page (ChatConnection keeps them for  *)
(* replay), paths and prompts, the contract recovery of a source candidate *)
(* at review time, stop_requested (only stop cancels a task, and every     *)
(* start clears the flag first), request ids (RunStore has the keys), and  *)
(* the clock: leases in this store are written and never read.             *)
(***************************************************************************)
EXTENDS RunRecords, Sequences, FiniteSetsExt

CONSTANTS
    Runs,           \* run identifiers
    NoRun,          \* no run; as a piece of workspace content, an edit by the user
    Sockets,        \* WebSocket connections
    NoSocket,       \* no subscriber
    MaxSessions,    \* bound on the session objects created, over all processes
    MaxReviews,     \* bound on the review requests submitted
    MaxManagers     \* bound on the review managers created in one process

ASSUME NoRunIsNotARun == NoRun \notin Runs
ASSUME NoSocketIsNotASocket == NoSocket \notin Sockets
ASSUME BoundsAreNumbers == MaxSessions \in Nat /\ MaxReviews \in Nat /\ MaxManagers \in Nat
\* ChatConnection.owner, a fresh value in each session object.
ASSUME OwnersAreNumbered == NoOwner = 0 /\ Owners = 1..MaxSessions

\* A review request is known by its token. Its id is what replies carry.
Reviews   == 1..MaxReviews
NoReview  == 0
ReviewIds == 0..(MaxReviews - 1)

\* Workspace content, seen as the changes it includes.
Contents == SUBSET (Runs \cup {NoRun})

Phases == {"none", "created", "active", "asking", "refused", "rejected", "committed", "closing", "done"}
Working == {"created", "active", "asking", "refused", "rejected", "committed"}

VARIABLES
    \* durable
    runs,           \* the run rows
    checkpoints,    \* metadata.checkpoint of each row
    resumeOf,       \* metadata.resume_of: the run this one was started to resume
    older,          \* of each row, the rows with an earlier updated_at
    workspace,      \* the project files
    requests,       \* every review request submitted, with its saved candidate
    epoch,          \* the session objects created so far; the latest one's state.owner
    \* of the process
    session,        \* the AgentSession in the registry
    fallback,       \* state.fallback_review_runs
    task,           \* state.task
    subscriber,     \* state._socket
    local,          \* what each connection coroutine holds
    managers,       \* the ReviewManager objects
    exec,           \* the execution task of each run
    command         \* the command that holds command_lock

rows == <<runs, checkpoints, resumeOf, older>>
durable == <<rows, workspace, requests, epoch>>
process == <<session, fallback, task, subscriber, local, managers, exec, command>>
vars == <<durable, process>>

Checkpoint == [written : BOOLEAN,            \* metadata has a checkpoint
               pending : Reviews \cup {NoReview},
               resume  : BOOLEAN,            \* resume_available
               recover : BOOLEAN,            \* stopped by a check, with what it takes to recover
               consumed : BOOLEAN]           \* resume_consumed

NoCheckpoint == [written |-> FALSE, pending |-> NoReview, resume |-> FALSE,
                 recover |-> FALSE, consumed |-> FALSE]
FreshCheckpoint == [NoCheckpoint EXCEPT !.written = TRUE]

Session == [registered : BOOLEAN,            \* the registry still has it
            run_owner : Owners \cup {NoOwner},
            review_mgr : 0..MaxManagers,
            agent : BOOLEAN,
            idle : BOOLEAN]                  \* last_active is past the TTL
NoSession == [registered |-> FALSE, run_owner |-> NoOwner,
              review_mgr |-> 0, agent |-> FALSE, idle |-> FALSE]

Manager == [next : 0..MaxReviews, pending : SUBSET Reviews, answered : SUBSET Reviews]
NewManager == [next |-> 0, pending |-> {}, answered |-> {}]

Coroutine == [mgr : 0..MaxManagers, agent : BOOLEAN, attached : BOOLEAN]
NoCoroutine == [mgr |-> 0, agent |-> FALSE, attached |-> FALSE]

Request == [run : Runs \cup {NoRun}, id : ReviewIds \cup {0}, base : Contents,
            shown : BOOLEAN]                 \* the page has been sent it
NoRequest == [run |-> NoRun, id |-> 0, base |-> {}, shown |-> FALSE]

Execution == [phase : Phases, owner : Owners \cup {NoOwner}, \* state.owner of its session object
              mgr : 0..MaxManagers, base : Contents,
              edited : BOOLEAN, review : Reviews \cup {NoReview}]
NoExecution == [phase |-> "none", owner |-> NoOwner, mgr |-> 0, base |-> {},
                edited |-> FALSE, review |-> NoReview]

Command == [kind : {"idle", "chat", "stop", "cancel", "review"},
            step : {"", "create", "compress", "hook", "launch", "prepare", "cancel", "next"},
            socket : Sockets \cup {NoSocket},
            parent : Runs \cup {NoRun},      \* chat: the run to resume; review: the reviewed run
            run : Runs \cup {NoRun},         \* the run being started or canceled
            review : Reviews \cup {NoReview},\* the request the reply was written for
            accepted : BOOLEAN,              \* what the reply says
            todo : SUBSET Runs]              \* cancel: the reviewed runs still to go through
Idle == [kind |-> "idle", step |-> "", socket |-> NoSocket, parent |-> NoRun,
         run |-> NoRun, review |-> NoReview, accepted |-> FALSE, todo |-> {}]

TypeOK ==
    /\ runs \in [Runs -> RunRecord]
    /\ checkpoints \in [Runs -> Checkpoint]
    /\ resumeOf \in [Runs -> Runs \cup {NoRun}]
    /\ older \in [Runs -> SUBSET Runs]
    /\ workspace \in Contents
    /\ session \in Session
    /\ fallback \in [ReviewIds -> Runs \cup {NoRun}]
    /\ task \in Runs \cup {NoRun}
    /\ subscriber \in Sockets \cup {NoSocket}
    /\ local \in [Sockets -> Coroutine]
    /\ managers \in Seq(Manager)
    /\ requests \in [Reviews -> Request]
    /\ epoch \in 0..MaxSessions
    /\ exec \in [Runs -> Execution]
    /\ command \in Command

NoFallback == [id \in ReviewIds |-> NoRun]
NoLocals == [s \in Sockets |-> NoCoroutine]

Init ==
    /\ runs = [r \in Runs |-> AbsentRun]
    /\ checkpoints = [r \in Runs |-> NoCheckpoint]
    /\ resumeOf = [r \in Runs |-> NoRun]
    /\ older = [r \in Runs |-> {}]
    /\ workspace = {}
    /\ requests = [t \in Reviews |-> NoRequest]
    /\ epoch = 0
    /\ session = NoSession
    /\ fallback = NoFallback
    /\ task = NoRun
    /\ subscriber = NoSocket
    /\ local = NoLocals
    /\ managers = <<>>
    /\ exec = [r \in Runs |-> NoExecution]
    /\ command = Idle


-----------------------------------------------------------------------------
(* Helpers.                                                                 *)

Present == {r \in Runs : runs[r].status # Absent}

\* updated_at of r is set: every other row is older.
Touched(order, r, others) ==
    [q \in Runs |-> IF q = r THEN others \ {r} ELSE order[q] \ {r}]

\* One row written.
Save(r, row, checkpoint) ==
    /\ runs' = [runs EXCEPT ![r] = row]
    /\ checkpoints' = [checkpoints EXCEPT ![r] = checkpoint]
    /\ older' = Touched(older, r, Present)
    /\ UNCHANGED resumeOf

\* transition() with its metadata patch, where the caller swallows RunStateError.
TrySave(r, target, expected, owner, checkpoint) ==
    IF MayTransition(runs[r], target, expected, owner)
    THEN Save(r, Transitioned(runs[r], target), checkpoint)
    ELSE UNCHANGED rows

\* ReviewManager._find: by id, among the requests this manager holds.
Knows(m, id) == \E t \in m.pending \cup m.answered : requests[t].id = id

\* restore_pending_reviews: the waiting rows, oldest first, become requests of
\* the manager (unless it holds one with that id) and entries of run_map.
PendingRuns == {r \in Runs : runs[r].status = "waiting_approval"
                               /\ checkpoints[r].pending # NoReview}
IdOf(r) == requests[checkpoints[r].pending].id

RestoredFallback(known) ==
    [id \in ReviewIds |->
        LET same == {r \in PendingRuns : IdOf(r) = id}
            newest == {r \in same : same \ {r} \subseteq older[r]}
        IN  IF newest = {} THEN known[id] ELSE CHOOSE r \in newest : TRUE]

\* A bug: an id is skipped for every request restored.
RestoredManager_SkipsIds(m) ==
    LET tokens == {checkpoints[r].pending : r \in PendingRuns}
    IN  [m EXCEPT !.pending = @ \cup tokens, !.next = Max({@} \cup {requests[t].id + 2 : t \in tokens})]

RestoredManager(m) ==
    LET unknown == {r \in PendingRuns : ~ Knows(m, IdOf(r))}
        added == {r \in unknown : \A q \in unknown : IdOf(q) = IdOf(r) => q \notin older[r]}
    IN  [m EXCEPT !.pending = @ \cup {checkpoints[r].pending : r \in added},
                  !.next = Max({@} \cup {IdOf(r) + 1 : r \in added})]

\* A bug: a consumed row is taken up again.
Resumable_Consumed ==
    {r \in Present : /\ Present \ {r} \subseteq older[r]
                     /\ checkpoints[r].written /\ runs[r].status = "paused"}

\* _latest_resumable_run: the newest row whose checkpoint is not consumed, if
\* its status can be resumed. A row without a checkpoint ends the search.
Resumable ==
    {r \in Present :
        /\ ~ checkpoints[r].consumed
        /\ \A q \in Present \ {r} : checkpoints[q].consumed \/ q \in older[r]
        /\ checkpoints[r].written
        /\ \/ runs[r].status \in {"paused", "orphaned"}
           \/ runs[r].status = "running" /\ checkpoints[r].resume
           \/ runs[r].status = "partial" /\ checkpoints[r].recover}

\* state.running
Running == \/ command.step = "prepare"
           \/ task # NoRun /\ exec[task].phase \notin {"none", "done"}

\* The socket's coroutine can take its next message.
Ready(s) == command = Idle /\ subscriber = s /\ local[s].attached

\* release_run: get() drops a session past its TTL that nobody has claimed.
Released(owner) ==
    IF ~ session.registered THEN session
    ELSE IF session.run_owner = NoOwner THEN [session EXCEPT !.registered = ~ session.idle]
    ELSE IF session.run_owner = owner THEN [session EXCEPT !.run_owner = NoOwner, !.idle = FALSE]
    ELSE session

\* The connection coroutine ends.
Closed(s) ==
    /\ local' = [local EXCEPT ![s] = NoCoroutine]
    /\ subscriber' = IF subscriber = s THEN NoSocket ELSE subscriber

-----------------------------------------------------------------------------
(* Connections.                                                             *)

\* The coroutine starts: it takes the session's manager and agent, and brings
\* back the pending reviews. A dropped session gets a new object, and with it a
\* new ChatConnection; the connections of the old one are taken to be gone.
Connect(s) ==
    /\ local[s] = NoCoroutine
    /\ session.registered
    /\ LET m == session.review_mgr
       IN  /\ managers' = [managers EXCEPT ![m] = RestoredManager(@)]
           /\ local' = [local EXCEPT ![s] = [mgr |-> m, agent |-> session.agent, attached |-> FALSE]]
    /\ fallback' = RestoredFallback(fallback)
    /\ session' = [session EXCEPT !.idle = FALSE]
    /\ UNCHANGED <<durable, task, subscriber, exec, command>>

ConnectFresh(s) ==
    /\ ~ session.registered
    /\ command = Idle
    /\ epoch < MaxSessions /\ Len(managers) < MaxManagers
    /\ epoch' = epoch + 1
    /\ LET m == Len(managers) + 1
       IN  /\ managers' = Append(managers, RestoredManager(NewManager))
           /\ session' = [NoSession EXCEPT !.registered = TRUE, !.review_mgr = m]
           /\ local' = [NoLocals EXCEPT ![s] = [mgr |-> m, agent |-> FALSE, attached |-> FALSE]]
    /\ fallback' = RestoredFallback(NoFallback)
    /\ task' = NoRun
    /\ subscriber' = NoSocket
    /\ UNCHANGED <<rows, workspace, requests, exec, command>>

\* attach(): the socket replaces the current subscriber.
Attach(s) ==
    /\ local[s] # NoCoroutine /\ ~ local[s].attached
    /\ local' = [local EXCEPT ![s].attached = TRUE]
    /\ subscriber' = s
    /\ UNCHANGED <<durable, session, fallback, task, managers, exec, command>>

\* A send that fails or times out drops the subscriber; its coroutine lives on.
LoseSubscriber ==
    /\ subscriber # NoSocket
    /\ subscriber' = NoSocket
    /\ UNCHANGED <<durable, session, fallback, task, local, managers, exec, command>>

\* The coroutine sees the disconnect at its next receive.
Disconnect(s) ==
    /\ local[s] # NoCoroutine
    /\ command.socket # s
    /\ Closed(s)
    /\ session' = [session EXCEPT !.idle = FALSE]
    /\ UNCHANGED <<durable, fallback, task, managers, exec, command>>

\* Nothing touches the session for longer than its TTL.
TimePasses ==
    /\ session.registered /\ session.run_owner = NoOwner /\ ~ session.idle
    /\ session' = [session EXCEPT !.idle = TRUE]
    /\ UNCHANGED <<durable, fallback, task, subscriber, local, managers, exec, command>>

UserEdits ==
    /\ NoRun \notin workspace
    /\ workspace' = workspace \cup {NoRun}
    /\ UNCHANGED <<rows, requests, epoch, process>>

-----------------------------------------------------------------------------
(* chat: refused while a run executes or a review that this connection's     *)
(* manager knows is pending (refusals only send events).                     *)

KnownPending(s) == \E id \in ReviewIds :
    fallback[id] # NoRun /\ Knows(managers[local[s].mgr], id)

\* The checks, the choice of the run to resume (dropped when the message names
\* another project), then the await that creates the agent or the one that
\* compresses the conversation.
Chat(s) ==
    /\ Ready(s)
    /\ ~ Running
    /\ ~ KnownPending(s)
    /\ \E resumed \in Resumable \cup {NoRun}, otherWorkspace \in BOOLEAN :
        LET create == ~ local[s].agent \/ otherWorkspace
        IN  /\ command' = [Idle EXCEPT !.kind = "chat", !.socket = s, !.parent = resumed,
                                       !.step = IF create THEN "create" ELSE "compress"]
            /\ session' = IF create THEN session ELSE [session EXCEPT !.idle = FALSE]
    /\ UNCHANGED <<durable, fallback, task, subscriber, local, managers, exec>>

\* create_dev_agent returns: the new manager's ids continue this connection's.
CreateAgent ==
    /\ command.step = "create"
    /\ Len(managers) < MaxManagers
    /\ LET s == command.socket
           m == Len(managers) + 1
           taken == IF command.kind = "review" THEN requests[command.review].id + 1
                    ELSE managers[local[s].mgr].next
       IN  /\ managers' = Append(managers, [NewManager EXCEPT !.next = taken])
           /\ local' = [local EXCEPT ![s].mgr = m, ![s].agent = TRUE]
           /\ session' = [session EXCEPT !.review_mgr = m, !.agent = TRUE,
                              !.idle = IF command.kind = "chat" THEN FALSE ELSE @]
           /\ command' = [command EXCEPT
                              !.step = IF command.kind = "chat" THEN "compress" ELSE "launch"]
    /\ UNCHANGED <<durable, fallback, task, subscriber, exec>>

\* create_dev_agent raises: a bad layout is reported, anything else (and, after
\* a review, everything) ends the connection.
CreateAgentFails ==
    /\ command.step = "create"
    /\ command' = Idle
    /\ \/ command.kind = "chat" /\ UNCHANGED <<local, subscriber>>
       \/ Closed(command.socket)
    /\ UNCHANGED <<durable, session, fallback, task, managers, exec>>

\* _start_run up to its first await: the session is claimed in the registry,
\* which drops it if nothing has touched it for too long; the row is created
\* and claimed; the resumed row is consumed. (That write cannot conflict: a row
\* that can be resumed is written by commands alone. See WorkIsRecorded.)
Busy == ~ session.registered \/ (session.idle /\ session.run_owner = NoOwner)

StartRun ==
    /\ command.step \in {"compress", "launch"}
    /\ IF Busy
       THEN /\ session' = [session EXCEPT !.registered = FALSE]
            /\ command' = Idle
            /\ UNCHANGED <<rows, local, subscriber>>
       ELSE \E r \in Runs :
            LET old == command.parent
                resumes == command.kind = "chat" /\ old # NoRun
                target == IF runs[old].status = "running" THEN "paused" ELSE runs[old].status
                owner == IF runs[old].status = "running" THEN runs[old].owner ELSE NoOwner
                begun == Claimed(QueuedRun, epoch, 1, 1)
            IN  /\ runs[r].status = Absent
                /\ resumeOf' = [resumeOf EXCEPT ![r] = IF resumes THEN old ELSE NoRun]
                /\ IF resumes
                   THEN /\ runs' = [runs EXCEPT ![r] = begun, ![old] = Transitioned(@, target)]
                        /\ checkpoints' = [checkpoints EXCEPT ![old].consumed = TRUE]
                        /\ older' = Touched(Touched(older, r, Present), old, Present \cup {r})
                   ELSE /\ runs' = [runs EXCEPT ![r] = begun]
                        /\ older' = Touched(older, r, Present)
                        /\ UNCHANGED checkpoints
                /\ session' = [session EXCEPT !.run_owner = epoch, !.idle = FALSE]
                /\ command' = [command EXCEPT !.step = "prepare", !.run = r]
                /\ UNCHANGED <<local, subscriber>>
    /\ UNCHANGED <<workspace, requests, epoch, fallback, task, managers, exec>>

\* The context is built and the execution task is created; the lock is released.
TaskCreated ==
    /\ command.step = "prepare"
    /\ exec' = [exec EXCEPT ![command.run] =
                   [NoExecution EXCEPT !.phase = "created", !.owner = epoch,
                                       !.mgr = local[command.socket].mgr]]
    /\ task' = command.run
    /\ command' = Idle
    /\ UNCHANGED <<durable, session, fallback, subscriber, local, managers>>

\* An exception before that: the run fails, the connection ends.
PrepareFails ==
    /\ command.step = "prepare"
    /\ LET r == command.run
       IN  TrySave(r, "failed", {"running"}, epoch, checkpoints[r])
    /\ session' = Released(epoch)
    /\ Closed(command.socket)
    /\ command' = Idle
    /\ UNCHANGED <<workspace, requests, epoch, fallback, task, managers, exec>>

-----------------------------------------------------------------------------
(* stop, cancel and review_response.                                         *)

\* resolve() does nothing to a request that is unknown or already answered.
Answered(m, tokens) == [m EXCEPT !.pending = @ \ tokens, !.answered = @ \cup (m.pending \cap tokens)]

Reset(m) == [m EXCEPT !.pending = {}, !.answered = {}]

\* With nothing executing, pending reviews are shown again and stay.
StopKeepsReviews(s) ==
    /\ Ready(s)
    /\ PendingRuns # {} /\ ~ Running
    /\ managers' = [managers EXCEPT ![local[s].mgr] = RestoredManager(@)]
    /\ fallback' = RestoredFallback(fallback)
    /\ UNCHANGED <<durable, session, task, subscriber, local, exec, command>>

\* Otherwise the associations are cleared and the task is canceled and awaited.
\* (pause_review keeps a row whose checkpoint has a pending review, and every
\* waiting row has one: see PendingIffWaiting.)
Stop(s) ==
    /\ Ready(s)
    /\ PendingRuns = {} \/ Running
    /\ fallback' = NoFallback
    /\ LET m == RestoredManager(managers[local[s].mgr])
       IN  managers' = [managers EXCEPT ![local[s].mgr] = IF Running THEN m ELSE Reset(m)]
    /\ command' = IF Running
                  THEN [Idle EXCEPT !.kind = "stop", !.step = "cancel", !.socket = s, !.run = task]
                  ELSE command
    /\ UNCHANGED <<durable, session, task, subscriber, local, exec>>

\* A bug: the command does not wait for the canceled task.
StopEnds_NotAwaited ==
    /\ command.step = "cancel"
    /\ LET r == command.run
       IN  TrySave(r, "paused", {"running", "waiting_approval"}, epoch,
                   [checkpoints[r] EXCEPT !.resume = TRUE])
    /\ command' = Idle
    /\ UNCHANGED <<workspace, requests, epoch, session, fallback, task, subscriber, local,
                   managers, exec>>

\* A bug: a task that is in its last sends is paused too.
StopEnds_PausesWaiting ==
    /\ command.step = "cancel"
    /\ LET r == command.run
       IN  /\ TrySave(r, "paused", {"running", "waiting_approval"}, epoch,
                      [checkpoints[r] EXCEPT !.resume = TRUE, !.pending = NoReview])
           /\ exec' = [exec EXCEPT ![r].phase = "done"]
    /\ command' = Idle
    /\ UNCHANGED <<workspace, requests, epoch, session, fallback, task, subscriber, local, managers>>

\* The task ends with CancelledError. Before its first step nothing of it runs,
\* not even the finally that releases the session; during its last sends the
\* row keeps what was written.
StopEnds ==
    /\ command.step = "cancel"
    /\ LET r == command.run
           started == exec[r].phase \in Working \ {"created"}
           paused == [checkpoints[r] EXCEPT !.written = TRUE, !.resume = TRUE]
       IN  /\ IF started THEN TrySave(r, "paused", {"running", "waiting_approval", "paused"},
                                      epoch, paused)
              ELSE UNCHANGED rows
           /\ session' = IF exec[r].phase = "created" THEN session
                         ELSE Released(exec[r].owner)
           /\ exec' = [exec EXCEPT ![r].phase = "done"]
    /\ managers' = [managers EXCEPT ![local[command.socket].mgr] = Reset(@)]
    /\ command' = Idle
    /\ UNCHANGED <<workspace, requests, epoch, fallback, task, subscriber, local>>

\* cancel, and a chat message that says so, go through the waiting runs this
\* process knew at the start, one at a time with sends in between.
Cancelable == {r \in Runs :
    /\ \E id \in ReviewIds : fallback[id] = r
    /\ checkpoints[r].pending # NoReview
    /\ MayTransition(runs[r], "canceled", {"waiting_approval"}, NoOwner)}

CancelReviews(s) ==
    /\ Ready(s)
    /\ Cancelable # {}
    /\ command' = [Idle EXCEPT !.kind = "cancel", !.step = "next", !.socket = s,
                               !.todo = Cancelable]
    /\ UNCHANGED <<durable, session, fallback, task, subscriber, local, managers, exec>>

CancelNext ==
    /\ command.step = "next"
    /\ \E r \in command.todo \cap Cancelable :
        /\ Save(r, Transitioned(runs[r], "canceled"),
                [checkpoints[r] EXCEPT !.pending = NoReview, !.resume = FALSE])
        /\ managers' = [managers EXCEPT ![local[command.socket].mgr] =
                           Answered(@, {checkpoints[r].pending})]
        /\ fallback' = [id \in ReviewIds |-> IF fallback[id] = r THEN NoRun ELSE fallback[id]]
        /\ command' = IF command.todo = {r} THEN Idle ELSE [command EXCEPT !.todo = @ \ {r}]
    /\ UNCHANGED <<workspace, requests, epoch, session, task, subscriber, local, exec>>

\* The user saw request t, at whatever time, and the reply names its id. It is
\* taken up when the process maps the id to a run and this connection's manager
\* has such a request pending (otherwise the page is told review_expired).
Answerable(s, id) ==
    /\ fallback[id] # NoRun
    /\ \E u \in managers[local[s].mgr].pending : requests[u].id = id

\* A bug: the hashes are not compared.
Applies_Always(r) == checkpoints[r].pending # NoReview

\* resolve_review reads the row and its checkpoint; an accepted candidate is
\* restored only onto the content it was made from.
Applies(r) == workspace = requests[checkpoints[r].pending].base
Candidate(r) == requests[checkpoints[r].pending].base \cup {requests[checkpoints[r].pending].run}

\* A bug: pending_review is copied to resolved_review, not moved.
ResolvedCheckpoint_Copies(r) == [checkpoints[r] EXCEPT !.resume = TRUE]

ResolvedCheckpoint(r) == [checkpoints[r] EXCEPT !.pending = NoReview, !.resume = TRUE]

Reply(s, t, accepted) ==
    LET id == requests[t].id
        r == fallback[id]
        u == CHOOSE v \in managers[local[s].mgr].pending : requests[v].id = id
    IN  /\ Ready(s)
        /\ requests[t].shown
        /\ Answerable(s, id)
        /\ checkpoints[r].pending # NoReview
        /\ (accepted => Applies(r))
        /\ workspace' = IF accepted THEN Candidate(r) ELSE workspace
        /\ IF MayTransition(runs[r], "partial", {"waiting_approval"}, runs[r].owner)
           THEN /\ Save(r, Transitioned(runs[r], "partial"), ResolvedCheckpoint(r))
                /\ managers' = [managers EXCEPT ![local[s].mgr] = Answered(@, {u})]
                /\ command' = [Idle EXCEPT !.kind = "review", !.step = "hook", !.socket = s,
                                           !.parent = r, !.review = t, !.accepted = accepted]
           ELSE UNCHANGED <<rows, managers, command>>
        /\ UNCHANGED <<requests, epoch, session, fallback, task, subscriber, local, exec>>

\* The REVIEW_AFTER hooks have run: the association goes, and the continuation
\* starts, with a new agent if this connection has none.
ReplyContinues ==
    /\ command.step = "hook"
    /\ fallback' = [fallback EXCEPT ![requests[command.review].id] = NoRun]
    /\ command' = [command EXCEPT
                      !.step = IF local[command.socket].agent THEN "launch" ELSE "create"]
    /\ UNCHANGED <<durable, session, task, subscriber, local, managers, exec>>

\* A reply whose id the process does not map to a run answers whatever request
\* of that id this connection's manager has pending.
ReplyToLive(s, t) ==
    LET id == requests[t].id
        same == {u \in managers[local[s].mgr].pending : requests[u].id = id}
    IN  /\ Ready(s)
        /\ requests[t].shown
        /\ fallback[id] = NoRun /\ same # {}
        /\ managers' = [managers EXCEPT ![local[s].mgr] = Answered(@, same)]
        /\ UNCHANGED <<durable, session, fallback, task, subscriber, local, exec, command>>

-----------------------------------------------------------------------------
(* The execution task of a run. stop takes over a task it is canceling.      *)

Steps(r) == ~ (command.step = "cancel" /\ command.run = r)
Untouched(r) == exec[r].edited => workspace = exec[r].base \cup {r}

\* The first step: the initial checkpoint replaces whatever the row had.
ExecBegins(r) ==
    /\ exec[r].phase = "created" /\ Steps(r)
    /\ exec' = [exec EXCEPT ![r].phase = "active"]
    /\ TrySave(r, "running", {"running", "waiting_approval", "paused"}, exec[r].owner, FreshCheckpoint)
    /\ UNCHANGED <<workspace, requests, epoch, session, fallback, task, subscriber,
                   local, managers, command>>

\* The agent edits the project in place; the change set knows the content before.
ExecEdits(r) ==
    /\ exec[r].phase = "active" /\ Steps(r)
    /\ ~ exec[r].edited
    /\ exec' = [exec EXCEPT ![r].edited = TRUE, ![r].base = workspace]
    /\ workspace' = workspace \cup {r}
    /\ UNCHANGED <<rows, requests, epoch, session, fallback, task, subscriber,
                   local, managers, command>>

\* submit(): by submit_uml_review, or for a design change that bypassed it.
ExecAsks(r) ==
    LET m == exec[r].mgr
        free == {t \in Reviews : requests[t].run = NoRun}
        t == Min(free)
    IN  /\ exec[r].phase = "active" /\ Steps(r)
        /\ exec[r].edited
        /\ free # {}
        /\ requests' = [requests EXCEPT ![t] = [run |-> r, id |-> managers[m].next,
                                                base |-> exec[r].base, shown |-> FALSE]]
        /\ managers' = [managers EXCEPT ![m].next = @ + 1, ![m].pending = @ \cup {t}]
        /\ exec' = [exec EXCEPT ![r].phase = "asking", ![r].review = t]
        /\ UNCHANGED <<rows, workspace, epoch, session, fallback, task, subscriber, local, command>>

\* fallback_review_runs of the session object the run was started in.
Associated(r) == IF exec[r].owner # epoch THEN fallback
                 ELSE [fallback EXCEPT ![requests[exec[r].review].id] = r]

\* AgentAwaitingReview: the candidate is saved and rolled back, the checkpoint
\* with the pending review is written, the association is made; then the sends.
ExecSuspends(r) ==
    LET t == exec[r].review
    IN  /\ exec[r].phase = "asking" /\ Steps(r)
        /\ Untouched(r)
        /\ workspace' = exec[r].base
        /\ TrySave(r, "waiting_approval", {"running", "waiting_approval", "paused"}, exec[r].owner,
                   [checkpoints[r] EXCEPT !.pending = t, !.resume = FALSE])
        /\ fallback' = Associated(r)
        /\ requests' = [requests EXCEPT ![t].shown = TRUE]
        /\ exec' = [exec EXCEPT ![r].phase = "closing"]
        /\ UNCHANGED <<epoch, session, task, subscriber, local, managers, command>>

\* The candidate cannot be saved, or the user has changed the files meanwhile:
\* the exception leaves the handler and the row stays as it is. A review that was
\* not the agent's own request is associated before that, and stays so.
ExecSuspendFails(r) ==
    /\ exec[r].phase = "asking" /\ Steps(r)
    /\ exec' = [exec EXCEPT ![r].phase = "done"]
    /\ session' = Released(exec[r].owner)
    /\ \/ fallback' = Associated(r)
       \/ UNCHANGED fallback
    /\ UNCHANGED <<durable, task, subscriber, local, managers, command>>

\* The change set commits (a conflict is an exception); the sends and the handlers
\* of a commit follow.
ExecCommits(r) ==
    /\ exec[r].phase = "active" /\ Steps(r)
    /\ exec[r].edited /\ Untouched(r)
    /\ exec' = [exec EXCEPT ![r].phase = "committed"]
    /\ UNCHANGED <<rows, workspace, requests, epoch, session, fallback, task, subscriber, local,
                   managers, command>>

\* Then the row ends, at once when nothing was changed; every status a finished agent
\* can leave is terminal, and "succeeded" stands for all.
ExecSucceeds(r) ==
    /\ exec[r].phase = "committed" \/ (exec[r].phase = "active" /\ ~ exec[r].edited)
    /\ Steps(r)
    /\ TrySave(r, "succeeded", {"running"}, exec[r].owner, checkpoints[r])
    /\ exec' = [exec EXCEPT ![r].phase = "closing"]
    /\ UNCHANGED <<workspace, requests, epoch, session, fallback, task, subscriber,
                   local, managers, command>>

\* The check after the last step refuses the result, and what there is of it is saved
\* as a candidate, which is sent before anything is taken back.
ExecIsRefused(r) ==
    /\ exec[r].phase = "active" /\ Steps(r)
    /\ exec' = [exec EXCEPT ![r].phase = "refused"]
    /\ UNCHANGED <<rows, workspace, requests, epoch, session, fallback, task, subscriber, local,
                   managers, command>>

\* A bug: what is taken back is what was there when the candidate was saved.
WithoutRefused_Unchecked(r) == IF exec[r].edited THEN exec[r].base ELSE workspace

\* The changes are rolled back, unless the files were changed meanwhile. Handlers follow.
WithoutRefused(r) == IF exec[r].edited /\ Untouched(r) THEN exec[r].base ELSE workspace

ExecRollsBack(r) ==
    /\ exec[r].phase = "refused" /\ Steps(r)
    /\ workspace' = WithoutRefused(r)
    /\ exec' = [exec EXCEPT ![r].phase = "rejected"]
    /\ UNCHANGED <<rows, requests, epoch, session, fallback, task, subscriber, local,
                   managers, command>>

\* Then the row ends. It can be taken up again when the check was the design
\* contract's and kept a candidate, or asked for a validation.
ExecEndsRejected(r) ==
    /\ exec[r].phase = "rejected" /\ Steps(r)
    /\ \E recover \in BOOLEAN :
          TrySave(r, "partial", {"running"}, exec[r].owner, [checkpoints[r] EXCEPT !.recover = recover])
    /\ exec' = [exec EXCEPT ![r].phase = "closing"]
    /\ UNCHANGED <<workspace, requests, epoch, session, fallback, task, subscriber,
                   local, managers, command>>

\* Any other exception. What was edited stays edited.
ExecFails(r) ==
    /\ exec[r].phase \in Working \ {"created"} /\ Steps(r)
    /\ TrySave(r, "failed", {"running", "waiting_approval"}, exec[r].owner, checkpoints[r])
    /\ exec' = [exec EXCEPT ![r].phase = "closing"]
    /\ UNCHANGED <<workspace, requests, epoch, session, fallback, task, subscriber,
                   local, managers, command>>

\* The last sends are through: the task ends and releases the session.
ExecEnds(r) ==
    /\ exec[r].phase = "closing" /\ Steps(r)
    /\ exec' = [exec EXCEPT ![r].phase = "done"]
    /\ session' = Released(exec[r].owner)
    /\ UNCHANGED <<durable, fallback, task, subscriber, local, managers, command>>

-----------------------------------------------------------------------------
(* The process dies, possibly between two durable writes of one action.      *)

AllLost ==
    /\ session' = NoSession
    /\ fallback' = NoFallback
    /\ task' = NoRun
    /\ subscriber' = NoSocket
    /\ local' = NoLocals
    /\ managers' = <<>>
    /\ exec' = [r \in Runs |-> NoExecution]
    /\ command' = Idle

Crash ==
    /\ session.registered
    /\ AllLost
    /\ UNCHANGED durable

\* The candidate is applied, the row is not yet written.
CrashInAccept(s, t) ==
    /\ Ready(s)
    /\ requests[t].shown
    /\ Answerable(s, requests[t].id)
    /\ LET r == fallback[requests[t].id]
       IN  /\ checkpoints[r].pending # NoReview
           /\ Applies(r)
           /\ workspace' = Candidate(r)
    /\ AllLost
    /\ UNCHANGED <<rows, requests, epoch>>

\* The new row is queued, or claimed too, and the resumed one is not consumed.
CrashInStart(r) ==
    /\ command.step \in {"compress", "launch"} /\ ~ Busy
    /\ runs[r].status = Absent
    /\ \E row \in {QueuedRun, Claimed(QueuedRun, epoch, 1, 1)} :
          runs' = [runs EXCEPT ![r] = row]
    /\ older' = Touched(older, r, Present)
    /\ resumeOf' = [resumeOf EXCEPT ![r] = IF command.kind = "chat" THEN command.parent ELSE NoRun]
    /\ AllLost
    /\ UNCHANGED <<checkpoints, workspace, requests, epoch>>

-----------------------------------------------------------------------------
Next ==
    \/ \E s \in Sockets :
          \/ Connect(s) \/ ConnectFresh(s) \/ Attach(s) \/ Disconnect(s)
          \/ Chat(s) \/ StopKeepsReviews(s) \/ Stop(s) \/ CancelReviews(s)
          \/ \E t \in Reviews :
                \/ Reply(s, t, TRUE) \/ Reply(s, t, FALSE) \/ ReplyToLive(s, t)
                \/ CrashInAccept(s, t)
    \/ LoseSubscriber \/ TimePasses \/ UserEdits
    \/ CreateAgent \/ CreateAgentFails \/ StartRun \/ TaskCreated \/ PrepareFails
    \/ StopEnds \/ CancelNext \/ ReplyContinues
    \/ \E r \in Runs :
          \/ ExecBegins(r) \/ ExecEdits(r) \/ ExecAsks(r) \/ ExecSuspends(r)
          \/ ExecSuspendFails(r) \/ ExecCommits(r) \/ ExecSucceeds(r) \/ ExecIsRefused(r)
          \/ ExecRollsBack(r) \/ ExecEndsRejected(r) \/ ExecFails(r) \/ ExecEnds(r) \/ CrashInStart(r)
    \/ Crash

Spec == Init /\ [][Next]_vars

-----------------------------------------------------------------------------
\* A row waits for a human exactly while its checkpoint holds the review to show
\* again: no waiting run is without its diff, no decided review comes back.
PendingIffWaiting ==
    \A r \in Runs : checkpoints[r].pending # NoReview <=> runs[r].status = "waiting_approval"

\* What an agent works on is a running row of this session, so its checkpoints
\* and its ending are never refused by the store and silently lost.
WorkIsRecorded ==
    \A r \in Runs : exec[r].phase \in Working =>
        runs[r].status = "running" /\ runs[r].owner = exec[r].owner

\* An interrupted run is resumed by at most one later run, across crashes.
ResumedOnce ==
    \A q, r \in Runs : resumeOf[q] # NoRun /\ resumeOf[q] = resumeOf[r] => q = r

\* A run that was resumed had stopped for good: it neither works nor waits.
ResumedHasStopped ==
    \A r \in Runs : checkpoints[r].consumed =>
        exec[r].phase \notin Working /\ runs[r].status \notin {"queued", "running", "waiting_approval"}

\* A waiting run moves on only when the user cancels it or replies: a stop, a
\* restart, the ending of its own task or another run's start leaves it alone.
OnlyTheUserDecides ==
    [][\A r \in Runs : runs[r].status = "waiting_approval" /\ runs'[r] # runs[r] =>
          \/ command.kind = "cancel" /\ runs'[r].status = "canceled"
          \/ command'.kind = "review" /\ command'.parent = r]_vars

\* The user's words are carried out as they were meant: the candidate of a review comes
\* into the project when the user accepts a request of its id and the project is as it was
\* when it was made, and the project stays as it is when the user rejects it. In no other
\* way but by the agent at work does a run's change get there: a stop, a cancel, a
\* continuation or a restart applies nothing (a crash does while an acceptance does).
OnlyAcceptedIsApplied ==
    [][\A r \in Runs :
        /\ r \in workspace' \ workspace =>
              \/ exec[r].phase = "active"
              \/ /\ checkpoints[r].pending # NoReview
                 /\ workspace = requests[checkpoints[r].pending].base
                 /\ \/ command'.kind = "review" /\ command'.accepted
                       /\ requests[command'.review].id = IdOf(r)
                    \/ AllLost
        /\ command = Idle /\ command'.kind = "review" /\ command'.parent = r =>
              workspace' = IF command'.accepted THEN Candidate(r) ELSE workspace]_vars

\* A change leaves the project only with the run that made it, when that run is suspended
\* or its result refused: a rollback takes nothing of the user or of another run with it,
\* though a send lies between the saving of the candidate and the rollback.
OnlyOwnIsWithdrawn ==
    [][\A x \in workspace \ workspace' :
          x \in Runs /\ exec[x].phase \in {"asking", "refused"} /\ exec'[x].phase # exec[x].phase]_vars

\* Once its rollback is through, nothing of a refused result is in the project, unless
\* the user changed the project after the agent did, or another agent or a candidate
\* that waits was made on top of it.
RefusedIsWithdrawn ==
    \A r \in Runs : exec[r].phase = "rejected" /\ exec[r].edited /\ r \in workspace =>
        \/ NoRun \in workspace \ exec[r].base
        \/ \E q \in Runs \ {r} : exec[q].edited /\ r \in exec[q].base
        \/ \E t \in Reviews : r \in requests[t].base

\* docs/chat-task-lifecycle.md:9, :15: tasks start one after the other, and no
\* second agent starts by itself.
OneAgentWorks ==
    \A q, r \in Runs :
        /\ exec[q].phase \in Working
        /\ exec[r].phase \in Working \/ (command.run = r /\ command.step = "prepare")
        => q = r

\* Every row is written under the exclusive numbered terms of RunTenure, over
\* all the processes that serve the session.
Tenure == INSTANCE RunTenure
    WITH Workers <- Owners, NoWorker <- NoOwner,
         holder <- [r \in Runs |-> runs[r].owner],
         term   <- [r \in Runs |-> runs[r].attempt],
         closed <- {r \in Runs : runs[r].status \in Terminal}

ImplementsTenure == Tenure!Spec

\* The row and its checkpoint tell what the work is: waiting with a review, at work
\* under the recorded run, or stopped for good once resumed.
RowsTellTheWork == PendingIffWaiting /\ WorkIsRecorded /\ ResumedHasStopped

\* A review stands until the user decides it, what the user decides is what is done, and
\* what is taken back is the refused or suspended change, all of it and nothing else.
ReviewsStand ==
    OnlyTheUserDecides /\ OnlyAcceptedIsApplied /\ OnlyOwnIsWithdrawn /\ []RefusedIsWithdrawn

=============================================================================
