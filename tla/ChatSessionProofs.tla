------------------------- MODULE ChatSessionProofs -------------------------
(***************************************************************************)
(* Proofs about ChatSession, for any runs, connections and bounds: the     *)
(* variables stay in their types; a row and its checkpoint tell what the   *)
(* work is; a waiting review stands until the user decides it; a run is    *)
(* resumed once, across crashes; and the sessions, one process after       *)
(* another, write their rows under the exclusive terms of RunTenure.       *)
(* They all rest on one inductive invariant, IInv.                         *)
(***************************************************************************)
EXTENDS ChatSession, RunRecordsProofs

\* The statuses of a run that stopped and may be taken up by a later one.
Halted == {"paused", "orphaned", "partial"}

\* The managers that connections, the session and working runs refer to exist.
ManagersExist ==
    /\ Len(managers) <= MaxManagers
    /\ session.registered => session.review_mgr \in DOMAIN managers /\ epoch \in Owners
    /\ \A s \in Sockets : local[s] # NoCoroutine => local[s].mgr \in DOMAIN managers
    /\ \A r \in Runs : exec[r].phase \in Working => exec[r].mgr \in DOMAIN managers

\* The requests submitted are the first ones, and ids lag behind their number.
IdsAreFree ==
    \A t \in Reviews : requests[t].run = NoRun =>
        /\ \A m \in DOMAIN managers : managers[m].next < t
        /\ \A u \in Reviews : requests[u].run # NoRun => requests[u].id + 1 < t

\* Who asked for a review is known wherever the review is referred to.
ReviewsAreOwned ==
    /\ \A t \in Reviews : requests[t].shown => requests[t].run # NoRun
    /\ \A r \in Runs : /\ exec[r].phase = "asking" =>
                             /\ exec[r].edited /\ exec[r].review # NoReview
                             /\ requests[exec[r].review].run = r
                       /\ checkpoints[r].pending # NoReview =>
                             requests[checkpoints[r].pending].run = r

\* A row, its checkpoint and its execution task agree.
RowOK(r) ==
    /\ runs[r].status = Absent =>
          /\ runs[r] = AbsentRun /\ checkpoints[r] = NoCheckpoint
          /\ resumeOf[r] = NoRun /\ exec[r].phase = "none"
    /\ runs[r].status \in {"running", "waiting_approval"} \/ runs[r].owner = NoOwner
    /\ runs[r].status = "running" => ~ checkpoints[r].resume
    /\ checkpoints[r].pending # NoReview <=> runs[r].status = "waiting_approval"
    /\ exec[r].phase \in Working => runs[r].status = "running" /\ runs[r].owner = exec[r].owner
    /\ checkpoints[r].consumed => runs[r].status \in Halted

\* The run a chat message is going to resume has stopped and is nobody's yet.
MayBeResumed(p) ==
    /\ runs[p].status \in Halted /\ ~ checkpoints[p].consumed
    /\ \A q \in Runs : resumeOf[q] # p

\* The command in progress, at each of its awaits.
CommandOK ==
    /\ command.step = "" => command = Idle
    /\ command # Idle => command.socket \in Sockets /\ local[command.socket] # NoCoroutine
    /\ command.step = "next" => command.kind = "cancel"
    /\ command.step = "hook" => command.kind = "review"
    /\ command.kind = "review" => command.review # NoReview /\ requests[command.review].shown
    /\ command.step = "cancel" => command.run # NoRun /\ command.run = task
    /\ command.step = "prepare" =>
          /\ command.run # NoRun /\ exec[command.run].phase = "none"
          /\ runs[command.run].status = "running" /\ runs[command.run].owner = epoch
          /\ checkpoints[command.run] = NoCheckpoint
    /\ command.kind = "chat" /\ command.parent # NoRun /\ command.step # "prepare" =>
          MayBeResumed(command.parent)
    /\ task # NoRun => exec[task].owner = epoch /\ exec[task].phase # "none"

\* What was resumed has stopped, once and for all: either it is consumed or a
\* later row that is not keeps it from being found again.
ResumedOK ==
    /\ ResumedOnce
    /\ \A q, r \in Runs : q \in older[r] => r \notin older[q]
    /\ \A q \in Runs : resumeOf[q] # NoRun =>
          /\ runs[resumeOf[q]].status \in Halted
          /\ \/ checkpoints[resumeOf[q]].consumed
             \/ \E x \in Present : ~ checkpoints[x].consumed /\ resumeOf[q] \in older[x]

IInv == /\ TypeOK /\ ManagersExist /\ IdsAreFree /\ ReviewsAreOwned
        /\ (\A r \in Runs : RowOK(r)) /\ CommandOK /\ ResumedOK

-----------------------------------------------------------------------------
(* Blank values, and what the constants are. *)

LEMMA Bounds ==
    /\ NoOwner = 0 /\ Owners = 1..MaxSessions
    /\ MaxSessions \in Nat /\ MaxReviews \in Nat /\ MaxManagers \in Nat
    /\ NoRun \notin Runs /\ NoSocket \notin Sockets
BY NoRunIsNotARun, NoSocketIsNotASocket, BoundsAreNumbers, OwnersAreNumbered

LEMMA Blanks ==
    /\ NoCheckpoint \in Checkpoint /\ FreshCheckpoint \in Checkpoint
    /\ NoSession \in Session /\ NewManager \in Manager /\ NoCoroutine \in Coroutine
    /\ NoRequest \in Request /\ NoExecution \in Execution /\ Idle \in Command
<1>1. NoCheckpoint \in Checkpoint /\ FreshCheckpoint \in Checkpoint
  BY DEF Checkpoint, NoCheckpoint, FreshCheckpoint, NoReview
<1>2. NoSession \in Session /\ NewManager \in Manager /\ NoCoroutine \in Coroutine
  BY Bounds DEF Session, NoSession, Manager, NewManager, Coroutine, NoCoroutine
<1>3. NoRequest \in Request
  BY DEF Request, NoRequest, Contents, ReviewIds
<1>4. NoExecution \in Execution
  BY Bounds DEF Execution, NoExecution, Phases, Contents, NoReview
<1>5. Idle \in Command
  BY DEF Command, Idle, NoReview
<1> QED
  BY <1>1, <1>2, <1>3, <1>4, <1>5

\* Any command written by the code is one, field by field.
LEMMA CommandType ==
    ASSUME NEW kind \in {"idle", "chat", "stop", "cancel", "review"},
           NEW step \in {"", "create", "compress", "hook", "launch", "prepare", "cancel", "next"},
           NEW socket \in Sockets \cup {NoSocket}, NEW parent \in Runs \cup {NoRun},
           NEW run \in Runs \cup {NoRun}, NEW review \in Reviews \cup {NoReview},
           NEW accepted \in BOOLEAN, NEW todo \in SUBSET Runs
    PROVE  [kind |-> kind, step |-> step, socket |-> socket, parent |-> parent,
            run |-> run, review |-> review, accepted |-> accepted, todo |-> todo] \in Command
BY DEF Command

\* A row as it is before anybody works on it, or after.
LEMMA RowTypes ==
    ASSUME TypeOK, NEW r \in Runs
    PROVE  /\ runs[r] \in RunRecord /\ checkpoints[r] \in Checkpoint
           /\ exec[r] \in Execution
           /\ resumeOf[r] \in Runs \cup {NoRun} /\ older[r] \in SUBSET Runs
BY DEF TypeOK

-----------------------------------------------------------------------------
(* Frames: what keeps a part of the invariant. *)

\* Rows and requests stay, and no execution begins or gets on with a review.
LEMMA RowsKept ==
    ASSUME IInv, UNCHANGED <<rows, requests>>, exec' \in [Runs -> Execution],
           \A r \in Runs :
              /\ exec[r].phase = "none" => exec'[r].phase = "none"
              /\ exec'[r].phase \in Working =>
                    exec[r].phase \in Working /\ exec'[r].owner = exec[r].owner
              /\ exec'[r].phase = "asking" =>
                    /\ exec[r].phase = "asking" /\ exec'[r].review = exec[r].review
                    /\ exec'[r].edited = exec[r].edited
    PROVE  ReviewsAreOwned' /\ (\A r \in Runs : RowOK(r))' /\ ResumedOK'
<1>1. /\ runs' = runs /\ checkpoints' = checkpoints /\ resumeOf' = resumeOf /\ older' = older
      /\ requests' = requests
  BY DEF rows
<1>2. ReviewsAreOwned'
  BY <1>1 DEF IInv, ReviewsAreOwned
<1>3. ASSUME NEW r \in Runs PROVE RowOK(r)'
  BY <1>1 DEF IInv, RowOK
<1>4. ResumedOK'
  BY <1>1 DEF IInv, ResumedOK, ResumedOnce, Present
<1> QED
  BY <1>2, <1>3, <1>4

\* The command in progress waits on, while tasks work and connections come and go.
LEMMA CommandKept ==
    ASSUME IInv, UNCHANGED <<epoch, task, command, resumeOf>>,
           command # Idle => local'[command.socket] # NoCoroutine,
           \A t \in Reviews : requests[t].shown => requests'[t].shown,
           \A q \in Runs :
              /\ exec'[q].owner = exec[q].owner
              /\ exec[q].phase # "none" => exec'[q].phase # "none"
              /\ exec[q].phase = "none" =>
                    /\ exec'[q].phase = "none" /\ runs'[q] = runs[q]
                    /\ checkpoints'[q] = checkpoints[q]
              /\ runs[q].status \in Halted =>
                    /\ runs'[q].status \in Halted
                    /\ checkpoints'[q].consumed = checkpoints[q].consumed
    PROVE  CommandOK'
<1>1. CommandOK /\ command \in Command /\ task \in Runs \cup {NoRun}
  BY DEF IInv, TypeOK
<1>2. command.run \in Runs \cup {NoRun} /\ command.parent \in Runs \cup {NoRun}
      /\ command.review \in Reviews \cup {NoReview}
  BY <1>1 DEF Command
<1>3. command.kind = "review" => command.review # NoReview /\ requests'[command.review].shown
  BY <1>1, <1>2 DEF CommandOK
<1>4. command.step = "prepare" =>
          /\ command.run # NoRun /\ exec'[command.run].phase = "none"
          /\ runs'[command.run].status = "running" /\ runs'[command.run].owner = epoch
          /\ checkpoints'[command.run] = NoCheckpoint
  BY <1>1, <1>2 DEF CommandOK
<1>5. command.kind = "chat" /\ command.parent # NoRun /\ command.step # "prepare" =>
          MayBeResumed(command.parent)'
  BY <1>1, <1>2 DEF CommandOK, MayBeResumed
<1>6. task # NoRun => exec'[task].owner = epoch /\ exec'[task].phase # "none"
  BY <1>1 DEF CommandOK
<1> QED
  BY <1>1, <1>3, <1>4, <1>5, <1>6 DEF CommandOK

\* No command is in progress.
LEMMA IdleOK ==
    ASSUME command' = Idle,
           task' # NoRun => exec'[task'].owner = epoch' /\ exec'[task'].phase # "none"
    PROVE  CommandOK'
BY DEF CommandOK, Idle

\* One manager is replaced: ids stay free.
LEMMA ManagerStep ==
    ASSUME IInv, requests' = requests, NEW i \in DOMAIN managers, NEW new \in Manager,
           \A t \in Reviews : requests[t].run = NoRun => new.next < t,
           managers' = [managers EXCEPT ![i] = new]
    PROVE  managers' \in Seq(Manager) /\ Len(managers') = Len(managers)
              /\ DOMAIN managers' = DOMAIN managers /\ IdsAreFree'
<1>1. managers \in Seq(Manager) /\ IdsAreFree
  BY DEF IInv, TypeOK
<1>2. managers' \in Seq(Manager) /\ Len(managers') = Len(managers)
              /\ DOMAIN managers' = DOMAIN managers
  BY <1>1
<1>3. \A m \in DOMAIN managers' : managers'[m] = IF m = i THEN new ELSE managers[m]
  BY <1>1
<1> QED
  BY <1>1, <1>2, <1>3 DEF IdsAreFree

\* One manager is added.
LEMMA ManagerAdded ==
    ASSUME IInv, requests' = requests, NEW new \in Manager,
           \A t \in Reviews : requests[t].run = NoRun => new.next < t,
           managers' = Append(managers, new)
    PROVE  /\ managers' \in Seq(Manager) /\ Len(managers') = Len(managers) + 1
           /\ DOMAIN managers \subseteq DOMAIN managers' /\ Len(managers) + 1 \in DOMAIN managers'
           /\ IdsAreFree'
<1>1. managers \in Seq(Manager) /\ IdsAreFree
  BY DEF IInv, TypeOK
<1>2. /\ managers' \in Seq(Manager) /\ Len(managers') = Len(managers) + 1
      /\ DOMAIN managers \subseteq DOMAIN managers' /\ Len(managers) + 1 \in DOMAIN managers'
  BY <1>1
<1>3. \A m \in DOMAIN managers' : IF m \in DOMAIN managers THEN managers'[m] = managers[m]
                                  ELSE managers'[m] = new
  BY <1>1
<1> QED
  BY <1>1, <1>2, <1>3 DEF IdsAreFree

\* restore_pending_reviews() keeps a manager well-formed and its next id behind.
LEMMA RestoredFacts ==
    ASSUME IInv, NEW m \in Manager,
           \A t \in Reviews : requests[t].run = NoRun => m.next < t
    PROVE  /\ RestoredManager(m) \in Manager
           /\ \A t \in Reviews : requests[t].run = NoRun => RestoredManager(m).next < t
<1> DEFINE unknown == {r \in PendingRuns : ~ Knows(m, IdOf(r))}
           added == {r \in unknown : \A q \in unknown : IdOf(q) = IdOf(r) => q \notin older[r]}
           S == {m.next} \cup {IdOf(r) + 1 : r \in added}
           tokens == {checkpoints[r].pending : r \in added}
           next == Max(S)
<1>1. ASSUME NEW r \in PendingRuns
      PROVE  /\ checkpoints[r].pending \in Reviews
             /\ IdOf(r) \in Nat /\ IdOf(r) + 1 <= MaxReviews
             /\ \A t \in Reviews : requests[t].run = NoRun => IdOf(r) + 1 < t
  <2>1. r \in Runs /\ checkpoints[r].pending # NoReview /\ checkpoints[r] \in Checkpoint
    BY RowTypes DEF IInv, PendingRuns
  <2>2. checkpoints[r].pending \in Reviews
    BY <2>1 DEF Checkpoint
  <2>3. requests[checkpoints[r].pending].run = r /\ requests[checkpoints[r].pending] \in Request
    BY <2>1, <2>2 DEF IInv, ReviewsAreOwned, TypeOK
  <2>4. IdOf(r) \in Nat /\ IdOf(r) + 1 <= MaxReviews
    BY <2>2, <2>3, Bounds DEF IdOf, Request, ReviewIds, Reviews
  <2>5. \A t \in Reviews : requests[t].run = NoRun => IdOf(r) + 1 < t
    BY <2>1, <2>2, <2>3, Bounds DEF IInv, IdsAreFree, IdOf
  <2> QED
    BY <2>2, <2>4, <2>5
<1>2. added \subseteq PendingRuns
  OBVIOUS
<1>3. m.next \in 0..MaxReviews /\ m.pending \in SUBSET Reviews /\ m.answered \in SUBSET Reviews
  BY DEF Manager
<1>4. tokens \subseteq Reviews
  BY <1>1, <1>2
<1>5. S \in SUBSET Nat /\ S # {} /\ \A x \in S : x <= MaxReviews
  <2> HIDE DEF added
  <2> QED
    BY <1>1, <1>2, <1>3, Bounds
<1>6. next \in S
  <2> HIDE DEF S
  <2> QED
    BY <1>5, MaxFacts, Bounds
<1>7. next \in 0..MaxReviews
  <2> HIDE DEF S, next
  <2> QED
    BY <1>5, <1>6
<1>8. \A t \in Reviews : requests[t].run = NoRun => next < t
  <2>1. next = m.next \/ \E r \in added : next = IdOf(r) + 1
    <3> HIDE DEF next, added
    <3> QED
      BY <1>6
  <2> HIDE DEF next, added, S
  <2>2. CASE next = m.next
    BY <2>2
  <2>3. ASSUME NEW r \in added, next = IdOf(r) + 1
        PROVE  \A t \in Reviews : requests[t].run = NoRun => next < t
    BY <1>1, <1>2, <2>3
  <2> QED
    BY <2>1, <2>2, <2>3
<1>9. RestoredManager(m) = [m EXCEPT !.pending = @ \cup tokens, !.next = next]
  BY Zenon DEF RestoredManager
<1> HIDE DEF tokens, next
<1>10. [m EXCEPT !.pending = @ \cup tokens, !.next = next] \in Manager
  BY <1>3, <1>4, <1>7 DEF Manager
<1>11. [m EXCEPT !.pending = @ \cup tokens, !.next = next].next = next
  BY DEF Manager
<1> QED
  BY <1>8, <1>9, <1>10, <1>11

\* and the associations too.
LEMMA FallbackType ==
    ASSUME TypeOK, NEW known \in [ReviewIds -> Runs \cup {NoRun}]
    PROVE  RestoredFallback(known) \in [ReviewIds -> Runs \cup {NoRun}]
<1> DEFINE newest(id) == {r \in {q \in PendingRuns : IdOf(q) = id} :
                             {q \in PendingRuns : IdOf(q) = id} \ {r} \subseteq older[r]}
           f(id) == IF newest(id) = {} THEN known[id] ELSE CHOOSE r \in newest(id) : TRUE
<1>1. ASSUME NEW id \in ReviewIds PROVE f(id) \in Runs \cup {NoRun}
  <2>1. newest(id) \subseteq Runs
    BY DEF PendingRuns
  <2> HIDE DEF newest
  <2> QED
    BY <2>1
<1>2. RestoredFallback(known) = [id \in ReviewIds |-> f(id)]
  BY Zenon DEF RestoredFallback
<1> HIDE DEF f
<1> QED
  BY <1>1, <1>2

\* resolve() and reset() keep a manager's next id.
LEMMA AnsweredFacts ==
    ASSUME NEW m \in Manager, NEW tokens
    PROVE  /\ Answered(m, tokens) \in Manager /\ Answered(m, tokens).next = m.next
           /\ Reset(m) \in Manager /\ Reset(m).next = m.next
BY DEF Answered, Reset, Manager

\* What a connection, a command or a task finds in the manager it refers to.
LEMMA KnownManager ==
    ASSUME IInv, NEW i \in DOMAIN managers
    PROVE  /\ managers[i] \in Manager
           /\ \A t \in Reviews : requests[t].run = NoRun => managers[i].next < t
BY DEF IInv, TypeOK, IdsAreFree

-----------------------------------------------------------------------------
(* Writing a row. *)

\* A row at work or waiting is written: the others keep their order behind it, and
\* what was resumed is still what it was.
LEMMA SavedRow ==
    ASSUME IInv, NEW r \in Runs, runs[r].status \in {"running", "waiting_approval"},
           NEW row \in RunRecord, row.status # Absent,
           NEW checkpoint \in Checkpoint, ~ checkpoint.consumed,
           Save(r, row, checkpoint)
    PROVE  /\ runs' \in [Runs -> RunRecord] /\ checkpoints' \in [Runs -> Checkpoint]
           /\ resumeOf' = resumeOf /\ older' \in [Runs -> SUBSET Runs]
           /\ runs'[r] = row /\ checkpoints'[r] = checkpoint
           /\ \A q \in Runs \ {r} : runs'[q] = runs[q] /\ checkpoints'[q] = checkpoints[q]
           /\ ResumedOK'
<1>1. TypeOK
  BY DEF IInv
<1>2. /\ runs' \in [Runs -> RunRecord] /\ checkpoints' \in [Runs -> Checkpoint]
      /\ resumeOf' = resumeOf
      /\ runs'[r] = row /\ checkpoints'[r] = checkpoint
      /\ \A q \in Runs \ {r} : runs'[q] = runs[q] /\ checkpoints'[q] = checkpoints[q]
  BY <1>1 DEF Save, TypeOK
<1>3. /\ older' \in [Runs -> SUBSET Runs]
      /\ \A q \in Runs : older'[q] = IF q = r THEN Present \ {r} ELSE older[q] \ {r}
  BY <1>1 DEF Save, Touched, Present, TypeOK
<1>4. Present' = Present /\ r \in Present
  BY <1>2 DEF Present, Absent
<1>5. ResumedOnce'
  BY <1>2 DEF IInv, ResumedOK, ResumedOnce
<1>6. \A p, q \in Runs : q \in older'[p] => p \notin older'[q]
  BY <1>3 DEF IInv, ResumedOK
<1>7. ASSUME NEW q \in Runs, resumeOf[q] # NoRun
      PROVE  /\ runs'[resumeOf[q]].status \in Halted
             /\ \/ checkpoints'[resumeOf[q]].consumed
                \/ \E x \in Present' : ~ checkpoints'[x].consumed /\ resumeOf[q] \in older'[x]
  <2> DEFINE p == resumeOf[q]
  <2>1. p \in Runs /\ runs[p].status \in Halted
    BY <1>1, <1>7 DEF IInv, ResumedOK, TypeOK
  <2>2. p # r /\ p \in Present
    BY <2>1 DEF Halted, Present, Absent
  <2>3. checkpoints'[p] = checkpoints[p] /\ runs'[p] = runs[p]
    BY <1>2, <2>1, <2>2
  <2>4. CASE ~ checkpoints[p].consumed
    <3>1. PICK x \in Present : ~ checkpoints[x].consumed /\ p \in older[x]
      BY <1>7, <2>4 DEF IInv, ResumedOK
    <3>2. x \in Runs
      BY DEF Present
    <3>3. ~ checkpoints'[x].consumed /\ p \in older'[x]
      BY <1>2, <1>3, <2>1, <2>2, <3>1, <3>2
    <3> QED
      BY <1>4, <2>1, <2>3, <3>1, <3>3
  <2> QED
    BY <2>1, <2>3, <2>4
<1> QED
  BY <1>2, <1>3, <1>5, <1>6, <1>7 DEF ResumedOK

\* A task that works may end its row in any way, or go on: the store does not refuse.
LEMMA WorkerSaves ==
    ASSUME IInv, NEW r \in Runs, exec[r].phase \in Working,
           NEW target \in {"running", "waiting_approval", "paused"} \cup Terminal,
           NEW expected, "running" \in expected, NEW checkpoint,
           TrySave(r, target, expected, exec[r].owner, checkpoint)
    PROVE  /\ runs[r].status = "running" /\ runs[r].owner = exec[r].owner
           /\ ~ checkpoints[r].consumed /\ checkpoints[r].pending = NoReview
           /\ ~ checkpoints[r].resume
           /\ Transitioned(runs[r], target) \in RunRecord
           /\ Save(r, Transitioned(runs[r], target), checkpoint)
<1>1. /\ runs[r].status = "running" /\ runs[r].owner = exec[r].owner
      /\ ~ checkpoints[r].consumed /\ checkpoints[r].pending = NoReview
      /\ ~ checkpoints[r].resume
  BY DEF IInv, RowOK, Halted
<1>2. target \in Statuses /\ (target # "running" => target \in Successors["running"])
  BY DEF Statuses, Successors
<1>3. MayTransition(runs[r], target, expected, exec[r].owner)
  BY <1>1, <1>2 DEF MayTransition, Absent
<1>4. Transitioned(runs[r], target) \in RunRecord
  BY <1>2, RowTypes, TransitionedType DEF IInv
<1> QED
  BY <1>1, <1>3, <1>4 DEF TrySave


-----------------------------------------------------------------------------
(* Connections, and commands that end at once. *)

\* Rows, tasks and the command in progress stay; sessions are not added.
LEMMA ConnectionStep ==
    ASSUME IInv, UNCHANGED <<rows, requests, epoch, exec, task, command>>,
           workspace' \in Contents, session' \in Session,
           session'.registered => session.registered /\ session'.review_mgr = session.review_mgr,
           fallback' \in [ReviewIds -> Runs \cup {NoRun}],
           subscriber' \in Sockets \cup {NoSocket}, local' \in [Sockets -> Coroutine],
           \A s \in Sockets : local'[s] # NoCoroutine => local'[s].mgr \in DOMAIN managers,
           command # Idle => local'[command.socket] # NoCoroutine,
           managers' \in Seq(Manager) /\ Len(managers') = Len(managers)
              /\ DOMAIN managers' = DOMAIN managers /\ IdsAreFree'
    PROVE  IInv'
<1>1. /\ runs' = runs /\ checkpoints' = checkpoints /\ resumeOf' = resumeOf /\ older' = older
      /\ requests' = requests /\ epoch' = epoch /\ exec' = exec /\ task' = task
      /\ command' = command
  BY DEF rows
<1>2. TypeOK'
  BY <1>1 DEF IInv, TypeOK
<1>3. ManagersExist'
  BY <1>1 DEF IInv, ManagersExist
<1>4. exec \in [Runs -> Execution] /\ (\A r \in Runs : exec[r].phase # "none" \/ exec[r].phase = "none")
  BY DEF IInv, TypeOK
<1>5. ReviewsAreOwned' /\ (\A r \in Runs : RowOK(r))' /\ ResumedOK'
  BY <1>1, <1>4, RowsKept
<1>6. CommandOK'
  BY <1>1, CommandKept
<1> QED
  BY <1>2, <1>3, <1>5, <1>6 DEF IInv

\* What IInv says of a connection, and of one that may give a command.
LEMMA AtConnection ==
    ASSUME IInv, NEW s \in Sockets, local[s] # NoCoroutine
    PROVE  /\ local[s].mgr \in DOMAIN managers /\ local[s].mgr \in 0..MaxManagers
           /\ local[s].agent \in BOOLEAN
BY DEF IInv, TypeOK, ManagersExist, Coroutine

LEMMA ReadyFacts ==
    ASSUME IInv, NEW s \in Sockets, Ready(s)
    PROVE  /\ command = Idle /\ local[s] # NoCoroutine /\ local[s].mgr \in DOMAIN managers
           /\ local[s].mgr \in 0..MaxManagers
<1>1. local[s] # NoCoroutine
  BY DEF Ready, NoCoroutine
<1> QED
  BY <1>1, AtConnection DEF Ready

LEMMA Unmanaged ==
    ASSUME IInv, managers' = managers, requests' = requests
    PROVE  managers' \in Seq(Manager) /\ Len(managers') = Len(managers)
              /\ DOMAIN managers' = DOMAIN managers /\ IdsAreFree'
BY DEF IInv, TypeOK, IdsAreFree

LEMMA ReleasedFacts ==
    ASSUME IInv, NEW owner
    PROVE  /\ Released(owner) \in Session
           /\ Released(owner).registered =>
                 session.registered /\ Released(owner).review_mgr = session.review_mgr
<1>1. session \in Session
  BY DEF IInv, TypeOK
<1>2. [session EXCEPT !.registered = ~ session.idle] \in Session
  <2>1. (~ session.idle) \in BOOLEAN
    OBVIOUS
  <2> QED
    BY <1>1, <2>1 DEF Session
<1>3. [session EXCEPT !.registered = ~ session.idle].review_mgr = session.review_mgr
  BY <1>1 DEF Session
<1>4. [session EXCEPT !.run_owner = NoOwner, !.idle = FALSE] \in Session
      /\ [session EXCEPT !.run_owner = NoOwner, !.idle = FALSE].registered = session.registered
      /\ [session EXCEPT !.run_owner = NoOwner, !.idle = FALSE].review_mgr = session.review_mgr
  BY <1>1 DEF Session
<1> QED
  BY <1>1, <1>2, <1>3, <1>4 DEF Released

LEMMA ConnectStep == ASSUME IInv, NEW s \in Sockets, Connect(s) PROVE IInv'
<1> DEFINE i == session.review_mgr
           new == RestoredManager(managers[i])
<1>1. TypeOK /\ i \in DOMAIN managers /\ i \in 0..MaxManagers /\ session.agent \in BOOLEAN
  BY DEF Connect, IInv, ManagersExist, TypeOK, Session
<1>2. new \in Manager /\ \A t \in Reviews : requests[t].run = NoRun => new.next < t
  BY <1>1, KnownManager, RestoredFacts
<1>3. UNCHANGED <<rows, requests, epoch, exec, task, command, workspace, subscriber>>
  BY DEF Connect, durable
<1>4. managers' = [managers EXCEPT ![i] = new]
  BY DEF Connect
<1>5. managers' \in Seq(Manager) /\ Len(managers') = Len(managers)
         /\ DOMAIN managers' = DOMAIN managers /\ IdsAreFree'
  BY <1>1, <1>2, <1>3, <1>4, ManagerStep
<1>6. local' = [local EXCEPT ![s] = [mgr |-> i, agent |-> session.agent, attached |-> FALSE]]
  BY DEF Connect
<1>7. /\ local' \in [Sockets -> Coroutine]
      /\ \A u \in Sockets : local'[u] # NoCoroutine => local'[u].mgr \in DOMAIN managers
      /\ command # Idle => local'[command.socket] # NoCoroutine
  <2>1. [mgr |-> i, agent |-> session.agent, attached |-> FALSE] \in Coroutine
    BY <1>1 DEF Coroutine
  <2>2. local' \in [Sockets -> Coroutine]
    BY <1>1, <1>6, <2>1 DEF TypeOK
  <2>3. \A u \in Sockets : local'[u] # NoCoroutine => local'[u].mgr \in DOMAIN managers
    BY <1>1, <1>6 DEF TypeOK, IInv, ManagersExist
  <2>4. command # Idle => command.socket \in Sockets /\ command.socket # s
    BY DEF IInv, CommandOK, Connect
  <2> QED
    BY <1>1, <1>6, <2>2, <2>3, <2>4 DEF IInv, CommandOK, TypeOK
<1>8. fallback' \in [ReviewIds -> Runs \cup {NoRun}]
  BY <1>1, FallbackType DEF Connect, TypeOK
<1>9. session' \in Session /\ session'.review_mgr = session.review_mgr /\ session.registered
  BY <1>1 DEF Connect, TypeOK, Session
<1>10. workspace' \in Contents /\ subscriber' \in Sockets \cup {NoSocket}
  BY <1>1, <1>3 DEF TypeOK
<1> QED
  BY <1>3, <1>5, <1>7, <1>8, <1>9, <1>10, ConnectionStep

LEMMA AttachStep == ASSUME IInv, NEW s \in Sockets, Attach(s) PROVE IInv'
<1>1. TypeOK /\ UNCHANGED <<rows, requests, epoch, exec, task, command, workspace, session, fallback, managers>>
  BY DEF Attach, durable, IInv
<1>2. /\ local' \in [Sockets -> Coroutine]
      /\ \A u \in Sockets : local'[u].mgr = local[u].mgr
      /\ \A u \in Sockets : local[u] # NoCoroutine <=> local'[u] # NoCoroutine
  BY <1>1 DEF Attach, TypeOK, Coroutine, NoCoroutine
<1>3. /\ \A u \in Sockets : local'[u] # NoCoroutine => local'[u].mgr \in DOMAIN managers
      /\ command # Idle => local'[command.socket] # NoCoroutine
  BY <1>2 DEF IInv, ManagersExist, CommandOK
<1>4. subscriber' \in Sockets \cup {NoSocket}
  BY DEF Attach
<1> QED
  BY <1>1, <1>2, <1>3, <1>4, Unmanaged, ConnectionStep DEF TypeOK

LEMMA LocalsKept ==
    ASSUME IInv
    PROVE  /\ local \in [Sockets -> Coroutine]
           /\ \A u \in Sockets : local[u] # NoCoroutine => local[u].mgr \in DOMAIN managers
           /\ command # Idle => local[command.socket] # NoCoroutine
BY DEF IInv, TypeOK, ManagersExist, CommandOK

LEMMA LoseSubscriberStep == ASSUME IInv, LoseSubscriber PROVE IInv'
<1>1. TypeOK /\ UNCHANGED <<rows, requests, epoch, exec, task, command, workspace, session,
                            fallback, managers, local>> /\ subscriber' = NoSocket
  BY DEF LoseSubscriber, durable, IInv
<1> QED
  BY <1>1, LocalsKept, Unmanaged, ConnectionStep DEF TypeOK

\* A connection's coroutine ends.
LEMMA ClosedFacts ==
    ASSUME IInv, NEW s \in Sockets, Closed(s)
    PROVE  /\ local' \in [Sockets -> Coroutine] /\ subscriber' \in Sockets \cup {NoSocket}
           /\ \A u \in Sockets : local'[u] # NoCoroutine => local'[u].mgr \in DOMAIN managers
           /\ \A u \in Sockets : u # s => local'[u] = local[u]
<1>1. TypeOK
  BY DEF IInv
<1>2. local' \in [Sockets -> Coroutine]
  BY <1>1, Blanks DEF Closed, TypeOK
<1>3. \A u \in Sockets : local'[u] = IF u = s THEN NoCoroutine ELSE local[u]
  BY <1>1 DEF Closed, TypeOK
<1>4. subscriber' \in Sockets \cup {NoSocket}
  BY <1>1 DEF Closed, TypeOK
<1> QED
  BY <1>2, <1>3, <1>4, LocalsKept

LEMMA DisconnectStep == ASSUME IInv, NEW s \in Sockets, Disconnect(s) PROVE IInv'
<1>1. TypeOK /\ UNCHANGED <<rows, requests, epoch, exec, task, command, workspace,
                            fallback, managers>>
  BY DEF Disconnect, durable, IInv
<1>2. /\ local' \in [Sockets -> Coroutine] /\ subscriber' \in Sockets \cup {NoSocket}
      /\ \A u \in Sockets : local'[u] # NoCoroutine => local'[u].mgr \in DOMAIN managers
      /\ \A u \in Sockets : u # s => local'[u] = local[u]
  BY ClosedFacts DEF Disconnect
<1>3. command # Idle => local'[command.socket] # NoCoroutine
  BY <1>2 DEF Disconnect, IInv, CommandOK
<1>4. session' \in Session /\ session'.review_mgr = session.review_mgr
      /\ session'.registered = session.registered
  BY <1>1 DEF Disconnect, TypeOK, Session
<1> QED
  BY <1>1, <1>2, <1>3, <1>4, Unmanaged, ConnectionStep DEF TypeOK

LEMMA TimePassesStep == ASSUME IInv, TimePasses PROVE IInv'
<1>1. TypeOK /\ UNCHANGED <<rows, requests, epoch, exec, task, command, workspace,
                            fallback, managers, local, subscriber>>
  BY DEF TimePasses, durable, IInv
<1>2. session' \in Session /\ session'.review_mgr = session.review_mgr
      /\ session'.registered = session.registered
  BY <1>1 DEF TimePasses, TypeOK, Session
<1> QED
  BY <1>1, <1>2, LocalsKept, Unmanaged, ConnectionStep DEF TypeOK

LEMMA UserEditsStep == ASSUME IInv, UserEdits PROVE IInv'
<1>1. TypeOK /\ UNCHANGED <<rows, requests, epoch, exec, task, command, session,
                            fallback, managers, local, subscriber>>
  BY DEF UserEdits, process, IInv
<1>2. workspace' \in Contents
  BY <1>1 DEF UserEdits, TypeOK, Contents
<1> QED
  BY <1>1, <1>2, LocalsKept, Unmanaged, ConnectionStep DEF TypeOK

LEMMA StopKeepsReviewsStep == ASSUME IInv, NEW s \in Sockets, StopKeepsReviews(s) PROVE IInv'
<1> DEFINE i == local[s].mgr
           new == RestoredManager(managers[i])
<1>1. TypeOK /\ i \in DOMAIN managers
  BY ReadyFacts DEF StopKeepsReviews, IInv
<1>2. new \in Manager /\ \A t \in Reviews : requests[t].run = NoRun => new.next < t
  BY <1>1, KnownManager, RestoredFacts
<1>3. UNCHANGED <<rows, requests, epoch, exec, task, command, workspace, session, subscriber, local>>
  BY DEF StopKeepsReviews, durable
<1>4. managers' = [managers EXCEPT ![i] = new]
  BY DEF StopKeepsReviews
<1>5. managers' \in Seq(Manager) /\ Len(managers') = Len(managers)
         /\ DOMAIN managers' = DOMAIN managers /\ IdsAreFree'
  BY <1>1, <1>2, <1>3, <1>4, ManagerStep
<1>6. fallback' \in [ReviewIds -> Runs \cup {NoRun}]
  BY <1>1, FallbackType DEF StopKeepsReviews, TypeOK
<1> QED
  BY <1>1, <1>3, <1>5, <1>6, LocalsKept, ConnectionStep DEF TypeOK

LEMMA ReplyToLiveStep ==
    ASSUME IInv, NEW s \in Sockets, NEW t \in Reviews, ReplyToLive(s, t) PROVE IInv'
<1> DEFINE i == local[s].mgr
           same == {u \in managers[i].pending : requests[u].id = requests[t].id}
           new == Answered(managers[i], same)
<1>1. TypeOK /\ i \in DOMAIN managers
  BY ReadyFacts DEF ReplyToLive, IInv
<1>2. managers' = [managers EXCEPT ![i] = new]
  BY Zenon DEF ReplyToLive
<1> HIDE DEF same
<1>3. new \in Manager /\ \A u \in Reviews : requests[u].run = NoRun => new.next < u
  BY <1>1, KnownManager, AnsweredFacts
<1>4. UNCHANGED <<rows, requests, epoch, exec, task, command, workspace, session, subscriber, local, fallback>>
  BY DEF ReplyToLive, durable
<1>5. managers' \in Seq(Manager) /\ Len(managers') = Len(managers)
         /\ DOMAIN managers' = DOMAIN managers /\ IdsAreFree'
  BY <1>1, <1>2, <1>3, <1>4, ManagerStep
<1> QED
  BY <1>1, <1>4, <1>5, LocalsKept, ConnectionStep DEF TypeOK


-----------------------------------------------------------------------------
(* Commands that touch no row. *)

\* Rows and tasks stay; the command goes from one await to the next.
LEMMA CommandStep ==
    ASSUME IInv, UNCHANGED <<rows, requests, workspace, epoch, exec, task>>,
           session' \in Session,
           session'.registered => session.registered /\ session'.review_mgr \in DOMAIN managers',
           fallback' \in [ReviewIds -> Runs \cup {NoRun}],
           subscriber' \in Sockets \cup {NoSocket}, local' \in [Sockets -> Coroutine],
           \A s \in Sockets : local'[s] # NoCoroutine => local'[s].mgr \in DOMAIN managers',
           managers' \in Seq(Manager) /\ Len(managers') <= MaxManagers
              /\ DOMAIN managers \subseteq DOMAIN managers' /\ IdsAreFree',
           command' \in Command, CommandOK'
    PROVE  IInv'
<1>1. /\ runs' = runs /\ checkpoints' = checkpoints /\ resumeOf' = resumeOf /\ older' = older
      /\ requests' = requests /\ epoch' = epoch /\ exec' = exec /\ task' = task
      /\ workspace' = workspace
  BY DEF rows
<1>2. TypeOK'
  BY <1>1 DEF IInv, TypeOK
<1>3. ManagersExist'
  BY <1>1 DEF IInv, ManagersExist
<1>4. exec \in [Runs -> Execution]
  BY DEF IInv, TypeOK
<1>5. ReviewsAreOwned' /\ (\A r \in Runs : RowOK(r))' /\ ResumedOK'
  BY <1>1, <1>4, RowsKept
<1> QED
  BY <1>2, <1>3, <1>5 DEF IInv

LEMMA ManagersKept ==
    ASSUME IInv, managers' = managers, requests' = requests
    PROVE  managers' \in Seq(Manager) /\ Len(managers') <= MaxManagers
              /\ DOMAIN managers \subseteq DOMAIN managers' /\ IdsAreFree'
BY DEF IInv, TypeOK, IdsAreFree, ManagersExist

LEMMA SessionKept ==
    ASSUME IInv
    PROVE  session \in Session /\ (session.registered => session.review_mgr \in DOMAIN managers)
BY DEF IInv, TypeOK, ManagersExist

\* A run found by _latest_resumable_run has stopped, and nobody has taken it up: a
\* run that did so without consuming it would be newer.
LEMMA ResumableFacts == ASSUME IInv, NEW p \in Resumable PROVE p \in Runs /\ MayBeResumed(p)
<1>1. p \in Runs /\ p \in Present
  BY DEF Resumable, Present
<1>2. runs[p].status \in Halted /\ ~ checkpoints[p].consumed
  BY <1>1 DEF Resumable, IInv, RowOK, Halted
<1>3. ASSUME NEW q \in Runs, resumeOf[q] = p PROVE FALSE
  <2>1. p # NoRun
    BY <1>1, Bounds
  <2>2. PICK x \in Present : ~ checkpoints[x].consumed /\ p \in older[x]
    BY <1>2, <1>3, <2>1 DEF IInv, ResumedOK
  <2>3. x \in Runs /\ x # p
    BY <1>1, <2>2 DEF Present, IInv, ResumedOK
  <2>4. x \in older[p]
    BY <2>2, <2>3 DEF Resumable
  <2> QED
    BY <1>1, <2>2, <2>3, <2>4 DEF IInv, ResumedOK
<1> QED
  BY <1>1, <1>2, <1>3 DEF MayBeResumed

\* A command at one of its awaits has its connection.
LEMMA AtAwait ==
    ASSUME IInv, command.step # ""
    PROVE  command # Idle /\ command.socket \in Sockets /\ local[command.socket] # NoCoroutine
<1>1. Idle.step = ""
  BY DEF Idle
<1>2. command # Idle
  BY <1>1
<1> QED
  BY <1>2 DEF IInv, CommandOK

LEMMA ChatStep == ASSUME IInv, NEW s \in Sockets, Chat(s) PROVE IInv'
<1>1. PICK resumed \in Resumable \cup {NoRun}, step \in {"create", "compress"} :
        /\ command' = [Idle EXCEPT !.kind = "chat", !.socket = s, !.parent = resumed, !.step = step]
        /\ session' = session \/ session' = [session EXCEPT !.idle = FALSE]
  BY DEF Chat
<1>2. UNCHANGED <<rows, requests, workspace, epoch, exec, task, fallback, subscriber, local, managers>>
  BY DEF Chat, durable
<1>3. TypeOK /\ command = Idle /\ local[s] # NoCoroutine
  BY ReadyFacts DEF Chat, IInv
<1>4. resumed # NoRun => resumed \in Runs /\ MayBeResumed(resumed)
  BY ResumableFacts
<1>5. command' = [kind |-> "chat", step |-> step, socket |-> s, parent |-> resumed,
                  run |-> NoRun, review |-> NoReview, accepted |-> FALSE, todo |-> {}]
  BY <1>1 DEF Idle
<1>6. command' \in Command
  <2>1. resumed \in Runs \cup {NoRun}
    BY <1>4
  <2> QED
    BY <1>5, <2>1, CommandType
<1>7. CommandOK'
  <2>1. MayBeResumed(resumed)' <=> MayBeResumed(resumed)
    BY <1>2 DEF MayBeResumed, rows
  <2>2. task' # NoRun => exec'[task'].owner = epoch' /\ exec'[task'].phase # "none"
    BY <1>2 DEF IInv, CommandOK
  <2> QED
    BY <1>2, <1>3, <1>4, <1>5, <2>1, <2>2 DEF CommandOK, Idle
<1>8. session' \in Session /\ session'.review_mgr = session.review_mgr
      /\ session'.registered = session.registered
  BY <1>1, <1>3 DEF TypeOK, Session
<1> QED
  BY <1>2, <1>3, <1>6, <1>7, <1>8, LocalsKept, ManagersKept, SessionKept, CommandStep DEF TypeOK

LEMMA CreateAgentStep == ASSUME IInv, CreateAgent PROVE IInv'
<1> DEFINE s == command.socket
           i == Len(managers) + 1
           taken == IF command.kind = "review" THEN requests[command.review].id + 1
                    ELSE managers[local[s].mgr].next
           new == [NewManager EXCEPT !.next = taken]
           step == IF command.kind = "chat" THEN "compress" ELSE "launch"
<1>1. /\ TypeOK /\ CommandOK /\ command.step = "create" /\ Len(managers) < MaxManagers
      /\ command \in Command
  BY DEF CreateAgent, IInv, TypeOK
<1>2. s \in Sockets /\ local[s] # NoCoroutine
  BY <1>1, AtAwait
<1>3. taken \in 0..MaxReviews /\ \A t \in Reviews : requests[t].run = NoRun => taken < t
  <2>1. CASE command.kind = "review"
    <3>1. command.review \in Reviews /\ requests[command.review].shown
      BY <1>1, <2>1 DEF CommandOK, Command
    <3>2. requests[command.review].run # NoRun /\ requests[command.review] \in Request
      BY <1>1, <3>1 DEF IInv, ReviewsAreOwned, TypeOK
    <3> QED
      BY <2>1, <3>1, <3>2, Bounds DEF IInv, IdsAreFree, Request, ReviewIds, Reviews
  <2>2. CASE command.kind # "review"
    <3>1. local[s].mgr \in DOMAIN managers
      BY <1>2, AtConnection
    <3> QED
      BY <2>2, <3>1, KnownManager DEF Manager
  <2> QED
    BY <2>1, <2>2
<1>4. managers' = Append(managers, new)
  BY DEF CreateAgent
<1>5. local' = [local EXCEPT ![s].mgr = i, ![s].agent = TRUE]
  BY DEF CreateAgent
<1>6. session' \in {[session EXCEPT !.review_mgr = i, !.agent = TRUE, !.idle = b] :
                       b \in {FALSE, session.idle}}
  BY DEF CreateAgent
<1>7. command' = [command EXCEPT !.step = step]
  BY DEF CreateAgent
<1>8. UNCHANGED <<rows, requests, workspace, epoch, exec, task, fallback, subscriber>>
  BY DEF CreateAgent, durable
<1> HIDE DEF taken
<1>9. new \in Manager /\ new.next = taken
  BY <1>3 DEF Manager, NewManager
<1>10. /\ managers' \in Seq(Manager) /\ Len(managers') = i
       /\ DOMAIN managers \subseteq DOMAIN managers' /\ i \in DOMAIN managers' /\ IdsAreFree'
  BY <1>3, <1>4, <1>8, <1>9, ManagerAdded
<1>11. i \in 0..MaxManagers /\ i <= MaxManagers
  BY <1>1, Bounds DEF TypeOK
<1> HIDE DEF i, new
<1>12. /\ local' \in [Sockets -> Coroutine]
       /\ \A u \in Sockets : local'[u] # NoCoroutine => local'[u].mgr \in DOMAIN managers'
       /\ local'[s] # NoCoroutine
  <2>1. local'[s] = [local[s] EXCEPT !.mgr = i, !.agent = TRUE]
        /\ \A u \in Sockets : u # s => local'[u] = local[u]
    BY <1>1, <1>2, <1>5 DEF TypeOK
  <2>2. [local[s] EXCEPT !.mgr = i, !.agent = TRUE] \in Coroutine
    BY <1>1, <1>2, <1>11 DEF TypeOK, Coroutine
  <2>3. local' \in [Sockets -> Coroutine]
    BY <1>1, <1>2, <1>5, <2>1, <2>2 DEF TypeOK
  <2>4. local'[s].mgr = i /\ local'[s].agent
    BY <1>1, <1>2, <2>1 DEF TypeOK, Coroutine
  <2>5. local'[s] # NoCoroutine
    BY <2>4 DEF NoCoroutine
  <2> QED
    BY <1>10, <2>1, <2>3, <2>4, <2>5, LocalsKept
<1>13. session' \in Session /\ session'.review_mgr = i /\ session'.registered = session.registered
  BY <1>1, <1>6, <1>11 DEF TypeOK, Session
<1>14. command' \in Command /\ command'.step = step /\ step \in {"compress", "launch"}
       /\ command'.kind = command.kind /\ command'.socket = s /\ command'.parent = command.parent
       /\ command'.run = command.run /\ command'.review = command.review
  BY <1>1, <1>7 DEF Command
<1>15. CommandOK'
  <2>1. \A p : MayBeResumed(p)' <=> MayBeResumed(p)
    BY <1>8 DEF MayBeResumed, rows
  <2> HIDE DEF step
  <2> QED
    BY <1>1, <1>2, <1>8, <1>12, <1>14, <2>1 DEF CommandOK
<1> QED
  BY <1>1, <1>8, <1>10, <1>11, <1>12, <1>13, <1>14, <1>15, CommandStep DEF TypeOK

LEMMA CreateAgentFailsStep == ASSUME IInv, CreateAgentFails PROVE IInv'
<1>1. TypeOK /\ UNCHANGED <<rows, requests, workspace, epoch, exec, task, fallback, session, managers>>
      /\ command' = Idle
  BY DEF CreateAgentFails, durable, IInv
<1>2. command.socket \in Sockets
  BY AtAwait DEF CreateAgentFails
<1>3. /\ local' \in [Sockets -> Coroutine] /\ subscriber' \in Sockets \cup {NoSocket}
      /\ \A u \in Sockets : local'[u] # NoCoroutine => local'[u].mgr \in DOMAIN managers
  <2>1. CASE UNCHANGED <<local, subscriber>>
    BY <1>1, <2>1, LocalsKept DEF TypeOK
  <2>2. CASE Closed(command.socket)
    BY <1>2, <2>2, ClosedFacts
  <2> QED
    BY <2>1, <2>2 DEF CreateAgentFails
<1>4. CommandOK'
  BY <1>1, IdleOK DEF IInv, CommandOK
<1> QED
  BY <1>1, <1>3, <1>4, Blanks, ManagersKept, SessionKept, CommandStep DEF TypeOK

LEMMA StopStep == ASSUME IInv, NEW s \in Sockets, Stop(s) PROVE IInv'
<1> DEFINE i == local[s].mgr
           restored == RestoredManager(managers[i])
           new == IF Running THEN restored ELSE Reset(restored)
<1>1. TypeOK /\ i \in DOMAIN managers /\ local[s] # NoCoroutine /\ command = Idle
  BY ReadyFacts DEF Stop, IInv
<1>2. restored \in Manager /\ \A t \in Reviews : requests[t].run = NoRun => restored.next < t
  BY <1>1, KnownManager, RestoredFacts
<1>3. managers' = [managers EXCEPT ![i] = new]
  BY DEF Stop
<1> HIDE DEF restored
<1>4. new \in Manager /\ \A t \in Reviews : requests[t].run = NoRun => new.next < t
  BY <1>2, AnsweredFacts
<1>5. UNCHANGED <<rows, requests, workspace, epoch, exec, task, session, subscriber, local>>
  BY DEF Stop, durable
<1>6. managers' \in Seq(Manager) /\ Len(managers') = Len(managers)
         /\ DOMAIN managers' = DOMAIN managers /\ IdsAreFree'
  BY <1>1, <1>3, <1>4, <1>5, ManagerStep
<1>7. fallback' \in [ReviewIds -> Runs \cup {NoRun}]
  BY DEF Stop, NoFallback
<1>8. command' \in Command /\ CommandOK'
  <2>1. CASE ~ Running
    <3>1. command' = Idle
      BY <1>1, <2>1 DEF Stop
    <3> QED
      BY <1>5, <3>1, Blanks, IdleOK DEF IInv, CommandOK
  <2>2. CASE Running
    <3>1. task \in Runs
      BY <1>1, <2>2 DEF Running, TypeOK, Idle
    <3>2. command' = [kind |-> "stop", step |-> "cancel", socket |-> s, parent |-> NoRun,
                      run |-> task, review |-> NoReview, accepted |-> FALSE, todo |-> {}]
      BY <2>2 DEF Stop, Idle
    <3>3. command' \in Command
      BY <3>1, <3>2, CommandType
    <3>4. task # NoRun
      BY <3>1, Bounds
    <3>5. CommandOK'
      BY <1>1, <1>5, <3>2, <3>4 DEF IInv, CommandOK
    <3> QED
      BY <3>3, <3>5
  <2> QED
    BY <2>1, <2>2
<1>9. Len(managers) <= MaxManagers
  BY DEF IInv, ManagersExist
<1> QED
  BY <1>1, <1>5, <1>6, <1>7, <1>8, <1>9, LocalsKept, SessionKept, CommandStep DEF TypeOK

LEMMA CancelReviewsStep == ASSUME IInv, NEW s \in Sockets, CancelReviews(s) PROVE IInv'
<1>1. TypeOK /\ local[s] # NoCoroutine
  BY ReadyFacts DEF CancelReviews, IInv
<1>2. UNCHANGED <<rows, requests, workspace, epoch, exec, task, session, subscriber, local,
                  fallback, managers>>
  BY DEF CancelReviews, durable
<1>3. command' = [kind |-> "cancel", step |-> "next", socket |-> s, parent |-> NoRun,
                  run |-> NoRun, review |-> NoReview, accepted |-> FALSE, todo |-> Cancelable]
  BY DEF CancelReviews, Idle
<1>4. command' \in Command
  BY <1>3, CommandType DEF Cancelable
<1>5. CommandOK'
  BY <1>1, <1>2, <1>3 DEF IInv, CommandOK
<1> QED
  BY <1>1, <1>2, <1>4, <1>5, LocalsKept, ManagersKept, SessionKept, CommandStep DEF TypeOK

LEMMA ReplyContinuesStep == ASSUME IInv, ReplyContinues PROVE IInv'
<1> DEFINE step == IF local[command.socket].agent THEN "launch" ELSE "create"
<1>1. TypeOK /\ CommandOK /\ command \in Command
  BY DEF IInv, TypeOK
<1>2. UNCHANGED <<rows, requests, workspace, epoch, exec, task, session, subscriber, local, managers>>
  BY DEF ReplyContinues, durable
<1>3. command' = [command EXCEPT !.step = step] /\ command.step = "hook"
  BY DEF ReplyContinues
<1>4. command' \in Command /\ command'.step = step /\ step \in {"launch", "create"}
       /\ command'.kind = command.kind /\ command'.socket = command.socket
       /\ command'.review = command.review
  BY <1>1, <1>3 DEF Command
<1>5. CommandOK'
  <2>1. command.socket \in Sockets /\ local[command.socket] # NoCoroutine
    BY <1>3, AtAwait
  <2>2. command.kind = "review"
    BY <1>1, <1>3 DEF CommandOK
  <2> HIDE DEF step
  <2> QED
    BY <1>1, <1>2, <1>3, <1>4, <2>1, <2>2 DEF CommandOK
<1>6. fallback' \in [ReviewIds -> Runs \cup {NoRun}]
  BY <1>1 DEF ReplyContinues, TypeOK
<1> QED
  BY <1>1, <1>2, <1>4, <1>5, <1>6, LocalsKept, ManagersKept, SessionKept, CommandStep DEF TypeOK


-----------------------------------------------------------------------------
(* The execution task of a run. *)

LEMMA PhaseFacts ==
    ASSUME TypeOK, NEW r \in Runs, NEW phase \in Phases, exec' = [exec EXCEPT ![r].phase = phase]
    PROVE  /\ exec' \in [Runs -> Execution] /\ exec'[r].phase = phase
           /\ exec'[r].owner = exec[r].owner /\ exec'[r].mgr = exec[r].mgr
           /\ exec'[r].edited = exec[r].edited /\ exec'[r].review = exec[r].review
           /\ \A q \in Runs \ {r} : exec'[q] = exec[q]
BY DEF TypeOK, Execution

\* One task takes a step; its row, if it changes, was not one that may be resumed.
LEMMA ExecStep ==
    ASSUME IInv, NEW r \in Runs, exec[r].phase # "none",
           UNCHANGED <<epoch, task, command, local, subscriber, resumeOf>>,
           workspace' \in Contents, session' \in Session,
           session'.registered => session.registered /\ session'.review_mgr = session.review_mgr,
           fallback' \in [ReviewIds -> Runs \cup {NoRun}],
           managers' \in Seq(Manager) /\ Len(managers') = Len(managers)
              /\ DOMAIN managers' = DOMAIN managers /\ IdsAreFree',
           requests' \in [Reviews -> Request],
           \A t \in Reviews : requests[t].shown => requests'[t].shown,
           exec' \in [Runs -> Execution], \A q \in Runs \ {r} : exec'[q] = exec[q],
           exec'[r].owner = exec[r].owner, exec'[r].mgr = exec[r].mgr, exec'[r].phase # "none",
           exec'[r].phase \in Working => exec[r].phase \in Working,
           runs' \in [Runs -> RunRecord], checkpoints' \in [Runs -> Checkpoint],
           older' \in [Runs -> SUBSET Runs],
           \A q \in Runs \ {r} : runs'[q] = runs[q] /\ checkpoints'[q] = checkpoints[q],
           runs[r].status \in Halted => runs'[r] = runs[r] /\ checkpoints'[r] = checkpoints[r],
           ReviewsAreOwned', RowOK(r)', ResumedOK'
    PROVE  IInv'
<1>1. TypeOK'
  BY DEF IInv, TypeOK
<1>2. ManagersExist'
  BY DEF IInv, ManagersExist
<1>3. ASSUME NEW q \in Runs PROVE RowOK(q)'
  BY DEF IInv, RowOK
<1>4. CommandOK'
  <2>1. command # Idle => local'[command.socket] # NoCoroutine
    BY LocalsKept
  <2> QED
    BY <2>1, CommandKept
<1> QED
  BY <1>1, <1>2, <1>3, <1>4 DEF IInv

\* The steps that write no row.
LEMMA ExecMoves ==
    ASSUME IInv, NEW r \in Runs, NEW phase \in Phases \ {"none", "asking"},
           UNCHANGED <<rows, requests, epoch, task, subscriber, local, managers, command>>,
           exec[r].phase # "none", exec' = [exec EXCEPT ![r].phase = phase],
           phase \in Working => exec[r].phase \in Working,
           workspace' \in Contents, session' \in Session,
           session'.registered => session.registered /\ session'.review_mgr = session.review_mgr,
           fallback' \in [ReviewIds -> Runs \cup {NoRun}]
    PROVE  IInv'
<1>1. TypeOK /\ phase \in Phases /\ phase # "asking"
  BY DEF IInv
<1>2. /\ exec' \in [Runs -> Execution] /\ exec'[r].phase = phase
      /\ exec'[r].owner = exec[r].owner /\ exec'[r].mgr = exec[r].mgr
      /\ \A q \in Runs \ {r} : exec'[q] = exec[q]
  BY <1>1, PhaseFacts
<1>3. ReviewsAreOwned' /\ (\A q \in Runs : RowOK(q))' /\ ResumedOK'
  <2>1. UNCHANGED <<rows, requests>>
    OBVIOUS
  <2> QED
    BY <1>1, <1>2, <2>1, RowsKept
<1>4. RowOK(r)'
  BY <1>3
<1> QED
  BY <1>1, <1>2, <1>3, <1>4, Unmanaged, ExecStep DEF TypeOK, rows

\* The steps that write the row: it goes on, waits for its review, or ends.
LEMMA ExecSaves ==
    ASSUME IInv, NEW r \in Runs, exec[r].phase \in Working, NEW phase \in Phases \ {"none", "asking"},
           UNCHANGED <<epoch, session, task, subscriber, local, managers, command>>,
           NEW target \in {"running", "waiting_approval", "paused"} \cup Terminal,
           NEW checkpoint \in Checkpoint, ~ checkpoint.consumed,
           checkpoint.pending # NoReview <=> target = "waiting_approval",
           target = "running" => ~ checkpoint.resume,
           checkpoint.pending # NoReview => requests'[checkpoint.pending].run = r,
           Save(r, Transitioned(runs[r], target), checkpoint),
           exec' = [exec EXCEPT ![r].phase = phase],
           phase \in Working => target = "running",
           workspace' \in Contents, fallback' \in [ReviewIds -> Runs \cup {NoRun}],
           requests' \in [Reviews -> Request],
           \A t \in Reviews : /\ requests'[t].run = requests[t].run
                              /\ requests'[t].id = requests[t].id
                              /\ requests[t].shown => requests'[t].shown
                              /\ requests'[t].shown => requests[t].run # NoRun
    PROVE  IInv'
<1>1. TypeOK /\ phase \in Phases /\ phase # "none" /\ phase # "asking" /\ exec[r].phase # "none"
  BY DEF IInv, Working
<1>2. /\ exec' \in [Runs -> Execution] /\ exec'[r].phase = phase
      /\ exec'[r].owner = exec[r].owner /\ exec'[r].mgr = exec[r].mgr
      /\ \A q \in Runs \ {r} : exec'[q] = exec[q]
  BY <1>1, PhaseFacts
<1> DEFINE row == Transitioned(runs[r], target)
<1>3. /\ runs[r].status = "running" /\ runs[r].owner = exec[r].owner
      /\ row \in RunRecord /\ Save(r, row, checkpoint)
  <2>1. runs[r].status = "running" /\ runs[r].owner = exec[r].owner
    BY DEF IInv, RowOK
  <2>2. target \in Statuses
    BY DEF Statuses
  <2> QED
    BY <1>1, <2>1, <2>2, RowTypes, TransitionedType
<1>4. /\ row.status = target /\ target # Absent
      /\ row.owner = IF target \in {"running", "waiting_approval"} THEN runs[r].owner ELSE NoOwner
  BY <1>1, RowTypes DEF Transitioned, RunRecord, Absent, Terminal
<1> HIDE DEF row
<1>5. /\ runs' \in [Runs -> RunRecord] /\ checkpoints' \in [Runs -> Checkpoint]
      /\ resumeOf' = resumeOf /\ older' \in [Runs -> SUBSET Runs]
      /\ runs'[r] = row /\ checkpoints'[r] = checkpoint
      /\ \A q \in Runs \ {r} : runs'[q] = runs[q] /\ checkpoints'[q] = checkpoints[q]
      /\ ResumedOK'
  BY <1>3, <1>4, SavedRow
<1>6. RowOK(r)'
  BY <1>2, <1>3, <1>4, <1>5 DEF RowOK
<1>7. ReviewsAreOwned'
  <2>1. ASSUME NEW q \in Runs
        PROVE  /\ exec'[q].phase = "asking" =>
                     /\ exec'[q].edited /\ exec'[q].review # NoReview
                     /\ requests'[exec'[q].review].run = q
               /\ checkpoints'[q].pending # NoReview =>
                     requests'[checkpoints'[q].pending].run = q
    <3>1. CASE q = r
      BY <1>1, <1>2, <1>5, <3>1
    <3>2. CASE q # r
      <4>1. exec[q] \in Execution /\ checkpoints[q] \in Checkpoint
        BY <1>1, RowTypes
      <4>2. exec[q].review \in Reviews \cup {NoReview} /\ checkpoints[q].pending \in Reviews \cup {NoReview}
        BY <4>1 DEF Execution, Checkpoint
      <4> QED
        BY <1>2, <1>5, <3>2, <4>2 DEF IInv, ReviewsAreOwned
    <3> QED
      BY <3>1, <3>2
  <2> QED
    BY <2>1 DEF ReviewsAreOwned
<1>8. IdsAreFree'
  BY DEF IInv, IdsAreFree
<1>9. managers' \in Seq(Manager) /\ Len(managers') = Len(managers) /\ DOMAIN managers' = DOMAIN managers
  BY <1>1 DEF TypeOK
<1>10. session' \in Session /\ (runs[r].status \in Halted => FALSE)
  BY <1>1, <1>3 DEF TypeOK, Halted
<1> QED
  BY <1>1, <1>2, <1>5, <1>6, <1>7, <1>8, <1>9, <1>10, ExecStep

LEMMA ExecBeginsStep == ASSUME IInv, NEW r \in Runs, ExecBegins(r) PROVE IInv'
<1>1. TypeOK /\ exec[r].phase \in Working
  BY DEF IInv, ExecBegins, Working
<1>2. FreshCheckpoint \in Checkpoint /\ ~ FreshCheckpoint.consumed /\ FreshCheckpoint.pending = NoReview
      /\ ~ FreshCheckpoint.resume
  BY Blanks DEF FreshCheckpoint, NoCheckpoint
<1>3. UNCHANGED <<workspace, requests, epoch, session, fallback, task, subscriber, local, managers, command>>
      /\ exec' = [exec EXCEPT ![r].phase = "active"]
  BY DEF ExecBegins
<1>4. "active" \in Phases \ {"none", "asking"}
  BY DEF Phases
<1>5. \A t \in Reviews : requests[t].shown => requests[t].run # NoRun
  BY DEF IInv, ReviewsAreOwned
<1>6. Save(r, Transitioned(runs[r], "running"), FreshCheckpoint)
  <2>1. TrySave(r, "running", {"running", "waiting_approval", "paused"}, exec[r].owner, FreshCheckpoint)
    BY DEF ExecBegins
  <2>2. "running" \in {"running", "waiting_approval", "paused"} \cup Terminal
    BY DEF Terminal
  <2> QED
    BY <1>1, <2>1, <2>2, WorkerSaves
<1> QED
  BY <1>1, <1>2, <1>3, <1>4, <1>5, <1>6, ExecSaves DEF TypeOK


\* A checkpoint that is written over with a few fields changed.
LEMMA CheckpointFields ==
    ASSUME NEW c \in Checkpoint, NEW pending \in Reviews \cup {NoReview}, NEW b \in BOOLEAN
    PROVE  /\ [c EXCEPT !.pending = pending, !.resume = b] \in Checkpoint
           /\ [c EXCEPT !.pending = pending, !.resume = b].pending = pending
           /\ [c EXCEPT !.pending = pending, !.resume = b].consumed = c.consumed
           /\ [c EXCEPT !.written = TRUE, !.resume = b] \in Checkpoint
           /\ [c EXCEPT !.written = TRUE, !.resume = b].pending = c.pending
           /\ [c EXCEPT !.written = TRUE, !.resume = b].consumed = c.consumed
           /\ [c EXCEPT !.recover = b] \in Checkpoint
           /\ [c EXCEPT !.recover = b].pending = c.pending
           /\ [c EXCEPT !.recover = b].consumed = c.consumed
           /\ [c EXCEPT !.consumed = TRUE] \in Checkpoint
           /\ [c EXCEPT !.consumed = TRUE].pending = c.pending
           /\ [c EXCEPT !.consumed = TRUE].consumed
BY DEF Checkpoint

LEMMA ExecEditsStep == ASSUME IInv, NEW r \in Runs, ExecEdits(r) PROVE IInv'
<1>1. TypeOK /\ exec[r].phase = "active" /\ exec[r] \in Execution
  BY RowTypes DEF IInv, ExecEdits
<1>2. UNCHANGED <<rows, requests, epoch, session, fallback, task, subscriber, local, managers, command>>
      /\ exec' = [exec EXCEPT ![r].edited = TRUE, ![r].base = workspace]
      /\ workspace' = workspace \cup {r}
  BY DEF ExecEdits
<1>3. workspace \in Contents /\ workspace' \in Contents
  BY <1>1, <1>2 DEF TypeOK, Contents
<1>4. /\ exec' \in [Runs -> Execution] /\ exec'[r].phase = exec[r].phase
      /\ exec'[r].owner = exec[r].owner /\ exec'[r].mgr = exec[r].mgr
      /\ \A q \in Runs \ {r} : exec'[q] = exec[q]
  <2> DEFINE new == [exec[r] EXCEPT !.edited = TRUE, !.base = workspace]
  <2>1. new \in Execution /\ new.phase = exec[r].phase /\ new.owner = exec[r].owner
        /\ new.mgr = exec[r].mgr
    BY <1>1, <1>3 DEF Execution
  <2>2. exec' = [exec EXCEPT ![r] = new]
    BY <1>1, <1>2 DEF TypeOK
  <2> HIDE DEF new
  <2> QED
    BY <1>1, <2>1, <2>2 DEF TypeOK
<1>5. ReviewsAreOwned' /\ (\A q \in Runs : RowOK(q))' /\ ResumedOK'
  <2>1. UNCHANGED <<rows, requests>>
    BY <1>2
  <2> QED
    BY <1>1, <1>4, <2>1, RowsKept DEF Working
<1>6. RowOK(r)'
  BY <1>5
<1>7. exec[r].phase \in Working /\ exec[r].phase # "none"
  BY <1>1 DEF Working
<1> QED
  BY <1>1, <1>2, <1>3, <1>4, <1>5, <1>6, <1>7, SessionKept, Unmanaged, ExecStep DEF TypeOK, rows

LEMMA ExecSuspendsStep == ASSUME IInv, NEW r \in Runs, ExecSuspends(r) PROVE IInv'
<1> DEFINE t == exec[r].review
           checkpoint == [checkpoints[r] EXCEPT !.pending = t, !.resume = FALSE]
<1>1. TypeOK /\ exec[r].phase = "asking" /\ exec[r].phase \in Working /\ exec[r] \in Execution
      /\ checkpoints[r] \in Checkpoint
  BY RowTypes DEF IInv, ExecSuspends, Working
<1>2. t \in Reviews /\ t # NoReview /\ requests[t].run = r
  BY <1>1 DEF IInv, ReviewsAreOwned, Execution
<1>3. checkpoint \in Checkpoint /\ checkpoint.pending = t /\ ~ checkpoint.consumed
  <2>1. ~ checkpoints[r].consumed
    BY <1>1 DEF IInv, RowOK, Halted
  <2>2. t \in Reviews \cup {NoReview} /\ FALSE \in BOOLEAN
    BY <1>2
  <2> HIDE DEF t
  <2>3. checkpoints[r] \in Checkpoint
    BY <1>1
  <2> QED
    BY <2>1, <2>2, <2>3, CheckpointFields
<1>4. UNCHANGED <<epoch, session, task, subscriber, local, managers, command>>
      /\ exec' = [exec EXCEPT ![r].phase = "closing"]
      /\ requests' = [requests EXCEPT ![t].shown = TRUE]
      /\ workspace' = exec[r].base /\ fallback' = Associated(r)
  BY DEF ExecSuspends
<1> HIDE DEF checkpoint
<1>5. workspace' \in Contents
  BY <1>1, <1>4 DEF Execution
<1>6. fallback' \in [ReviewIds -> Runs \cup {NoRun}]
  BY <1>1, <1>4 DEF Associated, TypeOK
<1>7. requests' \in [Reviews -> Request]
      /\ \A u \in Reviews : /\ requests'[u].run = requests[u].run
                            /\ requests'[u].id = requests[u].id
                            /\ requests[u].shown => requests'[u].shown
                            /\ requests'[u].shown => requests[u].run # NoRun
  <2>1. requests \in [Reviews -> Request] /\ [requests[t] EXCEPT !.shown = TRUE] \in Request
    BY <1>1, <1>2 DEF TypeOK, Request
  <2>2. requests' \in [Reviews -> Request]
    BY <1>4, <2>1
  <2>3. \A u \in Reviews : /\ requests'[u].run = requests[u].run
                           /\ requests'[u].id = requests[u].id
                           /\ requests[u].shown => requests'[u].shown
                           /\ u # t => requests'[u].shown = requests[u].shown
    BY <1>2, <1>4, <2>1 DEF Request
  <2>4. \A u \in Reviews : requests'[u].shown => requests[u].run # NoRun
    BY <1>2, <2>3, Bounds DEF IInv, ReviewsAreOwned
  <2> QED
    BY <2>2, <2>3, <2>4
<1>8. "closing" \in Phases \ {"none", "asking"} /\ "closing" \notin Working
  BY DEF Phases, Working
<1> HIDE DEF t
<1>9. Save(r, Transitioned(runs[r], "waiting_approval"), checkpoint)
  <2>1. TrySave(r, "waiting_approval", {"running", "waiting_approval", "paused"}, exec[r].owner, checkpoint)
    BY DEF ExecSuspends, checkpoint, t
  <2>2. "waiting_approval" \in {"running", "waiting_approval", "paused"} \cup Terminal
    BY DEF Terminal
  <2> QED
    BY <1>1, <2>1, <2>2, WorkerSaves
<1> QED
  BY <1>1, <1>2, <1>3, <1>4, <1>5, <1>6, <1>7, <1>8, <1>9, ExecSaves

LEMMA ExecSuspendFailsStep == ASSUME IInv, NEW r \in Runs, ExecSuspendFails(r) PROVE IInv'
<1>1. TypeOK /\ exec[r].phase # "none" /\ "done" \in Phases \ {"none", "asking"} /\ "done" \notin Working
  BY DEF IInv, ExecSuspendFails, Phases, Working
<1>2. UNCHANGED <<rows, requests, workspace, epoch, task, subscriber, local, managers, command>>
      /\ session' = Released(exec[r].owner)
      /\ exec' = [exec EXCEPT ![r].phase = "done"]
  BY DEF ExecSuspendFails, durable
<1>3. fallback' \in [ReviewIds -> Runs \cup {NoRun}]
  BY <1>1 DEF ExecSuspendFails, Associated, TypeOK
<1> QED
  BY <1>1, <1>2, <1>3, ReleasedFacts, ExecMoves DEF TypeOK

LEMMA ExecSucceedsStep == ASSUME IInv, NEW r \in Runs, ExecSucceeds(r) PROVE IInv'
<1>1. TypeOK /\ exec[r].phase \in Working /\ checkpoints[r] \in Checkpoint
  BY RowTypes DEF IInv, ExecSucceeds, Working
<1>2. ~ checkpoints[r].consumed /\ checkpoints[r].pending = NoReview
  BY <1>1 DEF IInv, RowOK, Halted
<1>3. UNCHANGED <<workspace, requests, epoch, session, fallback, task, subscriber, local, managers, command>>
      /\ exec' = [exec EXCEPT ![r].phase = "closing"]
  BY DEF ExecSucceeds
<1>4. "closing" \in Phases \ {"none", "asking"} /\ "closing" \notin Working /\ "succeeded" \in Terminal
  BY DEF Phases, Working, Terminal
<1>5. \A t \in Reviews : requests[t].shown => requests[t].run # NoRun
  BY DEF IInv, ReviewsAreOwned
<1>6. Save(r, Transitioned(runs[r], "succeeded"), checkpoints[r])
  <2>1. TrySave(r, "succeeded", {"running"}, exec[r].owner, checkpoints[r])
    BY DEF ExecSucceeds
  <2>2. "succeeded" \in {"running", "waiting_approval", "paused"} \cup Terminal
    BY DEF Terminal
  <2> QED
    BY <1>1, <2>1, <2>2, WorkerSaves
<1> QED
  BY <1>1, <1>2, <1>3, <1>4, <1>5, <1>6, ExecSaves DEF TypeOK

LEMMA ExecCommitsStep == ASSUME IInv, NEW r \in Runs, ExecCommits(r) PROVE IInv'
<1>1. TypeOK /\ exec[r].phase # "none" /\ exec[r].phase \in Working
      /\ "committed" \in Phases \ {"none", "asking"}
  BY DEF IInv, ExecCommits, Phases, Working
<1>2. UNCHANGED <<rows, workspace, requests, epoch, session, fallback, task, subscriber, local, managers, command>>
      /\ exec' = [exec EXCEPT ![r].phase = "committed"]
  BY DEF ExecCommits
<1> QED
  BY <1>1, <1>2, SessionKept, ExecMoves DEF TypeOK

LEMMA ExecIsRefusedStep == ASSUME IInv, NEW r \in Runs, ExecIsRefused(r) PROVE IInv'
<1>1. TypeOK /\ exec[r].phase # "none" /\ exec[r].phase \in Working
      /\ "refused" \in Phases \ {"none", "asking"}
  BY DEF IInv, ExecIsRefused, Phases, Working
<1>2. UNCHANGED <<rows, workspace, requests, epoch, session, fallback, task, subscriber, local, managers, command>>
      /\ exec' = [exec EXCEPT ![r].phase = "refused"]
  BY DEF ExecIsRefused
<1> QED
  BY <1>1, <1>2, SessionKept, ExecMoves DEF TypeOK

LEMMA ExecRollsBackStep == ASSUME IInv, NEW r \in Runs, ExecRollsBack(r) PROVE IInv'
<1>1. TypeOK /\ exec[r].phase # "none" /\ exec[r].phase \in Working
      /\ "rejected" \in Phases \ {"none", "asking"}
  BY DEF IInv, ExecRollsBack, Phases, Working
<1>2. UNCHANGED <<rows, requests, epoch, session, fallback, task, subscriber, local, managers, command>>
      /\ exec' = [exec EXCEPT ![r].phase = "rejected"]
  BY DEF ExecRollsBack
<1>3. workspace' \in Contents
  BY <1>1, RowTypes DEF ExecRollsBack, WithoutRefused, TypeOK, Execution
<1> QED
  BY <1>1, <1>2, <1>3, SessionKept, ExecMoves DEF TypeOK

LEMMA ExecEndsRejectedStep == ASSUME IInv, NEW r \in Runs, ExecEndsRejected(r) PROVE IInv'
<1>1. TypeOK /\ exec[r].phase \in Working /\ checkpoints[r] \in Checkpoint
  BY RowTypes DEF IInv, ExecEndsRejected, Working
<1>2. ~ checkpoints[r].consumed /\ checkpoints[r].pending = NoReview
  BY <1>1 DEF IInv, RowOK, Halted
<1>3. PICK recover \in BOOLEAN :
         TrySave(r, "partial", {"running"}, exec[r].owner, [checkpoints[r] EXCEPT !.recover = recover])
  BY DEF ExecEndsRejected
<1> DEFINE checkpoint == [checkpoints[r] EXCEPT !.recover = recover]
<1>4. checkpoint \in Checkpoint /\ ~ checkpoint.consumed /\ checkpoint.pending = NoReview
  BY <1>1, <1>2, CheckpointFields
<1>5. UNCHANGED <<workspace, requests, epoch, session, fallback, task, subscriber, local, managers, command>>
      /\ exec' = [exec EXCEPT ![r].phase = "closing"]
  BY DEF ExecEndsRejected
<1>6. "closing" \in Phases \ {"none", "asking"} /\ "closing" \notin Working /\ "partial" \in Terminal
  BY DEF Phases, Working, Terminal
<1>7. \A t \in Reviews : requests[t].shown => requests[t].run # NoRun
  BY DEF IInv, ReviewsAreOwned
<1>8. Save(r, Transitioned(runs[r], "partial"), checkpoint)
  <2>1. TrySave(r, "partial", {"running"}, exec[r].owner, checkpoint)
    BY <1>3
  <2>2. "partial" \in {"running", "waiting_approval", "paused"} \cup Terminal
    BY DEF Terminal
  <2> HIDE DEF checkpoint
  <2> QED
    BY <1>1, <2>1, <2>2, WorkerSaves
<1> HIDE DEF checkpoint
<1> QED
  BY <1>1, <1>4, <1>5, <1>6, <1>7, <1>8, ExecSaves DEF TypeOK

LEMMA ExecFailsStep == ASSUME IInv, NEW r \in Runs, ExecFails(r) PROVE IInv'
<1>1. TypeOK /\ exec[r].phase \in Working /\ checkpoints[r] \in Checkpoint
  BY RowTypes DEF IInv, ExecFails, Working
<1>2. ~ checkpoints[r].consumed /\ checkpoints[r].pending = NoReview
  BY <1>1 DEF IInv, RowOK, Halted
<1>3. UNCHANGED <<workspace, requests, epoch, session, fallback, task, subscriber, local, managers, command>>
      /\ exec' = [exec EXCEPT ![r].phase = "closing"]
  BY DEF ExecFails
<1>4. "closing" \in Phases \ {"none", "asking"} /\ "closing" \notin Working /\ "failed" \in Terminal
  BY DEF Phases, Working, Terminal
<1>5. \A t \in Reviews : requests[t].shown => requests[t].run # NoRun
  BY DEF IInv, ReviewsAreOwned
<1>6. Save(r, Transitioned(runs[r], "failed"), checkpoints[r])
  <2>1. TrySave(r, "failed", {"running", "waiting_approval"}, exec[r].owner, checkpoints[r])
    BY DEF ExecFails
  <2>2. "failed" \in {"running", "waiting_approval", "paused"} \cup Terminal
    BY DEF Terminal
  <2> QED
    BY <1>1, <2>1, <2>2, WorkerSaves
<1> QED
  BY <1>1, <1>2, <1>3, <1>4, <1>5, <1>6, ExecSaves DEF TypeOK

LEMMA ExecEndsStep == ASSUME IInv, NEW r \in Runs, ExecEnds(r) PROVE IInv'
<1>1. TypeOK /\ exec[r].phase # "none" /\ "done" \in Phases \ {"none", "asking"} /\ "done" \notin Working
  BY DEF IInv, ExecEnds, Phases, Working
<1>2. UNCHANGED <<rows, requests, workspace, epoch, fallback, task, subscriber, local, managers, command>>
      /\ session' = Released(exec[r].owner)
      /\ exec' = [exec EXCEPT ![r].phase = "done"]
  BY DEF ExecEnds, durable
<1> QED
  BY <1>1, <1>2, ReleasedFacts, ExecMoves DEF TypeOK


LEMMA ExecAsksStep == ASSUME IInv, NEW r \in Runs, ExecAsks(r) PROVE IInv'
<1> DEFINE m == exec[r].mgr
           next == managers[m].next
           free == {t \in Reviews : requests[t].run = NoRun}
           t == Min(free)
           request == [run |-> r, id |-> next, base |-> exec[r].base, shown |-> FALSE]
           pending == managers[m].pending \cup {t}
           new == [managers[m] EXCEPT !.next = next + 1, !.pending = pending]
           work == [exec[r] EXCEPT !.phase = "asking", !.review = t]
<1>1. /\ TypeOK /\ exec[r].phase = "active" /\ exec[r].edited /\ free # {}
      /\ exec[r] \in Execution
  BY RowTypes DEF IInv, ExecAsks
<1>2. exec[r].phase \in Working /\ exec[r].phase # "none" /\ m \in DOMAIN managers
  BY <1>1 DEF IInv, ManagersExist, Working
<1>3. t \in free /\ \A u \in free : t <= u
  <2>1. free \in SUBSET Nat
    BY Bounds DEF Reviews
  <2> HIDE DEF free
  <2> QED
    BY <1>1, <2>1, MinFacts
<1>4. UNCHANGED <<rows, workspace, epoch, session, fallback, task, subscriber, local, command>>
  BY DEF ExecAsks
<1>5. requests' = [requests EXCEPT ![t] = request]
  BY DEF ExecAsks
<1>6. managers' = [managers EXCEPT ![m] = new]
  <2>1. managers' = [managers EXCEPT ![m].next = @ + 1, ![m].pending = @ \cup {t}]
    BY Zenon DEF ExecAsks
  <2> HIDE DEF t
  <2> QED
    BY <1>1, <1>2, <2>1 DEF TypeOK
<1>7. exec' = [exec EXCEPT ![r] = work]
  <2>1. exec' = [exec EXCEPT ![r].phase = "asking", ![r].review = t]
    BY Zenon DEF ExecAsks
  <2> HIDE DEF t
  <2> QED
    BY <1>1, <2>1 DEF TypeOK
<1>8. t \in Reviews /\ requests[t].run = NoRun
  BY <1>3
<1>9. next \in 0..MaxReviews /\ next < t /\ managers[m] \in Manager
  BY <1>2, <1>8, KnownManager DEF Manager
<1>10. next \in ReviewIds /\ next + 1 \in 0..MaxReviews
  <2>1. next \in 0..MaxReviews /\ next < t /\ t \in Reviews
    BY <1>8, <1>9
  <2> HIDE DEF next, t
  <2> QED
    BY <2>1, Bounds DEF ReviewIds, Reviews
<1>11. \A u \in Reviews : requests[u].run = NoRun /\ u # t => t < u
  BY <1>3, Bounds DEF Reviews
<1> HIDE DEF free, t, next, m
<1>12. request \in Request /\ request.run = r /\ request.id = next /\ ~ request.shown
  BY <1>1, <1>10 DEF Request, Execution
<1>13. new \in Manager /\ new.next = next + 1
  <2>1. pending \in SUBSET Reviews
    BY <1>8, <1>9 DEF Manager
  <2> HIDE DEF pending
  <2> QED
    BY <1>9, <1>10, <2>1 DEF Manager
<1>14. /\ work \in Execution /\ work.phase = "asking" /\ work.owner = exec[r].owner
       /\ work.mgr = exec[r].mgr /\ work.review = t /\ work.edited
  BY <1>1, <1>8 DEF Execution, Phases
<1> HIDE DEF request, new, work
<1>15. /\ managers' \in Seq(Manager) /\ Len(managers') = Len(managers)
       /\ DOMAIN managers' = DOMAIN managers
       /\ \A i \in DOMAIN managers' : managers'[i] = IF i = m THEN new ELSE managers[i]
  BY <1>1, <1>2, <1>6, <1>13 DEF TypeOK
<1>16. requests' \in [Reviews -> Request]
       /\ \A u \in Reviews : requests'[u] = IF u = t THEN request ELSE requests[u]
  BY <1>1, <1>5, <1>8, <1>12 DEF TypeOK
<1>17. exec' \in [Runs -> Execution]
       /\ \A q \in Runs : exec'[q] = IF q = r THEN work ELSE exec[q]
  BY <1>1, <1>7, <1>14 DEF TypeOK
<1>18. r # NoRun /\ t # NoReview
  BY <1>8, Bounds DEF Reviews, NoReview
<1>19. IdsAreFree'
  <2>1. SUFFICES ASSUME NEW u \in Reviews, requests'[u].run = NoRun
                 PROVE  /\ \A i \in DOMAIN managers' : managers'[i].next < u
                        /\ \A v \in Reviews : requests'[v].run # NoRun => requests'[v].id + 1 < u
    BY DEF IdsAreFree
  <2>2. u # t /\ requests[u].run = NoRun /\ t < u
    BY <1>11, <1>12, <1>16, <1>18, <2>1
  <2>3. next + 1 < u
    BY <1>8, <1>9, <2>2, Bounds DEF Reviews
  <2>4. \A i \in DOMAIN managers' : managers'[i].next < u
    BY <1>13, <1>15, <2>2, <2>3 DEF IInv, IdsAreFree
  <2>5. \A v \in Reviews : requests'[v].run # NoRun => requests'[v].id + 1 < u
    BY <1>12, <1>16, <2>2, <2>3 DEF IInv, IdsAreFree
  <2> QED
    BY <2>4, <2>5
<1>20. \A u \in Reviews : requests[u].shown => requests'[u].shown
  BY <1>8, <1>16 DEF IInv, ReviewsAreOwned
<1>21. ReviewsAreOwned'
  <2>1. \A u \in Reviews : requests'[u].shown => requests'[u].run # NoRun
    BY <1>12, <1>16 DEF IInv, ReviewsAreOwned
  <2>2. ASSUME NEW q \in Runs
        PROVE  /\ exec'[q].phase = "asking" =>
                     /\ exec'[q].edited /\ exec'[q].review # NoReview
                     /\ requests'[exec'[q].review].run = q
               /\ checkpoints'[q].pending # NoReview =>
                     requests'[checkpoints'[q].pending].run = q
    <3>1. exec[q] \in Execution /\ checkpoints[q] \in Checkpoint /\ q # NoRun
      BY <1>1, RowTypes, Bounds
    <3>2. exec[q].review \in Reviews \cup {NoReview} /\ checkpoints[q].pending \in Reviews \cup {NoReview}
      BY <3>1 DEF Execution, Checkpoint
    <3>3. checkpoints'[q] = checkpoints[q]
      BY <1>4 DEF rows
    <3>4. checkpoints[q].pending # NoReview =>
             requests'[checkpoints[q].pending].run = q
      BY <1>8, <1>16, <3>1, <3>2 DEF IInv, ReviewsAreOwned
    <3>5. CASE q = r
      BY <1>8, <1>12, <1>14, <1>16, <1>17, <1>18, <3>3, <3>4, <3>5
    <3>6. CASE q # r
      BY <1>8, <1>16, <1>17, <3>1, <3>2, <3>3, <3>4, <3>6 DEF IInv, ReviewsAreOwned
    <3> QED
      BY <3>5, <3>6
  <2> QED
    BY <2>1, <2>2 DEF ReviewsAreOwned
<1>22. RowOK(r)'
  BY <1>2, <1>4, <1>14, <1>17 DEF IInv, RowOK, rows
<1>23. ResumedOK'
  BY <1>4 DEF IInv, ResumedOK, ResumedOnce, Present, rows
<1> QED
  <2>1. exec'[r] = work /\ \A q \in Runs \ {r} : exec'[q] = exec[q]
    BY <1>17
  <2>2. runs' = runs /\ checkpoints' = checkpoints /\ older' = older /\ resumeOf' = resumeOf
    BY <1>4 DEF rows
  <2> QED
    BY <1>1, <1>2, <1>4, <1>14, <1>15, <1>16, <1>17, <1>19, <1>20, <1>21, <1>22, <1>23, <2>1, <2>2,
       SessionKept, ExecStep DEF TypeOK


-----------------------------------------------------------------------------
(* The first session, and the process that dies. *)

LEMMA InitIInv == ASSUME Init PROVE IInv
<1>1. TypeOK
  <2>1. NoFallback \in [ReviewIds -> Runs \cup {NoRun}] /\ NoLocals \in [Sockets -> Coroutine]
    BY Blanks DEF NoFallback, NoLocals
  <2>2. <<>> \in Seq(Manager) /\ {} \in Contents /\ 0 \in 0..MaxSessions
    BY Bounds DEF Contents
  <2> QED
    BY <2>1, <2>2, Blanks, FreshType DEF Init, TypeOK
<1>2. /\ \A r \in Runs : /\ exec[r].phase = "none" /\ runs[r] = AbsentRun
                         /\ checkpoints[r] = NoCheckpoint /\ resumeOf[r] = NoRun
                         /\ older[r] = {}
      /\ \A t \in Reviews : requests[t].run = NoRun /\ ~ requests[t].shown
      /\ \A s \in Sockets : local[s] = NoCoroutine
      /\ managers = <<>> /\ ~ session.registered /\ command = Idle /\ task = NoRun
  BY DEF Init, NoExecution, NoRequest, NoLocals, NoSession
<1>3. ManagersExist
  BY <1>2, Bounds DEF ManagersExist, Working
<1>4. IdsAreFree
  BY <1>2 DEF IdsAreFree
<1>5. /\ NoCheckpoint.pending = NoReview /\ ~ NoCheckpoint.resume /\ ~ NoCheckpoint.consumed
      /\ AbsentRun.status = Absent /\ AbsentRun.owner = NoOwner
  BY DEF NoCheckpoint, AbsentRun
<1>6. ReviewsAreOwned /\ \A r \in Runs : RowOK(r)
  BY <1>2, <1>5 DEF ReviewsAreOwned, RowOK, Absent, Working
<1>7. CommandOK
  BY <1>2 DEF CommandOK, Idle
<1>8. ResumedOK
  BY <1>2 DEF ResumedOK, ResumedOnce
<1> QED
  BY <1>1, <1>3, <1>4, <1>6, <1>7, <1>8 DEF IInv

\* All that the process held is gone; the rows are what the next one finds.
LEMMA AllLostStep ==
    ASSUME IInv, AllLost, UNCHANGED <<requests, epoch>>, workspace' \in Contents,
           runs' \in [Runs -> RunRecord], checkpoints' = checkpoints,
           resumeOf' \in [Runs -> Runs \cup {NoRun}], older' \in [Runs -> SUBSET Runs],
           \A q \in Runs : RowOK(q)', ResumedOK'
    PROVE  IInv'
<1>1. TypeOK'
  <2>1. NoFallback \in [ReviewIds -> Runs \cup {NoRun}] /\ NoLocals \in [Sockets -> Coroutine]
    BY Blanks DEF NoFallback, NoLocals
  <2>2. <<>> \in Seq(Manager)
    OBVIOUS
  <2> QED
    BY <2>1, <2>2, Blanks DEF IInv, AllLost, TypeOK
<1>2. /\ \A r \in Runs : exec'[r].phase = "none"
      /\ \A s \in Sockets : local'[s] = NoCoroutine
      /\ managers' = <<>> /\ ~ session'.registered /\ command' = Idle /\ task' = NoRun
  BY DEF AllLost, NoExecution, NoLocals, NoSession
<1>3. ManagersExist'
  BY <1>2, Bounds DEF ManagersExist, Working
<1>4. IdsAreFree'
  BY <1>2 DEF IInv, IdsAreFree
<1>5. ReviewsAreOwned'
  BY <1>2 DEF IInv, ReviewsAreOwned
<1>6. CommandOK'
  BY <1>2, IdleOK
<1> QED
  BY <1>1, <1>3, <1>4, <1>5, <1>6 DEF IInv

LEMMA CrashStep == ASSUME IInv, AllLost, UNCHANGED <<rows, requests, epoch>>, workspace' \in Contents
                   PROVE  IInv'
<1>1. runs' = runs /\ checkpoints' = checkpoints /\ resumeOf' = resumeOf /\ older' = older
  BY DEF rows
<1>2. exec' \in [Runs -> Execution] /\ \A r \in Runs : exec'[r].phase = "none"
  BY Blanks DEF AllLost, NoExecution
<1>3. (\A q \in Runs : RowOK(q)') /\ ResumedOK'
  BY <1>1, <1>2, RowsKept DEF Working
<1> QED
  BY <1>1, <1>3, AllLostStep DEF IInv, TypeOK

LEMMA CrashInAcceptStep ==
    ASSUME IInv, NEW s \in Sockets, NEW t \in Reviews, CrashInAccept(s, t) PROVE IInv'
<1> DEFINE r == fallback[requests[t].id]
           p == checkpoints[r].pending
<1>1. TypeOK /\ r # NoRun /\ p # NoReview /\ workspace' = Candidate(r)
  BY DEF IInv, CrashInAccept, Answerable
<1>2. r \in Runs /\ p \in Reviews
  <2>1. requests[t].id \in ReviewIds
    BY <1>1, Bounds DEF TypeOK, Request, ReviewIds, Reviews
  <2>2. r \in Runs
    BY <1>1, <2>1 DEF TypeOK
  <2>3. checkpoints[r] \in Checkpoint
    BY <1>1, <2>2, RowTypes
  <2> QED
    BY <1>1, <2>2, <2>3 DEF Checkpoint
<1>3. requests[p] \in Request
  BY <1>1, <1>2 DEF TypeOK
<1>4. workspace' \in Contents
  <2> HIDE DEF r
  <2> QED
    BY <1>1, <1>3 DEF Candidate, Request, Contents
<1> QED
  BY <1>4, CrashStep DEF CrashInAccept

LEMMA ConnectFreshStep == ASSUME IInv, NEW s \in Sockets, ConnectFresh(s) PROVE IInv'
<1> DEFINE m == Len(managers) + 1
           new == RestoredManager(NewManager)
<1>1. /\ TypeOK /\ ~ session.registered /\ epoch < MaxSessions /\ Len(managers) < MaxManagers
      /\ epoch' = epoch + 1 /\ managers' = Append(managers, new)
      /\ session' = [NoSession EXCEPT !.registered = TRUE, !.review_mgr = m]
      /\ local' = [NoLocals EXCEPT ![s] = [mgr |-> m, agent |-> FALSE, attached |-> FALSE]]
      /\ fallback' = RestoredFallback(NoFallback) /\ task' = NoRun /\ subscriber' = NoSocket
      /\ UNCHANGED <<rows, workspace, requests, exec, command>> /\ command = Idle
  BY DEF IInv, ConnectFresh
<1>2. \A t \in Reviews : NewManager.next < t
  BY Bounds DEF NewManager, Reviews
<1>3. new \in Manager /\ \A t \in Reviews : requests[t].run = NoRun => new.next < t
  BY <1>2, Blanks, RestoredFacts
<1> HIDE DEF new
<1>4. /\ managers' \in Seq(Manager) /\ Len(managers') = m
      /\ DOMAIN managers \subseteq DOMAIN managers' /\ m \in DOMAIN managers' /\ IdsAreFree'
  BY <1>1, <1>3, ManagerAdded
<1>5. m \in 0..MaxManagers /\ epoch' \in 0..MaxSessions /\ epoch' \in Owners
  BY <1>1, Bounds DEF TypeOK
<1> HIDE DEF m
<1>6. session' \in Session /\ session'.review_mgr = m
  BY <1>1, <1>5, Blanks DEF NoSession, Session
<1>7. local' \in [Sockets -> Coroutine]
      /\ \A u \in Sockets : local'[u] # NoCoroutine => local'[u].mgr = m
  <2>1. [mgr |-> m, agent |-> FALSE, attached |-> FALSE] \in Coroutine
    BY <1>5 DEF Coroutine
  <2> QED
    BY <1>1, <2>1, Blanks DEF NoLocals
<1>8. fallback' \in [ReviewIds -> Runs \cup {NoRun}]
  <2>1. NoFallback \in [ReviewIds -> Runs \cup {NoRun}]
    BY DEF NoFallback
  <2> QED
    BY <1>1, <2>1, FallbackType
<1>9. TypeOK'
  BY <1>1, <1>4, <1>5, <1>6, <1>7, <1>8, Blanks DEF TypeOK, rows
<1>10. ManagersExist'
  BY <1>1, <1>4, <1>5, <1>6, <1>7 DEF IInv, ManagersExist
<1>11. ReviewsAreOwned' /\ (\A r \in Runs : RowOK(r))' /\ ResumedOK'
  BY <1>1, RowsKept DEF TypeOK
<1>12. CommandOK'
  BY <1>1, IdleOK
<1> QED
  BY <1>4, <1>9, <1>10, <1>11, <1>12 DEF IInv


-----------------------------------------------------------------------------
(* A run is started. *)

\* The rows create() and claim() write for a new run.
LEMMA NewRows ==
    ASSUME epoch \in Owners
    PROVE  /\ QueuedRun \in RunRecord /\ QueuedRun.status = "queued" /\ QueuedRun.owner = NoOwner
           /\ Claimed(QueuedRun, epoch, 1, 1) \in RunRecord
           /\ Claimed(QueuedRun, epoch, 1, 1).status = "running"
           /\ Claimed(QueuedRun, epoch, 1, 1).owner = epoch
<1>1. QueuedRun \in RunRecord /\ QueuedRun.status = "queued" /\ QueuedRun.owner = NoOwner
  BY FreshType DEF QueuedRun, AbsentRun
<1>2. 1 \in Nat
  OBVIOUS
<1> QED
  BY <1>1, <1>2, ClaimedType, ClaimedFields

\* The new row is the newest, and all that was resumed is older.
LEMMA RunAdded ==
    ASSUME IInv, NEW r \in Runs, runs[r].status = Absent,
           NEW row \in RunRecord, row.status \in {"queued", "running"},
           row.owner = NoOwner \/ row.status = "running",
           NEW old \in Runs \cup {NoRun}, old # NoRun => MayBeResumed(old),
           runs' = [runs EXCEPT ![r] = row], checkpoints' = checkpoints,
           older' = Touched(older, r, Present), resumeOf' = [resumeOf EXCEPT ![r] = old],
           \A q \in Runs : exec'[q] = exec[q] \/ exec'[q].phase = "none"
    PROVE  /\ runs' \in [Runs -> RunRecord] /\ older' \in [Runs -> SUBSET Runs]
           /\ resumeOf' \in [Runs -> Runs \cup {NoRun}]
           /\ \A q \in Runs : RowOK(q)'
           /\ ResumedOK'
<1>1. TypeOK /\ checkpoints[r] = NoCheckpoint /\ resumeOf[r] = NoRun /\ exec[r].phase = "none"
  BY DEF IInv, RowOK
<1>2. /\ runs' \in [Runs -> RunRecord] /\ runs'[r] = row
      /\ \A q \in Runs \ {r} : runs'[q] = runs[q]
  BY <1>1 DEF TypeOK
<1>3. /\ resumeOf' \in [Runs -> Runs \cup {NoRun}] /\ resumeOf'[r] = old
      /\ \A q \in Runs \ {r} : resumeOf'[q] = resumeOf[q]
  BY <1>1 DEF TypeOK
<1>4. /\ older' \in [Runs -> SUBSET Runs]
      /\ \A q \in Runs : older'[q] = IF q = r THEN Present \ {r} ELSE older[q] \ {r}
  BY <1>1 DEF Touched, Present, TypeOK
<1>5. Present' = Present \cup {r} /\ r \notin Present
  BY <1>2 DEF Present, Absent
<1>6. ~ NoCheckpoint.resume /\ NoCheckpoint.pending = NoReview /\ ~ NoCheckpoint.consumed
  BY DEF NoCheckpoint
<1>7. ASSUME NEW q \in Runs PROVE RowOK(q)'
  <2>1. CASE q = r
    <3>1. exec'[r].phase = "none"
      BY <1>1
    <3> QED
      BY <1>1, <1>2, <1>6, <2>1, <3>1 DEF RowOK, Absent, Working
  <2>2. CASE q # r
    BY <1>2, <1>3, <2>2 DEF IInv, RowOK, Working
  <2> QED
    BY <2>1, <2>2
<1>8. ResumedOnce'
  BY <1>3, Bounds DEF IInv, ResumedOK, ResumedOnce, MayBeResumed
<1>9. \A p, q \in Runs : q \in older'[p] => p \notin older'[q]
  BY <1>4 DEF IInv, ResumedOK
<1>10. ASSUME NEW q \in Runs, resumeOf'[q] # NoRun
       PROVE  /\ runs'[resumeOf'[q]].status \in Halted
              /\ \E x \in Present' : ~ checkpoints'[x].consumed /\ resumeOf'[q] \in older'[x]
  <2> DEFINE p == resumeOf'[q]
  <2>1. p \in Runs /\ runs[p].status \in Halted
    <3>1. CASE q = r
      BY <1>3, <1>10, <3>1 DEF MayBeResumed
    <3>2. CASE q # r
      BY <1>1, <1>3, <1>10, <3>2 DEF IInv, ResumedOK, TypeOK
    <3> QED
      BY <3>1, <3>2
  <2>2. p # r /\ p \in Present
    BY <2>1 DEF Halted, Present, Absent
  <2>3. runs'[p] = runs[p] /\ p \in older'[r]
    BY <1>2, <1>4, <2>1, <2>2
  <2> QED
    BY <1>1, <1>5, <1>6, <2>1, <2>3
<1> QED
  BY <1>2, <1>3, <1>4, <1>7, <1>8, <1>9, <1>10 DEF ResumedOK

\* and so it is when the resumed row is consumed at once.
LEMMA RunResumed ==
    ASSUME IInv, NEW r \in Runs, runs[r].status = Absent,
           NEW row \in RunRecord, row.status = "running",
           NEW old \in Runs, MayBeResumed(old),
           runs' = [runs EXCEPT ![r] = row, ![old] = Transitioned(@, runs[old].status)],
           checkpoints' = [checkpoints EXCEPT ![old].consumed = TRUE],
           older' = Touched(Touched(older, r, Present), old, Present \cup {r}),
           resumeOf' = [resumeOf EXCEPT ![r] = old], exec' = exec
    PROVE  /\ runs' \in [Runs -> RunRecord] /\ older' \in [Runs -> SUBSET Runs]
           /\ checkpoints' \in [Runs -> Checkpoint]
           /\ resumeOf' \in [Runs -> Runs \cup {NoRun}]
           /\ runs'[r] = row /\ checkpoints'[r] = NoCheckpoint
           /\ \A q \in Runs : /\ checkpoints[q].pending # NoReview =>
                                    checkpoints'[q].pending = checkpoints[q].pending
                              /\ checkpoints'[q].pending # NoReview =>
                                    checkpoints'[q].pending = checkpoints[q].pending
           /\ \A q \in Runs : RowOK(q)'
           /\ ResumedOK'
<1>1. TypeOK /\ checkpoints[r] = NoCheckpoint /\ resumeOf[r] = NoRun /\ exec[r].phase = "none"
  BY DEF IInv, RowOK
<1>2. /\ old # r /\ runs[old].status \in Halted /\ ~ checkpoints[old].consumed
      /\ \A q \in Runs : resumeOf[q] # old
      /\ old # NoRun /\ old \in Present
  BY Bounds DEF MayBeResumed, Halted, Absent, Present
<1> DEFINE ended == Transitioned(runs[old], runs[old].status)
           taken == [checkpoints[old] EXCEPT !.consumed = TRUE]
<1>3. ended \in RunRecord /\ ended.status = runs[old].status /\ ended.owner = NoOwner
  <2>1. runs[old].status \in Statuses /\ runs[old].status \notin {"running", "waiting_approval"}
        /\ runs[old] \in RunRecord
    BY <1>1, <1>2, RowTypes DEF Halted, Statuses, Terminal
  <2>2. ended.owner = NoOwner
    BY <2>1 DEF Transitioned, RunRecord
  <2> QED
    BY <2>1, <2>2, TransitionedType, TransitionedFields
<1>4. taken \in Checkpoint /\ taken.pending = checkpoints[old].pending /\ taken.consumed
      /\ taken.resume = checkpoints[old].resume
  BY <1>1, RowTypes DEF Checkpoint
<1>5. runs' = [runs EXCEPT ![r] = row, ![old] = ended] /\ checkpoints' = [checkpoints EXCEPT ![old] = taken]
  BY <1>1, <1>2 DEF TypeOK
<1> HIDE DEF ended, taken
<1>6. /\ runs' \in [Runs -> RunRecord] /\ runs'[r] = row /\ runs'[old] = ended
      /\ \A q \in Runs \ {r, old} : runs'[q] = runs[q]
  BY <1>1, <1>2, <1>3, <1>5 DEF TypeOK
<1>7. /\ checkpoints' \in [Runs -> Checkpoint] /\ checkpoints'[old] = taken
      /\ \A q \in Runs \ {old} : checkpoints'[q] = checkpoints[q]
  <2>1. taken \in Checkpoint /\ checkpoints \in [Runs -> Checkpoint]
        /\ checkpoints' = [checkpoints EXCEPT ![old] = taken]
    BY <1>1, <1>4, <1>5 DEF TypeOK
  <2> QED
    BY <2>1
<1>8. /\ resumeOf' \in [Runs -> Runs \cup {NoRun}] /\ resumeOf'[r] = old
      /\ \A q \in Runs \ {r} : resumeOf'[q] = resumeOf[q]
  BY <1>1 DEF TypeOK
<1>9. /\ older' \in [Runs -> SUBSET Runs]
      /\ older'[old] = (Present \cup {r}) \ {old} /\ older'[r] = (Present \ {r}) \ {old}
      /\ \A q \in Runs \ {r, old} : older'[q] = (older[q] \ {r}) \ {old}
  BY <1>1, <1>2 DEF Touched, Present, TypeOK
<1>10. Present' = Present \cup {r} /\ r \notin Present
  BY <1>2, <1>3, <1>6 DEF Present, Absent, Halted
<1>11. ~ NoCheckpoint.resume /\ NoCheckpoint.pending = NoReview /\ ~ NoCheckpoint.consumed
  BY DEF NoCheckpoint
<1>12. ASSUME NEW q \in Runs PROVE RowOK(q)'
  <2>1. CASE q = r
    BY <1>1, <1>2, <1>6, <1>7, <1>11, <2>1 DEF RowOK, Absent, Working
  <2>2. CASE q = old
    <3>1. RowOK(old) /\ runs[old].status \notin {"running", "waiting_approval", Absent}
      BY <1>2 DEF IInv, Halted, Absent
    <3> QED
      BY <1>2, <1>3, <1>4, <1>6, <1>7, <2>2, <3>1 DEF RowOK
  <2>3. CASE q # r /\ q # old
    BY <1>6, <1>7, <1>8, <2>3 DEF IInv, RowOK
  <2> QED
    BY <2>1, <2>2, <2>3
<1>13. ResumedOnce'
  BY <1>2, <1>8 DEF IInv, ResumedOK, ResumedOnce
<1>14. \A p, q \in Runs : q \in older'[p] => p \notin older'[q]
  <2>1. \A q \in Runs : old \in older'[q] => FALSE
    BY <1>9
  <2>2. \A q \in Runs \ {old} : r \in older'[q] => FALSE
    BY <1>9
  <2>3. ASSUME NEW p \in Runs \ {r, old}, NEW q \in Runs \ {r, old}, q \in older'[p]
        PROVE  p \notin older'[q]
    <3>1. q \in older[p]
      BY <1>9, <2>3
    <3>2. p \notin older[q]
      BY <3>1 DEF IInv, ResumedOK
    <3> QED
      BY <1>9, <3>2
  <2> QED
    BY <2>1, <2>2, <2>3
<1>15. ASSUME NEW q \in Runs, resumeOf'[q] # NoRun
       PROVE  /\ runs'[resumeOf'[q]].status \in Halted
              /\ \/ checkpoints'[resumeOf'[q]].consumed
                 \/ \E x \in Present' : ~ checkpoints'[x].consumed /\ resumeOf'[q] \in older'[x]
  <2>1. CASE q = r
    BY <1>2, <1>3, <1>4, <1>6, <1>7, <1>8, <2>1
  <2>2. CASE q # r
    <3> DEFINE p == resumeOf[q]
    <3>1. p \in Runs /\ runs[p].status \in Halted /\ p # old /\ resumeOf'[q] = p
      BY <1>1, <1>2, <1>8, <1>15, <2>2 DEF IInv, ResumedOK, TypeOK
    <3>2. p # r /\ p \in Present
      BY <3>1 DEF Halted, Present, Absent
    <3>3. runs'[p] = runs[p] /\ p \in older'[r]
      BY <1>6, <1>9, <3>1, <3>2
    <3> QED
      BY <1>1, <1>2, <1>7, <1>10, <1>11, <3>1, <3>3
  <2> QED
    BY <2>1, <2>2
<1>16. \A q \in Runs : checkpoints'[q].pending = checkpoints[q].pending
  BY <1>4, <1>7
<1> QED
  BY <1>1, <1>2, <1>6, <1>7, <1>8, <1>9, <1>12, <1>13, <1>14, <1>15, <1>16 DEF ResumedOK

LEMMA CrashInStartStep == ASSUME IInv, NEW r \in Runs, CrashInStart(r) PROVE IInv'
<1>1. TypeOK /\ CommandOK /\ epoch \in Owners
  BY DEF IInv, CrashInStart, Busy, ManagersExist
<1> DEFINE old == IF command.kind = "chat" THEN command.parent ELSE NoRun
<1>2. PICK row \in {QueuedRun, Claimed(QueuedRun, epoch, 1, 1)} : runs' = [runs EXCEPT ![r] = row]
  BY DEF CrashInStart
<1>3. row \in RunRecord /\ row.status \in {"queued", "running"} /\ (row.owner = NoOwner \/ row.status = "running")
  BY <1>1, NewRows
<1>4. old \in Runs \cup {NoRun} /\ (old # NoRun => MayBeResumed(old))
  <2>1. command.parent \in Runs \cup {NoRun} /\ command.step # "prepare"
    BY <1>1 DEF CrashInStart, TypeOK, Command
  <2> QED
    BY <1>1, <2>1 DEF CommandOK
<1>5. /\ runs[r].status = Absent /\ checkpoints' = checkpoints /\ UNCHANGED <<workspace, requests, epoch>>
      /\ older' = Touched(older, r, Present) /\ resumeOf' = [resumeOf EXCEPT ![r] = old]
      /\ AllLost
  BY DEF CrashInStart
<1> HIDE DEF old
<1>6. \A q \in Runs : exec'[q].phase = "none"
  BY <1>5 DEF AllLost, NoExecution
<1>7. /\ runs' \in [Runs -> RunRecord] /\ older' \in [Runs -> SUBSET Runs]
      /\ resumeOf' \in [Runs -> Runs \cup {NoRun}]
      /\ \A q \in Runs : RowOK(q)'
      /\ ResumedOK'
  BY <1>2, <1>3, <1>4, <1>5, <1>6, RunAdded
<1> QED
  BY <1>1, <1>5, <1>7, AllLostStep DEF TypeOK


-----------------------------------------------------------------------------
(* Commands that write a row, or hand it to a task. *)

\* A command has done its part: what is left to show is about rows and commands.
LEMMA CommandDone ==
    ASSUME IInv, UNCHANGED <<requests, epoch>>, workspace' \in Contents,
           task' \in Runs \cup {NoRun}, session' \in Session,
           session'.registered => session.registered /\ session'.review_mgr = session.review_mgr,
           fallback' \in [ReviewIds -> Runs \cup {NoRun}],
           subscriber' \in Sockets \cup {NoSocket}, local' \in [Sockets -> Coroutine],
           \A s \in Sockets : local'[s] # NoCoroutine => local'[s].mgr \in DOMAIN managers,
           managers' \in Seq(Manager) /\ Len(managers') = Len(managers)
              /\ DOMAIN managers' = DOMAIN managers /\ IdsAreFree',
           runs' \in [Runs -> RunRecord], checkpoints' \in [Runs -> Checkpoint],
           resumeOf' \in [Runs -> Runs \cup {NoRun}], older' \in [Runs -> SUBSET Runs],
           exec' \in [Runs -> Execution],
           \A q \in Runs : exec'[q].phase \in Working => exec'[q].mgr \in DOMAIN managers,
           ReviewsAreOwned', \A q \in Runs : RowOK(q)', ResumedOK',
           command' \in Command, CommandOK'
    PROVE  IInv'
<1>1. TypeOK'
  BY DEF IInv, TypeOK
<1>2. ManagersExist'
  BY DEF IInv, ManagersExist
<1> QED
  BY <1>1, <1>2 DEF IInv

\* The row of a run nobody works on any more ends, or is paused.
LEMMA RowEnds ==
    ASSUME IInv, NEW r \in Runs, runs[r].status \in {"running", "waiting_approval"},
           NEW target \in {"paused"} \cup Terminal,
           NEW checkpoint \in Checkpoint, ~ checkpoint.consumed, checkpoint.pending = NoReview,
           Save(r, Transitioned(runs[r], target), checkpoint), requests' = requests,
           \A q \in Runs \ {r} : exec'[q] = exec[q],
           exec'[r].phase \notin Working
    PROVE  /\ runs' \in [Runs -> RunRecord] /\ checkpoints' \in [Runs -> Checkpoint]
           /\ resumeOf' = resumeOf /\ older' \in [Runs -> SUBSET Runs]
           /\ ReviewsAreOwned' /\ (\A q \in Runs : RowOK(q)') /\ ResumedOK'
<1> DEFINE row == Transitioned(runs[r], target)
<1>1. target \in Statuses /\ target \notin {"running", "waiting_approval", Absent}
  BY DEF Statuses, Terminal, Absent
<1>2. row \in RunRecord /\ row.status = target /\ row.owner = NoOwner
  <2>1. runs[r] \in RunRecord
    BY RowTypes DEF IInv
  <2>2. row.owner = NoOwner
    BY <1>1, <2>1 DEF Transitioned, RunRecord
  <2> QED
    BY <1>1, <2>1, <2>2, TransitionedType, TransitionedFields
<1>3. Save(r, row, checkpoint)
  OBVIOUS
<1> HIDE DEF row
<1>4. /\ runs' \in [Runs -> RunRecord] /\ checkpoints' \in [Runs -> Checkpoint]
      /\ resumeOf' = resumeOf /\ older' \in [Runs -> SUBSET Runs]
      /\ runs'[r] = row /\ checkpoints'[r] = checkpoint
      /\ \A q \in Runs \ {r} : runs'[q] = runs[q] /\ checkpoints'[q] = checkpoints[q]
      /\ ResumedOK'
  BY <1>1, <1>2, <1>3, SavedRow
<1>5. ASSUME NEW q \in Runs PROVE RowOK(q)'
  <2>1. CASE q = r
    BY <1>1, <1>2, <1>4, <2>1 DEF RowOK
  <2>2. CASE q # r
    BY <1>4, <2>2 DEF IInv, RowOK
  <2> QED
    BY <2>1, <2>2
<1>6. ReviewsAreOwned'
  BY <1>4 DEF IInv, ReviewsAreOwned, Working
<1> QED
  BY <1>4, <1>5, <1>6

LEMMA TaskCreatedStep == ASSUME IInv, TaskCreated PROVE IInv'
<1> DEFINE r == command.run
           m == local[command.socket].mgr
           new == [NoExecution EXCEPT !.phase = "created", !.owner = epoch, !.mgr = m]
<1>1. /\ TypeOK /\ CommandOK /\ command.step = "prepare" /\ command \in Command
  BY DEF TaskCreated, IInv, TypeOK
<1>2. command.socket \in Sockets /\ local[command.socket] # NoCoroutine
  BY <1>1, AtAwait
<1>3. m \in DOMAIN managers /\ m \in 0..MaxManagers
  BY <1>2, AtConnection
<1>4. /\ r \in Runs /\ r # NoRun /\ runs[r].status = "running" /\ runs[r].owner = epoch
      /\ checkpoints[r] = NoCheckpoint /\ exec[r].phase = "none"
  BY <1>1 DEF CommandOK, Command
<1>5. epoch \in Owners \cup {NoOwner}
  BY <1>1, Bounds DEF TypeOK
<1>6. exec' = [exec EXCEPT ![r] = new] /\ task' = r /\ command' = Idle
      /\ UNCHANGED <<rows, requests, workspace, epoch, session, fallback, subscriber, local, managers>>
  BY DEF TaskCreated, durable
<1> HIDE DEF r, m
<1>7. new \in Execution /\ new.phase = "created" /\ new.owner = epoch /\ new.mgr = m
  BY <1>3, <1>5, Blanks DEF NoExecution, Execution, Phases
<1> HIDE DEF new
<1>8. exec' \in [Runs -> Execution] /\ exec'[r] = new /\ \A q \in Runs \ {r} : exec'[q] = exec[q]
  BY <1>1, <1>4, <1>6, <1>7 DEF TypeOK
<1>9. /\ runs' = runs /\ checkpoints' = checkpoints /\ resumeOf' = resumeOf /\ older' = older
  BY <1>6 DEF rows
<1>10. ASSUME NEW q \in Runs PROVE RowOK(q)'
  <2>1. RowOK(q) /\ (q # r => exec'[q] = exec[q])
    BY <1>8 DEF IInv
  <2>2. CASE q = r
    BY <1>4, <1>7, <1>8, <1>9, <2>1, <2>2 DEF RowOK, Absent
  <2>3. CASE q # r
    BY <1>9, <2>1, <2>3 DEF RowOK
  <2> QED
    BY <2>2, <2>3
<1>11. ReviewsAreOwned'
  BY <1>4, <1>6, <1>7, <1>8, <1>9 DEF IInv, ReviewsAreOwned
<1>12. ResumedOK'
  BY <1>9 DEF IInv, ResumedOK, ResumedOnce, Present
<1>13. CommandOK'
  BY <1>6, <1>7, <1>8, IdleOK
<1>14. \A q \in Runs : exec'[q].phase \in Working => exec'[q].mgr \in DOMAIN managers
  BY <1>3, <1>7, <1>8 DEF IInv, ManagersExist
<1> QED
  BY <1>1, <1>4, <1>6, <1>8, <1>9, <1>10, <1>11, <1>12, <1>13, <1>14, Blanks, LocalsKept, SessionKept,
     Unmanaged, CommandDone DEF TypeOK

LEMMA PrepareFailsStep == ASSUME IInv, PrepareFails PROVE IInv'
<1> DEFINE r == command.run
<1>1. /\ TypeOK /\ CommandOK /\ command.step = "prepare" /\ command \in Command
  BY DEF PrepareFails, IInv, TypeOK
<1>2. command.socket \in Sockets
  BY <1>1, AtAwait
<1>3. /\ r \in Runs /\ runs[r].status = "running" /\ runs[r].owner = epoch
      /\ checkpoints[r] = NoCheckpoint /\ exec[r].phase = "none"
  BY <1>1 DEF CommandOK, Command
<1>4. /\ UNCHANGED <<workspace, requests, epoch, fallback, task, managers, exec>>
      /\ command' = Idle /\ session' = Released(epoch) /\ Closed(command.socket)
      /\ TrySave(r, "failed", {"running"}, epoch, checkpoints[r])
  BY DEF PrepareFails
<1>5. "failed" \in Statuses /\ "failed" \in Terminal
  BY DEF Statuses, Terminal
<1>6. Save(r, Transitioned(runs[r], "failed"), NoCheckpoint)
  <2>1. MayTransition(runs[r], "failed", {"running"}, epoch)
    BY <1>3, <1>5 DEF MayTransition, Absent, Successors, Statuses
  <2> QED
    BY <1>3, <1>4, <2>1 DEF TrySave
<1>7. NoCheckpoint.pending = NoReview /\ ~ NoCheckpoint.consumed
  BY DEF NoCheckpoint
<1> HIDE DEF r
<1>8. /\ runs' \in [Runs -> RunRecord] /\ checkpoints' \in [Runs -> Checkpoint]
      /\ resumeOf' = resumeOf /\ older' \in [Runs -> SUBSET Runs]
      /\ ReviewsAreOwned' /\ (\A q \in Runs : RowOK(q)') /\ ResumedOK'
  BY <1>3, <1>4, <1>5, <1>6, <1>7, Blanks, RowEnds DEF Working
<1>9. CommandOK'
  BY <1>1, <1>4, IdleOK DEF CommandOK
<1>10. \A q \in Runs : exec'[q].phase \in Working => exec'[q].mgr \in DOMAIN managers
  BY <1>4 DEF IInv, ManagersExist
<1> QED
  BY <1>1, <1>2, <1>4, <1>8, <1>9, <1>10, Blanks, ClosedFacts, ReleasedFacts, Unmanaged, CommandDone
  DEF TypeOK


LEMMA StopEndsStep == ASSUME IInv, StopEnds PROVE IInv'
<1> DEFINE r == command.run
           m == local[command.socket].mgr
           new == Reset(managers[m])
           started == exec[r].phase \in Working \ {"created"}
           paused == [checkpoints[r] EXCEPT !.written = TRUE, !.resume = TRUE]
<1>1. /\ TypeOK /\ CommandOK /\ command.step = "cancel" /\ command \in Command
  BY DEF StopEnds, IInv, TypeOK
<1>2. command.socket \in Sockets /\ local[command.socket] # NoCoroutine
  BY <1>1, AtAwait
<1>3. m \in DOMAIN managers
  BY <1>2, AtConnection
<1>4. r \in Runs /\ r = task /\ task # NoRun /\ exec[r].owner = epoch /\ exec[r].phase # "none"
  BY <1>1 DEF CommandOK, Command
<1>5. /\ UNCHANGED <<workspace, requests, epoch, fallback, task, subscriber, local>>
      /\ managers' = [managers EXCEPT ![m] = new]
      /\ exec' = [exec EXCEPT ![r].phase = "done"]
      /\ command' = Idle
  BY DEF StopEnds
<1>6. /\ IF started THEN TrySave(r, "paused", {"running", "waiting_approval", "paused"}, epoch, paused)
                    ELSE UNCHANGED rows
      /\ session' = IF exec[r].phase = "created" THEN session ELSE Released(exec[r].owner)
  BY DEF StopEnds
<1> HIDE DEF r, m
<1>7. /\ managers' \in Seq(Manager) /\ Len(managers') = Len(managers)
      /\ DOMAIN managers' = DOMAIN managers /\ IdsAreFree'
  <2>1. new \in Manager /\ \A t \in Reviews : requests[t].run = NoRun => new.next < t
    BY <1>3, KnownManager, AnsweredFacts
  <2> HIDE DEF new
  <2> QED
    BY <1>3, <1>5, <2>1, ManagerStep
<1>8. /\ exec' \in [Runs -> Execution] /\ exec'[r].phase = "done"
      /\ exec'[r].owner = exec[r].owner /\ exec'[r].mgr = exec[r].mgr
      /\ \A q \in Runs \ {r} : exec'[q] = exec[q]
  BY <1>1, <1>4, <1>5, PhaseFacts DEF Phases
<1>9. "done" \notin Working
  BY DEF Working
<1>10. /\ runs' \in [Runs -> RunRecord] /\ checkpoints' \in [Runs -> Checkpoint]
       /\ resumeOf' = resumeOf /\ older' \in [Runs -> SUBSET Runs]
       /\ ReviewsAreOwned' /\ (\A q \in Runs : RowOK(q))' /\ ResumedOK'
  <2>1. CASE started
    <3>1. exec[r].phase \in Working /\ checkpoints[r] \in Checkpoint
      BY <1>1, <1>4, <2>1, RowTypes DEF Working
    <3>2. runs[r].status = "running" /\ ~ checkpoints[r].consumed /\ checkpoints[r].pending = NoReview
      BY <1>4, <3>1 DEF IInv, RowOK, Halted
    <3>3. paused \in Checkpoint /\ ~ paused.consumed /\ paused.pending = NoReview
      <4>1. TRUE \in BOOLEAN /\ NoReview \in Reviews \cup {NoReview}
        OBVIOUS
      <4> QED
        BY <3>1, <3>2, <4>1, CheckpointFields
    <3> HIDE DEF paused
    <3>4. Save(r, Transitioned(runs[r], "paused"), paused)
      <4>1. TrySave(r, "paused", {"running", "waiting_approval", "paused"}, exec[r].owner, paused)
        BY <1>4, <1>6, <2>1
      <4> QED
        BY <1>4, <3>1, <4>1, WorkerSaves
    <3>5. exec'[r].phase \notin Working /\ requests' = requests
      BY <1>5, <1>8, <1>9
    <3> QED
      BY <1>4, <1>8, <3>2, <3>3, <3>4, <3>5, RowEnds
  <2>2. CASE ~ started
    <3>1. UNCHANGED <<rows, requests>>
      BY <1>5, <1>6, <2>2
    <3>2. ReviewsAreOwned' /\ (\A q \in Runs : RowOK(q))' /\ ResumedOK'
      BY <1>4, <1>8, <1>9, <3>1, RowsKept
    <3> QED
      BY <1>1, <3>1, <3>2 DEF rows, TypeOK
  <2> QED
    BY <2>1, <2>2
<1>11. session' \in Session
       /\ (session'.registered => session.registered /\ session'.review_mgr = session.review_mgr)
  BY <1>1, <1>6, ReleasedFacts DEF TypeOK
<1>12. CommandOK'
  BY <1>4, <1>5, <1>8, IdleOK
<1>13. \A q \in Runs : exec'[q].phase \in Working => exec'[q].mgr \in DOMAIN managers
  BY <1>8, <1>9 DEF IInv, ManagersExist
<1> QED
  BY <1>1, <1>5, <1>7, <1>8, <1>10, <1>11, <1>12, <1>13, Blanks, LocalsKept, CommandDone DEF TypeOK

LEMMA CancelNextStep == ASSUME IInv, CancelNext PROVE IInv'
<1>1. PICK r \in command.todo \cap Cancelable :
        /\ Save(r, Transitioned(runs[r], "canceled"),
                [checkpoints[r] EXCEPT !.pending = NoReview, !.resume = FALSE])
        /\ managers' = [managers EXCEPT ![local[command.socket].mgr] =
                           Answered(@, {checkpoints[r].pending})]
        /\ fallback' = [id \in ReviewIds |-> IF fallback[id] = r THEN NoRun ELSE fallback[id]]
        /\ command' = IF command.todo = {r} THEN Idle ELSE [command EXCEPT !.todo = @ \ {r}]
  BY DEF CancelNext
<1>2. /\ TypeOK /\ CommandOK /\ command.step = "next" /\ command.kind = "cancel" /\ command \in Command
      /\ UNCHANGED <<workspace, requests, epoch, session, task, subscriber, local, exec>>
  BY DEF CancelNext, IInv, TypeOK, CommandOK
<1>3. command.socket \in Sockets /\ local[command.socket] # NoCoroutine
  BY <1>2, AtAwait
<1> DEFINE m == local[command.socket].mgr
           new == Answered(managers[m], {checkpoints[r].pending})
           checkpoint == [checkpoints[r] EXCEPT !.pending = NoReview, !.resume = FALSE]
<1>4. m \in DOMAIN managers
  BY <1>3, AtConnection
<1>5. r \in Runs /\ runs[r].status = "waiting_approval" /\ "canceled" \in Terminal
  BY DEF Cancelable, MayTransition, Terminal
<1>6. checkpoints[r] \in Checkpoint /\ ~ checkpoints[r].consumed /\ exec[r].phase \notin Working
  BY <1>2, <1>5, RowTypes DEF IInv, RowOK, Halted
<1>7. checkpoint \in Checkpoint /\ ~ checkpoint.consumed /\ checkpoint.pending = NoReview
  <2>1. FALSE \in BOOLEAN /\ NoReview \in Reviews \cup {NoReview}
    OBVIOUS
  <2> QED
    BY <1>6, <2>1, CheckpointFields
<1>8. Save(r, Transitioned(runs[r], "canceled"), checkpoint)
  BY <1>1
<1> HIDE DEF checkpoint
<1>9. /\ runs' \in [Runs -> RunRecord] /\ checkpoints' \in [Runs -> Checkpoint]
      /\ resumeOf' = resumeOf /\ older' \in [Runs -> SUBSET Runs]
      /\ ReviewsAreOwned' /\ (\A q \in Runs : RowOK(q)') /\ ResumedOK'
  BY <1>2, <1>5, <1>6, <1>7, <1>8, RowEnds
<1>10. /\ managers' \in Seq(Manager) /\ Len(managers') = Len(managers)
       /\ DOMAIN managers' = DOMAIN managers /\ IdsAreFree'
  <2>1. new \in Manager /\ \A t \in Reviews : requests[t].run = NoRun => new.next < t
    <3> HIDE DEF m
    <3> QED
      BY <1>4, KnownManager, AnsweredFacts
  <2>2. managers' = [managers EXCEPT ![m] = new]
    BY <1>1
  <2> HIDE DEF new, m
  <2> QED
    BY <1>2, <1>4, <2>1, <2>2, ManagerStep
<1>11. fallback' \in [ReviewIds -> Runs \cup {NoRun}]
  BY <1>1, <1>2 DEF TypeOK
<1>12. command' \in Command /\ CommandOK'
  <2>1. CASE command' = Idle
    BY <1>2, <2>1, Blanks, IdleOK DEF CommandOK
  <2>2. CASE command' = [command EXCEPT !.todo = @ \ {r}]
    <3>1. /\ command' \in Command /\ command'.step = "next" /\ command'.kind = "cancel"
          /\ command'.socket = command.socket
      BY <1>2, <2>2 DEF Command
    <3>2. CommandOK'
      BY <1>2, <1>3, <3>1 DEF CommandOK
    <3> QED
      BY <3>1, <3>2
  <2> QED
    BY <1>1, <2>1, <2>2
<1>13. \A q \in Runs : exec'[q].phase \in Working => exec'[q].mgr \in DOMAIN managers
  BY <1>2 DEF IInv, ManagersExist
<1> QED
  BY <1>2, <1>9, <1>10, <1>11, <1>12, <1>13, LocalsKept, SessionKept, CommandDone DEF TypeOK

LEMMA ReplyStep ==
    ASSUME IInv, NEW s \in Sockets, NEW t \in Reviews, NEW accepted \in BOOLEAN, Reply(s, t, accepted)
    PROVE  IInv'
<1> DEFINE id == requests[t].id
           r == fallback[id]
           m == local[s].mgr
           u == CHOOSE v \in managers[m].pending : requests[v].id = id
           new == Answered(managers[m], {u})
<1>1. /\ TypeOK /\ command = Idle /\ local[s] # NoCoroutine /\ m \in DOMAIN managers
      /\ UNCHANGED <<requests, epoch, session, fallback, task, subscriber, local, exec>>
      /\ requests[t].shown /\ r # NoRun /\ checkpoints[r].pending # NoReview
  BY ReadyFacts DEF Reply, Answerable, IInv
<1>2. r \in Runs
  <2>1. id \in ReviewIds
    BY <1>1, Bounds DEF TypeOK, Request, ReviewIds, Reviews
  <2> QED
    BY <1>1, <2>1 DEF TypeOK
<1>3. checkpoints[r] \in Checkpoint /\ checkpoints[r].pending \in Reviews
  <2> HIDE DEF r
  <2> QED
    BY <1>1, <1>2, RowTypes DEF Checkpoint
<1>4. workspace' \in Contents
  <2>1. requests[checkpoints[r].pending] \in Request
    BY <1>1, <1>3 DEF TypeOK
  <2>2. workspace' = IF accepted THEN Candidate(r) ELSE workspace
    BY DEF Reply
  <2> HIDE DEF r
  <2> QED
    BY <1>1, <2>1, <2>2 DEF Candidate, Request, Contents, TypeOK
<1>5. CASE UNCHANGED <<rows, managers, command>>
  BY <1>1, <1>4, <1>5, LocalsKept, SessionKept, Unmanaged, ConnectionStep DEF TypeOK
<1>6. ASSUME /\ MayTransition(runs[r], "partial", {"waiting_approval"}, runs[r].owner)
             /\ Save(r, Transitioned(runs[r], "partial"), ResolvedCheckpoint(r))
             /\ managers' = [managers EXCEPT ![m] = new]
             /\ command' = [Idle EXCEPT !.kind = "review", !.step = "hook", !.socket = s,
                                        !.parent = r, !.review = t, !.accepted = accepted]
      PROVE  IInv'
  <2> HIDE DEF r, u
  <2>1. runs[r].status = "waiting_approval" /\ "partial" \in Terminal
    BY <1>6 DEF MayTransition, Terminal
  <2>2. ~ checkpoints[r].consumed /\ exec[r].phase \notin Working
    BY <1>2, <2>1 DEF IInv, RowOK, Halted
  <2> DEFINE checkpoint == ResolvedCheckpoint(r)
  <2>3. checkpoint \in Checkpoint /\ ~ checkpoint.consumed /\ checkpoint.pending = NoReview
    <3>1. TRUE \in BOOLEAN /\ NoReview \in Reviews \cup {NoReview}
      OBVIOUS
    <3> QED
      BY <1>3, <2>2, <3>1, CheckpointFields DEF ResolvedCheckpoint
  <2>4. Save(r, Transitioned(runs[r], "partial"), checkpoint)
    BY <1>6
  <2> HIDE DEF checkpoint
  <2>5. /\ runs' \in [Runs -> RunRecord] /\ checkpoints' \in [Runs -> Checkpoint]
        /\ resumeOf' = resumeOf /\ older' \in [Runs -> SUBSET Runs]
        /\ ReviewsAreOwned' /\ (\A q \in Runs : RowOK(q)') /\ ResumedOK'
    BY <1>1, <1>2, <2>1, <2>2, <2>3, <2>4, RowEnds
  <2>6. /\ managers' \in Seq(Manager) /\ Len(managers') = Len(managers)
        /\ DOMAIN managers' = DOMAIN managers /\ IdsAreFree'
    <3>1. new \in Manager /\ \A v \in Reviews : requests[v].run = NoRun => new.next < v
      <4> HIDE DEF m
      <4> QED
        BY <1>1, KnownManager, AnsweredFacts
    <3> HIDE DEF new, m
    <3> QED
      BY <1>1, <1>6, <3>1, ManagerStep
  <2>7. command' = [kind |-> "review", step |-> "hook", socket |-> s, parent |-> r,
                    run |-> NoRun, review |-> t, accepted |-> accepted, todo |-> {}]
    BY <1>6 DEF Idle
  <2>8. command' \in Command
    BY <1>2, <2>7, CommandType
  <2>9. CommandOK'
    <3>1. t # NoReview
      BY Bounds DEF Reviews, NoReview
    <3> QED
      BY <1>1, <2>7, <3>1 DEF IInv, CommandOK
  <2>10. \A q \in Runs : exec'[q].phase \in Working => exec'[q].mgr \in DOMAIN managers
    BY <1>1 DEF IInv, ManagersExist
  <2> QED
    BY <1>1, <1>4, <2>5, <2>6, <2>8, <2>9, <2>10, LocalsKept, SessionKept, CommandDone DEF TypeOK
<1> QED
  BY <1>5, <1>6 DEF Reply


LEMMA StartRunStep == ASSUME IInv, StartRun PROVE IInv'
<1>1. /\ TypeOK /\ CommandOK /\ command.step \in {"compress", "launch"} /\ command \in Command
      /\ UNCHANGED <<workspace, requests, epoch, fallback, task, managers, exec>>
  BY DEF StartRun, IInv, TypeOK
<1>2. command.socket \in Sockets /\ local[command.socket] # NoCoroutine
  BY <1>1, AtAwait
<1>3. CASE Busy
  <2>1. /\ session' = [session EXCEPT !.registered = FALSE] /\ command' = Idle
        /\ UNCHANGED <<rows, local, subscriber>>
    BY <1>3 DEF StartRun
  <2>2. session' \in Session /\ ~ session'.registered
    BY <1>1, <2>1 DEF TypeOK, Session
  <2>3. CommandOK'
    BY <1>1, <2>1, IdleOK DEF CommandOK
  <2> QED
    BY <1>1, <2>1, <2>2, <2>3, Blanks, LocalsKept, ManagersKept, CommandStep DEF TypeOK
<1>4. CASE ~ Busy
  <2> DEFINE old == command.parent
             resumes == command.kind = "chat" /\ old # NoRun
             target == IF runs[old].status = "running" THEN "paused" ELSE runs[old].status
             begun == Claimed(QueuedRun, epoch, 1, 1)
  <2>1. PICK r \in Runs :
          /\ runs[r].status = Absent
          /\ resumeOf' = [resumeOf EXCEPT ![r] = IF resumes THEN old ELSE NoRun]
          /\ IF resumes
             THEN /\ runs' = [runs EXCEPT ![r] = begun, ![old] = Transitioned(@, target)]
                  /\ checkpoints' = [checkpoints EXCEPT ![old].consumed = TRUE]
                  /\ older' = Touched(Touched(older, r, Present), old, Present \cup {r})
             ELSE /\ runs' = [runs EXCEPT ![r] = begun]
                  /\ older' = Touched(older, r, Present)
                  /\ UNCHANGED checkpoints
          /\ session' = [session EXCEPT !.run_owner = epoch, !.idle = FALSE]
          /\ command' = [command EXCEPT !.step = "prepare", !.run = r]
          /\ UNCHANGED <<local, subscriber>>
    BY <1>4 DEF StartRun
  <2>2. epoch \in Owners /\ session.registered
    BY <1>4 DEF Busy, IInv, ManagersExist
  <2>3. begun \in RunRecord /\ begun.status = "running" /\ begun.owner = epoch
    BY <2>2, NewRows
  <2>4. old \in Runs \cup {NoRun} /\ (resumes => old \in Runs /\ MayBeResumed(old))
    BY <1>1 DEF Command, CommandOK
  <2>5. checkpoints[r] = NoCheckpoint /\ exec[r].phase = "none"
    BY <2>1 DEF IInv, RowOK
  <2>6. /\ runs' \in [Runs -> RunRecord] /\ checkpoints' \in [Runs -> Checkpoint]
        /\ older' \in [Runs -> SUBSET Runs] /\ resumeOf' \in [Runs -> Runs \cup {NoRun}]
        /\ runs'[r] = begun /\ checkpoints'[r] = NoCheckpoint
        /\ \A q \in Runs : /\ checkpoints[q].pending # NoReview =>
                                 checkpoints'[q].pending = checkpoints[q].pending
                           /\ checkpoints'[q].pending # NoReview =>
                                 checkpoints'[q].pending = checkpoints[q].pending
        /\ \A q \in Runs : RowOK(q)'
        /\ ResumedOK'
    <3>1. CASE resumes
      <4>1. target = runs[old].status
        BY <2>4, <3>1 DEF MayBeResumed, Halted
      <4>2. /\ runs' = [runs EXCEPT ![r] = begun, ![old] = Transitioned(@, runs[old].status)]
            /\ checkpoints' = [checkpoints EXCEPT ![old].consumed = TRUE]
            /\ older' = Touched(Touched(older, r, Present), old, Present \cup {r})
            /\ resumeOf' = [resumeOf EXCEPT ![r] = old] /\ exec' = exec
        BY <1>1, <2>1, <3>1, <4>1
      <4>3. old \in Runs /\ MayBeResumed(old) /\ runs[r].status = Absent
        BY <2>1, <2>4, <3>1
      <4> HIDE DEF begun, old
      <4> QED
        BY <2>3, <4>2, <4>3, RunResumed
    <3>2. CASE ~ resumes
      <4>1. /\ runs' = [runs EXCEPT ![r] = begun] /\ checkpoints' = checkpoints
            /\ older' = Touched(older, r, Present) /\ resumeOf' = [resumeOf EXCEPT ![r] = NoRun]
        BY <2>1, <3>2
      <4>2. runs[r].status = Absent /\ \A q \in Runs : exec'[q] = exec[q]
        BY <1>1, <2>1
      <4> HIDE DEF begun
      <4>3. /\ runs' \in [Runs -> RunRecord] /\ older' \in [Runs -> SUBSET Runs]
            /\ resumeOf' \in [Runs -> Runs \cup {NoRun}]
            /\ \A q \in Runs : RowOK(q)'
            /\ ResumedOK'
        BY <2>3, <4>1, <4>2, RunAdded
      <4>4. runs'[r] = begun
        BY <1>1, <4>1 DEF TypeOK
      <4> QED
        BY <1>1, <2>5, <4>1, <4>3, <4>4 DEF TypeOK
    <3> QED
      BY <3>1, <3>2
  <2> HIDE DEF begun, old, target
  <2>7. ReviewsAreOwned'
    BY <1>1, <2>6 DEF IInv, ReviewsAreOwned
  <2>8. session' \in Session /\ session'.registered = session.registered
        /\ session'.review_mgr = session.review_mgr
    BY <1>1, <2>1, <2>2 DEF TypeOK, Session
  <2>9. /\ command' \in Command /\ command'.step = "prepare" /\ command'.run = r
        /\ command'.socket = command.socket /\ command'.kind = command.kind
        /\ command'.review = command.review
    BY <1>1, <2>1 DEF Command
  <2>10. CommandOK'
    <3>1. r # NoRun
      BY <2>1, Bounds
    <3>2. /\ exec'[r].phase = "none" /\ runs'[r].status = "running" /\ runs'[r].owner = epoch'
          /\ checkpoints'[r] = NoCheckpoint
      BY <1>1, <2>3, <2>5, <2>6
    <3>3. local'[command'.socket] # NoCoroutine /\ command'.socket \in Sockets
      BY <1>2, <2>1, <2>9
    <3>4. command'.kind = "review" => command'.review # NoReview /\ requests'[command'.review].shown
      BY <1>1, <2>9 DEF CommandOK
    <3>5. task' # NoRun => exec'[task'].owner = epoch' /\ exec'[task'].phase # "none"
      BY <1>1 DEF CommandOK
    <3> QED
      BY <2>9, <3>1, <3>2, <3>3, <3>4, <3>5 DEF CommandOK
  <2>11. \A q \in Runs : exec'[q].phase \in Working => exec'[q].mgr \in DOMAIN managers
    BY <1>1 DEF IInv, ManagersExist
  <2> QED
    BY <1>1, <2>1, <2>6, <2>7, <2>8, <2>9, <2>10, <2>11, LocalsKept, Unmanaged, CommandDone DEF TypeOK
<1> QED
  BY <1>3, <1>4

-----------------------------------------------------------------------------
(* The invariant. *)

LEMMA StutterStep == ASSUME IInv, UNCHANGED vars PROVE IInv'
<1>1. UNCHANGED <<runs, checkpoints, resumeOf, older, workspace, requests, epoch, session,
                  fallback, task, subscriber, local, managers, exec, command>>
  BY DEF vars, durable, process, rows
<1>2. TypeOK'
  BY <1>1 DEF IInv, TypeOK
<1>3. ManagersExist' /\ IdsAreFree' /\ ReviewsAreOwned'
  BY <1>1 DEF IInv, ManagersExist, IdsAreFree, ReviewsAreOwned
<1>4. (\A r \in Runs : RowOK(r))' /\ ResumedOK'
  BY <1>1 DEF IInv, RowOK, ResumedOK, ResumedOnce, Present
<1>5. CommandOK'
  BY <1>1 DEF IInv, CommandOK, MayBeResumed
<1> QED
  BY <1>2, <1>3, <1>4, <1>5 DEF IInv

LEMMA Inductive == ASSUME IInv, [Next]_vars PROVE IInv'
<1>1. ASSUME NEW s \in Sockets, Connect(s) \/ ConnectFresh(s) \/ Attach(s) \/ Disconnect(s)
      PROVE  IInv'
  BY <1>1, ConnectStep, ConnectFreshStep, AttachStep, DisconnectStep
<1>2. ASSUME NEW s \in Sockets, Chat(s) \/ StopKeepsReviews(s) \/ Stop(s) \/ CancelReviews(s)
      PROVE  IInv'
  BY <1>2, ChatStep, StopKeepsReviewsStep, StopStep, CancelReviewsStep
<1>3. ASSUME NEW s \in Sockets, NEW t \in Reviews,
             Reply(s, t, TRUE) \/ Reply(s, t, FALSE) \/ ReplyToLive(s, t) \/ CrashInAccept(s, t)
      PROVE  IInv'
  BY <1>3, ReplyStep, ReplyToLiveStep, CrashInAcceptStep
<1>4. ASSUME LoseSubscriber \/ TimePasses \/ UserEdits PROVE IInv'
  BY <1>4, LoseSubscriberStep, TimePassesStep, UserEditsStep
<1>5. ASSUME CreateAgent \/ CreateAgentFails \/ StartRun \/ TaskCreated \/ PrepareFails PROVE IInv'
  BY <1>5, CreateAgentStep, CreateAgentFailsStep, StartRunStep, TaskCreatedStep, PrepareFailsStep
<1>6. ASSUME StopEnds \/ CancelNext \/ ReplyContinues PROVE IInv'
  BY <1>6, StopEndsStep, CancelNextStep, ReplyContinuesStep
<1>7. ASSUME NEW r \in Runs, ExecBegins(r) \/ ExecEdits(r) \/ ExecAsks(r) \/ ExecSuspends(r)
                                \/ ExecSuspendFails(r) \/ ExecCommits(r) \/ ExecSucceeds(r)
      PROVE  IInv'
  BY <1>7, ExecBeginsStep, ExecEditsStep, ExecAsksStep, ExecSuspendsStep, ExecSuspendFailsStep,
     ExecCommitsStep, ExecSucceedsStep
<1>8. ASSUME NEW r \in Runs, ExecIsRefused(r) \/ ExecRollsBack(r) \/ ExecEndsRejected(r)
                                \/ ExecFails(r) \/ ExecEnds(r) \/ CrashInStart(r)
      PROVE  IInv'
  BY <1>8, ExecIsRefusedStep, ExecRollsBackStep, ExecEndsRejectedStep, ExecFailsStep, ExecEndsStep,
     CrashInStartStep
<1>9. ASSUME Crash PROVE IInv'
  BY <1>9, CrashStep DEF Crash, durable, IInv, TypeOK
<1> QED
  BY <1>1, <1>2, <1>3, <1>4, <1>5, <1>6, <1>7, <1>8, <1>9, StutterStep DEF Next

LEMMA Invariance == Spec => []IInv
<1>1. Init => IInv
  BY InitIInv
<1>2. IInv /\ [Next]_vars => IInv'
  BY Inductive
<1> QED
  BY <1>1, <1>2, PTL DEF Spec

-----------------------------------------------------------------------------
(* The theorems. *)

\* Every variable stays in its type: a reply or a stop never finds a manager, a
\* run or a review that is not there (chat_session.py, agent_execution.py).
THEOREM SessionTypeOK == Spec => []TypeOK
<1>1. IInv => TypeOK
  BY DEF IInv
<1> QED
  BY <1>1, Invariance, PTL

\* A row waits exactly while its checkpoint holds the review to show again; what
\* an agent works on is a running row of the session object that started it, so
\* the store refuses none of its writes; what was resumed has stopped for good.
THEOREM SessionRows == Spec => []RowsTellTheWork
<1>1. ASSUME IInv PROVE RowsTellTheWork
  <2>1. PendingIffWaiting
    BY <1>1 DEF IInv, RowOK, PendingIffWaiting
  <2>2. WorkIsRecorded
    BY <1>1 DEF IInv, RowOK, WorkIsRecorded
  <2>3. ResumedHasStopped
    BY <1>1 DEF IInv, RowOK, ResumedHasStopped, Halted
  <2> QED
    BY <2>1, <2>2, <2>3 DEF RowsTellTheWork
<1> QED
  BY <1>1, Invariance, PTL

\* An interrupted run is resumed by at most one later run, also when the process
\* dies between writing the new row and consuming the old one (_start_run).
THEOREM SessionResumedOnce == Spec => []ResumedOnce
<1>1. IInv => ResumedOnce
  BY DEF IInv, ResumedOK
<1> QED
  BY <1>1, Invariance, PTL


-----------------------------------------------------------------------------
(* What a step may do to the rows. *)

Written(q, target) == runs' = [runs EXCEPT ![q] = Transitioned(runs[q], target)]

\* A row at work goes on, waits, is paused or ends.
WorkStep(q) ==
    /\ runs[q].status = "running"
    /\ \E target \in {"running", "waiting_approval", "paused"} \cup Terminal : Written(q, target)

\* A row that waits is canceled or replied to by the user.
DecisionStep(q) ==
    /\ runs[q].status = "waiting_approval"
    /\ \/ Written(q, "canceled") /\ command.kind = "cancel"
       \/ Written(q, "partial") /\ command'.kind = "review" /\ command'.parent = q

\* A new row appears, queued or claimed, and the one it resumes is written again.
StartStep(q) ==
    /\ runs[q].status = Absent /\ epoch \in Owners
    /\ \/ runs' = [runs EXCEPT ![q] = QueuedRun]
       \/ runs' = [runs EXCEPT ![q] = Claimed(QueuedRun, epoch, 1, 1)]
       \/ \E old \in Runs :
             /\ runs[old].status \in Halted
             /\ runs' = [runs EXCEPT ![q] = Claimed(QueuedRun, epoch, 1, 1),
                                     ![old] = Transitioned(runs[old], runs[old].status)]

\* transition() writes its row or nothing.
LEMMA TriedRow ==
    ASSUME NEW q \in Runs, NEW target, NEW expected, NEW owner, NEW checkpoint,
           TrySave(q, target, expected, owner, checkpoint)
    PROVE  runs' = runs \/ Written(q, target)
BY DEF TrySave, Save, rows, Written

LEMMA TaskRowStep ==
    ASSUME IInv, NEW q \in Runs,
           \/ ExecBegins(q) \/ ExecEdits(q) \/ ExecAsks(q) \/ ExecSuspends(q) \/ ExecSuspendFails(q)
           \/ ExecCommits(q) \/ ExecSucceeds(q) \/ ExecIsRefused(q) \/ ExecRollsBack(q)
           \/ ExecEndsRejected(q) \/ ExecFails(q) \/ ExecEnds(q)
    PROVE  runs' = runs \/ WorkStep(q)
<1>1. exec[q].phase \in Working => runs[q].status = "running"
  BY DEF IInv, RowOK
<1>2. /\ "succeeded" \in Terminal /\ "partial" \in Terminal /\ "failed" \in Terminal
  BY DEF Terminal
<1>3. CASE ExecBegins(q)
  BY <1>1, <1>3, TriedRow DEF ExecBegins, Working, WorkStep
<1>4. CASE ExecSuspends(q)
  BY <1>1, <1>4, TriedRow DEF ExecSuspends, Working, WorkStep
<1>5. CASE ExecSucceeds(q)
  BY <1>1, <1>2, <1>5, TriedRow DEF ExecSucceeds, Working, WorkStep
<1>6. CASE ExecEndsRejected(q)
  BY <1>1, <1>2, <1>6, TriedRow DEF ExecEndsRejected, Working, WorkStep
<1>7. CASE ExecFails(q)
  BY <1>1, <1>2, <1>7, TriedRow DEF ExecFails, Working, WorkStep
<1>8. CASE ExecEdits(q) \/ ExecAsks(q) \/ ExecSuspendFails(q) \/ ExecCommits(q) \/ ExecIsRefused(q)
           \/ ExecRollsBack(q) \/ ExecEnds(q)
  BY <1>8 DEF ExecEdits, ExecAsks, ExecSuspendFails, ExecCommits, ExecIsRefused, ExecRollsBack,
              ExecEnds, durable, rows
<1> QED
  BY <1>3, <1>4, <1>5, <1>6, <1>7, <1>8

LEMMA StartRowStep ==
    ASSUME IInv, StartRun \/ \E q \in Runs : CrashInStart(q)
    PROVE  runs' = runs \/ \E q \in Runs : StartStep(q)
<1>1. CommandOK /\ command \in Command
  BY DEF IInv, TypeOK
<1>2. CASE StartRun /\ Busy
  BY <1>2 DEF StartRun, rows
<1>3. CASE StartRun /\ ~ Busy
  <2> DEFINE old == command.parent
             resumes == command.kind = "chat" /\ old # NoRun
             target == IF runs[old].status = "running" THEN "paused" ELSE runs[old].status
  <2>1. PICK q \in Runs :
          /\ runs[q].status = Absent
          /\ \/ resumes /\ runs' = [runs EXCEPT ![q] = Claimed(QueuedRun, epoch, 1, 1),
                                                ![old] = Transitioned(@, target)]
             \/ runs' = [runs EXCEPT ![q] = Claimed(QueuedRun, epoch, 1, 1)]
    BY <1>3 DEF StartRun
  <2>2. epoch \in Owners
    BY <1>3 DEF Busy, IInv, ManagersExist
  <2>3. resumes => old \in Runs /\ runs[old].status \in Halted
    BY <1>1, <1>3 DEF StartRun, CommandOK, Command, MayBeResumed
  <2>4. resumes => target = runs[old].status /\ old # q
    BY <2>1, <2>3 DEF Halted, Absent
  <2> HIDE DEF old, target
  <2>5. CASE resumes /\ runs' = [runs EXCEPT ![q] = Claimed(QueuedRun, epoch, 1, 1),
                                             ![old] = Transitioned(@, target)]
    <3>1. runs' = [runs EXCEPT ![q] = Claimed(QueuedRun, epoch, 1, 1),
                               ![old] = Transitioned(runs[old], runs[old].status)]
      BY <2>3, <2>4, <2>5 DEF IInv, TypeOK
    <3> QED
      BY <2>1, <2>2, <2>3, <2>5, <3>1 DEF StartStep
  <2> QED
    BY <2>1, <2>2, <2>5 DEF StartStep
<1>4. ASSUME NEW q \in Runs, CrashInStart(q) PROVE StartStep(q)
  BY <1>4 DEF CrashInStart, Busy, IInv, ManagersExist, StartStep
<1> QED
  BY <1>2, <1>3, <1>4

\* The other commands, connections and crashes.
LEMMA CommandRowStep ==
    ASSUME IInv,
           \/ \E s \in Sockets :
                 \/ Connect(s) \/ ConnectFresh(s) \/ Attach(s) \/ Disconnect(s)
                 \/ Chat(s) \/ StopKeepsReviews(s) \/ Stop(s) \/ CancelReviews(s)
                 \/ \E t \in Reviews :
                       \/ Reply(s, t, TRUE) \/ Reply(s, t, FALSE) \/ ReplyToLive(s, t)
                       \/ CrashInAccept(s, t)
           \/ LoseSubscriber \/ TimePasses \/ UserEdits
           \/ CreateAgent \/ CreateAgentFails \/ TaskCreated \/ PrepareFails
           \/ StopEnds \/ CancelNext \/ ReplyContinues \/ Crash
    PROVE  runs' = runs \/ \E q \in Runs : WorkStep(q) \/ DecisionStep(q)
<1>1. TypeOK /\ CommandOK /\ command \in Command
  BY DEF IInv, TypeOK
<1>2. ASSUME NEW s \in Sockets,
             \/ Connect(s) \/ ConnectFresh(s) \/ Attach(s) \/ Disconnect(s)
             \/ Chat(s) \/ StopKeepsReviews(s) \/ Stop(s) \/ CancelReviews(s)
      PROVE  runs' = runs
  BY <1>2 DEF Connect, ConnectFresh, Attach, Disconnect, Chat, StopKeepsReviews, Stop, CancelReviews,
              durable, rows
<1>3. ASSUME NEW s \in Sockets, NEW t \in Reviews, ReplyToLive(s, t) \/ CrashInAccept(s, t)
      PROVE  runs' = runs
  BY <1>3 DEF ReplyToLive, CrashInAccept, durable, rows
<1>4. ASSUME NEW s \in Sockets, NEW t \in Reviews, NEW accepted \in BOOLEAN, Reply(s, t, accepted)
      PROVE  runs' = runs \/ \E q \in Runs : DecisionStep(q)
  <2> DEFINE q == fallback[requests[t].id]
  <2>1. \/ runs' = runs
        \/ /\ MayTransition(runs[q], "partial", {"waiting_approval"}, runs[q].owner)
           /\ Written(q, "partial")
           /\ command' = [Idle EXCEPT !.kind = "review", !.step = "hook", !.socket = s,
                                      !.parent = q, !.review = t, !.accepted = accepted]
    BY <1>4, Zenon DEF Reply, Save, rows, Written
  <2>2. q \in Runs
    <3>1. requests[t].id \in ReviewIds
      BY <1>1, Bounds DEF TypeOK, Request, ReviewIds, Reviews
    <3>2. q # NoRun
      BY <1>4 DEF Reply, Answerable
    <3> QED
      BY <1>1, <3>1, <3>2 DEF TypeOK
  <2> HIDE DEF q
  <2> QED
    BY <2>1, <2>2 DEF MayTransition, DecisionStep, Idle
<1>5. ASSUME \/ LoseSubscriber \/ TimePasses \/ UserEdits \/ CreateAgent \/ CreateAgentFails
             \/ TaskCreated \/ ReplyContinues \/ Crash
      PROVE  runs' = runs
  BY <1>5 DEF LoseSubscriber, TimePasses, UserEdits, CreateAgent, CreateAgentFails, TaskCreated,
              ReplyContinues, Crash, durable, rows
<1>6. ASSUME CancelNext PROVE \E q \in Runs : DecisionStep(q)
  <2>1. PICK q \in command.todo \cap Cancelable : Written(q, "canceled")
    BY <1>6 DEF CancelNext, Save, Written
  <2>2. q \in Runs /\ runs[q].status = "waiting_approval"
    BY DEF Cancelable, MayTransition
  <2>3. command.kind = "cancel"
    BY <1>1, <1>6 DEF CancelNext, CommandOK
  <2> QED
    BY <2>1, <2>2, <2>3 DEF DecisionStep
<1>7. ASSUME PrepareFails PROVE runs' = runs \/ \E q \in Runs : WorkStep(q)
  <2>1. command.run \in Runs /\ runs[command.run].status = "running" /\ "failed" \in Terminal
    BY <1>1, <1>7 DEF PrepareFails, CommandOK, Command, Terminal
  <2> QED
    BY <1>7, <2>1, TriedRow DEF PrepareFails, WorkStep
<1>8. ASSUME StopEnds PROVE runs' = runs \/ \E q \in Runs : WorkStep(q)
  <2>1. command.run \in Runs
    BY <1>1, <1>8 DEF StopEnds, CommandOK, Command
  <2>2. exec[command.run].phase \in Working => runs[command.run].status = "running"
    BY <2>1 DEF IInv, RowOK
  <2>3. CASE exec[command.run].phase \in Working \ {"created"}
    BY <1>8, <2>1, <2>2, <2>3, TriedRow DEF StopEnds, Working, WorkStep
  <2>4. CASE exec[command.run].phase \notin Working \ {"created"}
    BY <1>8, <2>4 DEF StopEnds, rows
  <2> QED
    BY <2>3, <2>4
<1> QED
  BY <1>2, <1>3, <1>4, <1>5, <1>6, <1>7, <1>8

LEMMA RowStep ==
    ASSUME IInv, [Next]_vars
    PROVE  runs' = runs \/ \E q \in Runs : WorkStep(q) \/ DecisionStep(q) \/ StartStep(q)
<1>1. CASE UNCHANGED vars
  BY <1>1 DEF vars, durable, rows
<1> QED
  BY <1>1, TaskRowStep, StartRowStep, CommandRowStep DEF Next


\* A row that waits is written by the user's two commands alone.
LEMMA UserDecidesStep ==
    ASSUME IInv, [Next]_vars, NEW r \in Runs, runs[r].status = "waiting_approval", runs'[r] # runs[r]
    PROVE  \/ command.kind = "cancel" /\ runs'[r].status = "canceled"
           \/ command'.kind = "review" /\ command'.parent = r
<1>1. runs \in [Runs -> RunRecord] /\ runs[r] \in RunRecord
  BY RowTypes DEF IInv, TypeOK
<1>2. PICK q \in Runs : WorkStep(q) \/ DecisionStep(q) \/ StartStep(q)
  BY RowStep
<1>3. CASE WorkStep(q)
  BY <1>1, <1>3 DEF WorkStep, Written
<1>4. CASE StartStep(q)
  BY <1>1, <1>4 DEF StartStep, Halted, Absent
<1>5. CASE DecisionStep(q)
  <2>1. q = r
    BY <1>1, <1>5 DEF DecisionStep, Written
  <2>2. Written(r, "canceled") => runs'[r].status = "canceled"
    BY <1>1, TransitionedFields DEF Written
  <2> QED
    BY <1>5, <2>1, <2>2 DEF DecisionStep
<1> QED
  BY <1>2, <1>3, <1>4, <1>5

-----------------------------------------------------------------------------
(* What a step changes in the project, and what it leaves.                  *)

\* What may become of the execution task of r.
TaskMoves(r) ==
    \/ exec'[r] = exec[r]
    \/ AllLost
    \/ TaskCreated /\ command.run = r
    \/ ExecEdits(r)
    \/ /\ exec'[r].edited = exec[r].edited /\ exec'[r].base = exec[r].base
       /\ exec[r].phase # "none" /\ exec'[r].phase # "none" /\ exec'[r].phase # exec[r].phase
       /\ exec'[r].phase \in Working => exec[r].phase \in Working
       /\ exec'[r].phase = "rejected" => ExecRollsBack(r)

\* A command begins to prepare r only if r is new; r gets a pending review only
\* by its own suspension.
RunKept(r) ==
    /\ command'.step = "prepare" /\ command'.run = r =>
          \/ command.step = "prepare" /\ command.run = r
          \/ runs[r].status = Absent
    /\ checkpoints'[r].pending # NoReview =>
          checkpoints'[r].pending = checkpoints[r].pending \/ ExecSuspends(r)

\* The candidate of q, accepted by the user or by a process that died doing so.
Applied(q) ==
    /\ checkpoints[q].pending # NoReview /\ workspace = requests[checkpoints[q].pending].base
    /\ \/ AllLost
       \/ /\ command'.kind = "review" /\ command'.accepted
          /\ command'.review \in Reviews /\ fallback[requests[command'.review].id] = q

Withdrawn(q) ==
    /\ ExecSuspends(q) \/ ExecRollsBack(q)
    /\ exec[q].edited /\ workspace = exec[q].base \cup {q} /\ workspace' = exec[q].base

ProjectMoves ==
    \/ workspace' = workspace
    \/ UserEdits
    \/ \E q \in Runs : ExecEdits(q)
    \/ \E q \in Runs : Withdrawn(q)
    \/ \E q \in Runs : Applied(q) /\ workspace' = workspace \cup {q}

ReviewsKept == requests' = requests \/ \E q \in Runs : ExecAsks(q) \/ ExecSuspends(q)

\* A reply leaves its decision with the command.
ReplyIsDone ==
    command = Idle /\ command'.kind = "review" =>
        /\ command'.parent \in Runs
        /\ workspace' = IF command'.accepted THEN Candidate(command'.parent) ELSE workspace

Frames == ProjectMoves /\ ReviewsKept /\ ReplyIsDone /\ \A r \in Runs : TaskMoves(r) /\ RunKept(r)

LEMMA QuietFrames ==
    ASSUME IInv, UNCHANGED <<workspace, requests, exec, checkpoints>>,
           command'.step = "prepare" => command' = command,
           command = Idle => command'.kind # "review"
    PROVE  Frames
BY DEF Frames, ProjectMoves, ReviewsKept, ReplyIsDone, TaskMoves, RunKept

LEMMA ConnectionFrames ==
    ASSUME IInv,
           \/ \E s \in Sockets :
                 \/ Connect(s) \/ ConnectFresh(s) \/ Attach(s) \/ Disconnect(s)
                 \/ Chat(s) \/ StopKeepsReviews(s) \/ Stop(s) \/ CancelReviews(s)
                 \/ \E t \in Reviews : ReplyToLive(s, t)
           \/ LoseSubscriber \/ TimePasses \/ CreateAgent \/ CreateAgentFails \/ ReplyContinues
    PROVE  Frames
<1>1. TypeOK /\ CommandOK /\ command \in Command
  BY DEF IInv, TypeOK
<1>2. ASSUME NEW s \in Sockets,
             \/ Connect(s) \/ ConnectFresh(s) \/ Attach(s) \/ Disconnect(s) \/ StopKeepsReviews(s)
             \/ \E t \in Reviews : ReplyToLive(s, t)
      PROVE  /\ UNCHANGED <<workspace, requests, exec, checkpoints>>
             /\ command' = command
  BY <1>2 DEF Connect, ConnectFresh, Attach, Disconnect, StopKeepsReviews, ReplyToLive, durable, rows
<1>3. ASSUME NEW s \in Sockets, Chat(s) PROVE Frames
  <2>1. command'.step # "prepare" /\ command'.kind = "chat"
    BY <1>3, Zenon DEF Chat, Idle
  <2> QED
    BY <1>3, <2>1, QuietFrames DEF Chat, durable, rows
<1>4. ASSUME NEW s \in Sockets, Stop(s) \/ CancelReviews(s) PROVE Frames
  <2>1. command' = command \/ (command'.step # "prepare" /\ command'.kind # "review")
    BY <1>4 DEF Stop, CancelReviews, Idle
  <2>2. UNCHANGED <<workspace, requests, exec, checkpoints>>
    BY <1>4 DEF Stop, CancelReviews, durable, rows
  <2>3. Idle.kind # "review"
    BY DEF Idle
  <2>4. command'.step = "prepare" => command' = command
    BY <2>1
  <2>5. command = Idle => command'.kind # "review"
    BY <2>1, <2>3
  <2> QED
    BY <2>2, <2>4, <2>5, QuietFrames
<1>5. ASSUME LoseSubscriber \/ TimePasses
      PROVE  /\ UNCHANGED <<workspace, requests, exec, checkpoints>>
             /\ command' = command
  BY <1>5 DEF LoseSubscriber, TimePasses, durable, rows
<1>6. ASSUME CreateAgent \/ CreateAgentFails \/ ReplyContinues PROVE Frames
  <2>1. command'.step # "prepare" /\ command # Idle
    <3>1. command.step # "" /\ Idle.step = ""
      BY <1>6 DEF CreateAgent, CreateAgentFails, ReplyContinues, Idle
    <3>2. PICK step \in {"compress", "launch", "create"} :
             command' = Idle \/ command' = [command EXCEPT !.step = step]
      BY <1>6, Zenon DEF CreateAgent, CreateAgentFails, ReplyContinues
    <3>3. command'.step # "prepare"
      BY <1>1, <3>1, <3>2 DEF Command
    <3> QED
      BY <3>1, <3>3
  <2>2. UNCHANGED <<workspace, requests, exec, checkpoints>>
    BY <1>6 DEF CreateAgent, CreateAgentFails, ReplyContinues, durable, rows
  <2> QED
    BY <2>1, <2>2, QuietFrames
<1>7. Idle.kind # "review"
  BY DEF Idle
<1>8. ASSUME UNCHANGED <<workspace, requests, exec, checkpoints, command>> PROVE Frames
  BY <1>7, <1>8, QuietFrames
<1> QED
  BY <1>2, <1>3, <1>4, <1>5, <1>6, <1>8

\* A waiting row may be ended by the reply.
LEMMA DecisionTransition ==
    ASSUME NEW row, row.status = "waiting_approval"
    PROVE  MayTransition(row, "partial", {"waiting_approval"}, row.owner)
BY DEF MayTransition, Absent, Successors, Statuses, Terminal

\* A reply, or a crash in one.
LEMMA DecisionFrames ==
    ASSUME IInv, NEW s \in Sockets, NEW t \in Reviews,
           Reply(s, t, TRUE) \/ Reply(s, t, FALSE) \/ CrashInAccept(s, t)
    PROVE  Frames
<1> DEFINE q == fallback[requests[t].id]
<1>1. TypeOK /\ requests' = requests
  BY DEF IInv, Reply, CrashInAccept
<1>2. q # NoRun /\ checkpoints[q].pending # NoReview
  BY DEF Reply, CrashInAccept, Answerable
<1>3. q \in Runs
  <2>1. requests[t].id \in ReviewIds
    BY <1>1, Bounds DEF TypeOK, Request, ReviewIds, Reviews
  <2> QED
    BY <1>1, <1>2, <2>1 DEF TypeOK
<1>4. requests[checkpoints[q].pending].run = q
  <2> HIDE DEF q
  <2> QED
    BY <1>2, <1>3 DEF IInv, ReviewsAreOwned
<1>5. CASE CrashInAccept(s, t)
  <2>1. AllLost /\ Applies(q) /\ workspace' = Candidate(q) /\ UNCHANGED rows
    BY <1>5 DEF CrashInAccept
  <2> HIDE DEF q
  <2>2. ProjectMoves
    BY <1>2, <1>3, <1>4, <2>1 DEF ProjectMoves, Applied, Applies, Candidate
  <2>3. command'.kind = "idle" /\ command'.step = "" /\ checkpoints' = checkpoints
    BY <2>1 DEF AllLost, Idle, rows
  <2> QED
    BY <1>1, <2>1, <2>2, <2>3 DEF Frames, ReviewsKept, ReplyIsDone, TaskMoves, RunKept
<1>6. ASSUME NEW accepted \in BOOLEAN, Reply(s, t, accepted) PROVE Frames
  <2>1. /\ exec' = exec /\ command = Idle /\ (accepted => Applies(q))
        /\ workspace' = IF accepted THEN Candidate(q) ELSE workspace
    BY <1>6 DEF Reply, Ready
  <2>2. \/ UNCHANGED <<rows, command>> /\ ~ MayTransition(runs[q], "partial", {"waiting_approval"}, runs[q].owner)
        \/ /\ checkpoints' = [checkpoints EXCEPT ![q] = ResolvedCheckpoint(q)]
           /\ command' = [Idle EXCEPT !.kind = "review", !.step = "hook", !.socket = s,
                                      !.parent = q, !.review = t, !.accepted = accepted]
    BY <1>6, Zenon DEF Reply, Save
  <2> HIDE DEF q
  <2>3. MayTransition(runs[q], "partial", {"waiting_approval"}, runs[q].owner)
    <3>1. runs[q].status = "waiting_approval"
      BY <1>2, <1>3 DEF IInv, RowOK
    <3> QED
      BY <3>1, DecisionTransition
  <2>4. /\ command'.kind = "review" /\ command'.step = "hook" /\ command'.parent = q
        /\ command'.review = t /\ command'.accepted = accepted
    BY <2>2, <2>3 DEF Idle
  <2>5. ASSUME NEW r \in Runs
        PROVE  checkpoints'[r].pending # NoReview => checkpoints'[r].pending = checkpoints[r].pending
    <3>1. ResolvedCheckpoint(q).pending = NoReview
      BY <1>1, <1>3, RowTypes DEF ResolvedCheckpoint, Checkpoint
    <3>2. checkpoints' = [checkpoints EXCEPT ![q] = ResolvedCheckpoint(q)]
      BY <2>2, <2>3
    <3> QED
      BY <1>1, <1>3, <3>1, <3>2 DEF TypeOK
  <2>6. ProjectMoves
    <3>1. CASE ~ accepted
      BY <2>1, <3>1 DEF ProjectMoves
    <3>2. CASE accepted
      <4>1. Applied(q)
        BY <1>2, <2>1, <2>4, <3>2 DEF Applied, Applies, q
      <4>2. workspace' = workspace \cup {q}
        BY <1>4, <2>1, <3>2 DEF Applies, Candidate
      <4> QED
        BY <1>3, <4>1, <4>2 DEF ProjectMoves
    <3> QED
      BY <3>1, <3>2
  <2>7. ReplyIsDone
    BY <1>3, <2>1, <2>4 DEF ReplyIsDone
  <2> QED
    BY <1>1, <2>1, <2>4, <2>5, <2>6, <2>7 DEF Frames, ReviewsKept, TaskMoves, RunKept
<1> QED
  BY <1>5, <1>6

\* The other commands, and crashes.
LEMMA CommandFrames ==
    ASSUME IInv, \/ StartRun \/ TaskCreated \/ PrepareFails \/ StopEnds \/ CancelNext \/ Crash
                 \/ \E q \in Runs : CrashInStart(q)
    PROVE  Frames
<1>1. TypeOK /\ CommandOK /\ command \in Command
  BY DEF IInv, TypeOK
<1>2. CASE StartRun
  <2>1. UNCHANGED <<workspace, requests, exec>> /\ command # Idle
    <3>1. command.step # "" /\ Idle.step = ""
      BY <1>2 DEF StartRun, Idle
    <3> QED
      BY <1>2, <3>1, Zenon DEF StartRun
  <2>2. ASSUME NEW r \in Runs PROVE RunKept(r)
    <3>1. CASE Busy
      <4>1. command' = Idle /\ checkpoints' = checkpoints
        BY <1>2, <3>1, Zenon DEF StartRun, rows
      <4> QED
        BY <4>1 DEF RunKept, Idle
    <3>2. CASE ~ Busy
      <4>1. PICK q \in Runs :
              /\ runs[q].status = Absent
              /\ \/ checkpoints' = [checkpoints EXCEPT ![command.parent].consumed = TRUE]
                 \/ checkpoints' = checkpoints
              /\ command' = [command EXCEPT !.step = "prepare", !.run = q]
        BY <1>2, <3>2, Zenon DEF StartRun
      <4>2. command'.run = q
        BY <1>1, <4>1 DEF Command
      <4>3. checkpoints'[r].pending = checkpoints[r].pending
        BY <1>1, <4>1, RowTypes DEF TypeOK, Checkpoint
      <4> QED
        BY <4>1, <4>2, <4>3 DEF RunKept
    <3> QED
      BY <3>1, <3>2
  <2> QED
    BY <2>1, <2>2 DEF Frames, ProjectMoves, ReviewsKept, ReplyIsDone, TaskMoves
<1>3. CASE TaskCreated
  <2>1. /\ UNCHANGED <<workspace, requests, checkpoints>> /\ command' = Idle
        /\ \A r \in Runs : r # command.run => exec'[r] = exec[r]
    BY <1>1, <1>3 DEF TaskCreated, durable, rows, TypeOK
  <2> QED
    BY <1>3, <2>1 DEF Frames, ProjectMoves, ReviewsKept, ReplyIsDone, TaskMoves, RunKept, Idle
<1>4. CASE PrepareFails
  <2>1. /\ UNCHANGED <<workspace, requests, exec>> /\ command' = Idle
        /\ \/ checkpoints' = checkpoints
           \/ checkpoints' = [checkpoints EXCEPT ![command.run] = checkpoints[command.run]]
    BY <1>4 DEF PrepareFails, TrySave, Save, rows
  <2>2. checkpoints' = checkpoints
    BY <1>1, <2>1 DEF TypeOK
  <2> QED
    BY <2>1, <2>2, QuietFrames DEF Idle
<1>5. CASE StopEnds
  <2> DEFINE p == command.run
  <2>1. /\ UNCHANGED <<workspace, requests>> /\ command' = Idle
        /\ exec' = [exec EXCEPT ![p].phase = "done"]
        /\ \/ checkpoints' = checkpoints
           \/ checkpoints' = [checkpoints EXCEPT ![p] = [checkpoints[p] EXCEPT !.written = TRUE, !.resume = TRUE]]
    BY <1>5 DEF StopEnds, TrySave, Save, rows
  <2>2. p \in Runs /\ exec[p].phase # "none"
    BY <1>1, <1>5 DEF StopEnds, CommandOK, Command
  <2> HIDE DEF p
  <2>3. ASSUME NEW r \in Runs PROVE TaskMoves(r)
    <3>1. r # p => exec'[r] = exec[r]
      BY <1>1, <2>1 DEF TypeOK
    <3>2. /\ exec'[p].edited = exec[p].edited /\ exec'[p].base = exec[p].base /\ exec'[p].phase = "done"
          /\ exec[p].phase = "done" => exec'[p] = exec[p]
      BY <1>1, <2>1, <2>2 DEF TypeOK, Execution
    <3> QED
      BY <2>2, <3>1, <3>2 DEF TaskMoves, Working
  <2>4. ASSUME NEW r \in Runs PROVE checkpoints'[r].pending = checkpoints[r].pending
    <3>1. checkpoints[p] \in Checkpoint /\ checkpoints \in [Runs -> Checkpoint]
      BY <1>1, <2>2 DEF TypeOK
    <3>2. [checkpoints[p] EXCEPT !.written = TRUE, !.resume = TRUE].pending = checkpoints[p].pending
      BY <3>1 DEF Checkpoint
    <3> QED
      BY <2>1, <2>2, <3>1, <3>2
  <2> QED
    BY <2>1, <2>3, <2>4 DEF Frames, ProjectMoves, ReviewsKept, ReplyIsDone, RunKept, Idle
<1>6. CASE CancelNext
  <2>1. PICK p \in command.todo \cap Cancelable :
          /\ checkpoints' = [checkpoints EXCEPT ![p] = [checkpoints[p] EXCEPT !.pending = NoReview, !.resume = FALSE]]
          /\ command' = IF command.todo = {p} THEN Idle ELSE [command EXCEPT !.todo = @ \ {p}]
    BY <1>6 DEF CancelNext, Save
  <2>2. UNCHANGED <<workspace, requests, exec>> /\ command.step = "next" /\ command # Idle
    <3>1. command.step = "next" /\ Idle.step = ""
      BY <1>6 DEF CancelNext, Idle
    <3> QED
      BY <1>6, <3>1, Zenon DEF CancelNext
  <2>3. p \in Runs
    BY DEF Cancelable
  <2>4. ASSUME NEW r \in Runs
        PROVE  checkpoints'[r].pending # NoReview => checkpoints'[r].pending = checkpoints[r].pending
    BY <1>1, <2>1, <2>3, RowTypes DEF TypeOK, Checkpoint
  <2>5. command'.step # "prepare"
    BY <1>1, <2>1, <2>2 DEF Idle, Command
  <2> QED
    BY <2>2, <2>4, <2>5 DEF Frames, ProjectMoves, ReviewsKept, ReplyIsDone, TaskMoves, RunKept
<1>7. CASE Crash \/ \E q \in Runs : CrashInStart(q)
  <2>1. AllLost /\ UNCHANGED <<workspace, requests, checkpoints>>
    BY <1>7 DEF Crash, CrashInStart, durable, rows
  <2> QED
    BY <2>1 DEF AllLost, Frames, ProjectMoves, ReviewsKept, ReplyIsDone, TaskMoves, RunKept, Idle
<1> QED
  BY <1>2, <1>3, <1>4, <1>5, <1>6, <1>7

LEMMA NoReply == ASSUME command' = command PROVE ReplyIsDone
<1>1. Idle.kind # "review"
  BY DEF Idle
<1> QED
  BY <1>1 DEF ReplyIsDone

\* The steps of a task but its rollback, its edits and its request for a review.
LEMMA MoveFrames ==
    ASSUME IInv, NEW q \in Runs, NEW phase \in Phases \ {"none", "rejected"},
           exec[q].phase # "none", exec[q].phase # phase, phase \in Working => exec[q].phase \in Working,
           exec' = [exec EXCEPT ![q].phase = phase],
           UNCHANGED <<workspace, requests, command>>,
           \A r \in Runs : checkpoints'[r].pending # NoReview =>
                              checkpoints'[r].pending = checkpoints[r].pending
    PROVE  Frames
<1>1. TypeOK /\ phase \in Phases /\ phase # "none"
  BY DEF IInv
<1>2. /\ exec'[q].phase = phase /\ exec'[q].edited = exec[q].edited /\ exec'[q].base = exec[q].base
      /\ \A r \in Runs \ {q} : exec'[r] = exec[r]
  BY <1>1 DEF TypeOK, Execution
<1>3. \A r \in Runs : TaskMoves(r)
  BY <1>2 DEF TaskMoves
<1> QED
  BY <1>3, NoReply DEF Frames, ProjectMoves, ReviewsKept, RunKept

\* The row of a task is written with a checkpoint that waits for no review.
LEMMA TriedCheckpoint ==
    ASSUME IInv, NEW q \in Runs, NEW target, NEW expected, NEW owner, NEW checkpoint,
           TrySave(q, target, expected, owner, checkpoint),
           checkpoint.pending # NoReview => checkpoint.pending = checkpoints[q].pending
    PROVE  \A r \in Runs : checkpoints'[r].pending # NoReview =>
                              checkpoints'[r].pending = checkpoints[r].pending
<1>1. checkpoints' = checkpoints \/ checkpoints' = [checkpoints EXCEPT ![q] = checkpoint]
  BY DEF TrySave, Save, rows
<1> QED
  BY <1>1 DEF IInv, TypeOK

LEMMA TaskFrames ==
    ASSUME IInv, NEW q \in Runs,
           \/ ExecBegins(q) \/ ExecSuspendFails(q) \/ ExecCommits(q) \/ ExecSucceeds(q)
           \/ ExecIsRefused(q) \/ ExecEndsRejected(q) \/ ExecFails(q) \/ ExecEnds(q)
    PROVE  Frames
<1>1. checkpoints[q] \in Checkpoint
  BY RowTypes DEF IInv
<1>2. Phases = {"none", "created", "active", "asking", "refused", "rejected", "committed", "closing", "done"}
  BY DEF Phases
<1>3. UNCHANGED <<workspace, requests, command>>
  BY DEF ExecBegins, ExecSuspendFails, ExecCommits, ExecSucceeds, ExecIsRefused, ExecEndsRejected,
         ExecFails, ExecEnds, durable
<1>4. CASE ExecBegins(q)
  <2>1. FreshCheckpoint.pending = NoReview
    BY DEF FreshCheckpoint, NoCheckpoint
  <2>2. \A r \in Runs : checkpoints'[r].pending # NoReview =>
                            checkpoints'[r].pending = checkpoints[r].pending
    BY <1>4, <2>1, TriedCheckpoint DEF ExecBegins
  <2> QED
    BY <1>2, <1>3, <1>4, <2>2, MoveFrames DEF ExecBegins, Working
<1>5. CASE ExecSuspendFails(q)
  BY <1>2, <1>3, <1>5, MoveFrames DEF ExecSuspendFails, Working, durable, rows
<1>6. CASE ExecCommits(q)
  BY <1>2, <1>3, <1>6, MoveFrames DEF ExecCommits, Working, rows
<1>7. CASE ExecSucceeds(q)
  <2>1. \A r \in Runs : checkpoints'[r].pending # NoReview =>
                            checkpoints'[r].pending = checkpoints[r].pending
    BY <1>7, TriedCheckpoint DEF ExecSucceeds
  <2> QED
    BY <1>2, <1>3, <1>7, <2>1, MoveFrames DEF ExecSucceeds, Working
<1>8. CASE ExecIsRefused(q)
  BY <1>2, <1>3, <1>8, MoveFrames DEF ExecIsRefused, Working, rows
<1>9. CASE ExecEndsRejected(q)
  <2>1. PICK recover \in BOOLEAN :
           TrySave(q, "partial", {"running"}, exec[q].owner, [checkpoints[q] EXCEPT !.recover = recover])
    BY <1>9 DEF ExecEndsRejected
  <2> DEFINE checkpoint == [checkpoints[q] EXCEPT !.recover = recover]
  <2>2. checkpoint.pending = checkpoints[q].pending
    BY <1>1 DEF Checkpoint
  <2>3. TrySave(q, "partial", {"running"}, exec[q].owner, checkpoint)
    BY <2>1
  <2> HIDE DEF checkpoint
  <2>4. \A r \in Runs : checkpoints'[r].pending # NoReview =>
                            checkpoints'[r].pending = checkpoints[r].pending
    BY <2>2, <2>3, TriedCheckpoint
  <2> QED
    BY <1>2, <1>3, <1>9, <2>4, MoveFrames DEF ExecEndsRejected, Working
<1>10. CASE ExecFails(q)
  <2>1. \A r \in Runs : checkpoints'[r].pending # NoReview =>
                            checkpoints'[r].pending = checkpoints[r].pending
    BY <1>10, TriedCheckpoint DEF ExecFails
  <2> QED
    BY <1>2, <1>3, <1>10, <2>1, MoveFrames DEF ExecFails, Working
<1>11. CASE ExecEnds(q)
  BY <1>2, <1>3, <1>11, MoveFrames DEF ExecEnds, Working, durable, rows
<1> QED
  BY <1>4, <1>5, <1>6, <1>7, <1>8, <1>9, <1>10, <1>11

\* The steps of a task that change the project or a request.
LEMMA WorkFrames ==
    ASSUME IInv, NEW q \in Runs,
           ExecEdits(q) \/ ExecAsks(q) \/ ExecSuspends(q) \/ ExecRollsBack(q)
    PROVE  Frames
<1>1. TypeOK /\ command' = command /\ exec[q] \in Execution /\ checkpoints[q] \in Checkpoint
  BY RowTypes DEF IInv, ExecEdits, ExecAsks, ExecSuspends, ExecRollsBack
<1>2. CASE ExecEdits(q)
  <2>1. \A r \in Runs \ {q} : exec'[r] = exec[r]
    BY <1>1, <1>2 DEF ExecEdits, TypeOK
  <2>2. requests' = requests /\ checkpoints' = checkpoints
    BY <1>2 DEF ExecEdits, rows
  <2> QED
    BY <1>1, <1>2, <2>1, <2>2, NoReply DEF Frames, ProjectMoves, ReviewsKept, TaskMoves, RunKept
<1>3. CASE ExecAsks(q)
  <2> DEFINE t == Min({v \in Reviews : requests[v].run = NoRun})
  <2>1. exec' = [exec EXCEPT ![q].phase = "asking", ![q].review = t]
    BY <1>3, Zenon DEF ExecAsks
  <2>2. workspace' = workspace /\ checkpoints' = checkpoints /\ exec[q].phase = "active"
    BY <1>3 DEF ExecAsks, rows
  <2> HIDE DEF t
  <2>3. /\ exec'[q].phase = "asking" /\ exec'[q].edited = exec[q].edited /\ exec'[q].base = exec[q].base
        /\ \A r \in Runs \ {q} : exec'[r] = exec[r]
    BY <1>1, <2>1 DEF TypeOK, Execution
  <2>4. \A r \in Runs : TaskMoves(r)
    BY <2>2, <2>3 DEF TaskMoves, Working
  <2> QED
    BY <1>1, <1>3, <2>2, <2>4, NoReply DEF Frames, ProjectMoves, ReviewsKept, RunKept
<1>4. CASE ExecSuspends(q)
  <2>1. /\ exec[q].phase = "asking" /\ exec' = [exec EXCEPT ![q].phase = "closing"]
        /\ workspace' = exec[q].base /\ exec[q].edited /\ workspace = exec[q].base \cup {q}
    BY <1>4 DEF ExecSuspends, Untouched, IInv, ReviewsAreOwned
  <2>2. /\ exec'[q].phase = "closing" /\ exec'[q].edited = exec[q].edited /\ exec'[q].base = exec[q].base
        /\ \A r \in Runs \ {q} : exec'[r] = exec[r]
    BY <1>1, <2>1 DEF TypeOK, Execution
  <2>3. \A r \in Runs : TaskMoves(r)
    BY <2>1, <2>2 DEF TaskMoves, Working
  <2>4. \A r \in Runs : r # q => checkpoints'[r] = checkpoints[r]
    BY <1>1, <1>4 DEF ExecSuspends, TrySave, Save, rows, TypeOK
  <2>5. ProjectMoves
    BY <1>4, <2>1 DEF ProjectMoves, Withdrawn
  <2> QED
    BY <1>1, <1>4, <2>3, <2>4, <2>5, NoReply DEF Frames, ReviewsKept, RunKept
<1>5. CASE ExecRollsBack(q)
  <2>1. /\ exec[q].phase = "refused" /\ exec' = [exec EXCEPT ![q].phase = "rejected"]
        /\ checkpoints' = checkpoints /\ requests' = requests
    BY <1>5 DEF ExecRollsBack, rows
  <2>2. /\ exec'[q].phase = "rejected" /\ exec'[q].edited = exec[q].edited /\ exec'[q].base = exec[q].base
        /\ \A r \in Runs \ {q} : exec'[r] = exec[r]
    BY <1>1, <2>1 DEF TypeOK, Execution
  <2>3. \A r \in Runs : TaskMoves(r)
    BY <1>5, <2>1, <2>2 DEF TaskMoves, Working
  <2>4. ProjectMoves
    BY <1>5 DEF ExecRollsBack, WithoutRefused, Untouched, ProjectMoves, Withdrawn
  <2> QED
    BY <1>1, <2>1, <2>3, <2>4, NoReply DEF Frames, ReviewsKept, RunKept
<1> QED
  BY <1>2, <1>3, <1>4, <1>5

LEMMA StepFrames == ASSUME IInv, [Next]_vars PROVE Frames
<1>1. CASE UNCHANGED vars
  BY <1>1, NoReply DEF vars, durable, process, rows, Frames, ProjectMoves, ReviewsKept, TaskMoves,
                       RunKept
<1>2. CASE UserEdits
  BY <1>2, NoReply DEF UserEdits, process, rows, Frames, ProjectMoves, ReviewsKept, TaskMoves, RunKept
<1> QED
  BY <1>1, <1>2, ConnectionFrames, DecisionFrames, CommandFrames, TaskFrames, WorkFrames DEF Next
\* A row, once there, stays; a request, once made, keeps whose it is and what it holds.
LEMMA RowStays ==
    ASSUME IInv, [Next]_vars, NEW r \in Runs, runs[r].status # Absent
    PROVE  runs'[r].status # Absent
<1>1. runs \in [Runs -> RunRecord] /\ runs[r] \in RunRecord
  BY RowTypes DEF IInv, TypeOK
<1>2. ASSUME NEW q \in Runs, NEW target \in {"running", "waiting_approval", "paused"} \cup Terminal,
             Written(q, target)
      PROVE  runs'[r].status # Absent
  <2>1. runs' = [runs EXCEPT ![q] = Transitioned(runs[q], target)]
    BY <1>2 DEF Written
  <2>2. runs[q] \in RunRecord /\ target # Absent
    BY <1>1 DEF Absent, Terminal
  <2>3. Transitioned(runs[q], target).status = target
    BY <2>2, TransitionedFields
  <2> QED
    BY <1>1, <2>1, <2>2, <2>3
<1>3. CASE runs' = runs
  BY <1>3
<1>4. ASSUME NEW q \in Runs, WorkStep(q) \/ DecisionStep(q) PROVE runs'[r].status # Absent
  <2>1. "canceled" \in Terminal /\ "partial" \in Terminal
    BY DEF Terminal
  <2> QED
    BY <1>2, <1>4, <2>1 DEF WorkStep, DecisionStep
<1>5. ASSUME NEW q \in Runs, StartStep(q) PROVE runs'[r].status # Absent
  <2>1. q # r
    BY <1>5 DEF StartStep
  <2>2. CASE runs' = [runs EXCEPT ![q] = QueuedRun] \/ runs' = [runs EXCEPT ![q] = Claimed(QueuedRun, epoch, 1, 1)]
    BY <1>1, <2>1, <2>2
  <2>3. ASSUME NEW old \in Runs, runs[old].status \in Halted,
               runs' = [runs EXCEPT ![q] = Claimed(QueuedRun, epoch, 1, 1),
                                    ![old] = Transitioned(runs[old], runs[old].status)]
        PROVE  runs'[r].status # Absent
    <3>1. Transitioned(runs[old], runs[old].status).status = runs[old].status
      BY <1>1, TransitionedFields
    <3>2. runs'[r] = runs[r] \/ runs'[r] = Transitioned(runs[old], runs[old].status)
      BY <1>1, <2>1, <2>3
    <3> QED
      BY <2>3, <3>1, <3>2 DEF Halted, Absent
  <2> QED
    BY <1>5, <2>2, <2>3 DEF StartStep
<1> QED
  BY <1>3, <1>4, <1>5, RowStep

LEMMA RequestStays ==
    ASSUME IInv, ReviewsKept, NEW t \in Reviews, requests[t].run # NoRun
    PROVE  requests'[t].run = requests[t].run /\ requests'[t].id = requests[t].id
              /\ requests'[t].base = requests[t].base
<1>1. requests \in [Reviews -> Request] /\ requests[t] \in Request
  BY DEF IInv, TypeOK
<1>2. ASSUME NEW q \in Runs, ExecAsks(q) PROVE requests'[t] = requests[t]
  <2> DEFINE free == {v \in Reviews : requests[v].run = NoRun}
             u == Min(free)
  <2>1. free # {} /\ requests' = [requests EXCEPT ![u] = [run |-> q, id |-> managers[exec[q].mgr].next,
                                                         base |-> exec[q].base, shown |-> FALSE]]
    BY <1>2, Zenon DEF ExecAsks
  <2>2. u \in free
    <3>1. free \in SUBSET Nat
      BY Bounds DEF Reviews
    <3> HIDE DEF free
    <3> QED
      BY <2>1, <3>1, MinFacts
  <2>3. u # t
    BY <2>2
  <2> HIDE DEF u
  <2> QED
    BY <1>1, <2>1, <2>3
<1>3. ASSUME NEW q \in Runs, ExecSuspends(q)
      PROVE  requests'[t] = requests[t] \/ requests'[t] = [requests[t] EXCEPT !.shown = TRUE]
  BY <1>1, <1>3 DEF ExecSuspends
<1> QED
  BY <1>1, <1>2, <1>3 DEF ReviewsKept, Request

-----------------------------------------------------------------------------
(* The runs that replies are taken to be for. *)

\* r may be the run that replies with this id are for: it is no longer at work, and the
\* review it waits with, if it waits, has this id.
Associable(r, id) ==
    /\ runs[r].status # Absent /\ exec[r].phase \notin Working
    /\ ~ (command.step = "prepare" /\ command.run = r)
    /\ checkpoints[r].pending # NoReview => IdOf(r) = id

AssociationsOK == \A id \in ReviewIds : fallback[id] # NoRun => Associable(fallback[id], id)

LEMMA AssociableStays ==
    ASSUME IInv, [Next]_vars, NEW r \in Runs, NEW id \in ReviewIds, Associable(r, id)
    PROVE  Associable(r, id)'
<1>1. Frames /\ TaskMoves(r) /\ RunKept(r)
  BY StepFrames DEF Frames
<1>2. runs'[r].status # Absent
  BY RowStays DEF Associable
<1>3. exec'[r].phase \notin Working
  <2>1. AllLost => exec'[r].phase = "none"
    BY DEF AllLost, NoExecution
  <2>2. TaskCreated => command.step = "prepare"
    BY DEF TaskCreated
  <2>3. ExecEdits(r) => exec[r].phase \in Working
    BY DEF ExecEdits, Working
  <2> QED
    BY <1>1, <2>1, <2>2, <2>3 DEF TaskMoves, Associable, Working
<1>4. ~ (command'.step = "prepare" /\ command'.run = r)
  BY <1>1 DEF RunKept, Associable
<1>5. ASSUME checkpoints'[r].pending # NoReview PROVE IdOf(r)' = id
  <2>1. ~ ExecSuspends(r)
    BY DEF ExecSuspends, Associable, Working
  <2>2. checkpoints'[r].pending = checkpoints[r].pending /\ checkpoints[r].pending # NoReview
    BY <1>1, <1>5, <2>1 DEF RunKept
  <2>3. checkpoints[r].pending \in Reviews /\ requests[checkpoints[r].pending].run = r /\ r # NoRun
    BY <2>2, RowTypes, Bounds DEF IInv, ReviewsAreOwned, Checkpoint
  <2>4. requests'[checkpoints[r].pending].id = requests[checkpoints[r].pending].id
    BY <1>1, <2>3, RequestStays DEF Frames
  <2> QED
    BY <2>2, <2>4 DEF Associable, IdOf
<1> QED
  BY <1>2, <1>3, <1>4, <1>5 DEF Associable

\* A waiting run may be brought back for replies with its review's id.
LEMMA PendingIsAssociable == ASSUME IInv, NEW r \in PendingRuns PROVE r \in Runs /\ Associable(r, IdOf(r))
<1>1. r \in Runs /\ runs[r].status = "waiting_approval"
  BY DEF PendingRuns
<1>2. exec[r].phase \notin Working
  BY <1>1 DEF IInv, RowOK
<1>3. ~ (command.step = "prepare" /\ command.run = r)
  BY <1>1 DEF IInv, CommandOK
<1> QED
  BY <1>1, <1>2, <1>3 DEF Associable, Absent

LEMMA RestoredAssociations ==
    ASSUME IInv, NEW known \in [ReviewIds -> Runs \cup {NoRun}], NEW id \in ReviewIds,
           RestoredFallback(known)[id] # NoRun
    PROVE  \/ RestoredFallback(known)[id] = known[id]
           \/ Associable(RestoredFallback(known)[id], id)
<1> DEFINE newest == {r \in {q \in PendingRuns : IdOf(q) = id} :
                         {q \in PendingRuns : IdOf(q) = id} \ {r} \subseteq older[r]}
           new == IF newest = {} THEN known[id] ELSE CHOOSE r \in newest : TRUE
<1>1. RestoredFallback(known)[id] = new
  BY Zenon DEF RestoredFallback
<1>2. \A r \in newest : r \in PendingRuns /\ IdOf(r) = id
  OBVIOUS
<1> HIDE DEF newest
<1>3. new = known[id] \/ new \in newest
  OBVIOUS
<1> HIDE DEF new
<1> QED
  BY <1>1, <1>2, <1>3, PendingIsAssociable

\* The run of a task that has submitted a review.
LEMMA AskedReview ==
    ASSUME IInv, NEW r \in Runs, exec[r].phase = "asking"
    PROVE  /\ exec[r].review \in Reviews /\ requests[exec[r].review].run = r /\ r # NoRun
           /\ requests[exec[r].review].id \in ReviewIds
           /\ runs[r].status = "running" /\ checkpoints[r].pending = NoReview
           /\ ~ (command.step = "prepare" /\ command.run = r)
<1>1. exec[r].phase \in Working /\ exec[r] \in Execution
  BY RowTypes DEF Working, IInv
<1>2. runs[r].status = "running" /\ checkpoints[r].pending = NoReview
  BY <1>1 DEF IInv, RowOK
<1>3. exec[r].review \in Reviews /\ requests[exec[r].review].run = r
  BY <1>1 DEF IInv, ReviewsAreOwned, Execution
<1>4. requests[exec[r].review].id \in ReviewIds
  BY <1>3, Bounds DEF IInv, TypeOK, Request, ReviewIds, Reviews
<1>5. ~ (command.step = "prepare" /\ command.run = r)
  BY DEF IInv, CommandOK
<1> QED
  BY <1>2, <1>3, <1>4, <1>5, Bounds

\* Where associations come from.
LEMMA AssociationStep ==
    ASSUME IInv, [Next]_vars, NEW id \in ReviewIds, fallback'[id] # NoRun
    PROVE  \/ fallback'[id] = fallback[id]
           \/ fallback'[id] \in Runs /\ Associable(fallback'[id], id)
           \/ \E r \in Runs : /\ fallback'[id] = r /\ exec[r].phase = "asking"
                              /\ requests[exec[r].review].id = id
                              /\ ExecSuspends(r) \/ ExecSuspendFails(r)
<1>1. TypeOK /\ NoFallback[id] = NoRun /\ NoFallback \in [ReviewIds -> Runs \cup {NoRun}]
      /\ fallback \in [ReviewIds -> Runs \cup {NoRun}]
  BY DEF IInv, TypeOK, NoFallback
<1> DEFINE Known == \/ fallback'[id] = fallback[id]
                    \/ fallback'[id] \in Runs /\ Associable(fallback'[id], id)
<1>2. ASSUME NEW s \in Sockets, Connect(s) \/ ConnectFresh(s) \/ StopKeepsReviews(s) PROVE Known
  <2>1. PICK known \in {fallback, NoFallback} : fallback' = RestoredFallback(known)
    BY <1>2 DEF Connect, ConnectFresh, StopKeepsReviews
  <2>2. fallback'[id] \in Runs \cup {NoRun}
    BY <1>1, <2>1, FallbackType
  <2>3. fallback'[id] = known[id] \/ Associable(fallback'[id], id)
    BY <1>1, <2>1, RestoredAssociations
  <2> QED
    BY <1>1, <2>1, <2>2, <2>3
<1>3. ASSUME fallback' = NoFallback \/ fallback' = fallback PROVE Known
  BY <1>1, <1>3
<1>4. ASSUME ReplyContinues \/ CancelNext PROVE Known
  <2>1. fallback'[id] = fallback[id] \/ fallback'[id] = NoRun
    BY <1>1, <1>4 DEF ReplyContinues, CancelNext
  <2> QED
    BY <2>1
<1>5. ASSUME NEW r \in Runs, ExecSuspends(r) \/ ExecSuspendFails(r)
      PROVE  \/ Known
             \/ fallback'[id] = r /\ exec[r].phase = "asking" /\ requests[exec[r].review].id = id
  <2>1. exec[r].phase = "asking" /\ (fallback' = Associated(r) \/ fallback' = fallback)
    BY <1>5 DEF ExecSuspends, ExecSuspendFails
  <2> QED
    BY <1>1, <2>1 DEF Associated
<1>6. ASSUME NEW s \in Sockets, NEW t \in Reviews,
             \/ Attach(s) \/ Disconnect(s) \/ Chat(s) \/ Stop(s) \/ CancelReviews(s)
             \/ Reply(s, t, TRUE) \/ Reply(s, t, FALSE) \/ ReplyToLive(s, t) \/ CrashInAccept(s, t)
      PROVE  fallback' = NoFallback \/ fallback' = fallback
  BY <1>6, Zenon DEF Attach, Disconnect, Chat, Stop, CancelReviews, Reply, ReplyToLive, CrashInAccept, AllLost
<1>7. ASSUME \/ LoseSubscriber \/ TimePasses \/ UserEdits \/ CreateAgent \/ CreateAgentFails
             \/ StartRun \/ TaskCreated \/ PrepareFails \/ StopEnds \/ Crash \/ UNCHANGED vars
      PROVE  fallback' = NoFallback \/ fallback' = fallback
  BY <1>7, Zenon DEF LoseSubscriber, TimePasses, UserEdits, CreateAgent, CreateAgentFails, StartRun,
     TaskCreated, PrepareFails, StopEnds, Crash, AllLost, vars, process
<1>8. ASSUME NEW r \in Runs,
             \/ ExecBegins(r) \/ ExecEdits(r) \/ ExecAsks(r) \/ ExecCommits(r) \/ ExecSucceeds(r)
             \/ ExecIsRefused(r) \/ ExecRollsBack(r) \/ ExecEndsRejected(r) \/ ExecFails(r)
             \/ ExecEnds(r) \/ CrashInStart(r)
      PROVE  fallback' = NoFallback \/ fallback' = fallback
  BY <1>8, Zenon DEF ExecBegins, ExecEdits, ExecAsks, ExecCommits, ExecSucceeds, ExecIsRefused,
     ExecRollsBack, ExecEndsRejected, ExecFails, ExecEnds, CrashInStart, AllLost
<1>9. ASSUME NEW s \in Sockets,
             Attach(s) \/ Disconnect(s) \/ Chat(s) \/ Stop(s) \/ CancelReviews(s)
      PROVE  fallback' = NoFallback \/ fallback' = fallback
  BY <1>9, Zenon DEF Attach, Disconnect, Chat, Stop, CancelReviews
<1> HIDE DEF Known
<1>10. \/ Known
       \/ \E r \in Runs : /\ fallback'[id] = r /\ exec[r].phase = "asking"
                          /\ requests[exec[r].review].id = id
                          /\ ExecSuspends(r) \/ ExecSuspendFails(r)
  BY <1>2, <1>3, <1>4, <1>5, <1>6, <1>7, <1>8, <1>9 DEF Next
<1> QED
  BY <1>10 DEF Known

LEMMA AssociationsStep == ASSUME IInv, AssociationsOK, [Next]_vars PROVE AssociationsOK'
<1>1. SUFFICES ASSUME NEW id \in ReviewIds, NEW p, p = fallback'[id], p # NoRun PROVE Associable(p, id)'
  BY DEF AssociationsOK, Associable, IdOf
<1>2. CASE p = fallback[id]
  BY <1>1, <1>2, AssociableStays DEF AssociationsOK, IInv, TypeOK
<1>3. CASE p \in Runs /\ Associable(p, id)
  BY <1>3, AssociableStays
<1>4. ASSUME NEW r \in Runs, exec[r].phase = "asking", requests[exec[r].review].id = id,
             ExecSuspends(r) \/ ExecSuspendFails(r)
      PROVE  Associable(r, id)'
  <2> DEFINE t == exec[r].review
  <2>1. /\ t \in Reviews /\ requests[t].run = r /\ r # NoRun /\ runs[r].status = "running"
        /\ checkpoints[r].pending = NoReview /\ ~ (command.step = "prepare" /\ command.run = r)
        /\ TypeOK
    BY <1>4, AskedReview DEF IInv
  <2>2. runs'[r].status # Absent
    BY <2>1, RowStays DEF Absent
  <2>3. exec'[r].phase \notin Working
    BY <1>4, <2>1 DEF ExecSuspends, ExecSuspendFails, TypeOK, Execution, Working
  <2>4. ~ (command'.step = "prepare" /\ command'.run = r)
    BY <1>4, <2>1 DEF ExecSuspends, ExecSuspendFails
  <2>5. checkpoints'[r].pending # NoReview => checkpoints'[r].pending = t
    <3>1. CASE ExecSuspends(r)
      <4>1. \/ checkpoints' = checkpoints
            \/ checkpoints' = [checkpoints EXCEPT ![r] = [checkpoints[r] EXCEPT !.pending = t, !.resume = FALSE]]
        BY <3>1 DEF ExecSuspends, TrySave, Save, rows
      <4> HIDE DEF t
      <4>2. [checkpoints[r] EXCEPT !.pending = t, !.resume = FALSE].pending = t
        BY <2>1 DEF TypeOK, Checkpoint
      <4> QED
        BY <2>1, <4>1, <4>2 DEF TypeOK
    <3>2. CASE ExecSuspendFails(r)
      BY <2>1, <3>2 DEF ExecSuspendFails, durable, rows
    <3> QED
      BY <1>4, <3>1, <3>2
  <2>6. requests'[t].id = id
    BY <1>4, <2>1, StepFrames, RequestStays DEF Frames
  <2> HIDE DEF t
  <2> QED
    BY <2>2, <2>3, <2>4, <2>5, <2>6 DEF Associable, IdOf
<1> QED
  BY <1>1, <1>2, <1>3, <1>4, AssociationStep

-----------------------------------------------------------------------------
(* Where what is in the project comes from. *)

\* Somebody has built on the change of r: the user, another run, or a candidate.
BuiltOn(r) ==
    \/ NoRun \in workspace \ exec[r].base
    \/ \E q \in Runs \ {r} : exec[q].edited /\ r \in exec[q].base
    \/ \E t \in Reviews : requests[t].run # NoRun /\ r \in requests[t].base

AtWork(r) == exec[r].phase \in Working /\ exec[r].edited

\* Nothing of a run is there before it edits. While it works, its change is the last
\* one, unless somebody has built on it, and it is gone once rolled back.
ProvenanceOK(r) ==
    /\ \/ runs[r].status = Absent
       \/ command.step = "prepare" /\ command.run = r
       \/ exec[r].phase \in Working /\ ~ exec[r].edited
       => r \notin workspace
    /\ exec[r].phase = "none" => ~ exec[r].edited
    /\ AtWork(r) => r \notin exec[r].base
    /\ AtWork(r) /\ r \in workspace /\ ~ BuiltOn(r) =>
          workspace = exec[r].base \cup {r} /\ exec[r].phase # "rejected"

\* What an execution has edited stays known, until the process dies.
LEMMA EditsStay ==
    ASSUME IInv, NEW q \in Runs, exec[q].edited, exec[q].phase = "none" => ~ exec[q].edited,
           TaskMoves(q), ~ AllLost
    PROVE  exec'[q].edited /\ exec'[q].base = exec[q].base
<1>1. ~ ExecEdits(q)
  BY DEF ExecEdits
<1>2. ~ (TaskCreated /\ command.run = q)
  BY DEF TaskCreated, IInv, CommandOK
<1> QED
  BY <1>1, <1>2 DEF TaskMoves

\* A task that has edited was at work before, or edits now.
LEMMA AtWorkBefore ==
    ASSUME IInv, NEW r \in Runs, TaskMoves(r), AtWork(r)'
    PROVE  /\ ~ AllLost
           /\ ExecEdits(r) \/ (AtWork(r) /\ exec'[r].base = exec[r].base)
           /\ exec'[r].phase = "rejected" => exec[r].phase = "rejected" \/ ExecRollsBack(r)
<1>1. exec'[r].phase \in Working /\ exec'[r].edited /\ TypeOK
  BY DEF AtWork, IInv
<1>2. ~ AllLost
  BY <1>1 DEF AllLost, NoExecution, Working
<1>3. ~ (TaskCreated /\ command.run = r)
  <2> SUFFICES ASSUME TaskCreated, command.run = r PROVE ~ exec'[r].edited
    BY <1>1
  <2> DEFINE begun == [NoExecution EXCEPT !.phase = "created", !.owner = epoch,
                                          !.mgr = local[command.socket].mgr]
  <2>1. exec' = [exec EXCEPT ![r] = begun]
    BY DEF TaskCreated
  <2>2. ~ begun.edited
    BY DEF NoExecution
  <2> HIDE DEF begun
  <2> QED
    BY <1>1, <2>1, <2>2 DEF TypeOK
<1>4. CASE ExecEdits(r)
  <2>1. exec' = [exec EXCEPT ![r].edited = TRUE, ![r].base = workspace] /\ exec[r].phase = "active"
    BY <1>4 DEF ExecEdits
  <2>2. exec'[r].phase = "active"
    BY <1>1, <2>1 DEF TypeOK, Execution
  <2> QED
    BY <1>2, <1>4, <2>2
<1>5. CASE ~ ExecEdits(r)
  BY <1>1, <1>2, <1>3, <1>5 DEF TaskMoves, AtWork
<1> QED
  BY <1>4, <1>5

\* A run that has edited nothing was one before.
LEMMA FreshBefore ==
    ASSUME IInv, [Next]_vars, NEW r \in Runs, Frames,
           \/ runs'[r].status = Absent
           \/ command'.step = "prepare" /\ command'.run = r
           \/ exec'[r].phase \in Working /\ ~ exec'[r].edited
    PROVE  /\ \/ runs[r].status = Absent
              \/ command.step = "prepare" /\ command.run = r
              \/ exec[r].phase \in Working /\ ~ exec[r].edited
           /\ ~ ExecEdits(r)
<1>1. TypeOK /\ TaskMoves(r) /\ RunKept(r)
  BY DEF IInv, Frames
<1>2. ~ ExecEdits(r)
  <2> SUFFICES ASSUME ExecEdits(r) PROVE FALSE
    OBVIOUS
  <2>1. exec' = [exec EXCEPT ![r].edited = TRUE, ![r].base = workspace] /\ exec[r].phase = "active"
        /\ command' = command /\ runs' = runs
    BY DEF ExecEdits, rows
  <2>2. exec'[r].edited
    BY <1>1, <2>1 DEF TypeOK, Execution
  <2>3. runs[r].status # Absent /\ ~ (command.step = "prepare" /\ command.run = r)
    BY <2>1 DEF IInv, RowOK, CommandOK
  <2> QED
    BY <2>1, <2>2, <2>3
<1>3. AllLost => exec'[r].phase \notin Working
  BY DEF AllLost, NoExecution, Working
<1>4. TaskCreated => command.step = "prepare"
  BY DEF TaskCreated
<1> QED
  BY <1>1, <1>2, <1>3, <1>4, RowStays DEF TaskMoves, RunKept

LEMMA ProvenanceStep ==
    ASSUME IInv, [Next]_vars, \A q \in Runs : ProvenanceOK(q), NEW r \in Runs
    PROVE  ProvenanceOK(r)'
<1>1. TypeOK /\ Frames /\ ProjectMoves /\ ReviewsKept /\ TaskMoves(r) /\ r # NoRun
  BY StepFrames, Bounds DEF IInv, Frames
<1>2. \A q \in Runs : checkpoints[q].pending # NoReview =>
         /\ runs[q].status = "waiting_approval" /\ exec[q].phase \notin Working
         /\ checkpoints[q].pending \in Reviews /\ requests[checkpoints[q].pending].run = q
         /\ q # NoRun
  BY RowTypes, Bounds DEF IInv, RowOK, ReviewsAreOwned, Checkpoint
<1>3. ASSUME \/ runs'[r].status = Absent
             \/ command'.step = "prepare" /\ command'.run = r
             \/ exec'[r].phase \in Working /\ ~ exec'[r].edited
      PROVE  r \notin workspace'
  <2>1. /\ r \notin workspace /\ ~ ExecEdits(r)
        /\ \/ runs[r].status = Absent
           \/ command.step = "prepare" /\ command.run = r
           \/ exec[r].phase \in Working
    BY <1>1, <1>3, FreshBefore DEF ProvenanceOK
  <2>2. ~ Applied(r)
    BY <1>2, <2>1 DEF Applied, IInv, CommandOK, Absent
  <2>3. \A q \in Runs : ExecEdits(q) => workspace' = workspace \cup {q}
    BY DEF ExecEdits
  <2>4. UserEdits => workspace' = workspace \cup {NoRun}
    BY DEF UserEdits
  <2> QED
    BY <1>1, <2>1, <2>2, <2>3, <2>4 DEF ProjectMoves, Withdrawn
<1>4. exec'[r].phase = "none" => ~ exec'[r].edited
  <2>1. AllLost => ~ exec'[r].edited
    BY DEF AllLost, NoExecution
  <2>2. ~ (TaskCreated /\ command.run = r) \/ exec'[r].phase # "none"
    BY <1>1 DEF TaskCreated, NoExecution, TypeOK
  <2>3. ExecEdits(r) => exec'[r].phase # "none"
    BY <1>1 DEF ExecEdits, TypeOK, Execution
  <2> QED
    BY <1>1, <2>1, <2>2, <2>3 DEF TaskMoves, ProvenanceOK
<1>5. ASSUME AtWork(r)', ExecEdits(r)
      PROVE  /\ r \notin exec'[r].base
             /\ workspace' = exec'[r].base \cup {r} /\ exec'[r].phase # "rejected"
  <2>1. r \notin workspace
    BY <1>5 DEF ProvenanceOK, ExecEdits, Working
  <2>2. /\ exec' = [exec EXCEPT ![r].edited = TRUE, ![r].base = workspace] /\ exec[r].phase = "active"
        /\ workspace' = workspace \cup {r}
    BY <1>5 DEF ExecEdits
  <2>3. exec'[r].base = workspace /\ exec'[r].phase = "active"
    BY <1>1, <2>2 DEF TypeOK, Execution
  <2> QED
    BY <2>1, <2>2, <2>3
<1>6. ASSUME AtWork(r)', ~ ExecEdits(r), r \in workspace', ~ BuiltOn(r)'
      PROVE  workspace' = exec'[r].base \cup {r} /\ exec'[r].phase # "rejected"
  <2>1. /\ ~ AllLost /\ AtWork(r) /\ exec'[r].base = exec[r].base
        /\ exec'[r].phase = "rejected" => exec[r].phase = "rejected" \/ ExecRollsBack(r)
    BY <1>1, <1>6, AtWorkBefore
  <2>2. r \notin exec[r].base
    BY <2>1 DEF ProvenanceOK
  <2>3. \A q \in Runs : exec[q].edited => exec'[q].edited /\ exec'[q].base = exec[q].base
    BY <1>1, <2>1, EditsStay DEF ProvenanceOK, Frames
  <2>4. \A t \in Reviews : requests[t].run # NoRun =>
           requests'[t].run # NoRun /\ requests'[t].base = requests[t].base
    BY <1>1, RequestStays
  <2>5. /\ \A q \in Runs \ {r} : ~ (exec[q].edited /\ r \in exec[q].base)
        /\ \A t \in Reviews : ~ (requests[t].run # NoRun /\ r \in requests[t].base)
        /\ NoRun \notin workspace' \ exec[r].base
    BY <1>6, <2>1, <2>3, <2>4 DEF BuiltOn
  <2>6. CASE workspace' = workspace
    <3>1. workspace = exec[r].base \cup {r} /\ exec[r].phase # "rejected"
      BY <1>6, <2>1, <2>5, <2>6 DEF ProvenanceOK, BuiltOn
    <3>2. ~ ExecRollsBack(r)
      BY <1>6, <2>1, <2>2, <3>1 DEF ExecRollsBack, WithoutRefused, Untouched, AtWork
    <3> QED
      BY <2>1, <2>6, <3>1, <3>2
  <2>7. CASE UserEdits
    <3>1. NoRun \notin workspace /\ workspace' = workspace \cup {NoRun} /\ exec' = exec
      BY <2>7 DEF UserEdits, process
    <3>2. NoRun \notin workspace \ exec[r].base /\ NoRun \in exec[r].base /\ r \in workspace
      BY <1>1, <1>6, <2>5, <3>1
    <3>3. workspace = exec[r].base \cup {r}
      BY <2>1, <2>5, <3>2 DEF ProvenanceOK, BuiltOn
    <3> QED
      BY <3>1, <3>2, <3>3
  <2>8. ASSUME NEW q \in Runs, ExecEdits(q) PROVE FALSE
    <3>1. q # r /\ workspace' = workspace \cup {q}
          /\ exec' = [exec EXCEPT ![q].edited = TRUE, ![q].base = workspace]
      BY <1>6, <2>8 DEF ExecEdits
    <3>2. exec'[q].edited /\ exec'[q].base = workspace
      BY <1>1, <3>1 DEF TypeOK, Execution
    <3>3. r \in workspace
      BY <1>6, <3>1
    <3> QED
      BY <1>6, <3>1, <3>2, <3>3 DEF BuiltOn
  <2>9. ASSUME NEW q \in Runs, Withdrawn(q) PROVE FALSE
    <3>1. CASE q = r
      BY <1>6, <2>2, <2>9, <3>1 DEF Withdrawn
    <3>2. CASE q # r
      BY <1>6, <2>5, <2>9, <3>2 DEF Withdrawn
    <3> QED
      BY <3>1, <3>2
  <2>10. ASSUME NEW q \in Runs, Applied(q), workspace' = workspace \cup {q} PROVE FALSE
    <3>1. /\ checkpoints[q].pending \in Reviews /\ requests[checkpoints[q].pending].run # NoRun
          /\ workspace = requests[checkpoints[q].pending].base /\ exec[q].phase \notin Working
      BY <1>2, <2>10 DEF Applied
    <3>2. q # r
      BY <2>1, <3>1 DEF AtWork
    <3>3. r \in workspace
      BY <1>6, <2>10, <3>2
    <3> QED
      BY <2>5, <3>1, <3>3
  <2> QED
    BY <1>1, <2>6, <2>7, <2>8, <2>9, <2>10 DEF ProjectMoves
<1>7. ASSUME AtWork(r)' PROVE r \notin exec'[r].base
  BY <1>1, <1>5, <1>7, AtWorkBefore DEF ProvenanceOK
<1> QED
  BY <1>3, <1>4, <1>5, <1>6, <1>7 DEF ProvenanceOK, AtWork

ReviewInv == IInv /\ AssociationsOK /\ \A r \in Runs : ProvenanceOK(r)

LEMMA ReviewInvariance == Spec => []ReviewInv
<1>1. Init => ReviewInv
  <2> SUFFICES ASSUME Init PROVE ReviewInv
    OBVIOUS
  <2>1. AssociationsOK
    BY DEF Init, NoFallback, AssociationsOK
  <2>2. ASSUME NEW r \in Runs PROVE ProvenanceOK(r)
    <3>1. exec[r] = NoExecution /\ workspace = {}
      BY DEF Init
    <3> QED
      BY <3>1 DEF NoExecution, ProvenanceOK, AtWork, Working
  <2> QED
    BY <2>1, <2>2, InitIInv DEF ReviewInv
<1>2. ReviewInv /\ [Next]_vars => ReviewInv'
  <2> SUFFICES ASSUME ReviewInv, [Next]_vars PROVE ReviewInv'
    OBVIOUS
  <2>1. IInv' /\ AssociationsOK'
    BY Inductive, AssociationsStep DEF ReviewInv
  <2>2. ASSUME NEW r \in Runs PROVE ProvenanceOK(r)'
    BY ProvenanceStep DEF ReviewInv
  <2> QED
    BY <2>1, <2>2 DEF ReviewInv
<1> QED
  BY <1>1, <1>2, PTL DEF Spec

\* What comes into the project, what leaves it, and what a reply does to it.
LEMMA ProjectStep ==
    ASSUME ReviewInv, [Next]_vars
    PROVE  /\ \A r \in Runs :
                 /\ r \in workspace' \ workspace =>
                       \/ exec[r].phase = "active"
                       \/ /\ checkpoints[r].pending # NoReview
                          /\ workspace = requests[checkpoints[r].pending].base
                          /\ \/ command'.kind = "review" /\ command'.accepted
                                /\ requests[command'.review].id = IdOf(r)
                             \/ AllLost
                 /\ command = Idle /\ command'.kind = "review" /\ command'.parent = r =>
                       workspace' = IF command'.accepted THEN Candidate(r) ELSE workspace
           /\ \A x \in workspace \ workspace' :
                 x \in Runs /\ exec[x].phase \in {"asking", "refused"} /\ exec'[x].phase # exec[x].phase
<1>1. IInv /\ TypeOK /\ Frames /\ ProjectMoves
  BY StepFrames DEF ReviewInv, IInv, Frames
<1>2. ASSUME NEW r \in Runs, Applied(r)
      PROVE  /\ checkpoints[r].pending # NoReview
             /\ workspace = requests[checkpoints[r].pending].base
             /\ \/ command'.kind = "review" /\ command'.accepted
                   /\ requests[command'.review].id = IdOf(r)
                \/ AllLost
  <2>1. CASE AllLost
    BY <1>2, <2>1 DEF Applied
  <2>2. CASE ~ AllLost
    <3> DEFINE id == requests[command'.review].id
    <3>1. command'.review \in Reviews /\ fallback[id] = r /\ r # NoRun /\ checkpoints[r].pending # NoReview
      BY <1>2, <2>2, Bounds DEF Applied
    <3>2. id \in ReviewIds
      BY <1>1, <3>1, Bounds DEF TypeOK, Request, ReviewIds, Reviews
    <3>3. id = IdOf(r)
      <4> HIDE DEF id
      <4> QED
        BY <3>1, <3>2 DEF ReviewInv, AssociationsOK, Associable
    <3> QED
      BY <1>2, <2>2, <3>3 DEF Applied
  <2> QED
    BY <2>1, <2>2
<1>3. /\ UserEdits => workspace' = workspace \cup {NoRun}
      /\ \A q \in Runs : ExecEdits(q) => workspace' = workspace \cup {q} /\ exec[q].phase = "active"
  BY DEF UserEdits, ExecEdits
<1>4. ASSUME NEW r \in Runs, r \in workspace' \ workspace PROVE exec[r].phase = "active" \/ Applied(r)
  BY <1>1, <1>3, <1>4, Bounds DEF ProjectMoves, Withdrawn
<1>5. ASSUME NEW x \in workspace \ workspace'
      PROVE  x \in Runs /\ exec[x].phase \in {"asking", "refused"} /\ exec'[x].phase # exec[x].phase
  <2>1. PICK q \in Runs : Withdrawn(q)
    BY <1>1, <1>3, <1>5 DEF ProjectMoves
  <2>2. x = q
    BY <1>5, <2>1 DEF Withdrawn
  <2>3. exec[q].phase \in {"asking", "refused"} /\ exec'[q].phase # exec[q].phase
    BY <1>1, <2>1 DEF Withdrawn, ExecSuspends, ExecRollsBack, TypeOK, Execution
  <2> QED
    BY <2>2, <2>3
<1> QED
  BY <1>1, <1>2, <1>4, <1>5 DEF Frames, ReplyIsDone

\* A waiting review stands until the user cancels its run or replies to it. An acceptance
\* brings in the candidate of the request that was answered, on what it was made from, and
\* a rejection nothing; no other command and no restart brings a change in. A rollback takes
\* back the change of the run it is for and nothing else, and leaves none of it, unless
\* the user, another run or a candidate has built on it.
THEOREM SessionReviewsStand == Spec => ReviewsStand
<1>1. ReviewInv => RefusedIsWithdrawn
  BY DEF ReviewInv, ProvenanceOK, AtWork, BuiltOn, RefusedIsWithdrawn, Working
<1>2. ReviewInv /\ [Next]_vars =>
         [\A r \in Runs : runs[r].status = "waiting_approval" /\ runs'[r] # runs[r] =>
             \/ command.kind = "cancel" /\ runs'[r].status = "canceled"
             \/ command'.kind = "review" /\ command'.parent = r]_vars
  BY UserDecidesStep DEF ReviewInv
<1>3. ReviewInv /\ [Next]_vars =>
         [\A r \in Runs :
             /\ r \in workspace' \ workspace =>
                   \/ exec[r].phase = "active"
                   \/ /\ checkpoints[r].pending # NoReview
                      /\ workspace = requests[checkpoints[r].pending].base
                      /\ \/ command'.kind = "review" /\ command'.accepted
                            /\ requests[command'.review].id = IdOf(r)
                         \/ AllLost
             /\ command = Idle /\ command'.kind = "review" /\ command'.parent = r =>
                   workspace' = IF command'.accepted THEN Candidate(r) ELSE workspace]_vars
  BY ProjectStep
<1>4. ReviewInv /\ [Next]_vars =>
         [\A x \in workspace \ workspace' :
             x \in Runs /\ exec[x].phase \in {"asking", "refused"} /\ exec'[x].phase # exec[x].phase]_vars
  BY ProjectStep
<1>5. Spec => OnlyTheUserDecides
  BY <1>2, ReviewInvariance, PTL DEF Spec, OnlyTheUserDecides
<1>6. Spec => OnlyAcceptedIsApplied
  BY <1>3, ReviewInvariance, PTL DEF Spec, OnlyAcceptedIsApplied
<1>7. Spec => OnlyOwnIsWithdrawn
  BY <1>4, ReviewInvariance, PTL DEF Spec, OnlyOwnIsWithdrawn
<1>8. Spec => []RefusedIsWithdrawn
  BY <1>1, ReviewInvariance, PTL
<1> QED
  BY <1>5, <1>6, <1>7, <1>8 DEF ReviewsStand


-----------------------------------------------------------------------------
(* The rows as numbered terms. *)

\* Each write of a row is a grant, a release or a closing of one run's term, or
\* invisible: no session starts a term while another one lasts.
LEMMA TenureStep == ASSUME IInv, [Next]_vars PROVE [Tenure!Next]_(Tenure!vars)
<1> DEFINE H == [r \in Runs |-> runs[r].owner]
           T == [r \in Runs |-> runs[r].attempt]
           C == {r \in Runs : runs[r].status \in Terminal}
<1>1. runs \in [Runs -> RunRecord]
  BY DEF IInv, TypeOK
<1>2. CASE runs' = runs
  BY <1>2 DEF Tenure!vars
<1>3. ASSUME NEW q \in Runs, NEW new, runs' = [runs EXCEPT ![q] = new]
      PROVE  /\ H' = [H EXCEPT ![q] = new.owner]
             /\ T' = [T EXCEPT ![q] = new.attempt]
             /\ C' = IF new.status \in Terminal THEN C \cup {q} ELSE C \ {q}
  BY <1>1, <1>3
<1>4. ASSUME NEW q \in Runs, runs[q].status \in {"running", "waiting_approval"},
             NEW target \in {"running", "waiting_approval", "paused"} \cup Terminal,
             runs' = [runs EXCEPT ![q] = Transitioned(runs[q], target)]
      PROVE  [Tenure!Next]_(Tenure!vars)
  <2> DEFINE new == Transitioned(runs[q], target)
  <2>1. /\ new.status = target /\ new.attempt = T[q]
        /\ new.owner = IF target \in {"running", "waiting_approval"} THEN H[q] ELSE NoOwner
    BY <1>1 DEF Transitioned, RunRecord
  <2>2. runs' = [runs EXCEPT ![q] = new]
    BY <1>4
  <2> HIDE DEF new
  <2>8. /\ H' = [H EXCEPT ![q] = new.owner] /\ T' = [T EXCEPT ![q] = new.attempt]
        /\ C' = IF new.status \in Terminal THEN C \cup {q} ELSE C \ {q}
    BY <1>3, <2>2
  <2>3. T' = T
    BY <2>1, <2>8
  <2>4. q \notin C
    BY <1>4 DEF Terminal
  <2>5. CASE target \in Terminal
    <3>1. H' = [H EXCEPT ![q] = NoOwner] /\ C' = C \cup {q}
      BY <2>1, <2>5, <2>8 DEF Terminal
    <3> QED
      BY <2>3, <3>1 DEF Tenure!Next, Tenure!Close
  <2>6. CASE target \in {"running", "waiting_approval"}
    <3>1. H' = H /\ C' = C
      BY <2>1, <2>4, <2>6, <2>8 DEF Terminal
    <3> QED
      BY <2>3, <3>1 DEF Tenure!vars
  <2>7. CASE target = "paused"
    <3>1. H' = [H EXCEPT ![q] = NoOwner] /\ C' = C
      BY <2>1, <2>4, <2>7, <2>8 DEF Terminal
    <3> QED
      BY <2>3, <2>4, <3>1 DEF Tenure!Next, Tenure!Release
  <2> QED
    BY <2>5, <2>6, <2>7
<1>5. ASSUME NEW q \in Runs, WorkStep(q) \/ DecisionStep(q) PROVE [Tenure!Next]_(Tenure!vars)
  <2>1. "canceled" \in Terminal /\ "partial" \in Terminal
    BY DEF Terminal
  <2> QED
    BY <1>4, <1>5, <2>1 DEF WorkStep, DecisionStep, Written
<1>6. ASSUME NEW q \in Runs, StartStep(q) PROVE [Tenure!Next]_(Tenure!vars)
  <2> DEFINE begun == Claimed(QueuedRun, epoch, 1, 1)
  <2>1. /\ runs[q] = AbsentRun /\ epoch \in Owners
        /\ H[q] = NoOwner /\ T[q] = 0 /\ q \notin C
    <3>1. runs[q] = AbsentRun /\ epoch \in Owners
      BY <1>6 DEF StartStep, IInv, RowOK
    <3>2. AbsentRun.owner = NoOwner /\ AbsentRun.attempt = 0 /\ AbsentRun.status \notin Terminal
      BY DEF AbsentRun, Absent, Terminal
    <3> QED
      BY <3>1, <3>2
  <2>7. PICK w \in Owners : w = epoch
    BY <2>1
  <2>2. /\ QueuedRun.owner = NoOwner /\ QueuedRun.attempt = 0 /\ QueuedRun.status \notin Terminal
        /\ begun.owner = epoch /\ begun.attempt = 1 /\ begun.status \notin Terminal
    BY DEF QueuedRun, AbsentRun, Claimed, Terminal
  <2>3. CASE runs' = [runs EXCEPT ![q] = QueuedRun]
    <3>1. H' = H /\ T' = T /\ C' = C
      BY <1>3, <2>1, <2>2, <2>3
    <3> QED
      BY <3>1 DEF Tenure!vars
  <2>4. ASSUME H' = [H EXCEPT ![q] = w], T' = [T EXCEPT ![q] = T[q] + 1], C' = C
        PROVE  [Tenure!Next]_(Tenure!vars)
    <3>1. Tenure!Grant(q, w)
      BY <2>1, <2>4 DEF Tenure!Grant
    <3> QED
      BY <3>1 DEF Tenure!Next
  <2>5. CASE runs' = [runs EXCEPT ![q] = begun]
    <3>1. H' = [H EXCEPT ![q] = begun.owner] /\ T' = [T EXCEPT ![q] = begun.attempt] /\ C' = C \ {q}
      <4> HIDE DEF begun
      <4> QED
        BY <1>3, <2>2, <2>5
    <3>2. begun.owner = w /\ begun.attempt = T[q] + 1 /\ C \ {q} = C
      BY <2>1, <2>2, <2>7
    <3> HIDE DEF begun, H, T, C
    <3> QED
      BY <2>4, <3>1, <3>2
  <2>6. ASSUME NEW old \in Runs, runs[old].status \in Halted,
               runs' = [runs EXCEPT ![q] = begun,
                                    ![old] = Transitioned(runs[old], runs[old].status)]
        PROVE  [Tenure!Next]_(Tenure!vars)
    <3> DEFINE ended == Transitioned(runs[old], runs[old].status)
    <3>1. old # q /\ runs[old].status \notin {"running", "waiting_approval"}
      BY <1>6, <2>6 DEF StartStep, Halted, Absent
    <3>2. /\ ended.status = runs[old].status /\ ended.attempt = runs[old].attempt
          /\ ended.owner = NoOwner /\ runs[old].owner = NoOwner
      <4>1. runs[old] \in RunRecord /\ runs[old].owner = NoOwner
        BY <1>1, <3>1 DEF IInv, RowOK
      <4> QED
        BY <3>1, <4>1 DEF Transitioned, RunRecord
    <3> HIDE DEF ended, begun
    <3>3. /\ runs'[q] = begun /\ runs'[old] = ended
          /\ \A r \in Runs \ {q, old} : runs'[r] = runs[r]
      BY <1>1, <2>6, <3>1 DEF ended
    <3>6. H' = [H EXCEPT ![q] = w]
      BY <2>2, <2>7, <3>1, <3>2, <3>3
    <3>4. T' = [T EXCEPT ![q] = T[q] + 1]
      <4>1. begun.attempt = T[q] + 1
        BY <2>1, <2>2
      <4> QED
        BY <3>1, <3>2, <3>3, <4>1
    <3>5. C' = C
      BY <2>1, <2>2, <3>1, <3>2, <3>3
    <3> QED
      BY <2>4, <3>4, <3>5, <3>6
  <2> QED
    BY <1>6, <2>3, <2>5, <2>6 DEF StartStep
<1> QED
  BY <1>2, <1>5, <1>6, RowStep

\* All the session objects and processes that serve the session, one after the
\* other, write its rows under the exclusive numbered terms of RunTenure.
THEOREM SessionImplementsTenure == Spec => ImplementsTenure
<1>1. Init => Tenure!Init
  <2> SUFFICES ASSUME Init PROVE Tenure!Init
    OBVIOUS
  <2>1. \A r \in Runs : runs[r].owner = NoOwner /\ runs[r].attempt = 0
                         /\ runs[r].status \notin Terminal
    BY DEF Init, AbsentRun, Absent, Terminal
  <2> QED
    BY <2>1 DEF Tenure!Init
<1>2. IInv /\ [Next]_vars => [Tenure!Next]_(Tenure!vars)
  BY TenureStep
<1> QED
  BY <1>1, <1>2, Invariance, PTL DEF Spec, ImplementsTenure, Tenure!Spec


=============================================================================
