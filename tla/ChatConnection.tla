---------------------------- MODULE ChatConnection ----------------------------
(***************************************************************************)
(* The delivery of a session's events to a page over WebSocket connections *)
(* that come and go: chat_connection.py on the server, agentChat.ts,       *)
(* agentChatEventHandler.ts and reviewStore.ts in the page.                *)
(*                                                                         *)
(* The server numbers its events, keeps the newest of them for replay and  *)
(* holds a lock while an event, or the replay of a new connection, is      *)
(* being sent.  The page keeps the number of the last event it handled and *)
(* gives it when it reconnects; commands written while it was offline are  *)
(* sent when the connection opens.  A server that restarts begins a new    *)
(* epoch.                                                                  *)
(*                                                                         *)
(* The session behind the connection is reduced to what decides its        *)
(* events: whether a task runs, which reviews wait, and which of those it  *)
(* knows of (ChatSession has the rest).  One page at a time; a connection is a number.  Left out:    *)
(* texts, todos, the chunks of a streamed answer, design events.           *)
(***************************************************************************)
EXTENDS Integers, Sequences, FiniteSets, FiniteSetsExt

CONSTANTS
    Capacity,       \* events kept for replay (2000)
    MaxReviews,     \* bound on the review requests submitted
    MaxSteps,       \* bound on the steps of a run
    MaxRuns,        \* bound on the messages that start a run
    MaxCommands,    \* bound on the commands of the user
    MaxFaults,      \* bound on drops, failed sends and connections, crashes and reloads
    MaxAttempts     \* MAX_RECONNECT_ATTEMPTS

ASSUME CapacityAssumption == Capacity \in Nat \ {0}
ASSUME BoundsAssumption ==
    {MaxReviews, MaxSteps, MaxRuns, MaxCommands, MaxFaults, MaxAttempts} \subseteq Nat

Steps == 1..MaxSteps
Reviews == 1..MaxReviews
NoReview == 0
\* Every connection but the first follows a fault or a command of the user.
Conns == 1..(2 * MaxFaults + MaxCommands + 1)
Offline == 0

\* An event is its kind and its step or review. A refusal is an error that
\* says a task is running.
Ev(kind, arg) == [kind |-> kind, arg |-> arg]
Plain(kind) == Ev(kind, 0)
EventKinds == {"started", "progress", "review", "expired", "committed", "refused"}
                \cup {"done", "stopped", "error"}
Event == [kind : EventKinds, arg : Steps \cup Reviews \cup {0}]

VARIABLES
    \* ChatConnection
    epoch,
    log,            \* every event of the epoch; event_seq is the index
    first,          \* _events is log[first..Len(log)]
    steps,          \* _progress_steps
    reviews,        \* _reviews
    socket,         \* _socket
    lock,           \* _lock: who sends, to whom, and the event or the page's cursor
    coroutine,      \* of each connection, with the reviews it has yet to bring back
    \* the session
    activity,       \* of the task
    late,           \* earlier tasks, replaced before their last event
    waiting,        \* the reviews of rows that wait for approval
    fallback,       \* those in fallback_review_runs
    counts,         \* runs started and reviews asked for
    command,        \* what the command in progress has yet to send
    \* the network
    down,           \* what is under way to the page, on its connection
    up,             \* the commands under way, on each connection
    faults,
    \* the page
    page,
    \* of the observer
    missed,         \* events of this epoch that the page passed over
    answered,       \* reviews the user of this page answered
    given,          \* events there were when the page, without a cursor, was given the state
    notice          \* whether the page was told that events are missing

server == <<epoch, log, first, steps, reviews, socket, lock, coroutine>>
session == <<activity, late, waiting, fallback, counts, command>>
observer == <<missed, answered, given, notice>>
vars == <<server, session, down, up, faults, page, observer>>

\* Nothing was said of a gap; the connection was lost before it could be; it was said.
Notices == {"none", "cut", "given"}

Senders == {"task", "late", "command", "connect"}
Free == [by |-> "nobody", to |-> Offline, event |-> 0]
NoCoroutine == [at |-> "none", todo |-> {}]
NoCursor == [epoch |-> 0, seq |-> 0]
NewPage(c, sent) ==
    [conn |-> c, link |-> "connecting", retry |-> FALSE, attempts |-> 0,
     synced |-> FALSE, cursor |-> NoCursor, sent |-> sent,
     stop |-> FALSE, chats |-> 0, replies |-> {},
     busy |-> FALSE, steps |-> {}, review |-> NoReview, status |-> "idle"]

CommandNames == {"stop", "chat", "accept", "reject"}
Command == [name : CommandNames, review : Reviews \cup {NoReview}]
Page == [conn : Conns, link : {"connecting", "open", "closed"}, retry : BOOLEAN,
         attempts : 0..MaxAttempts, synced : BOOLEAN,
         cursor : [epoch : 0..epoch, seq : Nat], sent : 0..MaxCommands,
         stop : BOOLEAN, chats : 0..MaxCommands, replies : SUBSET Command,
         busy : BOOLEAN, steps : SUBSET Steps,
         review : Reviews \cup {NoReview},
         status : {"idle", "pending", "submitting", "accepted", "rejected", "expired"}]

TypeOK ==
    /\ epoch \in 1..(MaxFaults + 1)
    /\ log \in Seq(Event)
    /\ first \in 1..Max({1, Len(log)}) /\ Len(log) - first < Capacity
    /\ steps \subseteq Steps
    /\ reviews \subseteq Reviews
    /\ socket \in Conns \cup {Offline}
    /\ lock \in [by : {"nobody", "attach"} \cup Senders,
                 to : Conns \cup {Offline}, event : 0..Len(log)]
    /\ coroutine \in [Conns -> [at : {"none", "opening", "attached", "gone"}, todo : SUBSET Reviews]]
    /\ activity \in {"none", "preparing", "working", "committed", "suspending", "closing"}
    /\ late \in Nat
    /\ waiting \subseteq Reviews /\ fallback \subseteq waiting
    /\ counts \in [runs : 0..MaxRuns, reviews : 0..MaxReviews]
    /\ command \in Seq(Event)
    /\ up \in [Conns -> Seq(Command)]
    /\ faults \in 0..MaxFaults
    /\ page \in Page
    /\ page.cursor.epoch = epoch => page.cursor.seq \in 1..Len(log)
    /\ missed \subseteq 1..Len(log) /\ answered \subseteq Reviews /\ given \in 0..Len(log)
    /\ notice \in Notices

Init ==
    /\ epoch = 1 /\ log = <<>> /\ first = 1 /\ steps = {} /\ reviews = {}
    /\ socket = Offline /\ lock = Free
    /\ coroutine = [c \in Conns |-> NoCoroutine]
    /\ activity = "none" /\ late = 0 /\ waiting = {} /\ fallback = {} /\ command = <<>>
    /\ counts = [runs |-> 0, reviews |-> 0]
    /\ down = <<>> /\ up = [c \in Conns |-> <<>>] /\ faults = 0
    /\ page = NewPage(1, 0)
    /\ missed = {} /\ answered = {} /\ given = 0 /\ notice = "none"

\* c is the connection the page listens to, and it stands.
Reaches(c) == c = page.conn /\ page.link = "open"
Arrives(c, messages) == down' = IF Reaches(c) THEN down \o messages ELSE down

-----------------------------------------------------------------------------
(* The server sends.                                                         *)

Running == activity # "none"

\* Where the buffer begins after its newest event. The limit on its bytes drops
\* the oldest events too, but never the newest.
TrimmedLate(newest) == Max({first, newest - Capacity})
Trimmed(newest) == Max({first, newest - Capacity + 1})

\* send_json up to its await: the number, the state a later connection is given,
\* the buffer. With no subscriber there is nothing to wait for.
Send(by, e) ==
    /\ lock = Free
    /\ log' = Append(log, e)
    /\ first' = Trimmed(Len(log) + 1)
    /\ steps' = CASE e.kind = "started"  -> {}
                  [] e.kind = "progress" -> steps \cup {e.arg}
                  [] OTHER               -> steps
    /\ reviews' = CASE e.kind = "review"  -> reviews \cup {e.arg}
                    [] e.kind = "expired" -> reviews \ {e.arg}
                    [] e.kind = "stopped" -> {}
                    [] OTHER              -> reviews
    /\ lock' = IF socket = Offline THEN Free
               ELSE [by |-> by, to |-> socket, event |-> Len(log) + 1]
    /\ UNCHANGED <<epoch, socket, coroutine>>

EventMessage(n) == [what |-> "event", epoch |-> epoch, seq |-> n, event |-> log[n]]

\* The socket takes the event, or the connection swallows it.
SendReturns ==
    /\ lock.by \in Senders
    /\ Arrives(lock.to, <<EventMessage(lock.event)>>)
    /\ lock' = Free
    /\ UNCHANGED <<epoch, log, first, steps, reviews, socket, coroutine,
                   session, up, faults, page, observer>>

KeptSubscriber == socket
DroppedSubscriber == Offline

\* An exception, or five seconds: the subscriber is dropped. On a connection
\* that stands it is a fault, and what was written may still arrive.
SendFails ==
    /\ lock.by \in Senders
    /\ IF Reaches(lock.to)
       THEN /\ faults < MaxFaults /\ faults' = faults + 1
            /\ down' \in {down, Append(down, EventMessage(lock.event))}
       ELSE UNCHANGED <<faults, down>>
    /\ socket' = DroppedSubscriber
    /\ lock' = Free
    /\ UNCHANGED <<epoch, log, first, steps, reviews, coroutine, session, up, page, observer>>

\* A connection's coroutine begins by sending the reviews that wait, each time.
ShowReview(c) ==
    /\ coroutine[c].at = "opening"
    /\ \E r \in coroutine[c].todo :
        /\ lock = Free
        /\ log' = Append(log, Ev("review", r))
        /\ first' = Trimmed(Len(log) + 1)
        /\ reviews' = reviews \cup {r}
        /\ lock' = IF socket = Offline THEN Free
                   ELSE [by |-> "connect", to |-> socket, event |-> Len(log) + 1]
        /\ coroutine' = [coroutine EXCEPT ![c].todo = @ \ {r}]
    /\ UNCHANGED <<epoch, steps, socket, session, down, up, faults, page, observer>>

-----------------------------------------------------------------------------
(* attach.                                                                   *)

Newest(kinds) == {n \in DOMAIN log :
    log[n].kind \in kinds /\ \A k \in DOMAIN log : k > n => log[k].kind \notin kinds}
SinceStart(S) == {n \in S : \A k \in DOMAIN log : k > n => log[k].kind # "started"}
ReviewEvents == UNION {{n \in DOMAIN log :
    log[n] = Ev("review", r) /\ \A k \in DOMAIN log : k > n => log[k] # log[n]} : r \in reviews}

\* What a page without a cursor of this epoch is given: _progress, _reviews and,
\* when no task runs, _terminal.
Terminals == {"done", "stopped", "error", "refused"}
CurrentWithoutReviews == SinceStart(Newest({"progress"}))
Current == SinceStart(Newest({"progress"})) \cup ReviewEvents
             \cup (IF Running THEN {} ELSE SinceStart(Newest(Terminals)))

\* The numbers of S from the lowest to the highest: one sequence.
InOrder(S) == {s \in [1..Cardinality(S) -> S] :
    /\ \A n \in S : \E i \in DOMAIN s : s[i] = n
    /\ \A i, j \in DOMAIN s : i < j => s[i] < s[j]}

SnapshotWithoutHistory == [what |-> "snapshot", steps |-> {}]
Snapshot == [what |-> "snapshot", steps |-> steps]

TruncatedLate(cursor) == cursor # 0 /\ cursor < first - 2
Truncated(cursor) == cursor # 0 /\ cursor < first - 1

\* The connection takes the subscription and is sent the snapshot of the steps
\* and the events it lacks, the lock held throughout.
AttachBegins(c) ==
    /\ coroutine[c] = [at |-> "opening", todo |-> {}]
    /\ lock = Free
    /\ socket' = c
    /\ LET known == page.cursor.epoch = epoch
           lacking == IF known THEN {n \in first..Len(log) : n > page.cursor.seq} ELSE Current
       IN  /\ \E replay \in InOrder(lacking) :
                 Arrives(c, <<Snapshot>> \o [i \in DOMAIN replay |-> EventMessage(replay[i])])
           /\ given' = IF c # page.conn THEN given ELSE IF known THEN 0 ELSE Len(log)
           /\ lock' = [by |-> "attach", to |-> c, event |-> IF known THEN page.cursor.seq ELSE 0]
    /\ UNCHANGED <<epoch, log, first, steps, reviews, coroutine,
                   session, up, faults, page, missed, answered, notice>>

\* session_sync, with what is true by then.
AttachEnds ==
    /\ lock.by = "attach"
    /\ Arrives(lock.to, <<[what |-> "sync", running |-> Running, pending |-> reviews,
                           truncated |-> Truncated(lock.event)]>>)
    /\ coroutine' = [coroutine EXCEPT ![lock.to].at = "attached"]
    /\ lock' = Free
    /\ UNCHANGED <<epoch, log, first, steps, reviews, socket,
                   session, up, faults, page, observer>>

\* The coroutine finds its connection closed, when it receives or while it
\* attaches: detach().
Detach(c) ==
    /\ ~ Reaches(c)
    /\ \/ coroutine[c].at = "attached" /\ lock' = lock
       \/ lock.by = "attach" /\ lock.to = c /\ lock' = Free
    /\ coroutine' = [coroutine EXCEPT ![c] = [NoCoroutine EXCEPT !.at = "gone"]]
    /\ socket' = IF socket = c THEN Offline ELSE socket
    /\ UNCHANGED <<epoch, log, first, steps, reviews, session, down, up, faults, page, observer>>

-----------------------------------------------------------------------------
(* The task of the session.                                                  *)

TaskSends(e, next) ==
    /\ Send("task", e)
    /\ activity' = next
    /\ UNCHANGED <<late, command, down, up, faults, page, observer>>

Step ==
    /\ activity = "working" /\ Cardinality(steps) < MaxSteps
    /\ TaskSends(Ev("progress", Cardinality(steps) + 1), "working")
    /\ UNCHANGED <<waiting, fallback, counts>>

Commits ==
    /\ activity = "working"
    /\ TaskSends(Plain("committed"), "committed")
    /\ UNCHANGED <<waiting, fallback, counts>>

Asks ==
    /\ activity = "working" /\ counts.reviews < MaxReviews
    /\ LET r == counts.reviews + 1
       IN  /\ TaskSends(Ev("review", r), "suspending")
           /\ waiting' = waiting \cup {r} /\ fallback' = fallback \cup {r}
           /\ counts' = [counts EXCEPT !.reviews = r]

Ends ==
    /\ \/ activity \in {"committed", "suspending"} /\ TaskSends(Plain("done"), "closing")
       \/ /\ activity = "working"
          /\ \E last \in {"done", "error"} : TaskSends(Plain(last), "closing")
    /\ UNCHANGED <<waiting, fallback, counts>>

\* A task that suspended sends its last event although another was started.
LateEnds ==
    /\ late > 0
    /\ Send("late", Plain("done"))
    /\ late' = late - 1
    /\ UNCHANGED <<activity, waiting, fallback, counts, command, down, up, faults, page, observer>>

\* What is left after the last send: the stream is closed, its hooks run.
TaskIsDone ==
    /\ activity = "closing" /\ lock.by # "task"
    /\ activity' = "none"
    /\ UNCHANGED <<server, late, waiting, fallback, counts, command, down, up, faults, page, observer>>

-----------------------------------------------------------------------------
(* Commands, one at a time under command_lock. What a command sends itself   *)
(* is queued in `command`.                                                   *)

\* A new run, or an error of its preparation.
Starts(waits, known) ==
    /\ waiting' = waits /\ reviews' = known
    /\ \/ /\ activity' = "preparing"
          /\ late' = IF activity = "suspending" THEN late + 1 ELSE late
          /\ command' = <<Plain("started")>>
       \/ /\ UNCHANGED <<activity, late>>
          /\ command' = <<Plain("error")>>
    /\ UNCHANGED <<lock, down>>

Answers(replies) ==
    /\ command' = replies
    /\ UNCHANGED <<activity, late, waiting, counts, reviews, lock, down>>

\* These reviews are shown again, and the page is told that nothing runs.
Reminder(pending) ==
    \E order \in InOrder(pending) :
        Answers([i \in 1..Cardinality(pending) |-> Ev("review", order[i])] \o <<Plain("done")>>)

\* A message that says so cancels the runs of these reviews.
Cancels(pending) ==
    /\ \E order \in InOrder(pending) :
          command' = [i \in 1..(2 * Cardinality(pending)) |->
                         IF i % 2 = 0 THEN Plain("done") ELSE Ev("expired", order[(i + 1) \div 2])]
    /\ waiting' = waiting \ pending /\ reviews' = reviews \ pending
    /\ UNCHANGED <<activity, late, counts, lock, down>>

\* Only the reviews in fallback_review_runs hold a message back: one whose task
\* was stopped waits on, but the session does not know it until the next connection.
Chat ==
    \/ Running /\ Answers(<<Plain("refused")>>) /\ fallback' = fallback
    \/ /\ ~ Running /\ fallback # {}
       /\ \/ Reminder(fallback) /\ fallback' = fallback
          \/ Cancels(fallback) /\ fallback' = {}
    \/ /\ ~ Running /\ fallback = {} /\ counts.runs < MaxRuns
       /\ Starts(waiting, reviews) /\ fallback' = fallback
       /\ counts' = [counts EXCEPT !.runs = @ + 1]

\* The rows are asked which reviews wait (restore_pending_reviews). The task is
\* canceled, in the middle of a send if need be; what it was sending has been written.
Stop ==
    \/ ~ Running /\ waiting # {} /\ Reminder(waiting) /\ fallback' = waiting
    \/ /\ Running \/ waiting = {}
       /\ activity' = "none"
       /\ command' = <<Plain("stopped")>>
       /\ IF lock.by = "task"
          THEN lock' = Free /\ Arrives(lock.to, <<EventMessage(lock.event)>>)
          ELSE UNCHANGED <<lock, down>>
       /\ fallback' = {}
       /\ UNCHANGED <<late, waiting, counts, reviews>>

\* A decision: expired, refused for what happened to the project meanwhile, or
\* followed by the run that goes on.
Reply(r) ==
    \/ r \notin fallback /\ Answers(<<Ev("expired", r)>>) /\ fallback' = fallback
    \/ r \in fallback /\ Answers(<<Plain("error")>>) /\ fallback' = fallback
    \/ /\ r \in fallback
       /\ Starts(waiting \ {r}, reviews \ {r}) /\ fallback' = fallback \ {r}
       /\ UNCHANGED counts

\* A coroutine takes the next command of its connection and drops it when it is
\* not the subscriber's.
Receive(c) ==
    /\ coroutine[c].at = "attached" /\ up[c] # <<>>
    /\ command = <<>> /\ lock.by # "command"
    /\ LET m == Head(up[c])
       IN  IF socket # c THEN UNCHANGED <<session, reviews, lock, down>>
           ELSE CASE m.name = "chat" -> Chat
                  [] m.name = "stop" -> Stop
                  [] OTHER           -> Reply(m.review)
    /\ up' = [up EXCEPT ![c] = Tail(@)]
    /\ UNCHANGED <<epoch, log, first, steps, socket, coroutine, faults, page, observer>>

CommandSends ==
    /\ command # <<>>
    /\ Send("command", Head(command))
    /\ command' = Tail(command)
    /\ activity' = IF Head(command).kind = "started" THEN "working" ELSE activity
    /\ UNCHANGED <<late, waiting, fallback, counts, down, up, faults, page, observer>>

-----------------------------------------------------------------------------
(* The page's connection.                                                    *)

OfflineCommands == {"stop", "chat"}

\* onclose: another attempt is scheduled, or replies that wait are given up.
Closed ==
    LET again == page.attempts < MaxAttempts
        p == [page EXCEPT !.link = "closed", !.synced = FALSE, !.retry = again]
    IN  IF again THEN [p EXCEPT !.attempts = @ + 1]
        ELSE [p EXCEPT !.replies = {}, !.status = IF @ = "submitting" THEN "pending" ELSE @]

\* What is under way to the page is lost; with it, perhaps, the session_sync that
\* would have told the page of a gap it has passed over by then.
Loses ==
    /\ page' = Closed /\ down' = <<>>
    /\ notice' = IF missed # {} /\ notice = "none" THEN "cut" ELSE notice
    /\ UNCHANGED <<missed, answered, given>>

\* The network drops the connection, or it cannot be made; commands under way
\* may be lost with it.
Drop ==
    /\ page.link # "closed" /\ faults < MaxFaults
    /\ faults' = faults + 1
    /\ Loses
    /\ up' \in {up, [up EXCEPT ![page.conn] = <<>>]}
    /\ UNCHANGED <<server, session>>

\* Pings are commands: a connection that is not the subscriber's gets no pong.
UnansweredByTheDead(c) == coroutine[c].at = "gone"
Unanswered(c) == coroutine[c].at = "gone" \/ (coroutine[c].at = "attached" /\ socket # c)
HeartbeatTimeout ==
    /\ page.link = "open" /\ Unanswered(page.conn)
    /\ Loses
    /\ UNCHANGED <<server, session, up, faults>>

Connecting(p) == [p EXCEPT !.conn = @ + 1, !.link = "connecting", !.retry = FALSE]

Reconnect ==
    /\ page.link = "closed" /\ page.retry
    /\ page.conn + 1 \in Conns
    /\ page' = Connecting(page)
    /\ UNCHANGED <<server, session, down, up, faults, observer>>

Decided(name) == IF name = "accept" THEN "accepted" ELSE "rejected"

\* What waited goes out: the stop, then the messages, then the replies.
Waits(p) == p.stop \/ p.chats > 0 \/ p.replies # {}
Orders(S) == {s \in [1..Cardinality(S) -> S] : \A x \in S : \E i \in DOMAIN s : s[i] = x}
Give(name) == [name |-> name, review |-> NoReview]
Flushed(p) ==
    {(IF p.stop THEN <<Give("stop")>> ELSE <<>>) \o [i \in 1..p.chats |-> Give("chat")] \o replies :
        replies \in Orders(p.replies)}

OpenedWithQueue(p) == [p EXCEPT !.link = "open", !.attempts = 0]
Opened(p) ==
    LET sent == {m \in p.replies : m.review = p.review}
    IN  [p EXCEPT !.link = "open", !.attempts = 0,
                  !.stop = FALSE, !.chats = 0, !.replies = {},
                  !.status = IF sent = {} THEN @ ELSE Decided((CHOOSE m \in sent : TRUE).name)]

\* onopen, and the start of the coroutine on the server: the reviews of the
\* rows that wait come back.
Open ==
    /\ page.link = "connecting"
    /\ coroutine' = [coroutine EXCEPT ![page.conn] = [at |-> "opening", todo |-> waiting]]
    /\ \E commands \in Flushed(page) : up' = [up EXCEPT ![page.conn] = commands]
    /\ fallback' = waiting
    /\ page' = Opened(page)
    /\ UNCHANGED <<epoch, log, first, steps, reviews, socket, lock,
                   activity, late, waiting, counts, command, down, faults, observer>>

\* The page is loaded anew, in the same session.
Reload ==
    /\ faults < MaxFaults /\ page.conn + 1 \in Conns
    /\ faults' = faults + 1
    /\ page' = NewPage(page.conn + 1, page.sent)
    /\ down' = <<>> /\ missed' = {} /\ answered' = {} /\ given' = 0 /\ notice' = "none"
    /\ UNCHANGED <<server, session, up>>

\* The server dies; what starts again knows the rows that wait, and no event.
Crash ==
    /\ faults < MaxFaults
    /\ faults' = faults + 1
    /\ epoch' = epoch + 1 /\ log' = <<>> /\ first' = 1 /\ steps' = {} /\ reviews' = {}
    /\ socket' = Offline /\ lock' = Free
    /\ coroutine' = [c \in Conns |-> IF coroutine[c].at = "none" THEN NoCoroutine
                                     ELSE [NoCoroutine EXCEPT !.at = "gone"]]
    /\ activity' = "none" /\ late' = 0 /\ fallback' = {} /\ command' = <<>>
    /\ down' = <<>> /\ up' = [c \in Conns |-> <<>>]
    /\ page' = IF page.link = "closed" THEN page ELSE Closed
    /\ missed' = {} /\ given' = 0 /\ notice' = "none"
    /\ UNCHANGED <<waiting, counts, answered>>

-----------------------------------------------------------------------------
(* The user, and what the page shows.                                        *)

\* A command goes out at once, or waits for a connection, made if there is none.
User(name) ==
    LET m == [name |-> name, review |-> IF name \in OfflineCommands THEN NoReview ELSE page.review]
        ordered == [page EXCEPT !.sent = @ + 1,
                     !.busy = IF name = "chat" THEN TRUE ELSE @,
                     !.steps = IF name = "chat" THEN {} ELSE @]
        queued == CASE name = "stop" -> [ordered EXCEPT !.stop = TRUE]
                    [] name = "chat" -> [ordered EXCEPT !.chats = @ + 1]
                    [] OTHER -> [ordered EXCEPT !.status = "submitting",
                                   !.replies = {x \in @ : x.review # m.review} \cup {m}]
    IN  /\ page.sent < MaxCommands
        /\ CASE name = "chat" -> ~ page.busy
             [] name = "stop" -> page.busy
             [] OTHER         -> page.status = "pending"
        /\ \/ /\ page.link = "open"
              /\ up' = [up EXCEPT ![page.conn] = Append(@, m)]
              /\ page' = [ordered EXCEPT !.status = IF name \in OfflineCommands THEN @
                                                  ELSE Decided(name)]
           \/ /\ page.link = "connecting"
              /\ page' = [queued EXCEPT !.attempts = IF name = "chat" THEN @ ELSE 0]
              /\ up' = up
           \/ /\ page.link = "closed" /\ page.conn + 1 \in Conns
              /\ page' = [Connecting(queued) EXCEPT !.attempts = 0]
              /\ up' = up
        /\ answered' = IF name \in OfflineCommands THEN answered ELSE answered \cup {page.review}
        /\ UNCHANGED <<server, session, down, faults, missed, given, notice>>

Cleared(p) == [p EXCEPT !.review = NoReview, !.status = "idle"]
Idle(p) == [p EXCEPT !.busy = FALSE, !.steps = {}]
Undecided == {"pending", "submitting"}

\* The event handler, with the review store it drives.
Shown(p, e) ==
    CASE e.kind = "started"  -> [p EXCEPT !.busy = TRUE]
      [] e.kind = "progress" -> [p EXCEPT !.steps = @ \cup {e.arg}]
      [] e.kind = "review"   ->
            IF p.review = e.arg /\ p.status \in {"submitting", "accepted", "rejected"} THEN p
            ELSE [p EXCEPT !.review = e.arg, !.status = "pending"]
      [] e.kind = "expired"  ->
            IF p.review \notin {e.arg, NoReview} THEN p
            ELSE [p EXCEPT !.busy = FALSE,
                           !.status = IF p.review = e.arg /\ @ # "idle" THEN "expired" ELSE @]
      [] e.kind = "committed" -> IF p.status = "accepted" THEN Cleared(p) ELSE p
      [] e.kind = "refused"  -> p
      [] e.kind = "done"     -> Idle(IF p.status = "rejected" THEN Cleared(p) ELSE p)
      [] OTHER -> \* stopped, error
            Idle([p EXCEPT !.status = IF @ \in Undecided THEN "expired" ELSE @])

PageReadsEvent(m) ==
    LET same == page.cursor.epoch = m.epoch
    IN  IF same /\ page.cursor.seq >= m.seq THEN UNCHANGED <<page, observer>>
        ELSE /\ page' = [Shown(page, m.event) EXCEPT !.cursor = [epoch |-> m.epoch, seq |-> m.seq]]
             /\ missed' = IF same THEN missed \cup ((Max({page.cursor.seq, given}) + 1)..(m.seq - 1)) ELSE {}
             /\ notice' = IF same THEN notice ELSE "none"
             /\ UNCHANGED <<given, answered>>

PageReadsSync(m) ==
    LET p == [page EXCEPT !.synced = TRUE, !.busy = m.running]
    IN  /\ page' = IF p.status = "pending" /\ p.review \notin m.pending THEN Cleared(p) ELSE p
        /\ notice' = IF m.truncated THEN "given" ELSE notice
        /\ UNCHANGED <<missed, given, answered>>

PageReads ==
    /\ page.link = "open" /\ down # <<>>
    /\ LET m == Head(down)
       IN  CASE m.what = "event"    -> PageReadsEvent(m)
             [] m.what = "snapshot" -> page' = [page EXCEPT !.steps = m.steps] /\ UNCHANGED observer
             [] m.what = "sync"     -> PageReadsSync(m)
    /\ down' = Tail(down)
    /\ UNCHANGED <<server, session, up, faults>>

-----------------------------------------------------------------------------
ServerStep == \/ SendReturns \/ AttachEnds \/ CommandSends \/ TaskIsDone \/ LateEnds
              \/ \E c \in Conns : ShowReview(c) \/ AttachBegins(c) \/ Detach(c) \/ Receive(c)
PageStep == Open \/ Reconnect \/ HeartbeatTimeout \/ PageReads

Next == \/ ServerStep \/ PageStep
        \/ Step \/ Commits \/ Asks \/ Ends
        \/ SendFails \/ Drop \/ Crash \/ Reload
        \/ \E name \in CommandNames : User(name)

\* Neither the event loop nor the browser is idle while something is ready there, and
\* the network delivers what it does not lose. (Each has finitely much to do before
\* something new happens, so nothing that is ready waits for ever.) Nobody has to give
\* a command, and a task may take any time.
Fairness == WF_vars(ServerStep) /\ WF_vars(PageStep)

Spec == Init /\ [][Next]_vars /\ Fairness

-----------------------------------------------------------------------------
(* Properties.                                                               *)

\* The page is on the subscribed connection, has had its session_sync, and
\* nothing is on its way.
Quiet == /\ page.link = "open" /\ page.synced
         /\ socket = page.conn /\ lock = Free /\ command = <<>>
         /\ down = <<>> /\ up[page.conn] = <<>>

\* Events the page will never see, after it has seen an earlier one of the same
\* server, are events it was told of (replay_truncated), once it is synchronized:
\* the numbering, the lock and the replay leave no other gap. What can be lost is
\* the notice itself, with the connection that was to bring it.
NothingMissedUntold == page.synced => missed = {} \/ notice # "none"

\* A quiet page has handled the newest event, unless it was given the state
\* instead and nothing has happened since.
AtTheEnd == page.cursor = [epoch |-> epoch, seq |-> Len(log)] \/ Len(log) = given
QuietIsCurrent == Quiet => AtTheEnd

\* A quiet page shows the steps of the run that works, whatever it missed, and that
\* it works, unless an end was announced since it began: of a message the user gave
\* too early (the page clears its steps before the server refuses it) or of a run
\* that had suspended and was late. A reply that came too late makes the page believe
\* the run is over, too, but it keeps the steps.
WorkIsShown ==
    Quiet /\ activity = "working" /\ SinceStart(Newest(Terminals)) = {}
        => steps \subseteq page.steps /\ (SinceStart(Newest({"expired"})) = {} => page.busy)

\* The review announced last is before the user until it is answered, as long as its
\* run waits, unless the page was told of a gap. Of an earlier one this is not so: a
\* connection that opens announces the reviews that waited when it opened, also one
\* that was answered meanwhile, and the page then shows that one.
ReviewIsShown ==
    Quiet => \A n \in Newest({"review"}) :
                log[n].arg \in (reviews \cap waiting) \ answered
                    => notice # "none" \/ page.review = log[n].arg

\* Of what the server sends a page misses nothing without notice, nor its end.
DeliveryIsWhole == NothingMissedUntold /\ QuietIsCurrent

\* What the page shows of the run, its steps and its review is what there is, as far
\* as it was told.
ShowsWhatIs == TypeOK /\ WorkIsShown /\ ReviewIsShown

\* Faults cease, so in the end the page is current on the subscribed connection and
\* what the user gave while offline went out, unless it ran out of attempts.
GivenUp == page.link = "closed" /\ ~ page.retry
Recovers == <>[](GivenUp \/ (page.synced /\ AtTheEnd /\ ~ Waits(page)))

=============================================================================
