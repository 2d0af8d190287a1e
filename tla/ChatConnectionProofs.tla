------------------------- MODULE ChatConnectionProofs -------------------------
(***************************************************************************)
(* That a page misses no event of its session without notice, and that the *)
(* newest one reaches it; and that what it then shows of the run and of    *)
(* its review is what there is: for any number of connections, faults,     *)
(* commands, events and reviews, and any capacity of the buffer.           *)
(*                                                                         *)
(* The argument follows a message from the log to the page.  While a page  *)
(* listens to the subscribed connection, what it has handled and what is   *)
(* on its way cover the log without a gap (Frontier, Downs), except for a  *)
(* gap at the beginning of a replay, behind which a session_sync that      *)
(* tells of it is still to come (Notice).  For what the page shows, the    *)
(* second invariant (SInv) follows each step, the run and the newest       *)
(* review on the same way, with what would undo them behind it.            *)
(***************************************************************************)
EXTENDS ChatConnection, TLAPS, FiniteSetTheorems, WellFoundedInduction

-----------------------------------------------------------------------------
(* The inductive invariant.                                                  *)

IsSequence(s) == \E S : s \in Seq(S)

PageFields == {"conn", "link", "retry", "attempts", "synced", "cursor",
               "sent", "stop", "chats", "replies", "busy", "steps", "review", "status"}

Known == page.cursor.epoch = epoch
IsOpen == page.link = "open"
Sending == lock.by \in Senders

Types ==
    /\ epoch \in Nat \ {0}
    /\ IsSequence(log)
    /\ first \in Nat \ {0} /\ (first = 1 \/ first <= Len(log))
    /\ socket \in Conns \cup {Offline}
    /\ lock \in [by : {"nobody", "attach"} \cup Senders,
                 to : Conns \cup {Offline}, event : Nat]
    /\ coroutine \in [Conns -> [at : {"none", "opening", "attached", "gone"}, todo : SUBSET Reviews]]
    /\ IsSequence(down)
    /\ DOMAIN page = PageFields
    /\ page.conn \in Conns
    /\ page.link \in {"connecting", "open", "closed"}
    /\ page.synced \in BOOLEAN
    /\ page.cursor \in [epoch : Nat, seq : Nat]
    /\ page.cursor.epoch <= epoch
    /\ Known => page.cursor.seq \in 1..Len(log)
    /\ given \in 0..Len(log)
    /\ notice \in {"none", "cut", "given"}

\* A connection is new until it opens, and only the page's newest can.
Wires ==
    /\ \A c \in Conns : coroutine[c].at # "none" => c <= page.conn
    /\ page.link = "connecting" => coroutine[page.conn].at = "none"
    /\ \A c \in {socket, lock.to} \ {Offline} : coroutine[c].at # "none"
    /\ ~ IsOpen => down = <<>> /\ ~ page.synced

\* What is being sent is the newest event, to the subscriber.
Locks ==
    /\ Sending => /\ lock.event = Len(log) /\ lock.event # 0 /\ lock.to # Offline
                  /\ socket \in {lock.to, Offline}
    /\ Sending /\ lock.to = page.conn /\ IsOpen => socket = page.conn
    /\ lock.by = "attach" => lock.to # Offline /\ coroutine[lock.to].at = "opening"

\* Each connection brings one session_sync, when its coroutine has attached.
IsSync(i) == i \in DOMAIN down /\ down[i].what = "sync"
Syncs ==
    /\ IsOpen /\ coroutine[page.conn].at = "opening"
        => ~ page.synced /\ \A i \in DOMAIN down : ~ IsSync(i)
    /\ \A i \in DOMAIN down : IsSync(i) => ~ page.synced
    /\ \A i, j \in DOMAIN down : IsSync(i) /\ IsSync(j) => i = j

\* A session_sync that tells of a gap will be sent, or comes behind message i.
Truncating == lock.by = "attach" /\ lock.to = page.conn /\ Truncated(lock.event)
TellsAfter(i) ==
    IsOpen /\ (Truncating \/ \E k \in DOMAIN down : k > i /\ IsSync(k) /\ down[k].truncated)

\* The page has handled n or a later event when it has read what precedes message i,
\* or was given the state instead.
IsEvent(i) == i \in DOMAIN down /\ down[i].what = "event"
Covered(n, i) ==
    \/ n <= given
    \/ Known /\ n <= page.cursor.seq
    \/ \E j \in DOMAIN down : j < i /\ IsEvent(j) /\ down[j].seq >= n

\* What is on its way are events of the log, each next to one that precedes it, or
\* the first behind a gap that will be told of.
Downs ==
    \A i \in DOMAIN down :
        /\ down[i].what \in {"event", "snapshot", "sync"}
        /\ IsSync(i) => down[i].truncated \in BOOLEAN
        /\ IsEvent(i) => /\ down[i].epoch = epoch
                         /\ down[i].seq \in 1..Len(log)
                         /\ Covered(down[i].seq - 1, i) \/ TellsAfter(i)

\* The subscribed page lacks no event but the one that is being sent.
Frontier ==
    IsOpen /\ socket = page.conn
        => Covered(IF Sending THEN Len(log) - 1 ELSE Len(log), Len(down) + 1)

Notice == missed # {} => notice # "none" \/ TellsAfter(0)

\* The reviews are numbered as they are asked for; those the session knows wait.
Counted ==
    /\ waiting \subseteq Reviews /\ fallback \subseteq waiting
    /\ counts \in [runs : Nat, reviews : 0..MaxReviews]

\* Before its replay begins a connection is sent nothing.
Fresh ==
    IsOpen /\ coroutine[page.conn].at = "opening" /\ ~ (lock.by = "attach" /\ lock.to = page.conn)
        => socket # page.conn /\ down = <<>>

IInv == Counted /\ Types /\ Wires /\ Locks /\ Syncs /\ Downs /\ Frontier /\ Notice /\ Fresh

-----------------------------------------------------------------------------
(* Numbers and sequences.                                                    *)

LEMMA ConnsAreNumbers == Conns \subseteq Nat \ {0} /\ Offline \notin Conns
  BY BoundsAssumption, SMT DEF Conns, Offline

\* The larger of two numbers, of which the buffer's beginning and a gap's are made.
LEMMA LargerOfTwo ==
    ASSUME NEW a \in Int, NEW b \in Int
    PROVE  Max({a, b}) = IF a >= b THEN a ELSE b
<1>1. \E x \in {a, b} : \A y \in {a, b} : x >= y  BY SMT
<1>2. /\ Max({a, b}) \in {a, b}
      /\ \A y \in {a, b} : Max({a, b}) >= y
  BY <1>1, Zenon DEF Max
<1> QED  BY <1>2, SMT

\* The buffer begins with an event there is.
LEMMA BufferHoldsTheNewest ==
    ASSUME Types
    PROVE  /\ Trimmed(Len(log) + 1) \in Nat \ {0}
           /\ Trimmed(Len(log) + 1) <= Len(log) + 1
<1>1. Len(log) \in Nat  BY DEF Types, IsSequence
<1>2. first \in Nat /\ first # 0 /\ (first = 1 \/ first <= Len(log))  BY DEF Types
<1>3. Capacity \in Nat /\ Capacity # 0  BY CapacityAssumption
<1>4. Trimmed(Len(log) + 1) = IF first >= Len(log) + 1 - Capacity + 1 THEN first
                              ELSE Len(log) + 1 - Capacity + 1
  BY <1>1, <1>2, <1>3, LargerOfTwo, SMT DEF Trimmed
<1> QED  BY <1>1, <1>2, <1>3, <1>4, SMT

LEMMA EmptyIsSequence == IsSequence(<<>>) /\ DOMAIN <<>> = {}
<1>1. <<>> \in Seq({}) /\ DOMAIN <<>> = {}  OBVIOUS
<1> QED  BY <1>1 DEF IsSequence

\* A message more at the end of a sequence.
LEMMA OneMore ==
    ASSUME NEW s, IsSequence(s), NEW m
    PROVE  /\ IsSequence(s \o <<m>>)
           /\ Len(s) \in Nat /\ Len(s \o <<m>>) = Len(s) + 1
           /\ DOMAIN s = 1..Len(s) /\ DOMAIN (s \o <<m>>) = 1..(Len(s) + 1)
           /\ \A i \in 1..Len(s) : (s \o <<m>>)[i] = s[i]
           /\ (s \o <<m>>)[Len(s) + 1] = m
<1>1. PICK S : s \in Seq(S)  BY DEF IsSequence
<1>2. s \in Seq(S \cup {m}) /\ <<m>> \in Seq(S \cup {m})  BY <1>1, SMT
<1>3. s \o <<m>> \in Seq(S \cup {m})  BY <1>2, SMT
<1>4. Len(s) \in Nat /\ DOMAIN s = 1..Len(s)  BY <1>1, SMT
<1>5. Len(s \o <<m>>) = Len(s) + 1  BY <1>2, SMT
<1>6. \A i \in 1..(Len(s) + 1) : (s \o <<m>>)[i] = IF i <= Len(s) THEN s[i] ELSE m
  BY <1>2, <1>4, SMT
<1>7. DOMAIN (s \o <<m>>) = 1..(Len(s) + 1)  BY <1>3, <1>5, SMT
<1> QED  BY <1>3, <1>4, <1>5, <1>6, <1>7, SMT DEF IsSequence

-----------------------------------------------------------------------------
(* The initial states.                                                       *)

LEMMA Initially == Init => IInv
<1> SUFFICES ASSUME Init PROVE IInv
  OBVIOUS
<1>0. 1 \in Conns /\ Offline \notin Conns /\ Conns \subseteq Nat \ {0}
  BY BoundsAssumption, SMT DEF Conns, Offline
<1>1. Counted
  BY BoundsAssumption, SMT DEF Init, Counted
<1>2. log = <<>> /\ down = <<>> /\ epoch = 1 /\ lock = Free /\ socket = Offline /\ missed = {}
  BY DEF Init
<1>3. /\ page.conn = 1 /\ page.link = "connecting" /\ page.synced = FALSE
      /\ page.cursor = [epoch |-> 0, seq |-> 0] /\ DOMAIN page = PageFields
  BY DEF Init, NewPage, NoCursor, PageFields
<1>4. coroutine = [c \in Conns |-> [at |-> "none", todo |-> {}]]
  BY DEF Init, NoCoroutine
<1>5. IsSequence(log) /\ IsSequence(down) /\ Len(log) = 0 /\ DOMAIN down = {}
  <2>1. <<>> \in Seq({}) /\ Len(<<>>) = 0 /\ DOMAIN <<>> = {}  OBVIOUS
  <2> QED  BY <2>1, <1>2 DEF IsSequence
<1>6. ~ IsOpen /\ ~ Known /\ ~ Sending /\ lock = [by |-> "nobody", to |-> 0, event |-> 0]
  BY <1>2, <1>3 DEF IsOpen, Known, Sending, Senders, Free, Offline
<1>7. Types
  <2>1. first = 1 /\ given = 0 /\ notice = "none"  BY DEF Init
  <2>2. lock \in [by : {"nobody", "attach"} \cup Senders,
                  to : Conns \cup {Offline}, event : Nat]
    BY <1>6 DEF Offline
  <2>3. page.cursor \in [epoch : Nat, seq : Nat] /\ page.cursor.epoch <= epoch
    BY <1>2, <1>3
  <2>4. coroutine \in [Conns -> [at : {"none", "opening", "attached", "gone"}, todo : SUBSET Reviews]]
    BY <1>4
  <2>5. epoch \in Nat \ {0} /\ first \in Nat \ {0} /\ given \in 0..Len(log)
    BY <1>2, <1>5, <2>1, SMT
  <2>6. page.conn \in Conns /\ page.link \in {"connecting", "open", "closed"} /\ page.synced \in BOOLEAN
    BY <1>0, <1>3
  <2>7. socket \in Conns \cup {Offline}  BY <1>2
  <2>8. DOMAIN page = PageFields /\ first = 1 /\ notice \in {"none", "cut", "given"} /\ ~ Known
    BY <1>3, <1>6, <2>1
  <2> QED
    BY <1>5, <2>2, <2>3, <2>4, <2>5, <2>6, <2>7, <2>8, Zenon DEF Types
<1>8. Wires
  <2>1. \A c \in Conns : coroutine[c].at = "none"  BY <1>4
  <2> QED  BY <1>0, <1>2, <1>3, <1>6, <2>1 DEF Wires, Offline, Free
<1>9. Locks  BY <1>6 DEF Locks
<1>10. Syncs  BY <1>5, <1>6 DEF Syncs, IsSync
<1>11. Downs  BY <1>5 DEF Downs
<1>12. Frontier /\ Notice /\ Fresh  BY <1>2, <1>6 DEF Frontier, Notice, Fresh
<1> QED  BY <1>1, <1>7, <1>8, <1>9, <1>10, <1>11, <1>12 DEF IInv

-----------------------------------------------------------------------------
(* The steps, by what they do to the delivery.                               *)

\* What concerns the delivery in a page.
SamePage ==
    /\ DOMAIN page' = DOMAIN page
    /\ page'.conn = page.conn /\ page'.link = page.link
    /\ page'.synced = page.synced /\ page'.cursor = page.cursor

SameObserver == missed' = missed /\ given' = given /\ notice' = notice
SameWires ==
    /\ epoch' = epoch /\ log' = log /\ first' = first /\ socket' = socket
    /\ lock' = lock /\ coroutine' = coroutine

\* The state is the same as far as the delivery is concerned.
Stays == SameWires /\ SamePage /\ SameObserver /\ down' = down

LEMMA StaysKeeps ==
    ASSUME IInv, Stays, Counted'
    PROVE  IInv'
<1> USE DEF Stays, SameWires, SamePage, SameObserver
<1>1. (Known' <=> Known) /\ (IsOpen' <=> IsOpen) /\ (Sending' <=> Sending)
  BY DEF Known, IsOpen, Sending, Senders
<1>2. \A i : IsSync(i)' <=> IsSync(i)  BY DEF IsSync
<1>3. \A i : IsEvent(i)' <=> IsEvent(i)  BY DEF IsEvent
<1>4. \A i : TellsAfter(i)' <=> TellsAfter(i)
  BY <1>1, <1>2 DEF TellsAfter, Truncating, Truncated
<1>5. \A n, i : Covered(n, i)' <=> Covered(n, i)
  BY <1>1, <1>3 DEF Covered
<1>6. Types'  BY <1>1 DEF IInv, Types, IsSequence
<1>7. Wires'  BY <1>1 DEF IInv, Wires
<1>8. Locks'  BY <1>1 DEF IInv, Locks
<1>9. Syncs'  BY <1>1, <1>2 DEF IInv, Syncs
<1>10. Downs'  BY <1>2, <1>3, <1>4, <1>5 DEF IInv, Downs
<1>11. Frontier'  BY <1>1, <1>5 DEF IInv, Frontier
<1>12. Notice' /\ Fresh'  BY <1>1, <1>4 DEF IInv, Notice, Fresh
<1> QED  BY <1>6, <1>7, <1>8, <1>9, <1>10, <1>11, <1>12 DEF IInv

\* A number is given to an event, which waits in the log until it is sent.
Records(by) ==
    /\ lock = Free
    /\ \E e : log' = Append(log, e)
    /\ first' = Trimmed(Len(log) + 1)
    /\ lock' = IF socket = Offline THEN Free
               ELSE [by |-> by, to |-> socket, event |-> Len(log) + 1]
    /\ coroutine' \in [Conns -> [at : {"none", "opening", "attached", "gone"}, todo : SUBSET Reviews]]
    /\ \A c \in Conns : coroutine'[c].at = coroutine[c].at
    /\ epoch' = epoch /\ socket' = socket /\ down' = down
    /\ SamePage /\ SameObserver

LEMMA RecordsKeeps ==
    ASSUME IInv, NEW by \in Senders, Records(by), Counted'
    PROVE  IInv'
<1> USE DEF Records, SamePage, SameObserver
<1>0. /\ Types /\ Wires /\ Locks /\ Syncs /\ Downs /\ Frontier /\ Notice /\ Fresh
      /\ Conns \subseteq Nat \ {0} /\ Offline \notin Conns
  BY ConnsAreNumbers DEF IInv
<1>1. /\ IsSequence(log') /\ Len(log) \in Nat /\ Len(log') = Len(log) + 1
  <2>1. PICK e : log' = Append(log, e)  OBVIOUS
  <2>2. PICK S : log \in Seq(S)  BY <1>0 DEF Types, IsSequence
  <2>3. log \in Seq(S \cup {e}) /\ e \in S \cup {e}  BY <2>2, SMT
  <2>4. log' \in Seq(S \cup {e}) /\ Len(log) \in Nat /\ Len(log') = Len(log) + 1
    BY <2>1, <2>3, SMT
  <2> QED  BY <2>4 DEF IsSequence
<1>2. first' \in Nat \ {0} /\ first' <= Len(log')
  BY <1>0, <1>1, BufferHoldsTheNewest
<1>3. /\ lock.by = "nobody" /\ lock.to = Offline /\ ~ Sending
      /\ socket = Offline => lock' = Free
      /\ socket # Offline => /\ lock'.by = by /\ lock'.to = socket /\ lock'.event = Len(log')
  BY <1>1 DEF Free, Sending, Senders
<1>4. (Known' <=> Known) /\ (IsOpen' <=> IsOpen) /\ (Sending' <=> socket # Offline)
  BY <1>3 DEF Known, IsOpen, Sending, Senders, Free
<1>5. ~ Truncating /\ ~ Truncating'
  BY <1>3 DEF Truncating, Free, Senders
<1>6. \A i : (IsSync(i)' <=> IsSync(i)) /\ (IsEvent(i)' <=> IsEvent(i))
  BY DEF IsSync, IsEvent
<1>7. \A i : TellsAfter(i)' <=> TellsAfter(i)
  BY <1>4, <1>5, <1>6 DEF TellsAfter
<1>8. \A n, i : Covered(n, i)' <=> Covered(n, i)
  BY <1>4, <1>6 DEF Covered
<1>9. Types'
  <2>1. lock' \in [by : {"nobody", "attach"} \cup Senders,
                   to : Conns \cup {Offline}, event : Nat]
    BY <1>0, <1>1 DEF Types, Free
  <2>2. (Known' => page'.cursor.seq \in 1..Len(log')) /\ given' \in 0..Len(log')
    BY <1>0, <1>1, <1>4, SMT DEF Types
  <2> QED  BY <1>0, <1>1, <1>2, <2>1, <2>2 DEF Types, IsSequence
<1>10. Wires'
  <2>1. \A c \in {socket', lock'.to} \ {Offline} : c = socket /\ c \in Conns
    BY <1>0, <1>3 DEF Types, Free
  <2>2. \A c \in {socket', lock'.to} \ {Offline} : coroutine'[c].at # "none"
    BY <1>0, <2>1 DEF Wires
  <2>3. /\ \A c \in Conns : coroutine'[c].at # "none" => c <= page'.conn
        /\ page'.link = "connecting" => coroutine'[page'.conn].at = "none"
    BY <1>0 DEF Wires, Types
  <2> QED  BY <1>0, <1>4, <2>2, <2>3 DEF Wires
<1>11. Locks'
  BY <1>0, <1>1, <1>3, <1>4, SMT DEF Locks, Free, Senders
<1>12. Syncs'
  BY <1>0, <1>4, <1>6 DEF Syncs, Types
<1>13. Downs'
  <2>1. \A i \in DOMAIN down : IsEvent(i) => down[i].seq \in 1..Len(log')
    BY <1>0, <1>1, SMT DEF Downs
  <2> QED  BY <1>0, <1>6, <1>7, <1>8, <2>1 DEF Downs
<1>14. Frontier'
  <2> SUFFICES ASSUME IsOpen, socket = page.conn
               PROVE  Covered(IF Sending' THEN Len(log') - 1 ELSE Len(log'), Len(down) + 1)
    BY <1>4, <1>8 DEF Frontier
  <2>1. Sending'  BY <1>0, <1>4 DEF Types
  <2>2. Covered(Len(log), Len(down) + 1)  BY <1>0, <1>3 DEF Frontier
  <2> QED  BY <1>1, <2>1, <2>2
<1>15. Notice' /\ Fresh'
  BY <1>0, <1>3, <1>4, <1>7 DEF Notice, Fresh, Types, Senders
<1> QED  BY <1>9, <1>10, <1>11, <1>12, <1>13, <1>14, <1>15 DEF IInv

\* What is covered stays covered when messages are added to those under way.
LEMMA CoversMore ==
    ASSUME NEW n, NEW i \in Int, NEW k \in Int, i <= k,
           n \in Int, given \in Int, given' \in Int, given <= given',
           epoch' = epoch, page'.cursor = page.cursor,
           DOMAIN down \subseteq DOMAIN down', \A j \in DOMAIN down : down'[j] = down[j],
           DOMAIN down \subseteq Int,
           Covered(n, i)
    PROVE  Covered(n, k)'
<1>1. Known' <=> Known  BY DEF Known
<1>2. CASE n <= given
  <2>1. n <= given'  BY <1>2, SMT
  <2> QED  BY <2>1 DEF Covered
<1>3. CASE Known /\ n <= page.cursor.seq
  BY <1>1, <1>3 DEF Covered
<1>4. CASE \E j \in DOMAIN down : j < i /\ IsEvent(j) /\ down[j].seq >= n
  <2>1. PICK j \in DOMAIN down : j < i /\ IsEvent(j) /\ down[j].seq >= n
    BY <1>4
  <2>2. j \in DOMAIN down' /\ j < k /\ IsEvent(j)' /\ down'[j].seq >= n
    BY <2>1, SMT DEF IsEvent
  <2> QED  BY <2>2 DEF Covered
<1> QED  BY <1>2, <1>3, <1>4 DEF Covered

\* A notice that is to come is to come when messages are added.
LEMMA TellsMore ==
    ASSUME NEW i \in Int, epoch' = epoch, IsOpen', Truncating => Truncating',
           DOMAIN down \subseteq DOMAIN down', \A j \in DOMAIN down : down'[j] = down[j],
           TellsAfter(i)
    PROVE  TellsAfter(i)'
  BY Zenon DEF TellsAfter, IsSync

\* The send is over: the event is under way to the page, or nobody waits for it.
SendEnds ==
    /\ Sending /\ lock' = Free /\ socket' \in {socket, Offline}
    /\ \/ down' = down /\ (socket' = Offline \/ ~ Reaches(lock.to))
       \/ down' = down \o <<EventMessage(lock.event)>> /\ Reaches(lock.to)
    /\ epoch' = epoch /\ log' = log /\ first' = first /\ coroutine' = coroutine
    /\ SamePage /\ SameObserver

LEMMA SendEndsKeeps ==
    ASSUME IInv, SendEnds, Counted'
    PROVE  IInv'
<1> USE DEF SendEnds, SamePage, SameObserver
<1>0. /\ Types /\ Wires /\ Locks /\ Syncs /\ Downs /\ Frontier /\ Notice /\ Fresh
      /\ Conns \subseteq Nat \ {0} /\ Offline \notin Conns
  BY ConnsAreNumbers DEF IInv
<1>1. /\ lock.event = Len(log) /\ lock.event # 0 /\ Len(log) \in Nat /\ lock.to # Offline
      /\ socket \in {lock.to, Offline}
      /\ Reaches(lock.to) => socket = page.conn
  BY <1>0 DEF Locks, Types, IsSequence, Reaches, IsOpen
<1>2. /\ ~ Sending' /\ ~ Truncating /\ ~ Truncating'
      /\ (Known' <=> Known) /\ (IsOpen' <=> IsOpen)
  BY DEF Free, Sending, Senders, Truncating, Known, IsOpen
<1>3. /\ lock' \in [by : {"nobody", "attach"} \cup Senders,
                    to : Conns \cup {Offline}, event : Nat]
      /\ lock'.by = "nobody" /\ lock'.to = Offline
  BY DEF Free
<1>4. IsSequence(down) /\ Len(down) \in Nat /\ DOMAIN down = 1..Len(down)
  BY <1>0 DEF Types, IsSequence
<1>5. given \in Int  BY <1>0, <1>1, SMT DEF Types
<1>6. Wires'
  <2>1. \A c \in {socket', lock'.to} \ {Offline} : coroutine[c].at # "none"
    BY <1>0, <1>3 DEF Wires
  <2>2. ~ IsOpen => down' = <<>> /\ ~ page.synced
    BY <1>0 DEF Wires, Reaches, IsOpen
  <2> QED  BY <1>0, <1>2, <2>1, <2>2 DEF Wires
<1>7. Locks'  BY <1>2, <1>3 DEF Locks
<1>8. CASE down' = down /\ (socket' = Offline \/ ~ Reaches(lock.to))
  <2>1. \A i : (IsSync(i)' <=> IsSync(i)) /\ (IsEvent(i)' <=> IsEvent(i))
    BY <1>8 DEF IsSync, IsEvent
  <2>2. \A i : TellsAfter(i)' <=> TellsAfter(i)
    BY <1>2, <1>8, <2>1 DEF TellsAfter
  <2>3. \A n, i : Covered(n, i)' <=> Covered(n, i)
    BY <1>2, <1>8, <2>1 DEF Covered
  <2>4. Types'
    BY <1>0, <1>2, <1>3, <1>8 DEF Types, IsSequence
  <2>5. Syncs'  BY <1>0, <1>2, <1>8, <2>1 DEF Syncs
  <2>6. Downs'  BY <1>0, <1>8, <2>1, <2>2, <2>3 DEF Downs
  <2>7. Frontier'
    BY <1>0, <1>1, <1>2, <1>8 DEF Frontier, Reaches, IsOpen, Types
  <2>8. Notice'  BY <1>0, <2>2 DEF Notice
  <2>9. Fresh'
    BY <1>0, <1>2, <1>8 DEF Fresh, Sending, Senders, Types
  <2> QED  BY <1>6, <1>7, <2>4, <2>5, <2>6, <2>7, <2>8, <2>9 DEF IInv
<1>9. CASE down' = down \o <<EventMessage(lock.event)>> /\ Reaches(lock.to)
  <2> DEFINE m == EventMessage(lock.event)
  <2>a. PICK L \in Nat : L = Len(down)  BY <1>4
  <2>b. PICK N \in Nat : N = Len(log)  BY <1>1
  <2>1. /\ IsSequence(down') /\ Len(down') = L + 1 /\ DOMAIN down' = 1..(L + 1)
        /\ \A i \in 1..L : down'[i] = down[i]
        /\ down'[L + 1] = m
    BY <1>4, <1>9, <2>a, OneMore
  <2>2. m.what = "event" /\ m.epoch = epoch /\ m.seq = N
    BY <1>1, <2>b DEF EventMessage
  <2> HIDE DEF m
  <2>3. IsOpen /\ lock.to = page.conn /\ socket = page.conn
    BY <1>1, <1>9 DEF Reaches, IsOpen
  <2>4. /\ DOMAIN down \subseteq DOMAIN down' /\ DOMAIN down \subseteq Int
        /\ \A j \in DOMAIN down : down'[j] = down[j]
    BY <1>4, <2>a, <2>1, SMT
  <2>5. \A i \in DOMAIN down : (IsSync(i)' <=> IsSync(i)) /\ (IsEvent(i)' <=> IsEvent(i))
    BY <2>4 DEF IsSync, IsEvent
  <2>6. L + 1 \in DOMAIN down' /\ ~ IsSync(L + 1)' /\ IsEvent(L + 1)'
    BY <2>1, <2>2, SMT DEF IsSync, IsEvent
  <2>7. \A i \in Int : TellsAfter(i) => TellsAfter(i)'
    <3> SUFFICES ASSUME NEW i \in Int, TellsAfter(i) PROVE TellsAfter(i)'
      OBVIOUS
    <3>1. IsOpen' /\ (Truncating => Truncating') /\ epoch' = epoch  BY <1>2, <2>3
    <3> QED  BY <2>4, <3>1, TellsMore, Zenon
  <2>8. \A n \in Int, i \in Int : Covered(n, i) => Covered(n, i)'
    <3> SUFFICES ASSUME NEW n \in Int, NEW i \in Int, Covered(n, i) PROVE Covered(n, i)'
      OBVIOUS
    <3>1. i <= i  BY SMT
    <3>2. given <= given' /\ given' \in Int  BY <1>5, SMT
    <3> QED  BY <1>5, <2>4, <3>1, <3>2, CoversMore
  <2>9. Covered(N - 1, L + 1)'
    <3>1. Covered(N - 1, L + 1)  BY <1>0, <2>a, <2>b, <2>3 DEF Frontier
    <3>2. N - 1 \in Int /\ L + 1 \in Int  BY <2>a, <2>b, SMT
    <3> QED  BY <2>8, <3>1, <3>2
  <2>10. Covered(N, L + 2)'
    BY <2>1, <2>2, <2>6, SMT DEF Covered
  <2>11. Types'
    BY <1>0, <1>2, <1>3, <2>1 DEF Types, IsSequence
  <2>12. Syncs'
    <3>1. \A i \in DOMAIN down' : IsSync(i)' => i \in DOMAIN down /\ IsSync(i)
      BY <1>4, <2>a, <2>1, <2>5, <2>6, SMT
    <3> QED  BY <1>0, <1>2, <3>1 DEF Syncs
  <2>13. Downs'
    <3> SUFFICES ASSUME NEW i \in DOMAIN down'
                 PROVE  /\ down'[i].what \in {"event", "snapshot", "sync"}
                        /\ IsSync(i)' => down'[i].truncated \in BOOLEAN
                        /\ IsEvent(i)' => /\ down'[i].epoch = epoch /\ down'[i].seq \in 1..Len(log)
                                          /\ Covered(down[i].seq - 1, i)' \/ TellsAfter(i)'
      BY DEF Downs
    <3>1. CASE i = L + 1
      <4>1. down'[i].seq - 1 = N - 1 /\ Covered(N - 1, i)'  BY <2>1, <2>2, <2>9, <3>1
      <4>2. Covered(down[i].seq - 1, i)'  BY <4>1
      <4>3. down'[i].seq \in 1..Len(log)  BY <1>1, <2>b, <2>1, <2>2, <3>1, SMT
      <4> QED  BY <2>1, <2>2, <2>6, <3>1, <4>2, <4>3
    <3>2. CASE i \in DOMAIN down
      <4>1. IsEvent(i) => down[i].seq - 1 \in Int /\ i \in Int
        BY <1>0, <1>1, <1>4, <3>2, SMT DEF Downs
      <4> QED  BY <1>0, <2>4, <2>5, <2>7, <2>8, <3>2, <4>1 DEF Downs
    <3>3. i = L + 1 \/ i \in DOMAIN down  BY <1>4, <2>a, <2>1, SMT
    <3> QED  BY <3>1, <3>2, <3>3
  <2>14. Frontier'
    <3>1. Len(down') + 1 = L + 2  BY <2>1, SMT
    <3>2. Covered(Len(log), Len(down) + 1)'  BY <2>10, <2>b, <3>1
    <3> QED  BY <1>2, <3>2 DEF Frontier
  <2>15. Notice'  BY <1>0, <2>7 DEF Notice
  <2>16. Fresh'
    <3>1. coroutine[page.conn].at # "opening"  BY <1>0, <2>3 DEF Fresh, Sending, Senders
    <3> QED  BY <3>1 DEF Fresh
  <2> QED  BY <1>6, <1>7, <2>11, <2>12, <2>13, <2>14, <2>15, <2>16 DEF IInv
<1> QED  BY <1>8, <1>9

\* One sequence behind another.
LEMMA Chained ==
    ASSUME NEW A, NEW s \in Seq(A), NEW u \in Seq(A)
    PROVE  /\ s \o u \in Seq(A) /\ Len(s) \in Nat /\ Len(s \o u) = Len(s) + Len(u)
           /\ DOMAIN (s \o u) = 1..(Len(s) + Len(u))
           /\ \A i \in 1..Len(s) : (s \o u)[i] = s[i]
           /\ \A j \in 1..Len(u) : (s \o u)[Len(s) + j] = u[j]
<1>1. s \o u \in Seq(A) /\ Len(s) \in Nat /\ Len(u) \in Nat /\ Len(s \o u) = Len(s) + Len(u)
  BY SMT
<1>2. \A i \in 1..(Len(s) + Len(u)) :
        (s \o u)[i] = IF i <= Len(s) THEN s[i] ELSE u[i - Len(s)]
  BY SMT
<1>3. \A i \in 1..Len(s) : (s \o u)[i] = s[i]  BY <1>1, <1>2, SMT
<1>4. \A j \in 1..Len(u) : (s \o u)[Len(s) + j] = u[j]
  <2> SUFFICES ASSUME NEW j \in 1..Len(u) PROVE (s \o u)[Len(s) + j] = u[j]
    OBVIOUS
  <2>1. Len(s) + j \in 1..(Len(s) + Len(u)) /\ ~ (Len(s) + j <= Len(s)) /\ (Len(s) + j) - Len(s) = j
    BY <1>1, SMT
  <2> QED  BY <1>2, <2>1, Zenon
<1>5. DOMAIN (s \o u) = 1..(Len(s) + Len(u))  BY <1>1, SMT
<1> QED  BY <1>1, <1>3, <1>4, <1>5

\* A message and a sequence of messages at the end of a sequence.
LEMMA ManyMore ==
    ASSUME NEW s, IsSequence(s), NEW m, NEW r, IsSequence(r), NEW k, k = Len(r),
           NEW w, w = s \o (<<m>> \o r)
    PROVE  /\ IsSequence(w) /\ Len(s) \in Nat
           /\ Len(w) = Len(s) + 1 + k
           /\ DOMAIN w = 1..(Len(s) + 1 + k)
           /\ \A i \in 1..Len(s) : w[i] = s[i]
           /\ w[Len(s) + 1] = m
           /\ \A j \in 1..k : w[Len(s) + 1 + j] = r[j]
<1>1. PICK Q : s \in Seq(Q)  BY DEF IsSequence
<1>3. PICK S : r \in Seq(S)  BY DEF IsSequence
<1> DEFINE A == Q \cup S \cup {m}
<1>2. s \in Seq(A) /\ <<m>> \in Seq(A)  BY <1>1, SMT
<1>4. r \in Seq(A) /\ Len(r) = k /\ k \in Nat  BY <1>3, SMT
<1> HIDE DEF A
<1> DEFINE u == <<m>> \o r
<1>5. u \in Seq(A) /\ Len(u) = 1 + k /\ u[1] = m /\ \A j \in 1..k : u[1 + j] = r[j]
  BY <1>2, <1>4, SMT
<1> HIDE DEF u
<1>6. /\ s \o u \in Seq(A) /\ Len(s) \in Nat /\ Len(s \o u) = Len(s) + Len(u)
      /\ DOMAIN (s \o u) = 1..(Len(s) + Len(u))
      /\ \A i \in 1..Len(s) : (s \o u)[i] = s[i]
      /\ \A j \in 1..Len(u) : (s \o u)[Len(s) + j] = u[j]
  <2>1. s \in Seq(A) /\ u \in Seq(A)  BY <1>2, <1>5
  <2> QED  BY <2>1, Chained, SMT
<1> DEFINE t == s \o u
<1> HIDE DEF t
<1>7. /\ IsSequence(t) /\ DOMAIN t = 1..(Len(s) + Len(u)) /\ Len(t) = Len(s) + Len(u)
      /\ \A i \in 1..Len(s) : t[i] = s[i]
      /\ \A j \in 1..Len(u) : t[Len(s) + j] = u[j]
  BY <1>6, Zenon DEF t, IsSequence
<1>8. Len(s) + Len(u) = Len(s) + 1 + k  BY <1>5, <1>6, SMT
<1>9. t[Len(s) + 1] = m  BY <1>5, <1>7, SMT
<1>10. \A j \in 1..k : t[Len(s) + 1 + j] = r[j]
  <2> SUFFICES ASSUME NEW j \in 1..k PROVE t[Len(s) + 1 + j] = r[j]
    OBVIOUS
  <2>1. 1 + j \in 1..Len(u) /\ Len(s) + (1 + j) = Len(s) + 1 + j  BY <1>5, <1>6, SMT
  <2> QED  BY <1>5, <1>7, <2>1
<1>11. /\ IsSequence(t) /\ Len(s) \in Nat
       /\ Len(t) = Len(s) + 1 + k /\ DOMAIN t = 1..(Len(s) + 1 + k)
       /\ \A i \in 1..Len(s) : t[i] = s[i]
       /\ t[Len(s) + 1] = m
       /\ \A j \in 1..k : t[Len(s) + 1 + j] = r[j]
  BY <1>6, <1>7, <1>8, <1>9, <1>10
<1>12. w = t  BY Zenon DEF t, u
<1> QED  BY <1>11, <1>12, Zenon

\* A replay is a finite sequence of events of the log.
LEMMA ReplayIsOfTheLog ==
    ASSUME IsSequence(log), NEW lacking \in SUBSET DOMAIN log, NEW replay \in InOrder(lacking)
    PROVE  \E k \in Nat : /\ replay \in [1..k -> lacking]
                          /\ \A n \in lacking : \E i \in 1..k : replay[i] = n
                          /\ \A i, j \in 1..k : i < j => replay[i] < replay[j]
<1>0. PICK S : log \in Seq(S)  BY DEF IsSequence
<1>1. Len(log) \in Nat /\ DOMAIN log = 1..Len(log)  BY <1>0
<1>2. IsFiniteSet(lacking)
  <2>1. IsFiniteSet(1..Len(log))  BY <1>1, FS_Interval
  <2> QED  BY <1>1, <2>1, FS_Subset
<1>3. Cardinality(lacking) \in Nat  BY <1>2, FS_CardinalityType
<1>4. replay \in [1..Cardinality(lacking) -> lacking]  BY DEF InOrder
<1>5. DOMAIN replay = 1..Cardinality(lacking)  BY <1>4
<1>6. /\ \A n \in lacking : \E i \in DOMAIN replay : replay[i] = n
      /\ \A i, j \in DOMAIN replay : i < j => replay[i] < replay[j]
  BY DEF InOrder
<1> QED  BY <1>3, <1>4, <1>5, <1>6

LEMMA CurrentIsOfTheLog == Current \subseteq DOMAIN log
<1>1. \A kinds : Newest(kinds) \subseteq DOMAIN log  BY DEF Newest
<1>2. \A S : SinceStart(S) \subseteq S  BY DEF SinceStart
<1>3. ReviewEvents \subseteq DOMAIN log
  <2> SUFFICES ASSUME NEW n \in ReviewEvents PROVE n \in DOMAIN log
    OBVIOUS
  <2>1. PICK E \in {{x \in DOMAIN log :
            log[x] = Ev("review", r) /\ \A y \in DOMAIN log : y > x => log[y] # log[x]} : r \in reviews} : n \in E
    BY Zenon DEF ReviewEvents
  <2> QED  BY <2>1
<1>4. SinceStart(Newest({"progress"})) \subseteq DOMAIN log  BY <1>1, <1>2
<1>5. SinceStart(Newest(Terminals)) \subseteq DOMAIN log  BY <1>1, <1>2
<1> QED  BY <1>3, <1>4, <1>5 DEF Current

\* The replay begins. What it holds is next to what the page has, or to each other,
\* or lies behind what the buffer has dropped.
LEMMA AttachBeginsKeeps ==
    ASSUME IInv, NEW c \in Conns, AttachBegins(c), Counted'
    PROVE  IInv'
<1>0. /\ Types /\ Wires /\ Locks /\ Syncs /\ Downs /\ Frontier /\ Notice /\ Fresh
      /\ Conns \subseteq Nat \ {0} /\ Offline \notin Conns
  BY ConnsAreNumbers DEF IInv
<1> DEFINE lacking == IF Known THEN {n \in first..Len(log) : n > page.cursor.seq} ELSE Current
<1>1. /\ coroutine[c].at = "opening" /\ lock = Free /\ socket' = c
      /\ given' = (IF c # page.conn THEN given ELSE IF Known THEN 0 ELSE Len(log))
      /\ lock' = [by |-> "attach", to |-> c, event |-> IF Known THEN page.cursor.seq ELSE 0]
      /\ epoch' = epoch /\ log' = log /\ first' = first /\ coroutine' = coroutine
      /\ page' = page /\ missed' = missed /\ notice' = notice
  BY DEF AttachBegins, Known
<1>2. \E replay \in InOrder(lacking) :
         Arrives(c, <<Snapshot>> \o [i \in DOMAIN replay |-> EventMessage(replay[i])])
  BY DEF AttachBegins, Known
<1> HIDE DEF lacking
<1>3. PICK N \in Nat : N = Len(log) /\ DOMAIN log = 1..N
  BY <1>0 DEF Types, IsSequence
<1>4. PICK L \in Nat : L = Len(down) /\ DOMAIN down = 1..L
  BY <1>0 DEF Types, IsSequence
<1>5. /\ ~ Sending /\ ~ Sending' /\ ~ Truncating /\ (Known' <=> Known) /\ (IsOpen' <=> IsOpen)
      /\ Truncating' <=> (c = page.conn /\ Truncated(IF Known THEN page.cursor.seq ELSE 0))
  BY <1>1 DEF Sending, Senders, Truncating, Known, IsOpen, Free, Truncated
<1>6. /\ given \in Int /\ given' \in 0..N
      /\ first \in Nat \ {0} /\ (first = 1 \/ first <= N)
      /\ page.cursor.seq \in Nat /\ (Known => page.cursor.seq \in 1..N)
  BY <1>0, <1>1, <1>3, SMT DEF Types
<1>7. Wires'
  <2>1. ~ IsOpen => down' = <<>> /\ ~ page.synced
    BY <1>0, <1>2 DEF Wires, Arrives, Reaches, IsOpen
  <2>2. \A x \in {socket', lock'.to} \ {Offline} : coroutine[x].at # "none"
    BY <1>1
  <2> QED  BY <1>0, <1>1, <1>5, <2>1, <2>2 DEF Wires
<1>8. Locks'
  BY <1>0, <1>1, <1>5 DEF Locks
<1>9. /\ lock' \in [by : {"nobody", "attach"} \cup Senders,
                    to : Conns \cup {Offline}, event : Nat]
      /\ socket' \in Conns \cup {Offline}
  BY <1>1, <1>6
<1>10. ASSUME IsSequence(down') PROVE Types'
  BY <1>0, <1>1, <1>3, <1>5, <1>6, <1>9, <1>10 DEF Types
<1>11. CASE ~ (IsOpen /\ c = page.conn)
  <2>1. down' = down  BY <1>2, <1>11 DEF Arrives, Reaches, IsOpen
  <2>2. \A i : (IsSync(i)' <=> IsSync(i)) /\ (IsEvent(i)' <=> IsEvent(i))
    BY <2>1 DEF IsSync, IsEvent
  <2>3. \A i : TellsAfter(i)' <=> TellsAfter(i)
    BY <1>5, <1>11, <2>1, <2>2 DEF TellsAfter
  <2>4. IsOpen => \A n, i : Covered(n, i)' <=> Covered(n, i)
    <3> SUFFICES ASSUME IsOpen PROVE \A n, i : Covered(n, i)' <=> Covered(n, i)
      OBVIOUS
    <3>1. given' = given  BY <1>1, <1>11
    <3> QED  BY <1>1, <1>5, <2>1, <2>2, <3>1 DEF Covered
  <2>5. Types'  BY <1>0, <1>10, <2>1 DEF Types, IsSequence
  <2>6. Syncs'  BY <1>0, <1>1, <1>5, <2>1, <2>2 DEF Syncs
  <2>7. Downs'
    <3>1. CASE IsOpen
      BY <1>0, <1>1, <2>1, <2>2, <2>3, <2>4, <3>1 DEF Downs
    <3>2. CASE ~ IsOpen
      <4>1. DOMAIN down' = {}  BY <1>0, <2>1, <3>2, EmptyIsSequence DEF Wires
      <4> QED  BY <4>1 DEF Downs
    <3> QED  BY <3>1, <3>2
  <2>8. Frontier'  BY <1>1, <1>5, <1>11 DEF Frontier
  <2>9. Notice' /\ Fresh'
    <3>1. IsOpen' /\ page'.conn # c  => socket' # page'.conn /\ (Fresh => Fresh')
      BY <1>1, <1>5, <2>1 DEF Fresh, Free
    <3> QED  BY <1>0, <1>1, <1>5, <1>11, <2>3, <3>1 DEF Notice, Fresh
  <2> QED  BY <1>7, <1>8, <2>5, <2>6, <2>7, <2>8, <2>9 DEF IInv
<1>12. CASE IsOpen /\ c = page.conn
  <2>1. lacking \subseteq DOMAIN log /\ lacking \subseteq 1..N
    BY <1>3, <1>6, CurrentIsOfTheLog, SMT DEF lacking
  <2>2. PICK replay \in InOrder(lacking) :
          down' = down \o (<<Snapshot>> \o [i \in DOMAIN replay |-> EventMessage(replay[i])])
    BY <1>2, <1>12 DEF Arrives, Reaches, IsOpen
  <2>3. PICK k \in Nat : /\ replay \in [1..k -> lacking]
                         /\ \A n \in lacking : \E i \in 1..k : replay[i] = n
                         /\ \A i, j \in 1..k : i < j => replay[i] < replay[j]
    <3>1. IsSequence(log)  BY <1>0, Zenon DEF Types
    <3>2. lacking \in SUBSET DOMAIN log  BY <2>1, Zenon
    <3> QED  BY <2>2, <3>1, <3>2, ReplayIsOfTheLog, Zenon
  <2> DEFINE r == [i \in 1..k |-> EventMessage(replay[i])]
             R == {EventMessage(n) : n \in lacking}
             m == Snapshot
  <2>4. r \in [1..k -> R]  BY <2>3
  <2>5. DOMAIN replay = 1..k  BY <2>3
  <2>6. down' = down \o (<<m>> \o r)  BY <2>2, <2>5
  <2>7. \A j \in 1..k : r[j] = EventMessage(replay[j])  OBVIOUS
  <2>8. m.what = "snapshot"  BY DEF Snapshot
  <2> HIDE DEF r, R, m
  <2>9. /\ IsSequence(down') /\ Len(down') = L + 1 + k /\ DOMAIN down' = 1..(L + 1 + k)
        /\ \A i \in 1..L : down'[i] = down[i]
        /\ down'[L + 1] = m
        /\ \A j \in 1..k : down'[L + 1 + j] = r[j]
    <3>1. IsSequence(down)  BY <1>0 DEF Types
    <3>2. IsSequence(r) /\ k = Len(r)
      <4>1. r \in Seq(R) /\ Len(r) = k  BY <2>3, <2>4, SMT
      <4> QED  BY <4>1 DEF IsSequence
    <3> DEFINE t == down \o (<<m>> \o r)
    <3>3. t = down \o (<<m>> \o r)  OBVIOUS
    <3> HIDE DEF t
    <3>4. IsSequence(t) /\ Len(t) = Len(down) + 1 + k
      <4>1. Len(t) = Len(down) + 1 + k  BY <3>1, <3>2, <3>3, ManyMore, SMT
      <4>2. IsSequence(t)  BY <3>1, <3>2, <3>3, ManyMore, Zenon
      <4> QED  BY <4>1, <4>2, Zenon
    <3>5. /\ DOMAIN t = 1..(Len(down) + 1 + k)
          /\ \A i \in 1..Len(down) : t[i] = down[i]
      BY <3>1, <3>2, <3>3, ManyMore, SMT
    <3>6. t[Len(down) + 1] = m /\ \A j \in 1..k : t[Len(down) + 1 + j] = r[j]
      BY <3>1, <3>2, <3>3, ManyMore, SMT
    <3>7. down' = t  BY <2>6, <3>3, Zenon
    <3> QED  BY <1>4, <3>4, <3>5, <3>6, <3>7, Zenon
  <2>10. \A j \in 1..k : /\ L + 1 + j \in DOMAIN down' /\ down'[L + 1 + j].what = "event"
                         /\ down'[L + 1 + j].epoch = epoch /\ down'[L + 1 + j].seq = replay[j]
    <3> SUFFICES ASSUME NEW j \in 1..k
                 PROVE  /\ L + 1 + j \in DOMAIN down' /\ down'[L + 1 + j].what = "event"
                        /\ down'[L + 1 + j].epoch = epoch /\ down'[L + 1 + j].seq = replay[j]
      OBVIOUS
    <3>1. L + 1 + j \in DOMAIN down'  BY <2>9, SMT
    <3>2. down'[L + 1 + j] = EventMessage(replay[j])  BY <2>7, <2>9
    <3> QED  BY <3>1, <3>2 DEF EventMessage
  <2>11. /\ DOMAIN down \subseteq DOMAIN down' /\ DOMAIN down \subseteq Int
         /\ \A j \in DOMAIN down : down'[j] = down[j]
    BY <1>4, <2>9, SMT
  <2>12. \A i \in DOMAIN down' : \/ i \in DOMAIN down
                                 \/ i = L + 1
                                 \/ \E j \in 1..k : i = L + 1 + j
    <3>1. \A i \in 1..(L + 1 + k) : i \in 1..L \/ i = L + 1 \/ (i - (L + 1) \in 1..k /\ i = L + 1 + (i - (L + 1)))
      BY SMT
    <3> QED  BY <1>4, <2>9, <3>1, Zenon
  <2>13. \A i \in DOMAIN down : (IsSync(i)' <=> IsSync(i)) /\ (IsEvent(i)' <=> IsEvent(i))
    BY <2>11 DEF IsSync, IsEvent
  <2>14. \A i \in Int : TellsAfter(i) => TellsAfter(i)'
    <3> SUFFICES ASSUME NEW i \in Int, TellsAfter(i) PROVE TellsAfter(i)'
      OBVIOUS
    <3>1. IsOpen' /\ (Truncating => Truncating') /\ epoch' = epoch  BY <1>1, <1>5, <1>12
    <3> QED  BY <2>11, <3>1, TellsMore
  <2>15. DOMAIN down = {}
    BY <1>0, <1>1, <1>12, EmptyIsSequence DEF Fresh, Free
  <2>16. ~ page.synced /\ \A i \in DOMAIN down : ~ IsSync(i)
    BY <1>0, <1>1, <1>12 DEF Syncs
  <2>17. \A i \in DOMAIN down' : ~ IsSync(i)'
    BY <2>8, <2>9, <2>10, <2>12, <2>13, <2>16 DEF IsSync
  <2>18. Types'  BY <1>10, <2>9
  <2>19. Syncs'  BY <1>1, <2>16, <2>17 DEF Syncs
  <2>20. \A j \in 1..k : \A n \in Int :
            n = replay[j] - 1 => Covered(n, L + 1 + j)' \/ TellsAfter(L + 1 + j)'
    <3> SUFFICES ASSUME NEW j \in 1..k, NEW n \in Int, n = replay[j] - 1
                 PROVE  Covered(n, L + 1 + j)' \/ TellsAfter(L + 1 + j)'
      OBVIOUS
    <3>1. replay[j] \in lacking /\ replay[j] \in 1..N  BY <2>1, <2>3
    <3>2. CASE ~ Known
      <4>1. given' = N  BY <1>1, <1>3, <1>12, <3>2
      <4>2. n <= given'  BY <3>1, <4>1, SMT
      <4> QED  BY <4>2 DEF Covered
    <3>3. CASE Known /\ n <= page.cursor.seq
      BY <1>1, <1>5, <3>3 DEF Covered
    <3>4. CASE Known /\ n > page.cursor.seq /\ n \in lacking
      <4>1. PICK i \in 1..k : replay[i] = n  BY <2>3, <3>4
      <4>2. replay[i] \in 1..N  BY <2>1, <2>3
      <4>3. i < j
        <5>1. ~ (j < i) /\ i # j  BY <2>3, <3>1, <4>1, <4>2, SMT
        <5> QED  BY <5>1, SMT
      <4>4. /\ L + 1 + i \in DOMAIN down' /\ L + 1 + i < L + 1 + j
            /\ IsEvent(L + 1 + i)' /\ down'[L + 1 + i].seq >= n
        <5>1. L + 1 + i \in DOMAIN down' /\ down'[L + 1 + i].what = "event" /\ down'[L + 1 + i].seq = n
          BY <2>10, <4>1
        <5>2. n >= n /\ L + 1 + i < L + 1 + j  BY <4>3, SMT
        <5> QED  BY <5>1, <5>2 DEF IsEvent
      <4> QED  BY <4>4 DEF Covered
    <3>5. CASE Known /\ n > page.cursor.seq /\ n \notin lacking
      <4>1. page.cursor.seq # 0 /\ page.cursor.seq < first - 1
        BY <1>3, <1>6, <3>1, <3>5, SMT DEF lacking
      <4>2. Truncating'  BY <1>5, <1>12, <3>5, <4>1 DEF Truncated
      <4> QED  BY <1>5, <1>12, <4>2 DEF TellsAfter
    <3> QED  BY <1>6, <3>1, <3>2, <3>3, <3>4, <3>5, SMT
  <2>21. Downs'
    <3> SUFFICES ASSUME NEW i \in DOMAIN down'
                 PROVE  /\ down'[i].what \in {"event", "snapshot", "sync"}
                        /\ IsSync(i)' => down'[i].truncated \in BOOLEAN
                        /\ IsEvent(i)' => /\ down'[i].epoch = epoch' /\ down'[i].seq \in 1..Len(log')
                                          /\ Covered(down[i].seq - 1, i)' \/ TellsAfter(i)'
      BY DEF Downs
    <3>1. CASE i = L + 1
      BY <2>8, <2>9, <2>17, <3>1 DEF IsEvent
    <3>2. CASE i \in DOMAIN down
      BY <2>15, <3>2
    <3>3. CASE \E j \in 1..k : i = L + 1 + j
      <4>1. PICK j \in 1..k : i = L + 1 + j  BY <3>3
      <4>2. replay[j] \in 1..N /\ down'[i].seq = replay[j] /\ down'[i].what = "event" /\ down'[i].epoch = epoch
        BY <2>1, <2>3, <2>10, <4>1
      <4>3. PICK n \in Int : n = replay[j] - 1  BY <4>2, SMT
      <4>4. Covered(n, i)' \/ TellsAfter(i)'  BY <2>20, <4>1, <4>3
      <4>5. down'[i].seq - 1 = n  BY <4>2, <4>3
      <4>6. Covered(down[i].seq - 1, i)' \/ TellsAfter(i)'  BY <4>4, <4>5
      <4> QED  BY <1>1, <1>3, <2>17, <4>2, <4>6
    <3> QED  BY <2>12, <3>1, <3>2, <3>3
  <2>22. Frontier'
    <3>1. Covered(N, L + 1 + k + 1)'
      <4>1. CASE ~ Known
        <5>1. given' = N  BY <1>1, <1>3, <1>12, <4>1
        <5>2. N <= given'  BY <5>1, SMT
        <5> QED  BY <5>2 DEF Covered
      <4>2. CASE Known /\ N <= page.cursor.seq
        BY <1>1, <1>5, <4>2 DEF Covered
      <4>3. CASE Known /\ N > page.cursor.seq
        <5>1. N \in lacking  BY <1>3, <1>6, <4>3, SMT DEF lacking
        <5>2. PICK j \in 1..k : replay[j] = N  BY <2>3, <5>1
        <5>3. L + 1 + j \in DOMAIN down' /\ IsEvent(L + 1 + j)' /\ down'[L + 1 + j].seq = N
          BY <2>10, <5>2 DEF IsEvent
        <5>4. L + 1 + j < L + 1 + k + 1 /\ N >= N  BY SMT
        <5> QED  BY <5>3, <5>4 DEF Covered
      <4> QED  BY <1>6, <4>1, <4>2, <4>3, SMT
    <3>2. Len(down') + 1 = L + 1 + k + 1 /\ Len(log') = N  BY <1>1, <1>3, <2>9
    <3>3. Covered(Len(log), Len(down) + 1)'  BY <3>1, <3>2
    <3> QED  BY <1>5, <3>3 DEF Frontier
  <2>23. Notice' /\ Fresh'
    BY <1>0, <1>1, <1>12, <2>14 DEF Notice, Fresh
  <2> QED  BY <1>7, <1>8, <2>18, <2>19, <2>21, <2>22, <2>23 DEF IInv
<1> QED  BY <1>11, <1>12

\* The replay ends with the session_sync, which tells of the gap if there is one.
LEMMA AttachEndsKeeps ==
    ASSUME IInv, AttachEnds, Counted'
    PROVE  IInv'
<1>0. /\ Types /\ Wires /\ Locks /\ Syncs /\ Downs /\ Frontier /\ Notice /\ Fresh
      /\ Conns \subseteq Nat \ {0} /\ Offline \notin Conns
  BY ConnsAreNumbers DEF IInv
<1> DEFINE c == lock.to
           m == [what |-> "sync", running |-> Running, pending |-> reviews,
                 truncated |-> Truncated(lock.event)]
<1>1. /\ lock.by = "attach" /\ Arrives(c, <<m>>) /\ lock' = Free
      /\ coroutine' = [coroutine EXCEPT ![c].at = "attached"]
      /\ epoch' = epoch /\ log' = log /\ first' = first /\ socket' = socket
      /\ page' = page /\ missed' = missed /\ given' = given /\ notice' = notice
  BY DEF AttachEnds, observer
<1>2. m.what = "sync" /\ m.truncated = Truncated(lock.event) /\ m.truncated \in BOOLEAN
  <2>1. m.what = "sync" /\ m.truncated = Truncated(lock.event)  OBVIOUS
  <2>2. Truncated(lock.event) \in BOOLEAN  BY DEF Truncated
  <2> QED  BY <2>1, <2>2
<1>3. c \in Conns /\ coroutine[c].at = "opening"
  BY <1>0, <1>1 DEF Locks, Types
<1> HIDE DEF m, c
<1>4. /\ coroutine' \in [Conns -> [at : {"none", "opening", "attached", "gone"}, todo : SUBSET Reviews]]
      /\ coroutine'[c].at = "attached"
      /\ \A x \in Conns : x # c => coroutine'[x] = coroutine[x]
  <2> DEFINE At == [at : {"none", "opening", "attached", "gone"}, todo : SUBSET Reviews]
  <2>1. coroutine \in [Conns -> At]  BY <1>0, Zenon DEF Types
  <2>2. coroutine' = [coroutine EXCEPT ![c].at = "attached"]  BY <1>1, Zenon
  <2> QED  BY <1>3, <2>1, <2>2
<1>5. /\ ~ Sending /\ ~ Sending' /\ ~ Truncating'
      /\ (Known' <=> Known) /\ (IsOpen' <=> IsOpen)
      /\ Truncating <=> c = page.conn /\ m.truncated
  BY <1>1, <1>2 DEF Sending, Senders, Truncating, Known, IsOpen, Free, c
<1>6. /\ lock' \in [by : {"nobody", "attach"} \cup Senders,
                    to : Conns \cup {Offline}, event : Nat]
      /\ lock'.by = "nobody" /\ lock'.to = Offline
  BY <1>1 DEF Free
<1>7. PICK L \in Nat : L = Len(down) /\ DOMAIN down = 1..L
  BY <1>0 DEF Types, IsSequence
<1>8. Len(log) \in Nat /\ given \in Int
  <2>1. Len(log) \in Nat  BY <1>0 DEF Types, IsSequence
  <2> QED  BY <1>0, <2>1, SMT DEF Types
<1>9. Wires'
  <2>1. ~ IsOpen => down' = <<>> /\ ~ page.synced
    BY <1>0, <1>1 DEF Wires, Arrives, Reaches, IsOpen
  <2>2. \A x \in {socket', lock'.to} \ {Offline} : coroutine'[x].at # "none"
    BY <1>0, <1>1, <1>4, <1>6 DEF Wires, Types
  <2>3. \A x \in Conns : coroutine'[x].at # "none" => x <= page'.conn
    BY <1>0, <1>1, <1>3, <1>4 DEF Wires
  <2>4. page'.link = "connecting" => coroutine'[page'.conn].at = "none"
    BY <1>0, <1>1, <1>3, <1>4 DEF Wires, Types
  <2> QED  BY <1>1, <1>5, <2>1, <2>2, <2>3, <2>4 DEF Wires
<1>10. Locks'  BY <1>5, <1>6 DEF Locks
<1>11. ASSUME IsSequence(down') PROVE Types'
  BY <1>0, <1>1, <1>4, <1>5, <1>6, <1>11 DEF Types, IsSequence
<1>12. CASE ~ (IsOpen /\ c = page.conn)
  <2>1. down' = down  BY <1>1, <1>12 DEF Arrives, Reaches, IsOpen
  <2>2. \A i : (IsSync(i)' <=> IsSync(i)) /\ (IsEvent(i)' <=> IsEvent(i))
    BY <2>1 DEF IsSync, IsEvent
  <2>3. \A i : TellsAfter(i)' <=> TellsAfter(i)
    BY <1>5, <1>12, <2>1, <2>2 DEF TellsAfter
  <2>4. \A n, i : Covered(n, i)' <=> Covered(n, i)
    BY <1>1, <1>5, <2>1, <2>2 DEF Covered
  <2>5. Types'  BY <1>0, <1>11, <2>1 DEF Types, IsSequence
  <2>6. Syncs'
    BY <1>0, <1>1, <1>4, <1>5, <1>12, <2>1, <2>2 DEF Syncs, Types
  <2>7. Downs'  BY <1>0, <1>1, <2>1, <2>2, <2>3, <2>4 DEF Downs
  <2>8. Frontier'  BY <1>0, <1>1, <1>5, <2>1, <2>4 DEF Frontier
  <2>9. Notice'  BY <1>0, <1>1, <2>3 DEF Notice
  <2>10. Fresh'
    <3>1. IsOpen => coroutine'[page.conn] = coroutine[page.conn]
      BY <1>0, <1>4, <1>12 DEF Types
    <3>2. lock.by = "attach" /\ lock.to = c  BY <1>1 DEF c
    <3> QED  BY <1>0, <1>1, <1>5, <1>12, <2>1, <3>1, <3>2 DEF Fresh
  <2> QED  BY <1>9, <1>10, <2>5, <2>6, <2>7, <2>8, <2>9, <2>10 DEF IInv
<1>13. CASE IsOpen /\ c = page.conn
  <2>1. down' = down \o <<m>>  BY <1>1, <1>13 DEF Arrives, Reaches, IsOpen
  <2>2. /\ IsSequence(down') /\ Len(down') = L + 1 /\ DOMAIN down' = 1..(L + 1)
        /\ \A i \in 1..L : down'[i] = down[i]
        /\ down'[L + 1] = m
    <3>1. IsSequence(down)  BY <1>0 DEF Types
    <3> QED  BY <1>7, <2>1, <3>1, OneMore
  <2>3. /\ DOMAIN down \subseteq DOMAIN down' /\ DOMAIN down \subseteq Int
        /\ \A j \in DOMAIN down : down'[j] = down[j]
    BY <1>7, <2>2, SMT
  <2>4. \A i \in DOMAIN down : (IsSync(i)' <=> IsSync(i)) /\ (IsEvent(i)' <=> IsEvent(i))
    BY <2>3 DEF IsSync, IsEvent
  <2>5. L + 1 \in DOMAIN down' /\ IsSync(L + 1)' /\ ~ IsEvent(L + 1)'
    BY <1>2, <2>2, SMT DEF IsSync, IsEvent
  <2>6. \A i \in DOMAIN down' : i \in DOMAIN down \/ i = L + 1
    BY <1>7, <2>2, SMT
  <2>7. \A i \in Int : i <= L /\ TellsAfter(i) => TellsAfter(i)'
    <3> SUFFICES ASSUME NEW i \in Int, i <= L, TellsAfter(i) PROVE TellsAfter(i)'
      OBVIOUS
    <3>1. CASE Truncating
      <4>1. down'[L + 1].truncated  BY <1>5, <2>2, <3>1
      <4>2. L + 1 > i  BY SMT
      <4> QED  BY <1>5, <1>13, <2>5, <4>1, <4>2 DEF TellsAfter
    <3>2. CASE ~ Truncating
      <4>1. IsOpen' /\ (Truncating => Truncating') /\ epoch' = epoch
        BY <1>1, <1>5, <1>13, <3>2
      <4> QED  BY <2>3, <4>1, TellsMore
    <3> QED  BY <3>1, <3>2
  <2>8. \A n \in Int, i \in Int : Covered(n, i) => Covered(n, i)'
    <3> SUFFICES ASSUME NEW n \in Int, NEW i \in Int, Covered(n, i) PROVE Covered(n, i)'
      OBVIOUS
    <3>1. i <= i /\ i <= i + 1  BY SMT
    <3>2. /\ given' \in Int /\ given <= given' /\ epoch' = epoch /\ page'.cursor = page.cursor
      BY <1>1, <1>8, SMT
    <3> QED  BY <1>8, <2>3, <3>1, <3>2, CoversMore
  <2>9. ~ page.synced /\ \A i \in DOMAIN down : ~ IsSync(i)
    BY <1>0, <1>3, <1>13 DEF Syncs
  <2>10. Types'  BY <1>11, <2>2
  <2>11. Syncs'
    <3>1. \A i \in DOMAIN down' : IsSync(i)' => i = L + 1
      BY <2>4, <2>6, <2>9
    <3> QED  BY <1>1, <1>4, <1>13, <2>9, <3>1 DEF Syncs
  <2>12. Downs'
    <3> SUFFICES ASSUME NEW i \in DOMAIN down'
                 PROVE  /\ down'[i].what \in {"event", "snapshot", "sync"}
                        /\ IsSync(i)' => down'[i].truncated \in BOOLEAN
                        /\ IsEvent(i)' => /\ down'[i].epoch = epoch' /\ down'[i].seq \in 1..Len(log')
                                          /\ Covered(down[i].seq - 1, i)' \/ TellsAfter(i)'
      BY DEF Downs
    <3>1. CASE i = L + 1
      BY <1>2, <2>2, <2>5, <3>1
    <3>2. CASE i \in DOMAIN down
      <4>1. i \in Int /\ i <= L /\ (IsEvent(i) => down[i].seq - 1 \in Int)
        BY <1>0, <1>7, <1>8, <3>2, SMT DEF Downs
      <4> QED  BY <1>0, <1>1, <2>3, <2>4, <2>7, <2>8, <3>2, <4>1 DEF Downs
    <3> QED  BY <2>6, <3>1, <3>2
  <2>13. Frontier'
    <3> SUFFICES ASSUME socket = page.conn
                 PROVE  Covered(Len(log), Len(down) + 1)'
      BY <1>1, <1>5 DEF Frontier
    <3>1. PICK N \in Nat : N = Len(log)  BY <1>8
    <3>2. Covered(N, L + 1)  BY <1>0, <1>5, <1>7, <1>13, <3>1 DEF Frontier
    <3>3. L + 1 \in Int /\ N \in Int /\ L + 1 <= L + 2 /\ L + 2 \in Int  BY <1>7, <3>1, SMT
    <3>4. given' \in Int /\ given <= given' /\ epoch' = epoch /\ page'.cursor = page.cursor
      BY <1>1, <1>8, SMT
    <3>5. Covered(N, L + 2)'  BY <1>8, <2>3, <3>2, <3>3, <3>4, CoversMore
    <3>6. Len(down') + 1 = L + 2 /\ Len(log') = N  BY <1>1, <1>7, <2>2, <3>1, SMT
    <3> QED  BY <3>5, <3>6
  <2>14. Notice'
    <3>1. 0 \in Int /\ 0 <= L  BY <1>7, SMT
    <3> QED  BY <1>0, <1>1, <2>7, <3>1 DEF Notice
  <2>15. Fresh'  BY <1>1, <1>4, <1>13 DEF Fresh
  <2> QED  BY <1>9, <1>10, <2>10, <2>11, <2>12, <2>13, <2>14, <2>15 DEF IInv
<1> QED  BY <1>12, <1>13

\* A connection that the page has left is found closed.
LEMMA DetachKeeps ==
    ASSUME IInv, NEW c \in Conns, Detach(c), Counted'
    PROVE  IInv'
<1>0. /\ Types /\ Wires /\ Locks /\ Syncs /\ Downs /\ Frontier /\ Notice /\ Fresh
      /\ Conns \subseteq Nat \ {0} /\ Offline \notin Conns
  BY ConnsAreNumbers DEF IInv
<1>1. /\ ~ Reaches(c) /\ coroutine[c].at \in {"attached", "opening"}
      /\ coroutine' = [coroutine EXCEPT ![c] = [at |-> "gone", todo |-> {}]]
      /\ socket' = (IF socket = c THEN Offline ELSE socket)
      /\ \/ coroutine[c].at = "attached" /\ lock' = lock
         \/ lock.by = "attach" /\ lock.to = c /\ lock' = Free
      /\ epoch' = epoch /\ log' = log /\ first' = first /\ down' = down
      /\ page' = page /\ missed' = missed /\ given' = given /\ notice' = notice
  <2>1. [NoCoroutine EXCEPT !.at = "gone"] = [at |-> "gone", todo |-> {}]  BY DEF NoCoroutine
  <2>2. lock.by = "attach" /\ lock.to = c => coroutine[c].at = "opening"  BY <1>0 DEF Locks
  <2> QED  BY <2>1, <2>2 DEF Detach, observer
<1>2. /\ coroutine' \in [Conns -> [at : {"none", "opening", "attached", "gone"}, todo : SUBSET Reviews]]
      /\ coroutine'[c].at = "gone"
      /\ \A x \in Conns : x # c => coroutine'[x] = coroutine[x]
  BY <1>0, <1>1 DEF Types
<1>3. ~ (IsOpen /\ c = page.conn)  BY <1>1 DEF Reaches, IsOpen
<1>4. /\ (Known' <=> Known) /\ (IsOpen' <=> IsOpen)
      /\ \A i : (IsSync(i)' <=> IsSync(i)) /\ (IsEvent(i)' <=> IsEvent(i))
  BY <1>1 DEF Known, IsOpen, IsSync, IsEvent
<1>5. /\ IsOpen => (Truncating' <=> Truncating)
      /\ IsOpen => (socket' = page.conn <=> socket = page.conn)
      /\ Sending' <=> Sending
  BY <1>0, <1>1, <1>3, ConnsAreNumbers DEF Truncating, Truncated, Sending, Senders, Free, Types
<1>6. \A i : TellsAfter(i)' <=> TellsAfter(i)
  BY <1>1, <1>4, <1>5 DEF TellsAfter
<1>7. \A n, i : Covered(n, i)' <=> Covered(n, i)
  BY <1>1, <1>4 DEF Covered
<1>8. Types'
  <2>1. lock' \in [by : {"nobody", "attach"} \cup Senders,
                   to : Conns \cup {Offline}, event : Nat]
    BY <1>0, <1>1 DEF Types, Free
  <2>2. socket' \in Conns \cup {Offline}  BY <1>0, <1>1 DEF Types
  <2> QED  BY <1>0, <1>1, <1>2, <1>4, <2>1, <2>2 DEF Types, IsSequence
<1>9. Wires'
  <2>1. \A x \in Conns : coroutine'[x].at # "none" => coroutine[x].at # "none"
    BY <1>1, <1>2
  <2>2. \A x \in Conns : coroutine[x].at # "none" => coroutine'[x].at # "none"
    BY <1>1, <1>2
  <2>3. \A x \in {socket', lock'.to} \ {Offline} : x \in {socket, lock.to} \ {Offline} /\ x \in Conns
    BY <1>0, <1>1 DEF Free, Types
  <2> QED  BY <1>0, <1>1, <1>4, <2>1, <2>2, <2>3 DEF Wires, Types
<1>10. Locks'
  <2>1. Sending' => /\ lock'.event = Len(log') /\ lock'.event # 0 /\ lock'.to # Offline
                    /\ socket' \in {lock'.to, Offline}
    BY <1>0, <1>1, <1>5 DEF Locks, Free, Sending, Senders
  <2>2. Sending' /\ lock'.to = page'.conn /\ IsOpen' => socket' = page'.conn
    BY <1>0, <1>1, <1>3, <1>4, <1>5 DEF Locks, Free, Sending, Senders
  <2>3. lock'.by = "attach" => lock'.to # Offline /\ coroutine'[lock'.to].at = "opening"
    BY <1>0, <1>1, <1>2 DEF Locks, Free, Types
  <2> QED  BY <2>1, <2>2, <2>3 DEF Locks
<1>11. Syncs'
  BY <1>0, <1>1, <1>2, <1>3, <1>4 DEF Syncs, Types
<1>12. Downs'  BY <1>0, <1>1, <1>4, <1>6, <1>7 DEF Downs
<1>13. Frontier'  BY <1>0, <1>1, <1>4, <1>5, <1>7 DEF Frontier
<1>14. Notice' /\ Fresh'
  <2>1. IsOpen /\ coroutine'[page.conn].at = "opening" => coroutine[page.conn].at = "opening" /\ c # page.conn
    BY <1>0, <1>1, <1>2 DEF Types
  <2> QED  BY <1>0, <1>1, <1>3, <1>4, <1>5, <1>6, <2>1 DEF Notice, Fresh, Free
<1> QED  BY <1>8, <1>9, <1>10, <1>11, <1>12, <1>13, <1>14 DEF IInv

\* The page has no connection: nothing is under way to it.
Apart ==
    /\ DOMAIN page' = PageFields
    /\ page'.link \in {"closed", "connecting"} /\ page'.synced = FALSE
    /\ page'.cursor \in {page.cursor, NoCursor}
    /\ down' = <<>>
    /\ notice' \in {"none", "cut", "given"} /\ given' \in {given, 0}
    /\ missed' # {} => notice' # "none"

\* The page loses its connection, or makes another one.
Parts ==
    /\ SameWires /\ Apart
    /\ \/ page'.link = "closed" /\ page'.conn = page.conn
       \/ page'.link = "connecting" /\ page'.conn = page.conn + 1 /\ page'.conn \in Conns

LEMMA PartsKeeps ==
    ASSUME IInv, Parts, Counted'
    PROVE  IInv'
<1> USE DEF Parts, Apart, SameWires
<1>0. /\ Types /\ Wires /\ Locks /\ Syncs
      /\ Conns \subseteq Nat \ {0} /\ Offline \notin Conns
  BY ConnsAreNumbers DEF IInv
<1>1. ~ IsOpen' /\ (Sending' <=> Sending) /\ page'.conn \in Conns
  BY <1>0 DEF IsOpen, Sending, Senders, Types
<1>2. IsSequence(down') /\ DOMAIN down' = {}  BY EmptyIsSequence
<1>3. /\ page'.conn >= page.conn /\ page.conn \in Nat /\ page'.conn \in Nat
      /\ page'.link = "connecting" => ~ (page'.conn <= page.conn)
  <2>1. PICK x \in Nat : x = page.conn  BY <1>0 DEF Types
  <2>2. PICK y \in Nat : y = page'.conn  BY <1>0, <1>1
  <2>3. y = x \/ y = x + 1  BY <2>1, <2>2
  <2>4. y >= x  BY <2>3, SMT
  <2>5. y = x + 1 => ~ (y <= x)  BY SMT
  <2> QED  BY <2>1, <2>2, <2>4, <2>5
<1>4. page'.cursor \in [epoch : Nat, seq : Nat] /\ page'.cursor.epoch <= epoch
      /\ (Known' => Known /\ page'.cursor = page.cursor)
  BY <1>0, SMT DEF Types, NoCursor, Known
<1>5. given' \in 0..Len(log)
  <2>1. Len(log) \in Nat  BY <1>0 DEF Types, IsSequence
  <2> QED  BY <1>0, <2>1, SMT DEF Types
<1>6. Types'
  BY <1>0, <1>1, <1>2, <1>4, <1>5 DEF Types, IsSequence
<1>7. Wires'
  <2>1. \A c \in Conns : coroutine'[c].at # "none" => c <= page'.conn
    <3> SUFFICES ASSUME NEW c \in Conns, coroutine[c].at # "none" PROVE c <= page'.conn
      OBVIOUS
    <3>1. c <= page.conn /\ c \in Nat  BY <1>0 DEF Wires
    <3> QED  BY <1>3, <3>1, SMT
  <2>2. page'.link = "connecting" => coroutine'[page'.conn].at = "none"
    BY <1>0, <1>1, <1>3 DEF Wires
  <2> QED  BY <1>0, <1>1, <2>1, <2>2 DEF Wires
<1>8. Locks'  BY <1>0, <1>1 DEF Locks
<1>9. Syncs'  BY <1>1, <1>2 DEF Syncs
<1>10. Downs'  BY <1>2 DEF Downs
<1>11. Frontier' /\ Notice' /\ Fresh'  BY <1>1 DEF Frontier, Notice, Fresh
<1> QED  BY <1>6, <1>7, <1>8, <1>9, <1>10, <1>11 DEF IInv

\* The server is another one: its log is empty, and no connection of the old one
\* comes back.
Restarts ==
    /\ epoch' = epoch + 1 /\ log' = <<>> /\ first' = 1 /\ socket' = Offline /\ lock' = Free
    /\ coroutine' \in [Conns -> [at : {"none", "opening", "attached", "gone"}, todo : SUBSET Reviews]]
    /\ \A c \in Conns : coroutine'[c].at # "none" => coroutine[c].at # "none"
    /\ Apart /\ page'.link = "closed" /\ page'.conn = page.conn /\ given' = 0

LEMMA RestartsKeeps ==
    ASSUME IInv, Restarts, Counted'
    PROVE  IInv'
<1> USE DEF Restarts, Apart
<1>0. Types /\ Wires  BY DEF IInv
<1>1. ~ IsOpen' /\ ~ Sending' /\ lock'.by = "nobody" /\ lock'.to = Offline
  BY DEF IsOpen, Sending, Senders, Free
<1>2. IsSequence(down') /\ DOMAIN down' = {} /\ IsSequence(log') /\ Len(log') = 0
  BY EmptyIsSequence
<1>3. /\ page'.cursor \in [epoch : Nat, seq : Nat] /\ page'.cursor.epoch <= epoch'
      /\ ~ Known' /\ epoch' \in Nat \ {0}
  <2>1. page.cursor \in [epoch : Nat, seq : Nat] /\ page.cursor.epoch <= epoch /\ epoch \in Nat
    BY <1>0 DEF Types
  <2>2. NoCursor \in [epoch : Nat, seq : Nat] /\ NoCursor.epoch = 0  BY DEF NoCursor
  <2>3. page'.cursor.epoch <= epoch /\ page'.cursor.epoch \in Nat  BY <2>1, <2>2, SMT
  <2> QED  BY <2>1, <2>2, <2>3, SMT DEF Known
<1>4. lock' \in [by : {"nobody", "attach"} \cup Senders,
                 to : Conns \cup {Offline}, event : Nat]
  BY DEF Free
<1>5. Types'
  <2>1. first' \in Nat \ {0} /\ first' = 1 /\ given' \in 0..Len(log')  BY <1>2, SMT
  <2> QED  BY <1>0, <1>2, <1>3, <1>4, <2>1 DEF Types
<1>6. Wires'  BY <1>0, <1>1 DEF Wires
<1>7. Locks'  BY <1>1 DEF Locks
<1>8. Syncs'  BY <1>1, <1>2 DEF Syncs
<1>9. Downs'  BY <1>2 DEF Downs
<1>10. Frontier' /\ Notice' /\ Fresh'  BY <1>1 DEF Frontier, Notice, Fresh
<1> QED  BY <1>5, <1>6, <1>7, <1>8, <1>9, <1>10 DEF IInv

\* A connection opens, and its coroutine starts.
LEMMA OpenKeeps ==
    ASSUME IInv, Open, Counted'
    PROVE  IInv'
<1>0. /\ Types /\ Wires /\ Locks /\ Notice /\ Counted
      /\ Conns \subseteq Nat \ {0} /\ Offline \notin Conns
  BY ConnsAreNumbers DEF IInv
<1>1. /\ page.link = "connecting"
      /\ coroutine' = [coroutine EXCEPT ![page.conn] = [at |-> "opening", todo |-> waiting]]
      /\ epoch' = epoch /\ log' = log /\ first' = first /\ socket' = socket /\ lock' = lock
      /\ down' = down /\ missed' = missed /\ given' = given /\ notice' = notice
  BY DEF Open, observer
<1>2. /\ DOMAIN page' = PageFields /\ page'.conn = page.conn /\ page'.link = "open"
      /\ page'.synced = page.synced /\ page'.cursor = page.cursor
  BY <1>0 DEF Open, Opened, Types, PageFields
<1>3. ~ IsOpen /\ IsOpen' /\ (Known' <=> Known) /\ (Sending' <=> Sending)
  BY <1>1, <1>2 DEF IsOpen, Known, Sending, Senders
<1>4. down' = <<>> /\ DOMAIN down' = {} /\ IsSequence(down') /\ ~ page'.synced
  BY <1>0, <1>1, <1>2, <1>3, EmptyIsSequence DEF Wires
<1>5. coroutine[page.conn].at = "none" /\ socket # page.conn /\ lock.to # page.conn
  BY <1>0, <1>1 DEF Wires, Types
<1>6. /\ coroutine' \in [Conns -> [at : {"none", "opening", "attached", "gone"}, todo : SUBSET Reviews]]
      /\ coroutine'[page.conn].at = "opening"
      /\ \A x \in Conns : x # page.conn => coroutine'[x] = coroutine[x]
  BY <1>0, <1>1 DEF Types, Counted
<1>7. Types'
  BY <1>0, <1>1, <1>2, <1>3, <1>4, <1>6 DEF Types, IsSequence
<1>8. Wires'
  <2>1. \A x \in {socket, lock.to} \ {Offline} : x \in Conns /\ coroutine'[x].at # "none"
    BY <1>0, <1>5, <1>6 DEF Wires, Types
  <2>2. \A c \in Conns : coroutine'[c].at # "none" => c <= page.conn
    <3>1. page.conn \in Nat  BY <1>0 DEF Types
    <3>2. page.conn <= page.conn  BY <3>1, SMT
    <3> QED  BY <1>0, <1>6, <3>2 DEF Wires
  <2> QED  BY <1>1, <1>2, <1>3, <2>1, <2>2 DEF Wires
<1>9. Locks'
  <2>1. lock.by = "attach" => lock.to # Offline /\ coroutine'[lock.to].at = "opening"
    BY <1>0, <1>5, <1>6 DEF Locks, Types
  <2> QED  BY <1>0, <1>1, <1>2, <1>3, <1>5, <2>1 DEF Locks
<1>10. Syncs'  BY <1>4 DEF Syncs
<1>11. Downs'  BY <1>4 DEF Downs
<1>12. Frontier'  BY <1>1, <1>2, <1>5 DEF Frontier
<1>13. Notice' /\ Fresh'
  BY <1>0, <1>1, <1>2, <1>3, <1>4, <1>5 DEF Notice, TellsAfter, Fresh
<1> QED  BY <1>7, <1>8, <1>9, <1>10, <1>11, <1>12, <1>13 DEF IInv

-----------------------------------------------------------------------------
(* The page reads.                                                           *)

\* Two pages that differ in what they show only.
Alike(p, q) ==
    /\ DOMAIN q = DOMAIN p
    /\ q.conn = p.conn /\ q.link = p.link /\ q.synced = p.synced /\ q.cursor = p.cursor

\* No event changes more of a page than what it shows.
LEMMA ShownIsAlike ==
    ASSUME NEW p, NEW e, DOMAIN p = PageFields
    PROVE  Alike(p, Shown(p, e))
<1>1. \A q : DOMAIN q = PageFields /\ Alike(p, q) => Alike(p, Cleared(q)) /\ DOMAIN Cleared(q) = PageFields
  BY DEF Cleared, Alike, PageFields
<1>2. \A q : DOMAIN q = PageFields /\ Alike(p, q) => Alike(p, Idle(q)) /\ DOMAIN Idle(q) = PageFields
  BY DEF Idle, Alike, PageFields
<1>3. \A s : LET q == [p EXCEPT !.status = s] IN Alike(p, q) /\ DOMAIN q = PageFields
  BY DEF Alike, PageFields
<1>4. Alike(p, p)  BY DEF Alike
<1>5. CASE e.kind = "started"  BY <1>5 DEF Shown, Alike, PageFields
<1>6. CASE e.kind = "progress"  BY <1>6 DEF Shown, Alike, PageFields
<1>7. CASE e.kind = "review"  BY <1>4, <1>7 DEF Shown, Alike, PageFields
<1>8. CASE e.kind = "expired"  BY <1>4, <1>8 DEF Shown, Alike, PageFields
<1>9. CASE e.kind = "committed"  BY <1>1, <1>4, <1>9 DEF Shown
<1>10. CASE e.kind = "refused"  BY <1>4, <1>10 DEF Shown
<1>11. CASE e.kind = "done"
  <2>1. Shown(p, e) = Idle(IF p.status = "rejected" THEN Cleared(p) ELSE p)
    BY <1>11 DEF Shown
  <2> QED  BY <1>1, <1>2, <1>4, <2>1
<1>12. CASE e.kind \notin {"started", "progress", "review", "expired", "committed", "refused", "done"}
  <2>1. PICK s : Shown(p, e) = Idle([p EXCEPT !.status = s])
    BY <1>12 DEF Shown
  <2> QED  BY <1>2, <1>3, <2>1
<1> QED  BY <1>5, <1>6, <1>7, <1>8, <1>9, <1>10, <1>11, <1>12

\* A message less at the beginning of a sequence.
LEMMA OneLess ==
    ASSUME NEW s, IsSequence(s), s # <<>>
    PROVE  \E L \in Nat \ {0} :
              /\ Len(s) = L /\ DOMAIN s = 1..L /\ Head(s) = s[1]
              /\ IsSequence(Tail(s)) /\ Len(Tail(s)) = L - 1 /\ DOMAIN Tail(s) = 1..(L - 1)
              /\ \A i \in 1..(L - 1) : Tail(s)[i] = s[i + 1]
<1>1. PICK S : s \in Seq(S)  BY DEF IsSequence
<1>2. Len(s) \in Nat /\ Len(s) # 0 /\ DOMAIN s = 1..Len(s) /\ Head(s) = s[1]  BY <1>1, SMT
<1>3. Tail(s) \in Seq(S) /\ Len(Tail(s)) = Len(s) - 1  BY <1>1, SMT
<1>4. \A i \in 1..(Len(s) - 1) : Tail(s)[i] = s[i + 1]  BY <1>1, SMT
<1>5. IsSequence(Tail(s)) /\ DOMAIN Tail(s) = 1..(Len(s) - 1)  BY <1>3, SMT DEF IsSequence
<1> QED  BY <1>2, <1>3, <1>4, <1>5

\* The first message under way is handled. A cursor follows what the page reads.
Reads ==
    /\ IsOpen /\ down # <<>> /\ down' = Tail(down)
    /\ SameWires /\ given' = given
    /\ DOMAIN page' = DOMAIN page /\ page'.conn = page.conn /\ page'.link = page.link
    /\ page'.synced \in BOOLEAN
    /\ page'.cursor \in [epoch : Nat, seq : Nat] /\ page'.cursor.epoch <= epoch
    /\ Known' => page'.cursor.seq \in 1..Len(log)
    /\ Known => Known' /\ page'.cursor.seq >= page.cursor.seq
    /\ IsEvent(1) => Known' /\ page'.cursor.seq >= down[1].seq
    /\ page'.synced => page.synced \/ IsSync(1)
    /\ notice' \in {"none", "cut", "given"}

LEMMA ReadsKeeps ==
    ASSUME IInv, Reads, Counted',
           missed' # {} => \/ notice' # "none"
                           \/ ~ IsSync(1) /\ (TellsAfter(0) \/ TellsAfter(1))
    PROVE  IInv'
<1> USE DEF Reads, SameWires
<1>0. /\ Types /\ Wires /\ Locks /\ Syncs /\ Downs /\ Frontier /\ Fresh
      /\ Conns \subseteq Nat \ {0} /\ Offline \notin Conns
  BY ConnsAreNumbers DEF IInv
<1>1. PICK L \in Nat \ {0} :
              /\ Len(down) = L /\ DOMAIN down = 1..L
              /\ IsSequence(down') /\ Len(down') = L - 1 /\ DOMAIN down' = 1..(L - 1)
              /\ \A i \in 1..(L - 1) : down'[i] = down[i + 1]
  <2>1. IsSequence(down)  BY <1>0 DEF Types
  <2> QED  BY <2>1, OneLess
<1>2. PICK N \in Nat : N = Len(log)  BY <1>0 DEF Types, IsSequence
<1>3. /\ IsOpen' /\ (Sending' <=> Sending) /\ (Truncating' <=> Truncating)
  BY DEF IsOpen, Sending, Senders, Truncating, Truncated
<1>4. \A i \in DOMAIN down' : /\ i + 1 \in DOMAIN down /\ down'[i] = down[i + 1]
                              /\ IsSync(i)' <=> IsSync(i + 1)
                              /\ IsEvent(i)' <=> IsEvent(i + 1)
  <2> SUFFICES ASSUME NEW i \in DOMAIN down'
               PROVE  i + 1 \in DOMAIN down /\ down'[i] = down[i + 1]
    BY DEF IsSync, IsEvent
  <2>1. i \in 1..(L - 1) /\ i + 1 \in 1..L  BY <1>1, SMT
  <2> QED  BY <1>1, <2>1
<1>5. \A k \in DOMAIN down : k # 1 => k - 1 \in DOMAIN down' /\ (k - 1) + 1 = k
  BY <1>1, SMT
<1>6. \A i \in Nat : TellsAfter(i + 1) => TellsAfter(i)'
  <2> SUFFICES ASSUME NEW i \in Nat, TellsAfter(i + 1), ~ Truncating PROVE TellsAfter(i)'
    BY <1>3 DEF TellsAfter
  <2>1. PICK k \in DOMAIN down : k > i + 1 /\ IsSync(k) /\ down[k].truncated
    BY DEF TellsAfter
  <2>2. k # 1 /\ k - 1 > i  BY <1>1, <2>1, SMT
  <2>3. k - 1 \in DOMAIN down' /\ IsSync(k - 1)' /\ down'[k - 1].truncated
    BY <1>4, <1>5, <2>1, <2>2
  <2> QED  BY <1>3, <2>2, <2>3 DEF TellsAfter
<1>7. TellsAfter(0) /\ ~ IsSync(1) => TellsAfter(0)'
  <2> SUFFICES ASSUME TellsAfter(0), ~ IsSync(1), ~ Truncating PROVE TellsAfter(0)'
    BY <1>3 DEF TellsAfter
  <2>1. PICK k \in DOMAIN down : k > 0 /\ IsSync(k) /\ down[k].truncated
    BY DEF TellsAfter
  <2>2. k # 1  BY <2>1
  <2>3. k - 1 > 0  BY <1>1, <2>2, SMT
  <2>4. k - 1 \in DOMAIN down' /\ IsSync(k - 1)' /\ down'[k - 1].truncated
    BY <1>4, <1>5, <2>1, <2>2
  <2> QED  BY <1>3, <2>3, <2>4 DEF TellsAfter
<1>8. \A n \in Int, i \in Nat : Covered(n, i + 1) => Covered(n, i)'
  <2> SUFFICES ASSUME NEW n \in Int, NEW i \in Nat, Covered(n, i + 1) PROVE Covered(n, i)'
    OBVIOUS
  <2>0. page.cursor.seq \in Int /\ page'.cursor.seq \in Int  BY <1>0 DEF Types
  <2>1. CASE n <= given  BY <2>1 DEF Covered
  <2>2. CASE Known /\ n <= page.cursor.seq
    <3>1. Known' /\ n <= page'.cursor.seq  BY <2>0, <2>2, SMT
    <3> QED  BY <3>1 DEF Covered
  <2>3. CASE \E j \in DOMAIN down : j < i + 1 /\ IsEvent(j) /\ down[j].seq >= n
    <3>1. PICK j \in DOMAIN down : j < i + 1 /\ IsEvent(j) /\ down[j].seq >= n  BY <2>3
    <3>2. down[j].seq \in Int  BY <1>0, <1>2, <3>1 DEF Downs
    <3>3. CASE j = 1
      <4>1. Known' /\ page'.cursor.seq >= down[j].seq  BY <3>1, <3>3
      <4>2. n <= page'.cursor.seq  BY <2>0, <3>1, <3>2, <4>1, SMT
      <4> QED  BY <4>1, <4>2 DEF Covered
    <3>4. CASE j # 1
      <4>1. j - 1 < i  BY <1>1, <3>1, SMT
      <4>2. j - 1 \in DOMAIN down' /\ IsEvent(j - 1)' /\ down'[j - 1].seq >= n
        BY <1>4, <1>5, <3>1, <3>4
      <4> QED  BY <4>1, <4>2 DEF Covered
    <3> QED  BY <3>3, <3>4
  <2> QED  BY <2>1, <2>2, <2>3 DEF Covered
<1>9. Types'
  BY <1>0, <1>1 DEF Types, IsSequence
<1>10. Wires'
  BY <1>0, <1>3 DEF Wires, IsOpen
<1>11. Locks'  BY <1>0, <1>3 DEF Locks
<1>12. Syncs'
  <2>1. \A i \in DOMAIN down' : IsSync(i)' => ~ IsSync(1)
    <3> SUFFICES ASSUME NEW i \in DOMAIN down', IsSync(i)', IsSync(1) PROVE FALSE
      OBVIOUS
    <3>1. i + 1 \in DOMAIN down /\ IsSync(i + 1) /\ 1 \in DOMAIN down  BY <1>4 DEF IsSync
    <3>2. i + 1 # 1  BY <1>1, SMT
    <3> QED  BY <1>0, <3>1, <3>2 DEF Syncs
  <2>2. \A i \in DOMAIN down' : IsSync(i)' => ~ page'.synced
    BY <1>0, <1>4, <2>1 DEF Syncs
  <2>3. coroutine[page.conn].at = "opening" => ~ page'.synced /\ \A i \in DOMAIN down' : ~ IsSync(i)'
    BY <1>0, <1>4 DEF Syncs, IsSync
  <2>4. ASSUME NEW i \in DOMAIN down', NEW j \in DOMAIN down', IsSync(i)', IsSync(j)' PROVE i = j
    <3>1. i + 1 = j + 1  BY <1>0, <1>4, <2>4 DEF Syncs
    <3> QED  BY <1>1, <3>1, SMT
  <2> QED  BY <2>2, <2>3, <2>4 DEF Syncs
<1>13. Downs'
  <2> SUFFICES ASSUME NEW i \in DOMAIN down'
               PROVE  /\ down'[i].what \in {"event", "snapshot", "sync"}
                      /\ IsSync(i)' => down'[i].truncated \in BOOLEAN
                      /\ IsEvent(i)' => /\ down'[i].epoch = epoch' /\ down'[i].seq \in 1..Len(log')
                                        /\ Covered(down[i].seq - 1, i)' \/ TellsAfter(i)'
    BY DEF Downs
  <2>1. i \in Nat  BY <1>1, SMT
  <2>2. IsEvent(i + 1) => down[i + 1].seq - 1 \in Int  BY <1>0, <1>2, <1>4, SMT DEF Downs
  <2> QED  BY <1>0, <1>4, <1>6, <1>8, <2>1, <2>2 DEF Downs
<1>14. Frontier'
  <2> SUFFICES ASSUME socket = page.conn
               PROVE  Covered(IF Sending THEN Len(log) - 1 ELSE Len(log), Len(down) + 1)'
    BY <1>3 DEF Frontier
  <2>1. PICK X \in Int : X = IF Sending THEN N - 1 ELSE N  BY SMT
  <2>2. Covered(X, L + 1)  BY <1>0, <1>1, <1>2, <2>1 DEF Frontier
  <2>3. Covered(X, L)'  BY <1>8, <2>2
  <2>4. Len(down') + 1 = L  BY <1>1, SMT
  <2> QED  BY <1>2, <1>3, <2>1, <2>3, <2>4
<1>15. Notice' /\ Fresh'
  <2>1. TellsAfter(1) => TellsAfter(0)'  BY <1>6, SMT
  <2> QED  BY <1>0, <1>3, <1>7, <2>1 DEF Notice, Fresh
<1> QED  BY <1>9, <1>10, <1>11, <1>12, <1>13, <1>14, <1>15 DEF IInv

\* An event, the snapshot of the steps, or the session_sync.
LEMMA PageReadsKeeps ==
    ASSUME IInv, PageReads, Counted'
    PROVE  IInv'
<1> DEFINE m == Head(down)
<1>0. Types /\ Syncs /\ Downs /\ Locks /\ Notice  BY DEF IInv
<1>1. IsOpen /\ down # <<>> /\ down' = Tail(down) /\ SameWires
  BY DEF PageReads, IsOpen, SameWires, server
<1>2. 1 \in DOMAIN down /\ m = down[1]
  <2>1. IsSequence(down)  BY <1>0 DEF Types
  <2>2. PICK L \in Nat \ {0} : DOMAIN down = 1..L /\ m = down[1]  BY <1>1, <2>1, OneLess
  <2>3. 1 \in 1..L  BY SMT
  <2> QED  BY <2>2, <2>3
<1>3. PICK N \in Nat : N = Len(log)  BY <1>0 DEF Types, IsSequence
<1>4. /\ DOMAIN page = PageFields /\ page.cursor \in [epoch : Nat, seq : Nat]
      /\ page.cursor.epoch <= epoch /\ (Known => page.cursor.seq \in 1..N)
      /\ page.synced \in BOOLEAN /\ notice \in {"none", "cut", "given"}
      /\ epoch \in Nat /\ given \in 0..N
  BY <1>0, <1>3 DEF Types
<1>5. /\ m.what \in {"event", "snapshot", "sync"}
      /\ IsSync(1) <=> m.what = "sync"
      /\ IsEvent(1) <=> m.what = "event"
      /\ IsEvent(1) => /\ m.epoch = epoch /\ m.seq \in 1..N
                       /\ Covered(m.seq - 1, 1) \/ TellsAfter(1)
  BY <1>0, <1>2, <1>3 DEF Downs, IsSync, IsEvent
<1> HIDE DEF m
<1>6. page.cursor.seq >= page.cursor.seq  BY <1>4, SMT
<1>7. CASE m.what = "snapshot"
  <2>1. page' = [page EXCEPT !.steps = m.steps] /\ UNCHANGED observer
    BY <1>7 DEF PageReads, m
  <2>2. /\ DOMAIN page' = PageFields /\ page'.conn = page.conn /\ page'.link = page.link
        /\ page'.synced = page.synced /\ page'.cursor = page.cursor
        /\ missed' = missed /\ given' = given /\ notice' = notice
    BY <1>4, <2>1 DEF PageFields, observer
  <2>3. Reads
    BY <1>1, <1>3, <1>4, <1>5, <1>6, <1>7, <2>2 DEF Reads, SameWires, Known
  <2>4. ~ IsSync(1) /\ (missed' # {} => notice' # "none" \/ TellsAfter(0))
    BY <1>0, <1>5, <1>7, <2>2 DEF Notice
  <2> QED  BY <2>3, <2>4, ReadsKeeps
<1>8. CASE m.what = "sync"
  <2>1. PageReadsSync(m)  BY <1>8 DEF PageReads, m
  <2>2. /\ DOMAIN page' = PageFields /\ page'.conn = page.conn /\ page'.link = page.link
        /\ page'.synced = TRUE /\ page'.cursor = page.cursor
        /\ missed' = missed /\ given' = given /\ notice' = IF m.truncated THEN "given" ELSE notice
    BY <1>4, <2>1 DEF PageReadsSync, Cleared, PageFields
  <2>3. Reads
    <3>1. notice' \in {"none", "cut", "given"} /\ page'.synced \in BOOLEAN /\ IsSync(1) /\ ~ IsEvent(1)
      BY <1>4, <1>5, <1>8, <2>2
    <3>2. Known' <=> Known  BY <1>1, <2>2 DEF Known, SameWires
    <3> QED  BY <1>1, <1>3, <1>4, <1>6, <2>2, <3>1, <3>2 DEF Reads, SameWires
  <2>4. TellsAfter(0) => m.truncated
    <3>1. ~ Truncating  BY <1>0, <1>1, <1>2, <1>5, <1>8 DEF Truncating, Locks, Syncs
    <3> QED  BY <1>0, <1>2, <1>5, <1>8, <3>1 DEF TellsAfter, Syncs
  <2>5. missed' # {} => notice' # "none"
    BY <1>0, <2>2, <2>4 DEF Notice
  <2> QED  BY <2>3, <2>5, ReadsKeeps
<1>9. CASE m.what = "event"
  <2>1. PageReadsEvent(m)  BY <1>9 DEF PageReads, m
  <2>2. (page.cursor.epoch = m.epoch <=> Known) /\ m.epoch = epoch /\ m.seq \in 1..N
    BY <1>5, <1>9 DEF Known
  <2>3. CASE Known /\ page.cursor.seq >= m.seq
    <3>1. page' = page /\ missed' = missed /\ given' = given /\ notice' = notice
      BY <2>1, <2>2, <2>3 DEF PageReadsEvent, observer
    <3>2. Reads
      BY <1>1, <1>2, <1>3, <1>4, <1>5, <1>6, <1>9, <2>3, <3>1 DEF Reads, SameWires, Known
    <3>3. ~ IsSync(1) /\ (missed' # {} => notice' # "none" \/ TellsAfter(0))
      BY <1>0, <1>5, <1>9, <3>1 DEF Notice
    <3> QED  BY <3>2, <3>3, ReadsKeeps
  <2>4. CASE ~ (Known /\ page.cursor.seq >= m.seq)
    <3>1. /\ page' = [Shown(page, m.event) EXCEPT !.cursor = [epoch |-> epoch, seq |-> m.seq]]
          /\ missed' = IF Known THEN missed \cup ((Max({page.cursor.seq, given}) + 1)..(m.seq - 1)) ELSE {}
          /\ notice' = IF Known THEN notice ELSE "none"
          /\ given' = given
      BY <2>1, <2>2, <2>4 DEF PageReadsEvent
    <3>2. /\ DOMAIN page' = PageFields /\ page'.conn = page.conn /\ page'.link = page.link
          /\ page'.synced = page.synced /\ page'.cursor = [epoch |-> epoch, seq |-> m.seq]
      BY <1>4, <3>1, ShownIsAlike DEF Alike, PageFields
    <3>3. Known' /\ page'.cursor.seq = m.seq /\ page'.cursor.epoch = epoch /\ page'.cursor \in [epoch : Nat, seq : Nat]
      BY <1>1, <1>4, <2>2, <3>2, SMT DEF Known, SameWires
    <3>4. /\ epoch <= epoch /\ m.seq >= m.seq
          /\ Known => m.seq >= page.cursor.seq
      BY <1>4, <2>2, <2>4, SMT
    <3>5. Reads
      BY <1>1, <1>2, <1>3, <1>4, <1>5, <1>9, <2>2, <3>1, <3>2, <3>3, <3>4 DEF Reads, SameWires
    <3>6. ~ IsSync(1) /\ IsEvent(1)  BY <1>5, <1>9
    <3>7. ASSUME Known, missed' # {}, ~ TellsAfter(1) PROVE missed # {}
      <4>1. \A j \in DOMAIN down : ~ (j < 1)
        <5>1. PICK L \in Nat : DOMAIN down = 1..L  BY <1>0 DEF Types, IsSequence
        <5> QED  BY <5>1, SMT
      <4>2. m.seq - 1 <= given \/ m.seq - 1 <= page.cursor.seq
        BY <1>5, <1>9, <3>7, <4>1 DEF Covered
      <4>3. PICK a \in Int, b \in Int, s \in Int : a = page.cursor.seq /\ b = given /\ s = m.seq
        BY <1>4, <2>2, SMT
      <4>4. Max({a, b}) = IF a >= b THEN a ELSE b  BY LargerOfTwo
      <4>5. PICK x \in Int : x = Max({a, b}) /\ s - 1 <= x
        BY <4>2, <4>3, <4>4, SMT
      <4>6. (x + 1)..(s - 1) = {}  BY <4>5, SMT
      <4> QED  BY <3>1, <3>7, <4>3, <4>5, <4>6
    <3>8. missed' # {} => notice' # "none" \/ TellsAfter(0) \/ TellsAfter(1)
      <4>1. missed' # {} => Known  BY <3>1
      <4> QED  BY <1>0, <3>1, <3>7, <4>1 DEF Notice
    <3> QED  BY <3>5, <3>6, <3>8, ReadsKeeps
  <2> QED  BY <2>3, <2>4
<1> QED  BY <1>5, <1>7, <1>8, <1>9

-----------------------------------------------------------------------------
(* Every step of Next is of one of these kinds.                              *)

\* Reviews get their numbers one after the other.
LEMMA CountedKeeps ==
    ASSUME Counted, Next
    PROVE  Counted'
<1>1. CASE UNCHANGED <<waiting, fallback, counts>>
  BY <1>1 DEF Counted
<1>2. ASSUME Asks PROVE Counted'
  <2>1. PICK r : /\ r = counts.reviews + 1 /\ waiting' = waiting \cup {r}
                 /\ fallback' = fallback \cup {r}
                 /\ counts' = [counts EXCEPT !.reviews = r] /\ counts.reviews < MaxReviews
    BY <1>2 DEF Asks
  <2>2. r \in Reviews /\ r \in 0..MaxReviews
    <3>1. MaxReviews \in Nat  BY BoundsAssumption
    <3>2. counts.reviews \in 0..MaxReviews  BY DEF Counted
    <3> QED  BY <2>1, <3>1, <3>2, SMT DEF Reviews
  <2> QED  BY <2>1, <2>2 DEF Counted
<1>3. ASSUME NEW r, Reply(r)
      PROVE  waiting' \subseteq waiting /\ fallback' \subseteq waiting' /\ counts' = counts
  <2>1. fallback \subseteq waiting  BY DEF Counted
  <2>2. CASE fallback' = fallback /\ \E replies : Answers(replies)
    BY <2>1, <2>2 DEF Answers
  <2>3. CASE Starts(waiting \ {r}, reviews \ {r}) /\ fallback' = fallback \ {r} /\ UNCHANGED counts
    BY <2>1, <2>3 DEF Starts
  <2> QED  BY <1>3, <2>2, <2>3 DEF Reply
<1>4. ASSUME NEW c \in Conns, Receive(c) PROVE Counted'
  <2>0. fallback \subseteq waiting  BY DEF Counted
  <2>1. /\ waiting' \subseteq waiting /\ fallback' \subseteq waiting'
        /\ counts' = counts \/ counts' = [counts EXCEPT !.runs = @ + 1]
    <3>1. Chat => /\ waiting' \subseteq waiting /\ fallback' \subseteq waiting'
                  /\ counts' = counts \/ counts' = [counts EXCEPT !.runs = @ + 1]
      BY <2>0 DEF Chat, Reminder, Cancels, Answers, Starts
    <3>2. Stop => UNCHANGED <<waiting, counts>> /\ fallback' \subseteq waiting'
      BY DEF Stop, Reminder, Answers
    <3> QED  BY <1>3, <1>4, <2>0, <3>1, <3>2 DEF Receive, session
  <2>2. counts.runs \in Nat /\ counts.runs + 1 \in Nat  BY SMT DEF Counted
  <2> QED  BY <2>1, <2>2 DEF Counted
<1>5. CASE ServerStep
  <2>1. CASE SendReturns \/ AttachEnds \/ CommandSends \/ TaskIsDone \/ LateEnds
    BY <1>1, <2>1 DEF SendReturns, AttachEnds, CommandSends, TaskIsDone, LateEnds, session
  <2>2. CASE \E c \in Conns : ShowReview(c) \/ AttachBegins(c) \/ Detach(c)
    BY <1>1, <2>2 DEF ShowReview, AttachBegins, Detach, session
  <2> QED  BY <1>4, <1>5, <2>1, <2>2 DEF ServerStep
<1>6. CASE PageStep
  <2>1. Open => Counted'  BY DEF Open, Counted
  <2> QED  BY <1>1, <1>6, <2>1 DEF PageStep, Reconnect, HeartbeatTimeout, PageReads, session
<1>7. CASE Step \/ Commits \/ Ends
  BY <1>1, <1>7 DEF Step, Commits, Ends
<1>8. CASE SendFails \/ Drop \/ Crash \/ Reload
  <2>1. Crash => Counted'  BY DEF Crash, Counted
  <2> QED  BY <1>1, <1>8, <2>1 DEF SendFails, Drop, Reload, session
<1>9. CASE \E name \in CommandNames : User(name)
  BY <1>1, <1>9 DEF User, session
<1> QED  BY <1>2, <1>5, <1>6, <1>7, <1>8, <1>9 DEF Next

\* A send begins.
LEMMA SendKeeps ==
    ASSUME IInv, NEW by \in Senders, NEW e, Send(by, e),
           UNCHANGED <<down, page, observer>>, Counted'
    PROVE  IInv'
<1>1. coroutine' \in [Conns -> [at : {"none", "opening", "attached", "gone"}, todo : SUBSET Reviews]]
  BY DEF IInv, Types, Send
<1>2. Records(by)
  BY <1>1 DEF Send, Records, SamePage, SameObserver, observer
<1> QED  BY <1>2, RecordsKeeps

LEMMA ShowReviewKeeps ==
    ASSUME IInv, NEW c \in Conns, ShowReview(c), Counted'
    PROVE  IInv'
<1>1. PICK r \in coroutine[c].todo :
        /\ lock = Free /\ log' = Append(log, Ev("review", r)) /\ first' = Trimmed(Len(log) + 1)
        /\ lock' = IF socket = Offline THEN Free
                   ELSE [by |-> "connect", to |-> socket, event |-> Len(log) + 1]
        /\ coroutine' = [coroutine EXCEPT ![c].todo = @ \ {r}]
  BY DEF ShowReview
<1>2. coroutine \in [Conns -> [at : {"none", "opening", "attached", "gone"}, todo : SUBSET Reviews]]
  BY DEF IInv, Types
<1>3. /\ coroutine' \in [Conns -> [at : {"none", "opening", "attached", "gone"}, todo : SUBSET Reviews]]
      /\ \A x \in Conns : coroutine'[x].at = coroutine[x].at
  BY <1>1, <1>2
<1>4. /\ epoch' = epoch /\ socket' = socket /\ down' = down /\ page' = page
      /\ missed' = missed /\ given' = given /\ notice' = notice
  BY DEF ShowReview, observer
<1>5. Records("connect")
  BY <1>1, <1>3, <1>4 DEF Records, SamePage, SameObserver
<1> QED  BY <1>5, RecordsKeeps DEF Senders

\* A send is over: it returned, it failed, or its task was stopped.
LEMMA AppendIsMore ==
    ASSUME IInv, NEW m
    PROVE  Append(down, m) = down \o <<m>>
<1>1. PICK S : down \in Seq(S)  BY DEF IInv, Types, IsSequence
<1>2. down \in Seq(S \cup {m}) /\ m \in S \cup {m}  BY <1>1, SMT
<1> QED  BY <1>2, SMT

LEMMA SendOverKeeps ==
    ASSUME IInv, Counted',
           SendReturns \/ SendFails \/ \E c \in Conns : Receive(c) /\ socket = c /\ Stop /\ lock.by = "task" /\ lock' = Free
    PROVE  IInv'
<1>1. ASSUME Arrives(lock.to, <<EventMessage(lock.event)>>), Sending, lock' = Free, socket' = socket,
             UNCHANGED <<epoch, log, first, coroutine, page, observer>>
      PROVE  IInv'
  BY <1>1, SendEndsKeeps DEF SendEnds, Arrives, SamePage, SameObserver, observer
<1>2. CASE SendReturns  BY <1>1, <1>2 DEF SendReturns, Sending, Senders
<1>3. CASE SendFails
  <2>1. /\ Sending /\ lock' = Free /\ socket' = Offline
        /\ \/ down' = down
           \/ down' = Append(down, EventMessage(lock.event)) /\ Reaches(lock.to)
        /\ UNCHANGED <<epoch, log, first, coroutine, page, observer>>
    BY <1>3 DEF SendFails, Sending, Senders, DroppedSubscriber
  <2>2. Append(down, EventMessage(lock.event)) = down \o <<EventMessage(lock.event)>>
    BY AppendIsMore
  <2>3. SendEnds  BY <2>1, <2>2 DEF SendEnds, SamePage, SameObserver, observer
  <2> QED  BY <2>3, SendEndsKeeps
<1>4. CASE \E c \in Conns : Receive(c) /\ socket = c /\ Stop /\ lock.by = "task" /\ lock' = Free
  <2>1. PICK c \in Conns : Receive(c) /\ Stop /\ lock.by = "task" /\ lock' = Free  BY <1>4
  <2>2. UNCHANGED <<epoch, log, first, coroutine, page, observer, socket>>  BY <2>1 DEF Receive
  <2>3. Arrives(lock.to, <<EventMessage(lock.event)>>)
    BY <2>1 DEF Stop, Reminder, Answers, Free
  <2> QED  BY <1>1, <2>1, <2>2, <2>3 DEF Sending, Senders
<1> QED  BY <1>2, <1>3, <1>4

\* A command changes nothing of the delivery, or its stop ends a send.
LEMMA ReceiveKeeps ==
    ASSUME IInv, NEW c \in Conns, Receive(c), Counted'
    PROVE  IInv'
<1>1. UNCHANGED <<epoch, log, first, socket, coroutine, page, observer>>
  BY DEF Receive
<1>2. CASE lock' = lock /\ down' = down
  BY <1>1, <1>2, StaysKeeps DEF Stays, SameWires, SamePage, SameObserver, observer
<1>3. CASE ~ (lock' = lock /\ down' = down)
  <2>1. socket = c /\ Stop /\ lock.by = "task" /\ lock' = Free
    <3>1. ~ Chat  BY <1>3 DEF Chat, Reminder, Cancels, Answers, Starts
    <3>2. \A r : ~ Reply(r)  BY <1>3 DEF Reply, Answers, Starts
    <3>3. socket = c /\ Stop  BY <1>3, <3>1, <3>2 DEF Receive
    <3> QED  BY <1>3, <3>3 DEF Stop, Reminder, Answers
  <2> QED  BY <2>1, SendOverKeeps
<1> QED  BY <1>2, <1>3

\* The page's command goes out, waits, or makes a connection.
LEMMA UserKeeps ==
    ASSUME IInv, NEW name, User(name), Counted'
    PROVE  IInv'
<1>1. SameWires /\ down' = down /\ missed' = missed /\ given' = given /\ notice' = notice
  BY DEF User, SameWires, server
<1>2. DOMAIN page = PageFields /\ Wires /\ Types /\ Notice  BY DEF IInv, Types
<1> DEFINE m == [name |-> name,
                 review |-> IF name \in OfflineCommands THEN NoReview ELSE page.review]
           ordered == [page EXCEPT !.sent = @ + 1,
                        !.busy = IF name = "chat" THEN TRUE ELSE @,
                        !.steps = IF name = "chat" THEN {} ELSE @]
           queued == CASE name = "stop" -> [ordered EXCEPT !.stop = TRUE]
                       [] name = "chat" -> [ordered EXCEPT !.chats = @ + 1]
                       [] OTHER -> [ordered EXCEPT !.status = "submitting",
                                      !.replies = {x \in @ : x.review # m.review} \cup {m}]
           answer == IF name \in OfflineCommands THEN ordered.status ELSE Decided(name)
<1>3. \/ page.link = "open" /\ page' = [ordered EXCEPT !.status = answer]
      \/ page.link = "connecting" /\ \E n : page' = [queued EXCEPT !.attempts = n]
      \/ /\ page.link = "closed" /\ page.conn + 1 \in Conns
         /\ page' = [Connecting(queued) EXCEPT !.attempts = 0]
  BY DEF User
<1>4. Alike(page, ordered) /\ DOMAIN ordered = PageFields
  BY <1>2 DEF Alike, PageFields
<1>7. Alike(page, queued) /\ DOMAIN queued = PageFields
  <2> HIDE DEF ordered, m
  <2>1. CASE name = "stop"  BY <1>4, <2>1 DEF Alike, PageFields
  <2>2. CASE name = "chat"  BY <1>4, <2>2 DEF Alike, PageFields
  <2>3. CASE name \notin {"stop", "chat"}
    <3>1. \E all : queued = [ordered EXCEPT !.status = "submitting", !.replies = all]
      BY <2>3
    <3> QED  BY <1>4, <3>1 DEF Alike, PageFields
  <2> QED  BY <2>1, <2>2, <2>3
<1> HIDE DEF m, ordered, queued, answer
<1>5. CASE page.link \in {"open", "connecting"}
  <2>1. \/ page' = [ordered EXCEPT !.status = answer]
        \/ \E n : page' = [queued EXCEPT !.attempts = n]
    BY <1>3, <1>5
  <2>2. Alike(page, page')  BY <1>4, <1>7, <2>1 DEF Alike, PageFields
  <2>3. SamePage  BY <2>2 DEF SamePage, Alike
  <2> QED  BY <1>1, <2>3, StaysKeeps DEF Stays, SameObserver
<1>6. CASE page.link = "closed"
  <2>1. /\ DOMAIN page' = PageFields /\ page'.conn = page.conn + 1 /\ page'.link = "connecting"
        /\ page'.synced = page.synced /\ page'.cursor = page.cursor /\ page'.conn \in Conns
    <3>1. page' = [Connecting(queued) EXCEPT !.attempts = 0] /\ page.conn + 1 \in Conns
      BY <1>3, <1>6
    <3> QED  BY <1>7, <3>1 DEF Connecting, Alike, PageFields
  <2>2. down = <<>> /\ page.synced = FALSE /\ (missed # {} => notice # "none") /\ notice \in {"none", "cut", "given"}
    BY <1>2, <1>6 DEF Wires, Notice, TellsAfter, IsOpen, Types
  <2>3. Parts  BY <1>1, <2>1, <2>2 DEF Parts, Apart
  <2> QED  BY <2>3, PartsKeeps
<1> QED  BY <1>2, <1>5, <1>6 DEF Types

\* The page's connection is lost, and another attempt made, or the page is loaded anew.
LEMMA ClosedIsApart ==
    ASSUME DOMAIN page = PageFields
    PROVE  /\ DOMAIN Closed = PageFields /\ Closed.link = "closed" /\ Closed.synced = FALSE
           /\ Closed.conn = page.conn /\ Closed.cursor = page.cursor
<1> DEFINE p == [page EXCEPT !.link = "closed", !.synced = FALSE, !.retry = page.attempts < MaxAttempts]
<1>1. \E a, s : \/ Closed = [p EXCEPT !.attempts = a]
                \/ Closed = [p EXCEPT !.replies = {}, !.status = s]
  BY Zenon DEF Closed
<1> QED  BY <1>1 DEF PageFields

LEMMA LossKeeps ==
    ASSUME IInv, Drop \/ HeartbeatTimeout \/ Reconnect \/ Reload, Counted'
    PROVE  IInv'
<1>1. DOMAIN page = PageFields /\ Wires /\ Types /\ Notice  BY DEF IInv, Types
<1>2. SameWires
  BY DEF Drop, HeartbeatTimeout, Reconnect, Reload, SameWires, server
<1>3. CASE Drop \/ HeartbeatTimeout
  <2>1. Loses  BY <1>3 DEF Drop, HeartbeatTimeout
  <2>2. /\ page' = Closed /\ down' = <<>> /\ given' = given /\ missed' = missed
        /\ notice' \in {notice, "cut"} /\ (missed # {} => notice' # "none")
    BY <2>1 DEF Loses
  <2>3. Parts
    BY <1>1, <1>2, <2>2, ClosedIsApart DEF Parts, Apart, Types
  <2> QED  BY <2>3, PartsKeeps
<1>4. CASE Reconnect
  <2>1. /\ page.link = "closed" /\ page' = Connecting(page) /\ page.conn + 1 \in Conns
        /\ down' = down /\ missed' = missed /\ given' = given /\ notice' = notice
    BY <1>4 DEF Reconnect, observer
  <2>2. down = <<>> /\ page.synced = FALSE /\ (missed # {} => notice # "none") /\ notice \in {"none", "cut", "given"}
    BY <1>1, <2>1 DEF Wires, Notice, TellsAfter, IsOpen, Types
  <2>3. /\ DOMAIN page' = PageFields /\ page'.conn = page.conn + 1 /\ page'.link = "connecting"
        /\ page'.synced = page.synced /\ page'.cursor = page.cursor
    BY <1>1, <2>1 DEF Connecting, PageFields
  <2>4. Parts  BY <1>2, <2>1, <2>2, <2>3 DEF Parts, Apart
  <2> QED  BY <2>4, PartsKeeps
<1>5. CASE Reload
  <2>1. /\ page' = NewPage(page.conn + 1, page.sent) /\ page.conn + 1 \in Conns
        /\ down' = <<>> /\ missed' = {} /\ given' = 0 /\ notice' = "none"
    BY <1>5 DEF Reload
  <2>2. /\ DOMAIN page' = PageFields /\ page'.conn = page.conn + 1 /\ page'.link = "connecting"
        /\ page'.synced = FALSE /\ page'.cursor = NoCursor
    BY <2>1 DEF NewPage, PageFields
  <2>3. Parts  BY <1>2, <2>1, <2>2 DEF Parts, Apart
  <2> QED  BY <2>3, PartsKeeps
<1> QED  BY <1>3, <1>4, <1>5

LEMMA CrashKeeps ==
    ASSUME IInv, Crash, Counted'
    PROVE  IInv'
<1>1. DOMAIN page = PageFields /\ Wires /\ Types  BY DEF IInv, Types
<1>2. /\ epoch' = epoch + 1 /\ log' = <<>> /\ first' = 1 /\ socket' = Offline /\ lock' = Free
      /\ down' = <<>> /\ page' = (IF page.link = "closed" THEN page ELSE Closed)
      /\ missed' = {} /\ given' = 0 /\ notice' = "none"
  BY DEF Crash
<1>3. coroutine' = [c \in Conns |-> IF coroutine[c].at = "none"
                                    THEN [at |-> "none", todo |-> {}] ELSE [at |-> "gone", todo |-> {}]]
  <2>1. [NoCoroutine EXCEPT !.at = "gone"] = [at |-> "gone", todo |-> {}]  BY DEF NoCoroutine
  <2> QED  BY <2>1 DEF Crash, NoCoroutine
<1>4. \A c \in Conns : coroutine'[c].at # "none" => coroutine[c].at # "none"
  BY <1>3
<1>5. coroutine' \in [Conns -> [at : {"none", "opening", "attached", "gone"}, todo : SUBSET Reviews]]
  BY <1>3
<1>6. /\ DOMAIN page' = PageFields /\ page'.link = "closed" /\ page'.synced = FALSE
      /\ page'.conn = page.conn /\ page'.cursor = page.cursor
  BY <1>1, <1>2, ClosedIsApart DEF Wires, IsOpen, Types
<1>7. Restarts  BY <1>2, <1>4, <1>5, <1>6 DEF Restarts, Apart
<1> QED  BY <1>7, RestartsKeeps

-----------------------------------------------------------------------------
(* The theorem.                                                              *)

LEMMA NextKeeps ==
    ASSUME IInv, [Next]_vars
    PROVE  IInv'
<1>1. CASE UNCHANGED vars
  <2>1. Stays
    BY <1>1 DEF vars, server, observer, Stays, SameWires, SamePage, SameObserver
  <2>2. Counted'  BY <1>1 DEF vars, session, IInv, Counted
  <2> QED  BY <2>1, <2>2, StaysKeeps
<1> SUFFICES ASSUME Next PROVE IInv'
  BY <1>1
<1>2. Counted'  BY CountedKeeps DEF IInv
<1>3. CASE ServerStep
  <2>1. CASE SendReturns  BY <1>2, <2>1, SendOverKeeps
  <2>2. CASE AttachEnds  BY <1>2, <2>2, AttachEndsKeeps
  <2>3. CASE CommandSends
    BY <1>2, <2>3, SendKeeps DEF CommandSends, Senders
  <2>4. CASE TaskIsDone
    <3>1. Stays
      BY <2>4 DEF TaskIsDone, server, observer, Stays, SameWires, SamePage, SameObserver
    <3> QED  BY <1>2, <3>1, StaysKeeps
  <2>6. CASE LateEnds
    BY <1>2, <2>6, SendKeeps DEF LateEnds, Senders
  <2>5. ASSUME NEW c \in Conns, ShowReview(c) \/ AttachBegins(c) \/ Detach(c) \/ Receive(c) PROVE IInv'
    BY <1>2, <2>5, ShowReviewKeeps, AttachBeginsKeeps, DetachKeeps, ReceiveKeeps
  <2> QED  BY <1>3, <2>1, <2>2, <2>3, <2>4, <2>5, <2>6 DEF ServerStep
<1>4. CASE PageStep
  BY <1>2, <1>4, OpenKeeps, LossKeeps, PageReadsKeeps DEF PageStep
<1>5. CASE Step \/ Commits \/ Asks \/ Ends
  <2>1. PICK e, next : TaskSends(e, next)
    BY <1>5 DEF Step, Commits, Asks, Ends
  <2> QED  BY <1>2, <2>1, SendKeeps DEF TaskSends, Senders
<1>6. CASE SendFails  BY <1>2, <1>6, SendOverKeeps
<1>7. CASE Drop \/ Reload  BY <1>2, <1>7, LossKeeps
<1>8. CASE Crash  BY <1>2, <1>8, CrashKeeps
<1>9. CASE \E name \in CommandNames : User(name)  BY <1>2, <1>9, UserKeeps
<1> QED  BY <1>3, <1>4, <1>5, <1>6, <1>7, <1>8, <1>9 DEF Next

LEMMA InvariantMeansWhole == IInv => DeliveryIsWhole
<1> SUFFICES ASSUME IInv PROVE NothingMissedUntold /\ QuietIsCurrent
  BY DEF DeliveryIsWhole
<1>1. Types /\ Syncs /\ Locks /\ Frontier /\ Notice  BY DEF IInv
<1>2. NothingMissedUntold
  <2> SUFFICES ASSUME page.synced, TellsAfter(0) PROVE FALSE
    BY <1>1 DEF NothingMissedUntold, Notice
  <2> QED  BY <1>1 DEF TellsAfter, Truncating, Syncs, Locks, IsSync
<1>3. QuietIsCurrent
  <2> SUFFICES ASSUME Quiet PROVE AtTheEnd
    BY DEF QuietIsCurrent
  <2>1. PICK N \in Nat : N = Len(log)  BY <1>1 DEF Types, IsSequence
  <2>2. IsOpen /\ socket = page.conn /\ ~ Sending /\ down = <<>>
    BY DEF Quiet, IsOpen, Sending, Senders, Free
  <2>3. Covered(N, Len(down) + 1)  BY <1>1, <2>1, <2>2 DEF Frontier
  <2>4. DOMAIN down = {}  BY <2>2, EmptyIsSequence
  <2>5. N <= given \/ (Known /\ N <= page.cursor.seq)  BY <2>3, <2>4 DEF Covered
  <2>6. CASE N <= given
    <3>1. given \in 0..N  BY <1>1, <2>1 DEF Types
    <3>2. given = N  BY <2>6, <3>1, SMT
    <3> QED  BY <2>1, <3>2 DEF AtTheEnd
  <2>7. CASE Known /\ N <= page.cursor.seq
    <3>1. page.cursor.seq \in 1..N  BY <1>1, <2>1, <2>7 DEF Types
    <3>2. page.cursor.seq = N  BY <2>7, <3>1, SMT
    <3>3. page.cursor.epoch = epoch /\ page.cursor \in [epoch : Nat, seq : Nat]
      BY <1>1, <2>7 DEF Types, Known
    <3>4. page.cursor = [epoch |-> epoch, seq |-> N]  BY <3>2, <3>3
    <3> QED  BY <2>1, <3>4 DEF AtTheEnd
  <2> QED  BY <2>5, <2>6, <2>7
<1> QED  BY <1>2, <1>3

\* Of what the server sends, a page that was handed the events of a session misses
\* none without notice, and one that nothing is on its way to has handled the newest
\* (chat_connection.py: the numbering, the lock, attach and its replay;
\* agentChatEventHandler.ts: the cursor): however often connections are lost, sends
\* fail, the server restarts, and whatever the buffer holds.
THEOREM DeliveryWhole == Spec => []DeliveryIsWhole
<1>1. Init => IInv  BY Initially
<1>2. IInv /\ [Next]_vars => IInv'  BY NextKeeps
<1>3. IInv => DeliveryIsWhole  BY InvariantMeansWhole
<1> QED  BY <1>1, <1>2, <1>3, PTL DEF Spec

-----------------------------------------------------------------------------
(* What the page shows. The inductive invariant follows a step of the run,   *)
(* the run itself and the newest review from the log through the messages    *)
(* under way to the page, and says what would undo them on the way.          *)

Sound(e) ==
    /\ e \in Event
    /\ e.kind = "review" => e.arg \in Reviews
    /\ e.kind = "progress" => e.arg \in Steps
\* The messages carry what the log holds, and steps there are.
Carries ==
    \A i \in DOMAIN down :
        /\ IsEvent(i) => down[i].event = log[down[i].seq]
        /\ down[i].what = "snapshot" => down[i].steps \subseteq Steps
        /\ IsSync(i) => down[i].running \in BOOLEAN

\* A page decides about the review it shows, and what it decides is the user's.
Decisions(p) ==
    /\ p.status # "idle" => p.review # NoReview
    /\ p.status \in {"submitting", "accepted", "rejected"} => p.review \in answered
    /\ \A m \in p.replies : m.review \in answered
    /\ p.chats <= p.sent

\* Events arrive in the order of their numbers, and none twice.
Ordered ==
    /\ \A i, j \in DOMAIN down : IsEvent(i) /\ IsEvent(j) /\ i < j => down[i].seq < down[j].seq
    /\ \A i \in DOMAIN down : IsEvent(i) /\ Known => page.cursor.seq < down[i].seq
    /\ Sending => /\ \A i \in DOMAIN down : IsEvent(i) => down[i].seq < Len(log)
                  /\ Known => page.cursor.seq < Len(log)
                  /\ given < Len(log)

\* An open page has a coroutine; what it was told of gaps is about this server.
Held ==
    /\ IsOpen => coroutine[page.conn].at \in {"opening", "attached"}
    /\ notice # "none" \/ missed # {} \/ TellsAfter(0) => Known

\* Since the last run began there was an event of these kinds.
Ended(kinds) ==
    \E n \in DOMAIN log : log[n].kind \in kinds /\ \A k \in DOMAIN log : k > n => log[k].kind # "started"

\* Nothing runs once the end was announced, or will be; a start waits for nobody.
Finished ==
    /\ activity \in {"closing", "none"} =>
          steps = {} \/ Ended(Terminals) \/ \E i \in DOMAIN command : command[i].kind = "stopped"
    /\ \A i \in DOMAIN command : command[i].kind = "started" => activity = "preparing" /\ Len(command) = 1

\* The steps are those of the run that began last.
Stepped ==
    \A s \in steps : \E n \in DOMAIN log :
        log[n] = Ev("progress", s) /\ \A k \in DOMAIN log : k > n => log[k].kind # "started"

\* A message that the server refuses, or will: the page cleared its steps for it.
TooEarly == \/ \E i \in DOMAIN up[page.conn] : up[page.conn][i].name = "chat"
            \/ \E i \in DOMAIN command : command[i].kind = "refused"

Subscribed == IsOpen /\ socket = page.conn

\* Step s reaches the page and is not cleared behind it.
Endings == {"done", "stopped", "error"}
Clears(m, s) == (m.what = "event" /\ m.event.kind \in Endings) \/ (m.what = "snapshot" /\ s \notin m.steps)
Gives(m, s) == (m.what = "event" /\ m.event = Ev("progress", s)) \/ (m.what = "snapshot" /\ s \in m.steps)
StepThen(s) ==
    \/ Sending /\ log[Len(log)] = Ev("progress", s)
    \/ s \in page.steps /\ \A i \in DOMAIN down : ~ Clears(down[i], s)
    \/ \E i \in DOMAIN down : Gives(down[i], s) /\ \A j \in DOMAIN down : j > i => ~ Clears(down[j], s)
StepsShown ==
    Subscribed /\ ~ Ended(Terminals) /\ ~ TooEarly => \A s \in steps : StepThen(s)

\* That a run works reaches the page, and nothing that says otherwise follows.
Halts(m) == \/ m.what = "event" /\ m.event.kind \in Endings \cup {"expired"}
            \/ m.what = "sync" /\ ~ m.running
Begins(m) == (m.what = "event" /\ m.event.kind = "started") \/ (m.what = "sync" /\ m.running)
BusyThen ==
    \/ Sending /\ log[Len(log)].kind = "started"
    \/ page.busy /\ \A i \in DOMAIN down : ~ Halts(down[i])
    \/ \E i \in DOMAIN down : Begins(down[i]) /\ \A j \in DOMAIN down : j > i => ~ Halts(down[j])
Works == activity = "working" /\ ~ Ended(Terminals \cup {"expired"})
BusyShown ==
    Subscribed /\ coroutine[page.conn].at = "attached" /\ Works => BusyThen

\* The newest review event, when its review waits and this page did not answer it:
\* the page shows it or was told of a gap; a session_sync that does not know it comes
\* first; and it is on its way to a page that has not handled it.
Handled(n) == Known /\ n <= page.cursor.seq
Waiting(n) ==
    /\ n \in DOMAIN log /\ log[n].kind = "review"
    /\ \A k \in DOMAIN log : k > n => log[k].kind # "review"
    /\ log[n].arg \in reviews /\ log[n].arg \in waiting /\ log[n].arg \notin answered
Brings(n) == \E i \in DOMAIN down : IsEvent(i) /\ down[i].seq = n
Before(n, i) == ~ Handled(n) /\ \A j \in DOMAIN down : IsEvent(j) /\ j < i => down[j].seq < n
Unattached == coroutine[page.conn].at = "opening" /\ ~ (lock.by = "attach" /\ lock.to = page.conn)
ShownOf(n) == Handled(n) => page.review = log[n].arg \/ notice # "none" \/ missed # {}
SyncedOf(n) == \A i \in DOMAIN down : IsSync(i) /\ log[n].arg \notin down[i].pending => Before(n, i)
ReplayedOf(n) == IsOpen /\ n <= given /\ ~ Handled(n) /\ ~ Unattached => Brings(n)
ComesOf(n) ==
    Subscribed /\ ~ Handled(n) =>
        Brings(n) \/ (Sending /\ n = Len(log)) \/ notice # "none" \/ TellsAfter(0)
ReviewShown == \A n : Waiting(n) => ShownOf(n) /\ SyncedOf(n) /\ ReplayedOf(n) /\ ComesOf(n)

\* What TypeOK says that IInv does not, by what steps change together.
EpochSort == epoch \in 1..(MaxFaults + 1) /\ faults \in 0..MaxFaults /\ epoch <= faults + 1
LogSort == /\ log \in Seq(Event) /\ \A n \in DOMAIN log : Sound(log[n])
           /\ first \in 1..Max({1, Len(log)}) /\ Len(log) - first < Capacity
StateSort == steps \subseteq Steps /\ reviews \subseteq Reviews
LockSort == lock.event \in 0..Len(log)
TaskSort == /\ activity \in {"none", "preparing", "working", "committed", "suspending", "closing"}
            /\ late \in Nat /\ counts.runs \in 0..MaxRuns
CommandSort == /\ command \in Seq(Event)
               /\ \A n \in DOMAIN command : Sound(command[n]) /\ command[n].kind # "progress"
UpSort == up \in [Conns -> Seq(Command)]
PageSort == page \in Page /\ Decisions(page)
ObserverSort == missed \subseteq 1..Len(log) /\ answered \subseteq Reviews
Sorts == /\ EpochSort /\ LogSort /\ StateSort /\ LockSort /\ TaskSort /\ CommandSort
         /\ UpSort /\ PageSort /\ ObserverSort /\ Carries
SInv == /\ IInv /\ Sorts /\ Ordered /\ Held /\ Finished /\ Stepped
        /\ StepsShown /\ BusyShown /\ ReviewShown

-----------------------------------------------------------------------------
(* What a page may be.                                                       *)

LEMMA PageWith ==
    ASSUME NEW p \in Page
    PROVE  /\ \A v \in Conns : [p EXCEPT !.conn = v] \in Page
           /\ \A v \in {"connecting", "open", "closed"} : [p EXCEPT !.link = v] \in Page
           /\ \A v \in BOOLEAN : [p EXCEPT !.retry = v] \in Page
           /\ \A v \in 0..MaxAttempts : [p EXCEPT !.attempts = v] \in Page
           /\ \A v \in BOOLEAN : [p EXCEPT !.synced = v] \in Page
           /\ \A v \in [epoch : 0..epoch, seq : Nat] : [p EXCEPT !.cursor = v] \in Page
           /\ \A v \in 0..MaxCommands : [p EXCEPT !.sent = v] \in Page
           /\ \A v \in BOOLEAN : [p EXCEPT !.stop = v] \in Page
           /\ \A v \in 0..MaxCommands : [p EXCEPT !.chats = v] \in Page
           /\ \A v \in SUBSET Command : [p EXCEPT !.replies = v] \in Page
           /\ \A v \in BOOLEAN : [p EXCEPT !.busy = v] \in Page
           /\ \A v \in SUBSET Steps : [p EXCEPT !.steps = v] \in Page
           /\ \A v \in Reviews \cup {NoReview} : [p EXCEPT !.review = v] \in Page
           /\ \A v \in {"idle", "pending", "submitting", "accepted", "rejected", "expired"} :
                 [p EXCEPT !.status = v] \in Page
<1>1. /\ \A v \in Conns : [p EXCEPT !.conn = v] \in Page
      /\ \A v \in {"connecting", "open", "closed"} : [p EXCEPT !.link = v] \in Page
      /\ \A v \in BOOLEAN : [p EXCEPT !.retry = v] \in Page
      /\ \A v \in 0..MaxAttempts : [p EXCEPT !.attempts = v] \in Page
  BY DEF Page
<1>2. /\ \A v \in BOOLEAN : [p EXCEPT !.synced = v] \in Page
      /\ \A v \in [epoch : 0..epoch, seq : Nat] : [p EXCEPT !.cursor = v] \in Page
      /\ \A v \in 0..MaxCommands : [p EXCEPT !.sent = v] \in Page
      /\ \A v \in BOOLEAN : [p EXCEPT !.stop = v] \in Page
      /\ \A v \in 0..MaxCommands : [p EXCEPT !.chats = v] \in Page
  BY DEF Page
<1>3. /\ \A v \in SUBSET Command : [p EXCEPT !.replies = v] \in Page
      /\ \A v \in BOOLEAN : [p EXCEPT !.busy = v] \in Page
      /\ \A v \in SUBSET Steps : [p EXCEPT !.steps = v] \in Page
      /\ \A v \in Reviews \cup {NoReview} : [p EXCEPT !.review = v] \in Page
      /\ \A v \in {"idle", "pending", "submitting", "accepted", "rejected", "expired"} :
            [p EXCEPT !.status = v] \in Page
  BY DEF Page
<1> QED  BY <1>1, <1>2, <1>3

LEMMA PageHas ==
    ASSUME NEW p \in Page
    PROVE  /\ DOMAIN p = PageFields
           /\ p.conn \in Conns /\ p.link \in {"connecting", "open", "closed"}
           /\ p.retry \in BOOLEAN /\ p.attempts \in 0..MaxAttempts /\ p.synced \in BOOLEAN
           /\ p.cursor \in [epoch : 0..epoch, seq : Nat] /\ p.sent \in 0..MaxCommands
           /\ p.stop \in BOOLEAN /\ p.chats \in 0..MaxCommands /\ p.replies \in SUBSET Command
           /\ p.busy \in BOOLEAN /\ p.steps \in SUBSET Steps /\ p.review \in Reviews \cup {NoReview}
           /\ p.status \in {"idle", "pending", "submitting", "accepted", "rejected", "expired"}
  BY DEF Page, PageFields

LEMMA ClearedAndIdle ==
    ASSUME NEW p \in Page, Decisions(p)
    PROVE  /\ Cleared(p) \in Page /\ Decisions(Cleared(p))
           /\ Idle(p) \in Page /\ Decisions(Idle(p))
<1>1. Cleared(p) \in Page  BY PageWith DEF Cleared
<1>2. Idle(p) \in Page  BY PageWith DEF Idle
<1>3. DOMAIN p = PageFields  BY PageHas
<1>4. Decisions(Cleared(p))  BY <1>3 DEF Cleared, Decisions, PageFields
<1>5. Decisions(Idle(p))  BY <1>3 DEF Idle, Decisions, PageFields
<1> QED  BY <1>1, <1>2, <1>4, <1>5

\* No event makes a page of something else, and none decides for the user.
LEMMA ShownIsPage ==
    ASSUME NEW p \in Page, Decisions(p), NEW e, Sound(e)
    PROVE  Shown(p, e) \in Page /\ Decisions(Shown(p, e))
<1>0. /\ DOMAIN p = PageFields /\ p.status \in {"idle", "pending", "submitting", "accepted", "rejected", "expired"}
      /\ p.steps \in SUBSET Steps /\ p.review \in Reviews \cup {NoReview}
  BY PageHas
<1>a. 0 \notin Reviews  BY SMT DEF Reviews
<1>1. CASE e.kind = "started"
  <2>1. Shown(p, e) = [p EXCEPT !.busy = TRUE]  BY <1>1 DEF Shown
  <2>2. [p EXCEPT !.busy = TRUE] \in Page  BY PageWith
  <2>3. Decisions([p EXCEPT !.busy = TRUE])  BY <1>0 DEF Decisions, PageFields
  <2> QED  BY <2>1, <2>2, <2>3
<1>2. CASE e.kind = "progress"
  <2>1. Shown(p, e) = [p EXCEPT !.steps = @ \cup {e.arg}] /\ p.steps \cup {e.arg} \in SUBSET Steps
    BY <1>0, <1>2 DEF Shown, Sound
  <2>2. PICK v \in SUBSET Steps : Shown(p, e) = [p EXCEPT !.steps = v]  BY <2>1
  <2>3. [p EXCEPT !.steps = v] \in Page  BY PageWith
  <2>4. Decisions([p EXCEPT !.steps = v])  BY <1>0 DEF Decisions, PageFields
  <2> QED  BY <2>2, <2>3, <2>4
<1>3. CASE e.kind = "review"
  <2>1. Shown(p, e) = p \/ Shown(p, e) = [p EXCEPT !.review = e.arg, !.status = "pending"]
    BY <1>3 DEF Shown
  <2>2. e.arg \in Reviews /\ e.arg # NoReview  BY <1>3, <1>a DEF Sound, NoReview
  <2>3. ASSUME NEW q, q = [p EXCEPT !.review = e.arg, !.status = "pending"]
        PROVE  q \in Page /\ Decisions(q)
    <3>1. q \in Page  BY <2>2, <2>3, PageWith
    <3>2. Decisions(q)  BY <1>0, <2>2, <2>3 DEF Decisions, PageFields
    <3> QED  BY <3>1, <3>2
  <2> QED  BY <2>1, <2>3
<1>4. CASE e.kind = "expired"
  <2>1. Shown(p, e) = p
        \/ \E s \in {p.status, "expired"} :
              /\ Shown(p, e) = [p EXCEPT !.busy = FALSE, !.status = s]
              /\ s = "expired" => p.status # "idle"
    <3>1. ~ (p.review \notin {e.arg, NoReview}) =>
             Shown(p, e) = [p EXCEPT !.busy = FALSE,
                              !.status = IF p.review = e.arg /\ @ # "idle" THEN "expired" ELSE @]
      BY <1>4 DEF Shown
    <3>2. p.review \notin {e.arg, NoReview} => Shown(p, e) = p  BY <1>4 DEF Shown
    <3>3. CASE p.review = e.arg /\ p.status # "idle"
      BY <3>1, <3>2, <3>3
    <3>4. CASE ~ (p.review = e.arg /\ p.status # "idle")
      BY <3>1, <3>2, <3>4
    <3> QED  BY <3>3, <3>4
  <2>2. ASSUME NEW s \in {p.status, "expired"}, s = "expired" => p.status # "idle",
               NEW q, q = [p EXCEPT !.busy = FALSE, !.status = s]
        PROVE  q \in Page /\ Decisions(q)
    <3>1. q \in Page  BY <1>0, <2>2, PageWith
    <3>2. Decisions(q)  BY <1>0, <2>2 DEF Decisions, PageFields
    <3> QED  BY <3>1, <3>2
  <2> QED  BY <2>1, <2>2
<1>5. CASE e.kind = "committed"
  <2>1. Shown(p, e) \in {p, Cleared(p)}  BY <1>5 DEF Shown
  <2> QED  BY <2>1, ClearedAndIdle
<1>6. CASE e.kind = "refused"
  <2>1. Shown(p, e) = p  BY <1>6 DEF Shown
  <2> QED  BY <2>1
<1>7. CASE e.kind = "done"
  <2>1. PICK q \in {p, Cleared(p)} : Shown(p, e) = Idle(q)  BY <1>7 DEF Shown
  <2>2. q \in Page /\ Decisions(q)  BY ClearedAndIdle
  <2> QED  BY <2>1, <2>2, ClearedAndIdle
<1>8. CASE e.kind \in {"stopped", "error"}
  <2>1. PICK s : Shown(p, e) = Idle([p EXCEPT !.status = s]) /\ s = IF p.status \in Undecided THEN "expired" ELSE p.status
    BY <1>8 DEF Shown
  <2>2. [p EXCEPT !.status = s] \in Page  BY <1>0, <2>1, PageWith
  <2>3. Decisions([p EXCEPT !.status = s])
    BY <1>0, <2>1 DEF Decisions, PageFields, Undecided
  <2> QED  BY <2>1, <2>2, <2>3, ClearedAndIdle
<1>9. e.kind \in EventKinds  BY DEF Sound, Event
<1> QED  BY <1>1, <1>2, <1>3, <1>4, <1>5, <1>6, <1>7, <1>8, <1>9 DEF EventKinds

LEMMA ClosedIsPage ==
    ASSUME page \in Page, Decisions(page)
    PROVE  Closed \in Page /\ Decisions(Closed) /\ Closed.review = page.review
<1> DEFINE p == [page EXCEPT !.link = "closed", !.synced = FALSE, !.retry = page.attempts < MaxAttempts]
<1>1. p \in Page
  <2>1. PICK x \in Page : x = [page EXCEPT !.link = "closed"]  BY PageWith
  <2>2. PICK y \in Page : y = [x EXCEPT !.synced = FALSE]  BY PageWith
  <2>3. \A v \in BOOLEAN : [page EXCEPT !.link = "closed", !.synced = FALSE, !.retry = v] \in Page
    BY <2>1, <2>2, PageWith
  <2>4. CASE page.attempts < MaxAttempts
    <3>1. p = [page EXCEPT !.link = "closed", !.synced = FALSE, !.retry = TRUE]  BY <2>4
    <3> QED  BY <2>3, <3>1, Zenon
  <2>5. CASE ~ (page.attempts < MaxAttempts)
    <3>2. (page.attempts < MaxAttempts) = FALSE  BY <2>5
    <3>1. p = [page EXCEPT !.link = "closed", !.synced = FALSE, !.retry = FALSE]  BY <3>2, Zenon
    <3> QED  BY <2>3, <3>1, Zenon
  <2> QED  BY <2>4, <2>5
<1>2. DOMAIN page = PageFields /\ page.attempts \in 0..MaxAttempts /\ page.replies \in SUBSET Command
      /\ page.status \in {"idle", "pending", "submitting", "accepted", "rejected", "expired"}
  BY PageHas
<1>3. Decisions(p) /\ p.attempts = page.attempts /\ p.status = page.status /\ DOMAIN p = PageFields /\ p.review = page.review
  BY <1>2 DEF Decisions, PageFields
<1>4. CASE page.attempts < MaxAttempts
  <2>1. Closed = [p EXCEPT !.attempts = @ + 1]  BY <1>4 DEF Closed
  <2>2. page.attempts + 1 \in 0..MaxAttempts  BY <1>2, <1>4, BoundsAssumption, SMT
  <2> HIDE DEF p
  <2> QED  BY <1>1, <1>3, <2>1, <2>2, PageWith DEF Decisions, PageFields
<1>5. CASE ~ (page.attempts < MaxAttempts)
  <2>1. Closed = [p EXCEPT !.replies = {}, !.status = IF @ = "submitting" THEN "pending" ELSE @]
    BY <1>5 DEF Closed
  <2> HIDE DEF p
  <2>2. PICK s \in {p.status, "pending"} : Closed = [p EXCEPT !.replies = {}, !.status = s] /\ (s = "pending" => p.status # "idle")
    <3>1. CASE p.status = "submitting"  BY <2>1, <3>1
    <3>2. CASE p.status # "submitting"  BY <2>1, <3>2
    <3> QED  BY <3>1, <3>2
  <2>3. Closed \in Page  BY <1>1, <1>2, <1>3, <2>2, PageWith
  <2>4. Decisions(Closed) /\ Closed.review = page.review  BY <1>3, <2>2 DEF Decisions, PageFields
  <2> QED  BY <2>3, <2>4
<1> QED  BY <1>4, <1>5

LEMMA ConnectingIsPage ==
    ASSUME NEW p \in Page, Decisions(p), p.conn + 1 \in Conns
    PROVE  Connecting(p) \in Page /\ Decisions(Connecting(p))
<1>1. Connecting(p) \in Page  BY PageWith DEF Connecting
<1>2. Decisions(Connecting(p))  BY PageHas DEF Connecting, Decisions, PageFields
<1> QED  BY <1>1, <1>2

LEMMA OpenedIsPage ==
    ASSUME NEW p \in Page, Decisions(p), answered \subseteq Reviews
    PROVE  Opened(p) \in Page /\ Decisions(Opened(p)) /\ Opened(p).review = p.review
<1> DEFINE sent == {m \in p.replies : m.review = p.review}
           q == [p EXCEPT !.link = "open", !.attempts = 0, !.stop = FALSE, !.chats = 0, !.replies = {}]
<1>0. DOMAIN p = PageFields /\ p.sent \in 0..MaxCommands
      /\ p.status \in {"idle", "pending", "submitting", "accepted", "rejected", "expired"}
  BY PageHas
<1>a. 0 \in 0..MaxAttempts /\ 0 \in 0..MaxCommands /\ 0 \notin Reviews
  BY BoundsAssumption, SMT DEF Reviews
<1>1. q \in Page
  <2>1. PICK x \in Page : x = [p EXCEPT !.link = "open", !.attempts = 0]  BY <1>a, PageWith
  <2>2. PICK y \in Page : y = [x EXCEPT !.stop = FALSE, !.chats = 0]  BY <1>a, PageWith
  <2>3. [y EXCEPT !.replies = {}] \in Page  BY PageWith
  <2> QED  BY <2>1, <2>2, <2>3
<1>2. /\ DOMAIN q = PageFields /\ q.status = p.status /\ q.review = p.review
      /\ q.replies = {} /\ q.chats = 0 /\ q.sent = p.sent
  BY <1>0 DEF PageFields
<1>3. 0 <= p.sent  BY <1>0, SMT
<1>4. Opened(p) = [q EXCEPT !.status = IF sent = {} THEN @ ELSE Decided((CHOOSE m \in sent : TRUE).name)]
  BY DEF Opened
<1>5. PICK s \in {p.status, "accepted", "rejected"} : Opened(p) = [q EXCEPT !.status = s] /\ (s # p.status => sent # {})
  <2>1. CASE sent = {}  BY <1>2, <1>4, <2>1
  <2>2. CASE sent # {}  BY <1>4, <2>2 DEF Decided
  <2> QED  BY <2>1, <2>2
<1> HIDE DEF q
<1>6. Opened(p) \in Page
  <2>1. s \in {"idle", "pending", "submitting", "accepted", "rejected", "expired"}  BY <1>0
  <2>2. [q EXCEPT !.status = s] \in Page  BY <1>1, <2>1, PageWith
  <2> QED  BY <1>5, <2>2
<1>7. sent # {} => p.review \in answered /\ p.review # NoReview
  BY <1>a DEF Decisions, NoReview
<1> HIDE DEF sent
<1>8. Decisions(Opened(p)) /\ Opened(p).review = p.review
  BY <1>2, <1>3, <1>5, <1>7 DEF Decisions, PageFields
<1> QED  BY <1>6, <1>8

LEMMA NewPageIsPage ==
    ASSUME NEW c \in Conns, NEW sent \in 0..MaxCommands, epoch \in Nat
    PROVE  /\ NewPage(c, sent) \in Page /\ NewPage(c, sent).replies = {}
           /\ NewPage(c, sent).status = "idle" /\ NewPage(c, sent).chats = 0 /\ NewPage(c, sent).sent = sent
<1>1. 0 \in 0..MaxAttempts /\ 0 \in 0..MaxCommands /\ NoCursor \in [epoch : 0..epoch, seq : Nat]
  BY BoundsAssumption, SMT DEF NoCursor
<1> QED  BY <1>1 DEF NewPage, Page

\* A set of numbers up to some number that is not empty has a largest.
LEMMA LargestExists ==
    ASSUME NEW N \in Nat, NEW S, S \subseteq 1..N, S # {}
    PROVE  \E n \in S : \A k \in S : k <= n
<1> DEFINE T == {m \in Nat : \A k \in S : k <= m}
           less == {ss \in Nat \X Nat : ss[1] < ss[2]}
<1>1. T # {} /\ T \subseteq Nat
  <2>1. \A k \in S : k <= N  BY SMT
  <2> QED  BY <2>1
<1>2. IsWellFoundedOn(less, Nat)
  BY NatLessThanWellFounded DEF OpToRel
<1> HIDE DEF less
<1>5. PICK m \in T : \A x \in T : ~ (<<x, m>> \in less)
  <2> HIDE DEF T
  <2> QED  BY <1>1, <1>2, WFMin
<1>3. \A x \in T : ~ (x < m)  BY <1>1, <1>5 DEF less
<1>4. m \in S
  <2> SUFFICES ASSUME m \notin S PROVE FALSE
    OBVIOUS
  <2>1. PICK s \in S : s \in 1..N  OBVIOUS
  <2>2. s <= m /\ s # m /\ m \in Nat  OBVIOUS
  <2>3. m - 1 \in Nat /\ m - 1 < m  BY <2>1, <2>2, SMT
  <2>4. \A k \in S : k <= m - 1
    <3> SUFFICES ASSUME NEW k \in S PROVE k <= m - 1
      OBVIOUS
    <3>1. k \in Nat /\ k <= m /\ k # m  BY <2>2, SMT
    <3> QED  BY <2>2, <3>1, SMT
  <2>5. m - 1 \in T  BY <2>3, <2>4
  <2> QED  BY <1>3, <2>3, <2>5
<1> QED  BY <1>4

\* When the newest event of some kinds came before the last start, all did.
LEMMA NewestDecides ==
    ASSUME IInv, NEW kinds, SinceStart(Newest(kinds)) = {}
    PROVE  ~ Ended(kinds)
<1> SUFFICES ASSUME NEW n \in DOMAIN log, log[n].kind \in kinds,
                    \A k \in DOMAIN log : k > n => log[k].kind # "started"
             PROVE  FALSE
  BY DEF Ended
<1>1. PICK N \in Nat : DOMAIN log = 1..N  BY DEF IInv, Types, IsSequence
<1> DEFINE S == {k \in DOMAIN log : log[k].kind \in kinds}
<1>2. S \subseteq 1..N /\ n \in S  BY <1>1
<1>3. PICK m \in S : \A k \in S : k <= m  BY <1>2, LargestExists
<1>4. m \in DOMAIN log /\ log[m].kind \in kinds /\ n <= m /\ m \in Nat /\ n \in Nat
  BY <1>1, <1>2, <1>3
<1>5. \A k \in DOMAIN log : k > m => k \in Nat /\ k > n /\ k \notin S
  <2> SUFFICES ASSUME NEW k \in DOMAIN log, k > m PROVE k \in Nat /\ k > n /\ k \notin S
    OBVIOUS
  <2>1. k \in Nat  BY <1>1
  <2>2. k > n /\ ~ (k <= m)  BY <1>4, <2>1, SMT
  <2> QED  BY <1>3, <2>1, <2>2
<1>6. m \in Newest(kinds)  BY <1>4, <1>5 DEF Newest
<1>7. m \in SinceStart(Newest(kinds))  BY <1>5, <1>6 DEF SinceStart
<1> QED  BY <1>7

LEMMA SortsAreTypes ==
    ASSUME IInv, Sorts
    PROVE  TypeOK
<1>1. Types /\ Counted  BY DEF IInv
<1>2. lock \in [by : {"nobody", "attach"} \cup Senders,
                 to : Conns \cup {Offline}, event : 0..Len(log)]
  BY <1>1 DEF Types, Sorts, LockSort
<1>3. counts \in [runs : 0..MaxRuns, reviews : 0..MaxReviews] /\ waiting \subseteq Reviews
      /\ fallback \subseteq waiting
  BY <1>1 DEF Counted, Sorts, TaskSort
<1>4. /\ socket \in Conns \cup {Offline} /\ given \in 0..Len(log) /\ notice \in Notices
      /\ coroutine \in [Conns -> [at : {"none", "opening", "attached", "gone"}, todo : SUBSET Reviews]]
      /\ page.cursor.epoch = epoch => page.cursor.seq \in 1..Len(log)
  BY <1>1 DEF Types, Notices, Known
<1> QED
  BY <1>2, <1>3, <1>4, Zenon
  DEF TypeOK, Sorts, EpochSort, LogSort, StateSort, TaskSort, CommandSort, UpSort, PageSort, ObserverSort

LEMMA InvariantMeansShown == SInv => ShowsWhatIs
<1> SUFFICES ASSUME SInv PROVE TypeOK /\ WorkIsShown /\ ReviewIsShown
  BY DEF ShowsWhatIs
<1>1. IInv /\ TypeOK /\ Types /\ Syncs /\ Frontier /\ Held
  BY SortsAreTypes DEF SInv, IInv
<1>2. ASSUME Quiet
      PROVE  /\ Subscribed /\ ~ Sending /\ down = <<>> /\ DOMAIN down = {} /\ page.synced
             /\ coroutine[page.conn].at = "attached" /\ ~ TooEarly /\ ~ TellsAfter(0)
             /\ missed # {} => notice # "none"
  <2>1. /\ Subscribed /\ ~ Sending /\ down = <<>> /\ DOMAIN down = {} /\ page.synced /\ lock.by = "nobody"
        /\ command = <<>> /\ up[page.conn] = <<>>
    BY <1>2, EmptyIsSequence DEF Quiet, Subscribed, IsOpen, Sending, Senders, Free
  <2>2. coroutine[page.conn].at = "attached"
    BY <1>1, <2>1 DEF Held, Syncs, Subscribed
  <2>3. ~ TooEarly  BY <2>1, EmptyIsSequence DEF TooEarly
  <2>4. ~ TellsAfter(0)  BY <2>1 DEF TellsAfter, Truncating
  <2>5. missed # {} => notice # "none"  BY <1>1, <2>4 DEF IInv, Notice
  <2> QED  BY <2>1, <2>2, <2>3, <2>4, <2>5
<1>3. WorkIsShown
  <2> SUFFICES ASSUME Quiet, activity = "working", SinceStart(Newest(Terminals)) = {}
               PROVE  steps \subseteq page.steps /\ (SinceStart(Newest({"expired"})) = {} => page.busy)
    BY DEF WorkIsShown
  <2>1. ~ Ended(Terminals)  BY <1>1, NewestDecides
  <2>2. \A s \in steps : StepThen(s)  BY <1>2, <2>1 DEF SInv, StepsShown
  <2>3. steps \subseteq page.steps  BY <1>2, <2>2 DEF StepThen
  <2>4. ASSUME SinceStart(Newest({"expired"})) = {} PROVE page.busy
    <3>1. ~ Ended({"expired"})  BY <1>1, <2>4, NewestDecides
    <3>2. Works  BY <2>1, <3>1 DEF Works, Ended
    <3>3. BusyThen  BY <1>2, <3>2 DEF SInv, BusyShown
    <3> QED  BY <1>2, <3>3 DEF BusyThen
  <2> QED  BY <2>3, <2>4
<1>4. ReviewIsShown
  <2> SUFFICES ASSUME Quiet, NEW n \in Newest({"review"}), log[n].arg \in (reviews \cap waiting) \ answered
               PROVE  notice # "none" \/ page.review = log[n].arg
    BY DEF ReviewIsShown
  <2>1. Waiting(n)  BY DEF Waiting, Newest
  <2>2. ShownOf(n) /\ ComesOf(n)  BY <2>1 DEF SInv, ReviewShown
  <2>3. ~ Brings(n)  BY <1>2 DEF Brings
  <2> QED  BY <1>2, <2>2, <2>3 DEF ShownOf, ComesOf
<1> QED  BY <1>1, <1>3, <1>4

-----------------------------------------------------------------------------
(* An event is numbered, whoever sends it.                                   *)

Adds(e) ==
    /\ Sound(e) /\ lock = Free /\ log' = Append(log, e) /\ first' = Trimmed(Len(log) + 1)
    /\ steps' = IF e.kind = "started" THEN {}
                ELSE IF e.kind = "progress" THEN steps \cup {e.arg} ELSE steps
    /\ reviews' = IF e.kind = "review" THEN reviews \cup {e.arg}
                  ELSE IF e.kind = "expired" THEN reviews \ {e.arg}
                  ELSE IF e.kind = "stopped" THEN {} ELSE reviews
    /\ \/ socket = Offline /\ lock' = Free
       \/ socket # Offline /\ Sending' /\ lock'.to = socket /\ lock'.event = Len(log) + 1
    /\ \A c \in Conns : coroutine'[c].at = coroutine[c].at
    /\ epoch' = epoch /\ socket' = socket /\ down' = down /\ page' = page /\ up' = up /\ faults' = faults
    /\ missed' = missed /\ answered' = answered /\ given' = given /\ notice' = notice

\* What the session does with it.
AddsFor(e) ==
    /\ activity' \in {"none", "preparing", "working", "committed", "suspending", "closing"}
    /\ late' \in Nat /\ counts'.runs = counts.runs
    /\ activity' = "working" => activity = "working" \/ e.kind = "started"
    /\ activity' \in {"closing", "none"} => activity' = activity \/ e.kind \in Terminals
    /\ e.kind = "progress" => activity' = "working"
    /\ waiting' = waiting \/ (e.kind = "review" /\ waiting' = waiting \cup {e.arg})
    /\ \/ command' = command /\ (activity' = activity \/ activity = "working" \/ activity \in {"committed", "suspending"})
       \/ command # <<>> /\ e = Head(command) /\ command' = Tail(command)

LEMMA EvIs == \A kind, arg : Ev(kind, arg).kind = kind /\ Ev(kind, arg).arg = arg
  BY DEF Ev

LEMMA PlainIsSound ==
    ASSUME NEW kind \in EventKinds \ {"review", "progress"}
    PROVE  Sound(Plain(kind)) /\ Plain(kind).kind = kind
  BY DEF Plain, Ev, Sound, Event

LEMMA ReviewIsSound ==
    ASSUME NEW r \in Reviews
    PROVE  Sound(Ev("review", r)) /\ Sound(Ev("expired", r))
  BY DEF Ev, Sound, Event, EventKinds

LEMMA SendAdds ==
    ASSUME SInv, NEW by \in Senders, NEW e, Send(by, e), Sound(e),
           UNCHANGED <<down, page, up, faults, observer>>
    PROVE  Adds(e)
<1>1. steps' = IF e.kind = "started" THEN {} ELSE IF e.kind = "progress" THEN steps \cup {e.arg} ELSE steps
  BY DEF Send
<1>2. reviews' = IF e.kind = "review" THEN reviews \cup {e.arg}
                 ELSE IF e.kind = "expired" THEN reviews \ {e.arg}
                 ELSE IF e.kind = "stopped" THEN {} ELSE reviews
  BY DEF Send
<1>3. \/ socket = Offline /\ lock' = Free
      \/ socket # Offline /\ Sending' /\ lock'.to = socket /\ lock'.event = Len(log) + 1
  BY DEF Send, Sending
<1> QED  BY <1>1, <1>2, <1>3 DEF Adds, Send, observer

LEMMA AddsKinds ==
    ASSUME SInv,
           Step \/ Commits \/ Asks \/ Ends \/ LateEnds \/ CommandSends \/ \E c \in Conns : ShowReview(c)
    PROVE  \E e : Adds(e) /\ AddsFor(e)
<1>0. /\ Types /\ Counted /\ StateSort /\ TaskSort /\ CommandSort /\ counts.runs = counts.runs
      /\ {"task", "late", "command", "connect"} \subseteq Senders
  BY DEF SInv, IInv, Sorts, Senders
<1>1. ASSUME Step PROVE \E e : Adds(e) /\ AddsFor(e)
  <2> DEFINE k == Cardinality(steps) + 1
  <2>1. IsFiniteSet(steps)
    <3>1. IsFiniteSet(Steps)
      <4>1. MaxSteps \in Int /\ 1 \in Int  BY BoundsAssumption, SMT
      <4> QED  BY <4>1, FS_Interval DEF Steps
    <3> QED  BY <1>0, <3>1, FS_Subset DEF StateSort
  <2>2. Cardinality(steps) \in Nat  BY <2>1, FS_CardinalityType
  <2>3. k \in Steps
    <3>1. Cardinality(steps) < MaxSteps  BY <1>1 DEF Step
    <3> QED  BY <2>2, <3>1, BoundsAssumption, SMT DEF Steps
  <2> HIDE DEF k
  <2>4. Sound(Ev("progress", k))  BY <2>3 DEF Sound, Ev, Event, EventKinds
  <2>5. /\ activity = "working" /\ activity' = "working" /\ Send("task", Ev("progress", k))
        /\ UNCHANGED <<late, command, down, up, faults, page, observer, waiting, counts>>
    BY <1>1 DEF Step, TaskSends, k
  <2>6. Adds(Ev("progress", k))  BY <1>0, <2>4, <2>5, SendAdds
  <2>7. AddsFor(Ev("progress", k))  BY <1>0, <2>5 DEF AddsFor, TaskSort, Ev
  <2> QED  BY <2>6, <2>7
<1>2. ASSUME NEW last \in {"committed", "done", "error"}, NEW next \in {"committed", "closing"},
             next = "closing" => last \in {"done", "error"},
             activity \in {"working", "committed", "suspending"},
             TaskSends(Plain(last), next), UNCHANGED <<waiting, counts>>
      PROVE  \E e : Adds(e) /\ AddsFor(e)
  <2>1. Sound(Plain(last)) /\ Plain(last).kind = last  BY PlainIsSound DEF EventKinds
  <2>2. /\ Send("task", Plain(last)) /\ activity' = next
        /\ UNCHANGED <<late, command, down, up, faults, page, observer, waiting, counts>>
    BY <1>2 DEF TaskSends
  <2>3. Adds(Plain(last))  BY <1>0, <2>1, <2>2, SendAdds
  <2>4. AddsFor(Plain(last))  BY <1>0, <1>2, <2>1, <2>2 DEF AddsFor, TaskSort, Terminals
  <2> QED  BY <2>3, <2>4
<1>3. CASE Commits  BY <1>2, <1>3 DEF Commits
<1>4. CASE Ends  BY <1>2, <1>4 DEF Ends
<1>5. ASSUME Asks PROVE \E e : Adds(e) /\ AddsFor(e)
  <2>1. PICK r : /\ r = counts.reviews + 1 /\ TaskSends(Ev("review", r), "suspending")
                 /\ waiting' = waiting \cup {r} /\ counts' = [counts EXCEPT !.reviews = r]
                 /\ activity = "working" /\ counts.reviews < MaxReviews
    BY <1>5 DEF Asks
  <2>2. r \in Reviews /\ counts'.runs = counts.runs
    <3>1. MaxReviews \in Nat /\ counts \in [runs : Nat, reviews : 0..MaxReviews]
      BY <1>0, BoundsAssumption DEF Counted
    <3> QED  BY <2>1, <3>1, SMT DEF Reviews
  <2>3. Sound(Ev("review", r))  BY <2>2, ReviewIsSound
  <2>4. /\ Send("task", Ev("review", r)) /\ activity' = "suspending"
        /\ UNCHANGED <<late, command, down, up, faults, page, observer>>
    BY <2>1 DEF TaskSends
  <2>5. Adds(Ev("review", r))  BY <1>0, <2>3, <2>4, SendAdds
  <2>6. AddsFor(Ev("review", r))  BY <1>0, <2>1, <2>2, <2>4 DEF AddsFor, TaskSort, Ev
  <2> QED  BY <2>5, <2>6
<1>6. ASSUME LateEnds PROVE \E e : Adds(e) /\ AddsFor(e)
  <2>1. Sound(Plain("done")) /\ Plain("done").kind = "done"  BY PlainIsSound DEF EventKinds
  <2>2. /\ Send("late", Plain("done")) /\ late > 0 /\ late' = late - 1
        /\ UNCHANGED <<activity, waiting, counts, command, down, up, faults, page, observer>>
    BY <1>6 DEF LateEnds
  <2>3. Adds(Plain("done"))  BY <1>0, <2>1, <2>2, SendAdds
  <2>4. late' \in Nat  BY <1>0, <2>2, SMT DEF TaskSort
  <2>5. AddsFor(Plain("done"))  BY <1>0, <2>1, <2>2, <2>4 DEF AddsFor, TaskSort
  <2> QED  BY <2>3, <2>5
<1>7. ASSUME CommandSends PROVE \E e : Adds(e) /\ AddsFor(e)
  <2> DEFINE e == Head(command)
  <2>1. command # <<>> /\ Sound(e) /\ e.kind # "progress"
    <3>1. command # <<>> /\ command \in Seq(Event)  BY <1>0, <1>7 DEF CommandSends, CommandSort
    <3>2. 1 \in DOMAIN command /\ e = command[1]  BY <3>1, SMT
    <3> QED  BY <1>0, <3>1, <3>2 DEF CommandSort
  <2>2. /\ Send("command", e) /\ command' = Tail(command)
        /\ activity' = IF e.kind = "started" THEN "working" ELSE activity
        /\ UNCHANGED <<late, waiting, counts, down, up, faults, page, observer>>
    BY <1>7 DEF CommandSends
  <2>3. e = Head(command)  OBVIOUS
  <2> HIDE DEF e
  <2>4. Adds(e)  BY <1>0, <2>1, <2>2, SendAdds
  <2>5. AddsFor(e)  BY <1>0, <2>1, <2>2, <2>3 DEF AddsFor, TaskSort
  <2> QED  BY <2>4, <2>5
<1>8. ASSUME NEW c \in Conns, ShowReview(c) PROVE \E e : Adds(e) /\ AddsFor(e)
  <2>1. PICK r \in coroutine[c].todo :
        /\ lock = Free /\ log' = Append(log, Ev("review", r)) /\ first' = Trimmed(Len(log) + 1)
        /\ reviews' = reviews \cup {r}
        /\ lock' = IF socket = Offline THEN Free
                   ELSE [by |-> "connect", to |-> socket, event |-> Len(log) + 1]
        /\ coroutine' = [coroutine EXCEPT ![c].todo = @ \ {r}]
    BY <1>8 DEF ShowReview
  <2>2. coroutine \in [Conns -> [at : {"none", "opening", "attached", "gone"}, todo : SUBSET Reviews]]
    BY <1>0 DEF Types
  <2>3. Sound(Ev("review", r))  BY <2>2, ReviewIsSound
  <2>4. \A x \in Conns : coroutine'[x].at = coroutine[x].at  BY <2>1, <2>2
  <2>5. UNCHANGED <<epoch, steps, socket, session, down, up, faults, page, observer>>
    BY <1>8 DEF ShowReview
  <2>6. \/ socket = Offline /\ lock' = Free
        \/ socket # Offline /\ Sending' /\ lock'.to = socket /\ lock'.event = Len(log) + 1
    BY <1>0, <2>1 DEF Sending
  <2>7. Adds(Ev("review", r))  BY <2>1, <2>3, <2>4, <2>5, <2>6, EvIs DEF Adds, observer
  <2>8. AddsFor(Ev("review", r))  BY <1>0, <2>5, EvIs DEF AddsFor, TaskSort, session
  <2> QED  BY <2>7, <2>8
<1> QED  BY <1>1, <1>3, <1>4, <1>5, <1>6, <1>7, <1>8

\* The log with an event more.
LEMMA LogWithOneMore ==
    ASSUME SInv, NEW e, Adds(e)
    PROVE  \E N \in Nat : /\ N = Len(log) /\ DOMAIN log = 1..N /\ DOMAIN log' = 1..(N + 1) /\ Len(log') = N + 1
                          /\ \A n \in 1..N : log'[n] = log[n]
                          /\ log'[N + 1] = e /\ log' \in Seq(Event)
                          /\ \A n \in DOMAIN log' : n = N + 1 \/ (n \in DOMAIN log /\ n <= N)
<1>1. log \in Seq(Event) /\ e \in Event /\ log' = Append(log, e)
  <2>1. log \in Seq(Event)  BY DEF SInv, Sorts, LogSort
  <2>2. Sound(e) /\ log' = Append(log, e)  BY DEF Adds
  <2> QED  BY <2>1, <2>2 DEF Sound
<1>2. Len(log) \in Nat /\ DOMAIN log = 1..Len(log)  BY <1>1, SMT
<1>3. log' \in Seq(Event) /\ Len(log') = Len(log) + 1  BY <1>1, SMT
<1>4. DOMAIN log' = 1..(Len(log) + 1)  BY <1>3, SMT
<1>5. \A n \in 1..Len(log) : log'[n] = log[n]  BY <1>1, <1>2, SMT
<1>6. log'[Len(log) + 1] = e
  <2>1. PICK N \in Nat : N = Len(log)  BY <1>2
  <2>2. log' = Append(log, e) /\ Len(log) = N /\ log \in Seq(Event) /\ e \in Event  BY <1>1, <2>1
  <2>3. log'[N + 1] = e  BY <2>2, SMT
  <2> QED  BY <2>1, <2>3
<1>7. \A n \in 1..(Len(log) + 1) : n = Len(log) + 1 \/ (n \in 1..Len(log) /\ n <= Len(log))  BY <1>2, SMT
<1> QED  BY <1>2, <1>3, <1>4, <1>5, <1>6, <1>7

\* What ended the last run, with an event more.
LEMMA EndedWithOneMore ==
    ASSUME SInv, NEW e, Adds(e), NEW kinds
    PROVE  /\ e.kind \in kinds => Ended(kinds)'
           /\ e.kind # "started" /\ Ended(kinds) => Ended(kinds)'
           /\ e.kind # "started" /\ e.kind \notin kinds /\ Ended(kinds)' => Ended(kinds)
<1>1. PICK N \in Nat : /\ N = Len(log) /\ DOMAIN log = 1..N /\ DOMAIN log' = 1..(N + 1) /\ Len(log') = N + 1
                       /\ \A n \in 1..N : log'[n] = log[n]
                       /\ log'[N + 1] = e /\ log' \in Seq(Event)
                       /\ \A n \in DOMAIN log' : n = N + 1 \/ (n \in DOMAIN log /\ n <= N)
  BY LogWithOneMore
<1>2. N + 1 \in DOMAIN log' /\ DOMAIN log \subseteq DOMAIN log'  BY <1>1, SMT
<1>3. \A k \in DOMAIN log' : ~ (k > N + 1)  BY <1>1, SMT
<1>4. \A k \in DOMAIN log : log'[k] = log[k] /\ N + 1 > k  BY <1>1, SMT
<1>8. log'[N + 1] = e /\ \A n \in DOMAIN log' : n = N + 1 \/ n \in DOMAIN log
  BY <1>1
<1>5. ASSUME e.kind \in kinds PROVE Ended(kinds)'
  <2>1. log'[N + 1].kind \in kinds /\ \A k \in DOMAIN log' : k > N + 1 => log'[k].kind # "started"
    BY <1>3, <1>5, <1>8
  <2> QED  BY <1>2, <2>1, Zenon DEF Ended
<1>6. ASSUME e.kind # "started", Ended(kinds) PROVE Ended(kinds)'
  <2>1. PICK n \in DOMAIN log : log[n].kind \in kinds /\ \A k \in DOMAIN log : k > n => log[k].kind # "started"
    BY <1>6 DEF Ended
  <2>2. \A k \in DOMAIN log' : k > n => log'[k].kind # "started"
    BY <1>4, <1>6, <1>8, <2>1
  <2> QED  BY <1>2, <1>4, <2>1, <2>2 DEF Ended
<1>7. ASSUME e.kind \notin kinds, Ended(kinds)' PROVE Ended(kinds)
  <2>1. PICK n \in DOMAIN log' : log'[n].kind \in kinds /\ \A k \in DOMAIN log' : k > n => log'[k].kind # "started"
    BY <1>7 DEF Ended
  <2>2. n \in DOMAIN log  BY <1>7, <1>8, <2>1
  <2> QED  BY <1>2, <1>4, <2>1, <2>2 DEF Ended
<1> QED  BY <1>5, <1>6, <1>7

LEMMA AddsKeepsSorts ==
    ASSUME SInv, NEW e, Adds(e), AddsFor(e)
    PROVE  Sorts'
<1>0. Sorts /\ Types /\ Downs  BY DEF SInv, IInv
<1>1. PICK N \in Nat :
        /\ N = Len(log) /\ DOMAIN log = 1..N /\ DOMAIN log' = 1..(N + 1) /\ Len(log') = N + 1
        /\ \A n \in 1..N : log'[n] = log[n]
        /\ log'[N + 1] = e /\ log' \in Seq(Event)
        /\ \A n \in DOMAIN log' : n = N + 1 \/ (n \in DOMAIN log /\ n <= N)
  BY LogWithOneMore
<1>2. EpochSort' /\ UpSort' /\ PageSort'
  BY <1>0 DEF Adds, Sorts, EpochSort, UpSort, PageSort, Page, Decisions
<1>3. LogSort'
  <2>1. \A n \in DOMAIN log' : Sound(log'[n])
    BY <1>0, <1>1 DEF Adds, Sorts, LogSort
  <2>2. first' \in Nat /\ first' # 0 /\ first' <= N + 1 /\ first' = Trimmed(N + 1)
    BY <1>0, <1>1, BufferHoldsTheNewest DEF Adds
  <2>3. first \in Int /\ Capacity \in Int  BY <1>0, CapacityAssumption DEF Types
  <2>4. first' = IF first >= N + 1 - Capacity + 1 THEN first ELSE N + 1 - Capacity + 1
    BY <2>2, <2>3, LargerOfTwo, SMT DEF Trimmed
  <2>5. N + 1 - first' < Capacity  BY <2>2, <2>3, <2>4, SMT
  <2>6. Max({1, N + 1}) = N + 1
    <3>1. Max({1, N + 1}) = IF 1 >= N + 1 THEN 1 ELSE N + 1  BY LargerOfTwo, SMT
    <3> QED  BY <3>1, SMT
  <2>7. first' \in 1..Max({1, N + 1})  BY <2>2, <2>6, SMT
  <2> QED  BY <1>1, <2>1, <2>5, <2>7 DEF LogSort
<1>4. StateSort'
  BY <1>0 DEF Adds, Sorts, StateSort, Sound
<1>5. LockSort'
  BY <1>1, SMT DEF Adds, LockSort, Free
<1>6. TaskSort'
  BY <1>0 DEF AddsFor, Sorts, TaskSort
<1>7. CommandSort'
  <2>1. command \in Seq(Event)
        /\ \A n \in DOMAIN command : Sound(command[n]) /\ command[n].kind # "progress"
    BY <1>0 DEF Sorts, CommandSort
  <2>2. CASE command' = command  BY <2>1, <2>2 DEF CommandSort
  <2>3. CASE command # <<>> /\ command' = Tail(command)
    <3>1. IsSequence(command)  BY <2>1 DEF IsSequence
    <3>2. PICK L \in Nat \ {0} : /\ Len(command) = L /\ DOMAIN command = 1..L
                                 /\ DOMAIN Tail(command) = 1..(L - 1)
                                 /\ \A i \in 1..(L - 1) : Tail(command)[i] = command[i + 1]
      BY <2>3, <3>1, OneLess
    <3>3. \A i \in 1..(L - 1) : i + 1 \in 1..L  BY SMT
    <3>4. Tail(command) \in Seq(Event)  BY <2>1, <2>3, SMT
    <3>5. \A n \in DOMAIN command' : Sound(command'[n]) /\ command'[n].kind # "progress"
      BY <2>1, <2>3, <3>2, <3>3
    <3> QED  BY <2>3, <3>4, <3>5 DEF CommandSort
  <2> QED  BY <2>2, <2>3 DEF AddsFor
<1>8. ObserverSort'
  BY <1>0, <1>1, SMT DEF Adds, Sorts, ObserverSort
<1>9. Carries'
  <2>1. /\ down' = down
        /\ \A i \in DOMAIN down : IsEvent(i) => down[i].seq \in 1..N /\ log'[down[i].seq] = log[down[i].seq]
    BY <1>0, <1>1 DEF Adds, Downs
  <2> QED  BY <1>0, <2>1 DEF Sorts, Carries, IsEvent, IsSync
<1> QED  BY <1>2, <1>3, <1>4, <1>5, <1>6, <1>7, <1>8, <1>9 DEF Sorts

\* What is not about the log stays.
LEMMA AddsLeaves ==
    ASSUME SInv, NEW e, Adds(e)
    PROVE  /\ ~ Sending /\ (Sending' <=> socket # Offline) /\ Offline \notin Conns
           /\ (Known' <=> Known) /\ (IsOpen' <=> IsOpen) /\ (Subscribed' <=> Subscribed)
           /\ \A i : (IsSync(i)' <=> IsSync(i)) /\ (IsEvent(i)' <=> IsEvent(i))
           /\ \A i : TellsAfter(i)' <=> TellsAfter(i)
           /\ Subscribed => Sending'
           /\ coroutine'[page'.conn].at = coroutine[page.conn].at
<1>1. ~ Sending /\ lock.by = "nobody" /\ lock = Free  BY DEF Adds, Free, Sending, Senders
<1>2. (Sending' <=> socket # Offline) /\ Offline \notin Conns
  BY ConnsAreNumbers DEF Adds, Free, Sending, Senders
<1>3. (Known' <=> Known) /\ (IsOpen' <=> IsOpen) /\ (Subscribed' <=> Subscribed)
  BY DEF Adds, Known, IsOpen, Subscribed
<1>4. \A i : (IsSync(i)' <=> IsSync(i)) /\ (IsEvent(i)' <=> IsEvent(i))
  BY DEF Adds, IsSync, IsEvent
<1>5. ~ Truncating /\ ~ Truncating'
  BY <1>1 DEF Adds, Truncating, Free, Sending, Senders
<1>6. \A i : TellsAfter(i)' <=> TellsAfter(i)
  BY <1>3, <1>4, <1>5 DEF TellsAfter, Adds
<1>7. page.conn \in Conns  BY DEF SInv, IInv, Types
<1>8. Subscribed => Sending'  BY <1>2, <1>7 DEF Subscribed
<1>9. coroutine'[page'.conn].at = coroutine[page.conn].at  BY <1>7 DEF Adds
<1> QED  BY <1>1, <1>2, <1>3, <1>4, <1>6, <1>8, <1>9

LEMMA AddsKeepsOrder ==
    ASSUME SInv, NEW e, Adds(e)
    PROVE  Ordered' /\ Held'
<1>0. Types /\ Downs /\ Ordered /\ Held  BY DEF SInv, IInv
<1>1. PICK N \in Nat : N = Len(log) /\ Len(log') = N + 1  BY LogWithOneMore
<1>2. /\ (Known' <=> Known) /\ (IsOpen' <=> IsOpen)
      /\ \A i : (IsSync(i)' <=> IsSync(i)) /\ (IsEvent(i)' <=> IsEvent(i))
      /\ \A i : TellsAfter(i)' <=> TellsAfter(i)
      /\ coroutine'[page'.conn].at = coroutine[page.conn].at
  BY AddsLeaves
<1>3. down' = down /\ page' = page /\ given' = given /\ notice' = notice /\ missed' = missed
  BY DEF Adds
<1>4. /\ \A i \in DOMAIN down : IsEvent(i) => down[i].seq < N + 1
      /\ Known => page.cursor.seq < N + 1
      /\ given < N + 1
  BY <1>0, <1>1, SMT DEF Downs, Types
<1>5. Ordered'  BY <1>0, <1>1, <1>2, <1>3, <1>4 DEF Ordered
<1>6. Held'  BY <1>0, <1>2, <1>3 DEF Held
<1> QED  BY <1>5, <1>6

LEMMA AddsKeepsRun ==
    ASSUME SInv, NEW e, Adds(e), AddsFor(e)
    PROVE  Finished' /\ Stepped'
<1>0. Finished /\ Stepped /\ Sorts  BY DEF SInv
<1>1. PICK N \in Nat :
        /\ N = Len(log) /\ DOMAIN log = 1..N /\ DOMAIN log' = 1..(N + 1) /\ Len(log') = N + 1
        /\ \A n \in 1..N : log'[n] = log[n]
        /\ log'[N + 1] = e /\ log' \in Seq(Event)
        /\ \A n \in DOMAIN log' : n = N + 1 \/ (n \in DOMAIN log /\ n <= N)
  BY LogWithOneMore
<1>2. /\ N + 1 \in DOMAIN log' /\ DOMAIN log \subseteq DOMAIN log'
      /\ \A k \in DOMAIN log' : ~ (k > N + 1)
      /\ \A k \in DOMAIN log : log'[k] = log[k] /\ N + 1 > k
      /\ log'[N + 1] = e /\ \A n \in DOMAIN log' : n = N + 1 \/ n \in DOMAIN log
  BY <1>1, SMT
<1>3. Stepped'
  <2> SUFFICES ASSUME NEW s \in steps'
               PROVE  \E n \in DOMAIN log' :
                         log'[n] = Ev("progress", s) /\ \A k \in DOMAIN log' : k > n => log'[k].kind # "started"
    BY DEF Stepped
  <2>1. e.kind # "started"  BY DEF Adds
  <2>2. CASE s \in steps
    <3>1. PICK n \in DOMAIN log :
             log[n] = Ev("progress", s) /\ \A k \in DOMAIN log : k > n => log[k].kind # "started"
      BY <1>0, <2>2 DEF Stepped
    <3>2. \A k \in DOMAIN log' : k > n => log'[k].kind # "started"  BY <1>2, <2>1, <3>1
    <3> QED  BY <1>2, <3>1, <3>2
  <2>3. CASE s \notin steps
    <3>1. e.kind = "progress" /\ s = e.arg  BY <2>3 DEF Adds
    <3>2. e = Ev("progress", s)
      <4>1. e \in Event  BY DEF Adds, Sound
      <4> QED  BY <3>1, <4>1 DEF Event, Ev
    <3> QED  BY <1>2, <3>2
  <2> QED  BY <2>2, <2>3
<1> DEFINE Later == command # <<>> /\ e = Head(command) /\ command' = Tail(command)
<1>4. ASSUME Later
      PROVE  \E L \in Nat \ {0} : /\ Len(command) = L /\ DOMAIN command = 1..L /\ e = command[1]
                                  /\ Len(command') = L - 1 /\ DOMAIN command' = 1..(L - 1)
                                  /\ \A i \in 1..(L - 1) : command'[i] = command[i + 1]
  <2>1. IsSequence(command)  BY <1>0 DEF Sorts, CommandSort, IsSequence
  <2> QED  BY <1>4, <2>1, OneLess
<1>5. ASSUME NEW i \in DOMAIN command', command'[i].kind = "started"
      PROVE  activity' = "preparing" /\ Len(command') = 1
  <2>1. CASE command' = command /\ (activity' = activity \/ activity = "working" \/ activity \in {"committed", "suspending"})
    BY <1>0, <1>5, <2>1 DEF Finished
  <2>2. CASE Later
    <3>1. PICK L \in Nat \ {0} : /\ Len(command) = L /\ DOMAIN command = 1..L
                                 /\ DOMAIN command' = 1..(L - 1)
                                 /\ \A j \in 1..(L - 1) : command'[j] = command[j + 1]
      BY <1>4, <2>2
    <3>2. i \in 1..(L - 1) /\ i + 1 \in 1..L  BY <1>5, <3>1, SMT
    <3>3. L = 1  BY <1>0, <1>5, <3>1, <3>2 DEF Finished
    <3> QED  BY <3>2, <3>3, SMT
  <2> QED  BY <2>1, <2>2 DEF AddsFor
<1>6. ASSUME activity' \in {"closing", "none"}
      PROVE  steps' = {} \/ Ended(Terminals)' \/ \E i \in DOMAIN command' : command'[i].kind = "stopped"
  <2>1. CASE e.kind \in Terminals  BY <2>1, EndedWithOneMore
  <2>2. CASE e.kind = "started"  BY <2>2 DEF Adds
  <2>3. CASE e.kind \notin Terminals /\ e.kind # "started"
    <3>1. activity' = activity /\ e.kind # "progress"  BY <1>6, <2>3 DEF AddsFor
    <3>2. steps = {} \/ Ended(Terminals) \/ \E i \in DOMAIN command : command[i].kind = "stopped"
      BY <1>0, <1>6, <3>1 DEF Finished
    <3>3. CASE steps = {}  BY <2>3, <3>1, <3>3 DEF Adds
    <3>4. CASE Ended(Terminals)  BY <2>3, <3>4, EndedWithOneMore
    <3>5. CASE \E i \in DOMAIN command : command[i].kind = "stopped"
      <4>1. PICK i \in DOMAIN command : command[i].kind = "stopped"  BY <3>5
      <4>2. CASE command' = command  BY <4>1, <4>2
      <4>3. CASE Later
        <5>1. PICK L \in Nat \ {0} : /\ DOMAIN command = 1..L /\ e = command[1]
                                     /\ DOMAIN command' = 1..(L - 1)
                                     /\ \A j \in 1..(L - 1) : command'[j] = command[j + 1]
          BY <1>4, <4>3
        <5>2. i # 1  BY <2>3, <4>1, <5>1 DEF Terminals
        <5>3. i - 1 \in 1..(L - 1) /\ (i - 1) + 1 = i  BY <4>1, <5>1, <5>2, SMT
        <5> QED  BY <4>1, <5>1, <5>3
      <4> QED  BY <4>2, <4>3 DEF AddsFor
    <3> QED  BY <3>2, <3>3, <3>4, <3>5
  <2> QED  BY <2>1, <2>2, <2>3
<1>7. Finished'  BY <1>5, <1>6 DEF Finished
<1> QED  BY <1>3, <1>7

LEMMA AddsKeepsWork ==
    ASSUME SInv, NEW e, Adds(e), AddsFor(e)
    PROVE  StepsShown' /\ BusyShown'
<1>0. StepsShown /\ BusyShown /\ Sorts  BY DEF SInv
<1>1. PICK N \in Nat : N = Len(log) /\ Len(log') = N + 1 /\ log'[N + 1] = e  BY LogWithOneMore
<1>2. /\ ~ Sending /\ (Subscribed' <=> Subscribed) /\ (Subscribed => Sending')
      /\ coroutine'[page'.conn].at = coroutine[page.conn].at
  BY AddsLeaves
<1>3. down' = down /\ page' = page /\ up' = up  BY DEF Adds
<1>4. StepsShown'
  <2> SUFFICES ASSUME Subscribed', ~ Ended(Terminals)', ~ TooEarly', NEW s \in steps' PROVE StepThen(s)'
    BY DEF StepsShown
  <2>1. e.kind \notin Terminals /\ e.kind # "started"
    BY EndedWithOneMore DEF Adds
  <2>2. CASE e.kind = "progress" /\ s = e.arg
    <3>1. e = Ev("progress", s)
      <4>1. e \in Event  BY DEF Adds, Sound
      <4> QED  BY <2>2, <4>1 DEF Event, Ev
    <3> QED  BY <1>1, <1>2, <3>1 DEF StepThen
  <2>3. CASE ~ (e.kind = "progress" /\ s = e.arg)
    <3>1. s \in steps  BY <2>1, <2>3 DEF Adds
    <3>2. ~ Ended(Terminals)  BY <2>1, EndedWithOneMore
    <3>3. ~ TooEarly
      <4>1. CASE command' = command  BY <1>3, <4>1 DEF TooEarly
      <4>2. CASE command # <<>> /\ e = Head(command) /\ command' = Tail(command)
        <5>1. IsSequence(command)  BY <1>0 DEF Sorts, CommandSort, IsSequence
        <5>2. PICK L \in Nat \ {0} : /\ DOMAIN command = 1..L /\ e = command[1]
                                     /\ DOMAIN command' = 1..(L - 1)
                                     /\ \A j \in 1..(L - 1) : command'[j] = command[j + 1]
          BY <4>2, <5>1, OneLess
        <5>3. ASSUME NEW i \in DOMAIN command, command[i].kind = "refused" PROVE FALSE
          <6>1. i # 1  BY <2>1, <5>2, <5>3 DEF Terminals
          <6>2. i - 1 \in 1..(L - 1) /\ (i - 1) + 1 = i  BY <5>2, <6>1, SMT
          <6>3. i - 1 \in DOMAIN command' /\ command'[i - 1].kind = "refused"  BY <5>2, <5>3, <6>2
          <6> QED  BY <6>3 DEF TooEarly
        <5> QED  BY <1>3, <5>3 DEF TooEarly
      <4> QED  BY <4>1, <4>2 DEF AddsFor
    <3>4. StepThen(s)  BY <1>0, <1>2, <3>1, <3>2, <3>3 DEF StepsShown
    <3> QED  BY <1>2, <1>3, <3>4 DEF StepThen
  <2> QED  BY <2>2, <2>3
<1>5. BusyShown'
  <2> SUFFICES ASSUME Subscribed', coroutine'[page'.conn].at = "attached", Works' PROVE BusyThen'
    BY DEF BusyShown
  <2>1. CASE e.kind = "started"
    BY <1>1, <1>2, <2>1 DEF BusyThen
  <2>2. CASE e.kind # "started"
    <3>1. activity = "working"  BY <2>2 DEF Works, AddsFor
    <3>2. ~ Ended(Terminals \cup {"expired"})  BY <2>2, EndedWithOneMore DEF Works
    <3>3. BusyThen  BY <1>0, <1>2, <3>1, <3>2 DEF BusyShown, Works
    <3> QED  BY <1>2, <1>3, <3>3 DEF BusyThen
  <2> QED  BY <2>1, <2>2
<1> QED  BY <1>4, <1>5

LEMMA AddsKeepsReviews ==
    ASSUME SInv, NEW e, Adds(e), AddsFor(e)
    PROVE  ReviewShown'
<1>0. ReviewShown /\ Downs /\ Types /\ Sorts  BY DEF SInv, IInv
<1>1. PICK N \in Nat :
        /\ N = Len(log) /\ DOMAIN log = 1..N /\ DOMAIN log' = 1..(N + 1) /\ Len(log') = N + 1
        /\ \A n \in 1..N : log'[n] = log[n]
        /\ log'[N + 1] = e /\ log' \in Seq(Event)
        /\ \A n \in DOMAIN log' : n = N + 1 \/ (n \in DOMAIN log /\ n <= N)
  BY LogWithOneMore
<1>2. /\ N + 1 \in DOMAIN log' /\ DOMAIN log \subseteq DOMAIN log'
      /\ \A k \in DOMAIN log : log'[k] = log[k] /\ N + 1 > k
      /\ log'[N + 1] = e /\ \A n \in DOMAIN log' : n = N + 1 \/ n \in DOMAIN log
  BY <1>1, SMT
<1>3. /\ ~ Sending /\ (Subscribed' <=> Subscribed) /\ (Subscribed => Sending')
      /\ (Known' <=> Known) /\ (IsOpen' <=> IsOpen) /\ lock.by # "attach" /\ lock'.by # "attach"
      /\ \A i : (IsSync(i)' <=> IsSync(i)) /\ (IsEvent(i)' <=> IsEvent(i))
      /\ \A i : TellsAfter(i)' <=> TellsAfter(i)
      /\ coroutine'[page'.conn].at = coroutine[page.conn].at
  <2>1. lock = Free /\ (lock' = Free \/ Sending')  BY DEF Adds
  <2> QED  BY <2>1, AddsLeaves DEF Free, Sending, Senders
<1>4. /\ down' = down /\ page' = page /\ given' = given /\ notice' = notice /\ missed' = missed /\ answered' = answered
  BY DEF Adds
<1>5. /\ \A i \in DOMAIN down : IsEvent(i) => down[i].seq < N + 1
      /\ Known => page.cursor.seq < N + 1
      /\ given < N + 1
  BY <1>0, <1>1, SMT DEF Downs, Types
<1> SUFFICES ASSUME NEW n, Waiting(n)' PROVE (ShownOf(n) /\ SyncedOf(n) /\ ReplayedOf(n) /\ ComesOf(n))'
  BY DEF ReviewShown
<1>6. CASE n = N + 1
  <2>1. Known => page.cursor.seq \in Nat  BY <1>0 DEF Types
  <2>2. ~ Handled(n)'  BY <1>3, <1>4, <1>5, <1>6, <2>1, SMT DEF Handled
  <2>3. SyncedOf(n)'  BY <1>3, <1>4, <1>5, <1>6, <2>2 DEF SyncedOf, Before
  <2>4. given' \in Nat  BY <1>0, <1>1, <1>4, SMT DEF Types
  <2>5. ~ (n <= given')  BY <1>4, <1>5, <1>6, <2>4, SMT
  <2> QED  BY <1>1, <1>3, <1>6, <2>2, <2>3, <2>5 DEF ShownOf, ReplayedOf, ComesOf
<1>7. CASE n # N + 1
  <2>1. n \in DOMAIN log /\ log'[n] = log[n] /\ N + 1 > n  BY <1>2, <1>7 DEF Waiting
  <2>2. e.kind # "review"  BY <1>2, <2>1 DEF Waiting
  <2>3. reviews' \subseteq reviews /\ waiting' = waiting  BY <2>2 DEF Adds, AddsFor
  <2>4. Waiting(n)
    <3>1. \A k \in DOMAIN log : k > n => log[k].kind # "review"  BY <1>2 DEF Waiting
    <3> QED  BY <1>4, <2>1, <2>3, <3>1 DEF Waiting
  <2>5. ShownOf(n) /\ SyncedOf(n) /\ ReplayedOf(n) /\ ComesOf(n)  BY <1>0, <2>4 DEF ReviewShown
  <2>6. (Handled(n)' <=> Handled(n)) /\ (Brings(n)' <=> Brings(n)) /\ (Unattached' <=> Unattached)
    BY <1>3, <1>4 DEF Handled, Brings, Unattached
  <2>7. \A i : Before(n, i)' <=> Before(n, i)  BY <1>3, <1>4, <2>6 DEF Before
  <2>8. ShownOf(n)' /\ ReplayedOf(n)'  BY <1>3, <1>4, <2>1, <2>5, <2>6 DEF ShownOf, ReplayedOf
  <2>9. SyncedOf(n)'  BY <1>3, <1>4, <2>1, <2>5, <2>7 DEF SyncedOf
  <2>10. ComesOf(n)'  BY <1>3, <1>4, <2>5, <2>6 DEF ComesOf
  <2> QED  BY <2>8, <2>9, <2>10
<1> QED  BY <1>6, <1>7

-----------------------------------------------------------------------------
(* Steps that number nothing.                                                *)

\* What is under way to the page, and who is, stays.
Still ==
    /\ down' = down /\ (Sending' => Sending) /\ LockSort'
    /\ Subscribed' => Subscribed /\ (Sending => Sending')
    /\ \A i : TellsAfter(i)' <=> TellsAfter(i)
    /\ IsOpen => coroutine'[page.conn].at = coroutine[page.conn].at /\ (Unattached' <=> Unattached)

\* The event that was being sent is under way to the page.
Reaching ==
    /\ Sending /\ IsOpen /\ lock.to = page.conn /\ lock' = Free /\ socket' \in {socket, Offline}
    /\ down' = down \o <<EventMessage(lock.event)>> /\ coroutine' = coroutine

\* The session does not begin to work, and forgets no message the page gave too early.
Calm ==
    /\ epoch' = epoch /\ log' = log /\ first' = first /\ steps' = steps /\ page' = page
    /\ missed' = missed /\ answered' = answered /\ given' = given /\ notice' = notice
    /\ reviews' \subseteq reviews /\ waiting' \subseteq waiting
    /\ activity' = "working" => activity = "working"
    /\ TooEarly => TooEarly' \/ Ended(Terminals) \/ steps = {} \/ ~ Subscribed
    /\ Finished' /\ TaskSort' /\ CommandSort' /\ UpSort' /\ EpochSort'

LEMMA CalmLeaves ==
    ASSUME SInv, Calm
    PROVE  /\ (Known' <=> Known) /\ (IsOpen' <=> IsOpen)
           /\ \A kinds : Ended(kinds)' <=> Ended(kinds)
           /\ \A n : Waiting(n)' => Waiting(n)
           /\ \A n : Handled(n)' <=> Handled(n)
           /\ Works' => Works
           /\ LogSort' /\ StateSort' /\ PageSort' /\ ObserverSort' /\ Stepped'
<1> USE DEF Calm
<1>1. (Known' <=> Known) /\ (IsOpen' <=> IsOpen)  BY DEF Known, IsOpen
<1>2. \A kinds : Ended(kinds)' <=> Ended(kinds)  BY DEF Ended
<1>3. \A n : Waiting(n)' => Waiting(n)  BY DEF Waiting
<1>4. \A n : Handled(n)' <=> Handled(n)  BY <1>1 DEF Handled
<1>5. Works' => Works  BY <1>2 DEF Works
<1>6. LogSort' /\ StateSort' /\ ObserverSort'
  BY DEF SInv, Sorts, LogSort, StateSort, ObserverSort
<1>7. PageSort'  BY DEF SInv, Sorts, PageSort, Page, Decisions
<1>8. Stepped'  BY DEF SInv, Stepped
<1> QED  BY <1>1, <1>2, <1>3, <1>4, <1>5, <1>6, <1>7, <1>8

LEMMA StillKeeps ==
    ASSUME SInv, IInv', Calm, Still
    PROVE  SInv'
<1>0. Sorts /\ Ordered /\ Held /\ StepsShown /\ BusyShown /\ ReviewShown  BY DEF SInv
<1>1. /\ epoch' = epoch /\ log' = log /\ steps' = steps /\ page' = page
      /\ missed' = missed /\ answered' = answered /\ given' = given /\ notice' = notice
      /\ Finished' /\ TaskSort' /\ CommandSort' /\ UpSort' /\ EpochSort'
      /\ TooEarly => TooEarly' \/ Ended(Terminals) \/ steps = {} \/ ~ Subscribed
  BY DEF Calm
<1>2. /\ (Known' <=> Known) /\ (IsOpen' <=> IsOpen)
      /\ \A kinds : Ended(kinds)' <=> Ended(kinds)
      /\ \A n : Waiting(n)' => Waiting(n)
      /\ \A n : Handled(n)' <=> Handled(n)
      /\ Works' => Works
      /\ LogSort' /\ StateSort' /\ PageSort' /\ ObserverSort' /\ Stepped'
  BY CalmLeaves
<1>3. /\ down' = down /\ (Sending' => Sending) /\ LockSort'
      /\ Subscribed' => Subscribed /\ (Sending => Sending')
      /\ \A i : TellsAfter(i)' <=> TellsAfter(i)
      /\ IsOpen => coroutine'[page.conn].at = coroutine[page.conn].at /\ (Unattached' <=> Unattached)
  BY DEF Still
<1>4. \A i : (IsSync(i)' <=> IsSync(i)) /\ (IsEvent(i)' <=> IsEvent(i))
  BY <1>3 DEF IsSync, IsEvent
<1>5. Sorts'
  <2>1. Carries'  BY <1>0, <1>1, <1>3, <1>4 DEF Sorts, Carries
  <2> QED  BY <1>1, <1>2, <1>3, <2>1 DEF Sorts
<1>6. Ordered'  BY <1>0, <1>1, <1>2, <1>3, <1>4 DEF Ordered
<1>7. Held'  BY <1>0, <1>1, <1>2, <1>3 DEF Held
<1>8. StepsShown'
  <2> SUFFICES ASSUME Subscribed', ~ Ended(Terminals)', ~ TooEarly', NEW s \in steps' PROVE StepThen(s)'
    BY DEF StepsShown
  <2>1. Subscribed /\ ~ Ended(Terminals) /\ ~ TooEarly /\ s \in steps  BY <1>1, <1>2, <1>3
  <2>2. StepThen(s)  BY <1>0, <2>1 DEF StepsShown
  <2> QED  BY <1>1, <1>3, <2>2 DEF StepThen
<1>9. BusyShown'
  <2> SUFFICES ASSUME Subscribed', coroutine'[page'.conn].at = "attached", Works' PROVE BusyThen'
    BY DEF BusyShown
  <2>1. Subscribed /\ IsOpen /\ Works /\ coroutine[page.conn].at = "attached"
    BY <1>1, <1>2, <1>3 DEF Subscribed
  <2>2. BusyThen  BY <1>0, <2>1 DEF BusyShown
  <2> QED  BY <1>1, <1>3, <2>2 DEF BusyThen
<1>10. ReviewShown'
  <2> SUFFICES ASSUME NEW n, Waiting(n)' PROVE (ShownOf(n) /\ SyncedOf(n) /\ ReplayedOf(n) /\ ComesOf(n))'
    BY DEF ReviewShown
  <2>1. ShownOf(n) /\ SyncedOf(n) /\ ReplayedOf(n) /\ ComesOf(n)
    BY <1>0, <1>2 DEF ReviewShown
  <2>2. Brings(n)' <=> Brings(n)  BY <1>3, <1>4 DEF Brings
  <2>3. \A i : Before(n, i)' <=> Before(n, i)  BY <1>2, <1>3, <1>4 DEF Before
  <2>4. ShownOf(n)'  BY <1>1, <1>2, <2>1 DEF ShownOf
  <2>5. SyncedOf(n)'  BY <1>1, <1>3, <1>4, <2>1, <2>3 DEF SyncedOf
  <2>6. ReplayedOf(n)'  BY <1>1, <1>2, <1>3, <2>1, <2>2 DEF ReplayedOf
  <2>7. ComesOf(n)'  BY <1>1, <1>2, <1>3, <2>1, <2>2 DEF ComesOf
  <2> QED  BY <2>4, <2>5, <2>6, <2>7
<1> QED  BY <1>1, <1>2, <1>5, <1>6, <1>7, <1>8, <1>9, <1>10 DEF SInv

LEMMA ReachingKeeps ==
    ASSUME SInv, IInv', Calm, Reaching
    PROVE  SInv'
<1>0. /\ Sorts /\ Ordered /\ Held /\ StepsShown /\ BusyShown /\ ReviewShown
      /\ Types /\ Locks /\ Downs
  BY DEF SInv, IInv
<1>1. /\ epoch' = epoch /\ log' = log /\ steps' = steps /\ page' = page
      /\ missed' = missed /\ answered' = answered /\ given' = given /\ notice' = notice
      /\ Finished' /\ TaskSort' /\ CommandSort' /\ UpSort' /\ EpochSort'
      /\ TooEarly => TooEarly' \/ Ended(Terminals) \/ steps = {} \/ ~ Subscribed
  BY DEF Calm
<1>2. /\ (Known' <=> Known) /\ (IsOpen' <=> IsOpen)
      /\ \A kinds : Ended(kinds)' <=> Ended(kinds)
      /\ \A n : Waiting(n)' => Waiting(n)
      /\ \A n : Handled(n)' <=> Handled(n)
      /\ Works' => Works
      /\ LogSort' /\ StateSort' /\ PageSort' /\ ObserverSort' /\ Stepped'
  BY CalmLeaves
<1> DEFINE m == EventMessage(lock.event)
<1>3. /\ Sending /\ IsOpen /\ lock.to = page.conn /\ lock' = Free /\ socket' \in {socket, Offline}
      /\ down' = down \o <<m>> /\ coroutine' = coroutine
  BY DEF Reaching
<1>4. PICK N \in Nat : N = Len(log) /\ DOMAIN log = 1..N  BY <1>0 DEF Types, IsSequence
<1>5. lock.event = N /\ N # 0 /\ N \in DOMAIN log /\ socket = page.conn
  <2>1. lock.event = N /\ N # 0 /\ socket = page.conn  BY <1>0, <1>3, <1>4 DEF Locks
  <2> QED  BY <1>4, <2>1, SMT
<1>6. /\ m.what = "event" /\ m.epoch = epoch /\ m.seq = N /\ m.event = log[N]
  BY <1>5 DEF EventMessage
<1> HIDE DEF m
<1>7. PICK L \in Nat : /\ DOMAIN down = 1..L /\ DOMAIN down' = 1..(L + 1)
                       /\ \A i \in 1..L : down'[i] = down[i]
                       /\ down'[L + 1] = m
  <2>1. IsSequence(down)  BY <1>0 DEF Types
  <2>2. /\ Len(down) \in Nat /\ DOMAIN down = 1..Len(down) /\ DOMAIN (down \o <<m>>) = 1..(Len(down) + 1)
        /\ \A i \in 1..Len(down) : (down \o <<m>>)[i] = down[i]
        /\ (down \o <<m>>)[Len(down) + 1] = m
    BY <2>1, OneMore
  <2> QED  BY <1>3, <2>2, Zenon
<1>8. /\ DOMAIN down \subseteq DOMAIN down' /\ \A i \in DOMAIN down : down'[i] = down[i]
      /\ L + 1 \in DOMAIN down' /\ \A i \in DOMAIN down' : i \in DOMAIN down \/ i = L + 1
      /\ \A i \in DOMAIN down : i < L + 1 /\ ~ (L + 1 < i)
      /\ \A i \in DOMAIN down' : ~ (i > L + 1)
  BY <1>7, SMT
<1>9. /\ \A i \in DOMAIN down : (IsSync(i)' <=> IsSync(i)) /\ (IsEvent(i)' <=> IsEvent(i))
      /\ ~ IsSync(L + 1)' /\ IsEvent(L + 1)' /\ down'[L + 1] = m
  BY <1>6, <1>7, <1>8 DEF IsSync, IsEvent
<1>10. ~ Sending' /\ ~ Truncating /\ ~ Truncating' /\ (Subscribed' => Subscribed)
  <2>1. ~ Sending' /\ ~ Truncating /\ ~ Truncating'
    BY <1>3 DEF Sending, Senders, Free, Truncating
  <2> QED  BY <1>2, <1>3, <1>5, <2>1 DEF Subscribed
<1>11. TellsAfter(0)' <=> TellsAfter(0)
  <2>1. TellsAfter(0) => TellsAfter(0)'
    BY <1>2, <1>8, <1>9, <1>10 DEF TellsAfter
  <2>2. TellsAfter(0)' => TellsAfter(0)
    BY <1>2, <1>8, <1>9, <1>10 DEF TellsAfter
  <2> QED  BY <2>1, <2>2
<1>12. Sorts'
  <2>1. Carries'
    <3> SUFFICES ASSUME NEW i \in DOMAIN down'
                 PROVE  /\ IsEvent(i)' => down'[i].event = log'[down'[i].seq]
                        /\ down'[i].what = "snapshot" => down'[i].steps \subseteq Steps
                        /\ IsSync(i)' => down'[i].running \in BOOLEAN
      BY DEF Carries
    <3>1. CASE i \in DOMAIN down  BY <1>0, <1>1, <1>8, <1>9, <3>1 DEF Sorts, Carries
    <3>2. CASE i = L + 1  BY <1>1, <1>6, <1>9, <3>2
    <3> QED  BY <1>8, <3>1, <3>2
  <2>2. LockSort'  BY <1>1, <1>3, <1>4, SMT DEF LockSort, Free
  <2> QED  BY <1>1, <1>2, <2>1, <2>2 DEF Sorts
<1>13. Ordered'
  <2>1. ASSUME NEW i \in DOMAIN down', NEW j \in DOMAIN down', IsEvent(i)', IsEvent(j)', i < j
        PROVE  down'[i].seq < down'[j].seq
    <3>1. i \in DOMAIN down  BY <1>8, <2>1
    <3>2. CASE j \in DOMAIN down  BY <1>0, <1>8, <1>9, <2>1, <3>1, <3>2 DEF Ordered
    <3>3. CASE j = L + 1  BY <1>0, <1>3, <1>4, <1>6, <1>8, <1>9, <2>1, <3>1, <3>3 DEF Ordered
    <3> QED  BY <1>8, <3>2, <3>3
  <2>2. ASSUME NEW i \in DOMAIN down', IsEvent(i)', Known' PROVE page'.cursor.seq < down'[i].seq
    <3>1. CASE i \in DOMAIN down  BY <1>0, <1>1, <1>2, <1>8, <1>9, <2>2, <3>1 DEF Ordered
    <3>2. CASE i = L + 1  BY <1>0, <1>1, <1>2, <1>3, <1>4, <1>6, <1>9, <2>2, <3>2 DEF Ordered
    <3> QED  BY <1>8, <3>1, <3>2
  <2> QED  BY <1>10, <2>1, <2>2 DEF Ordered
<1>14. Held'  BY <1>0, <1>1, <1>2, <1>3, <1>11 DEF Held
<1>15. \A kinds : log[N].kind \in kinds => Ended(kinds)
  <2>1. \A k \in DOMAIN log : ~ (k > N)  BY <1>4, SMT
  <2> QED  BY <1>5, <2>1 DEF Ended
<1>16. StepsShown'
  <2> SUFFICES ASSUME Subscribed', ~ Ended(Terminals)', ~ TooEarly', NEW s \in steps' PROVE StepThen(s)'
    BY DEF StepsShown
  <2>1. Subscribed /\ ~ Ended(Terminals) /\ ~ TooEarly /\ s \in steps  BY <1>1, <1>2, <1>10
  <2>2. StepThen(s)  BY <1>0, <2>1 DEF StepsShown
  <2>3. ~ Clears(m, s)  BY <1>6, <1>15, <2>1 DEF Clears, Endings, Terminals
  <2>4. CASE log[N] = Ev("progress", s)
    <3>1. Gives(m, s)  BY <1>6, <2>4 DEF Gives
    <3> QED  BY <1>8, <1>9, <3>1 DEF StepThen
  <2>5. CASE s \in page.steps /\ \A i \in DOMAIN down : ~ Clears(down[i], s)
    BY <1>1, <1>8, <1>9, <2>3, <2>5 DEF StepThen
  <2>6. CASE \E i \in DOMAIN down : Gives(down[i], s) /\ \A j \in DOMAIN down : j > i => ~ Clears(down[j], s)
    BY <1>8, <1>9, <2>3, <2>6 DEF StepThen
  <2> QED  BY <1>4, <2>2, <2>4, <2>5, <2>6 DEF StepThen
<1>17. BusyShown'
  <2> SUFFICES ASSUME Subscribed', coroutine'[page'.conn].at = "attached", Works' PROVE BusyThen'
    BY DEF BusyShown
  <2>1. Subscribed /\ Works /\ coroutine[page.conn].at = "attached"
    BY <1>1, <1>2, <1>3, <1>10
  <2>2. BusyThen  BY <1>0, <2>1 DEF BusyShown
  <2>3. ~ Halts(m)
    <3>1. log[N].kind \notin Terminals \cup {"expired"}  BY <1>15, <2>1 DEF Works
    <3> QED  BY <1>6, <3>1 DEF Halts, Endings, Terminals
  <2>4. CASE log[N].kind = "started"
    <3>1. Begins(m)  BY <1>6, <2>4 DEF Begins
    <3> QED  BY <1>8, <1>9, <3>1 DEF BusyThen
  <2>5. CASE page.busy /\ \A i \in DOMAIN down : ~ Halts(down[i])
    BY <1>1, <1>8, <1>9, <2>3, <2>5 DEF BusyThen
  <2>6. CASE \E i \in DOMAIN down : Begins(down[i]) /\ \A j \in DOMAIN down : j > i => ~ Halts(down[j])
    BY <1>8, <1>9, <2>3, <2>6 DEF BusyThen
  <2> QED  BY <1>4, <2>2, <2>4, <2>5, <2>6 DEF BusyThen
<1>18. ReviewShown'
  <2> SUFFICES ASSUME NEW n, Waiting(n)' PROVE (ShownOf(n) /\ SyncedOf(n) /\ ReplayedOf(n) /\ ComesOf(n))'
    BY DEF ReviewShown
  <2>1. ShownOf(n) /\ SyncedOf(n) /\ ReplayedOf(n) /\ ComesOf(n)
    BY <1>0, <1>2 DEF ReviewShown
  <2>2. Brings(n) \/ n = N => Brings(n)'  BY <1>6, <1>8, <1>9 DEF Brings
  <2>3. \A i \in DOMAIN down : Before(n, i) => Before(n, i)'
    BY <1>2, <1>8, <1>9 DEF Before
  <2>4. ShownOf(n)'  BY <1>1, <1>2, <2>1 DEF ShownOf
  <2>5. SyncedOf(n)'  BY <1>1, <1>8, <1>9, <2>1, <2>3 DEF SyncedOf
  <2>6. Unattached' <=> Unattached
    BY <1>1, <1>3 DEF Unattached, Sending, Senders, Free
  <2>7. ReplayedOf(n)'  BY <1>1, <1>2, <2>1, <2>2, <2>6 DEF ReplayedOf
  <2>8. ComesOf(n)'  BY <1>1, <1>2, <1>4, <1>10, <1>11, <2>1, <2>2 DEF ComesOf
  <2> QED  BY <2>4, <2>5, <2>7, <2>8
<1> QED  BY <1>1, <1>2, <1>12, <1>13, <1>14, <1>16, <1>17, <1>18 DEF SInv

LEMMA MoreFaults ==
    ASSUME NEW M \in Nat, NEW a \in 0..M, NEW b \in a..M, NEW e \in Int, e <= a + 1
    PROVE  b \in 0..M /\ e <= b + 1
  BY SMT

\* A step that leaves the session and the page as they are.
LEMMA SameSessionIsCalm ==
    ASSUME SInv, UNCHANGED <<epoch, log, first, steps, reviews, session, up, page, observer>>,
           faults' \in faults..MaxFaults
    PROVE  Calm
<1>0. Sorts /\ Finished  BY DEF SInv
<1>1. TooEarly' <=> TooEarly  BY DEF TooEarly, session
<1>2. Finished'  BY <1>0 DEF Finished, session, Ended
<1>3. TaskSort' /\ CommandSort' /\ UpSort'  BY <1>0 DEF Sorts, TaskSort, CommandSort, UpSort, session
<1>4. EpochSort'
  <2>1. epoch \in Int /\ faults \in 0..MaxFaults /\ epoch <= faults + 1 /\ epoch \in 1..(MaxFaults + 1)
    BY <1>0, BoundsAssumption, SMT DEF Sorts, EpochSort
  <2>2. PICK M \in Nat : M = MaxFaults  BY BoundsAssumption
  <2>3. faults \in 0..M /\ faults' \in faults..M  BY <2>1, <2>2
  <2>5. faults' \in 0..M /\ epoch <= faults' + 1  BY <2>1, <2>3, MoreFaults
  <2> QED  BY <2>1, <2>2, <2>5 DEF EpochSort
<1> QED  BY <1>1, <1>2, <1>3, <1>4 DEF Calm, session, observer

\* A send that is over.
LEMMA SendEndsIsStill ==
    ASSUME SInv, SendEnds, page' = page
    PROVE  Still \/ Reaching
<1>0. Locks /\ Types /\ Sorts  BY DEF SInv, IInv
<1>1. /\ Sending /\ lock' = Free /\ socket' \in {socket, Offline} /\ coroutine' = coroutine
      /\ epoch' = epoch /\ log' = log /\ first' = first
      /\ \/ down' = down /\ (socket' = Offline \/ ~ Reaches(lock.to))
         \/ down' = down \o <<EventMessage(lock.event)>> /\ Reaches(lock.to)
  BY DEF SendEnds
<1>2. CASE Reaches(lock.to) /\ down' = down \o <<EventMessage(lock.event)>>
  BY <1>1, <1>2 DEF Reaching, Reaches, IsOpen
<1>3. CASE down' = down /\ (socket' = Offline \/ ~ Reaches(lock.to))
  <2>1. ~ Sending' /\ ~ Truncating /\ ~ Truncating' /\ ~ (lock.by = "attach") /\ ~ (lock'.by = "attach")
    BY <1>1 DEF Sending, Senders, Free, Truncating
  <2>2. ~ Subscribed'
    <3>1. page.conn \in Conns /\ Offline \notin Conns  BY <1>0, ConnsAreNumbers DEF Types
    <3>2. socket \in {lock.to, Offline}  BY <1>0, <1>1 DEF Locks
    <3> QED  BY <1>1, <1>3, <3>1, <3>2 DEF Subscribed, Reaches, IsOpen
  <2>3. (IsOpen' <=> IsOpen) /\ \A i : (IsSync(i)' <=> IsSync(i))
    BY <1>3 DEF IsOpen, IsSync
  <2>4. \A i : TellsAfter(i)' <=> TellsAfter(i)
    BY <1>3, <2>1, <2>3 DEF TellsAfter
  <2>5. Unattached' <=> Unattached  BY <1>1, <2>1 DEF Unattached
  <2>6. LockSort'
    <3>1. PICK N \in Nat : N = Len(log)  BY <1>0 DEF Types, IsSequence
    <3>2. lock'.event = 0 /\ Len(log') = N  BY <1>1, <3>1 DEF Free
    <3> QED  BY <3>2, SMT DEF LockSort
  <2> QED  BY <1>1, <1>3, <2>1, <2>2, <2>4, <2>5, <2>6 DEF Still
<1> QED  BY <1>1, <1>2, <1>3

LEMMA SendOverKeepsShown ==
    ASSUME SInv, IInv', SendReturns \/ SendFails
    PROVE  SInv'
<1>1. CASE SendReturns
  <2>1. SendEnds /\ page' = page
    BY <1>1 DEF SendReturns, SendEnds, Arrives, Sending, Senders, SamePage, SameObserver, observer
  <2>2. Calm
    <3>1. faults' = faults /\ UNCHANGED <<epoch, log, first, steps, reviews, session, up, page, observer>>
      BY <1>1 DEF SendReturns
    <3>2. faults \in 0..MaxFaults  BY DEF SInv, Sorts, EpochSort
    <3>3. faults' \in faults..MaxFaults  BY <3>1, <3>2, BoundsAssumption, SMT
    <3> QED  BY <3>1, <3>3, SameSessionIsCalm
  <2> QED  BY <2>1, <2>2, SendEndsIsStill, StillKeeps, ReachingKeeps
<1>2. CASE SendFails
  <2>1. /\ Sending /\ lock' = Free /\ socket' = Offline
        /\ \/ down' = down
           \/ down' = Append(down, EventMessage(lock.event)) /\ Reaches(lock.to)
        /\ UNCHANGED <<epoch, log, first, steps, reviews, coroutine, session, up, page, observer>>
        /\ faults' = faults \/ (faults < MaxFaults /\ faults' = faults + 1)
    BY <1>2 DEF SendFails, Sending, Senders, DroppedSubscriber
  <2>2. Append(down, EventMessage(lock.event)) = down \o <<EventMessage(lock.event)>>
    BY AppendIsMore DEF SInv
  <2>3. SendEnds /\ page' = page
    BY <2>1, <2>2 DEF SendEnds, SamePage, SameObserver, observer
  <2>4. Calm
    <3>1. faults \in 0..MaxFaults  BY DEF SInv, Sorts, EpochSort
    <3>2. faults' \in faults..MaxFaults  BY <2>1, <3>1, BoundsAssumption, SMT
    <3> QED  BY <2>1, <3>2, SameSessionIsCalm
  <2> QED  BY <2>3, <2>4, SendEndsIsStill, StillKeeps, ReachingKeeps
<1> QED  BY <1>1, <1>2

-----------------------------------------------------------------------------
(* The commands.                                                             *)

\* What a command leaves to be sent, and what it does to the task.
Commanded ==
    /\ waiting' \subseteq waiting /\ reviews' \subseteq reviews
    /\ counts'.runs \in 0..MaxRuns /\ late' \in Nat
    /\ CommandSort'
    /\ \/ activity' = activity /\ \A n \in DOMAIN command' : command'[n].kind # "started"
       \/ activity' = "preparing" /\ Len(command') = 1
       \/ activity' = "none" /\ \E n \in DOMAIN command' : command'[n].kind = "stopped"
    /\ \A n \in DOMAIN command' : command'[n].kind = "started" => activity' = "preparing" /\ Len(command') = 1

LEMMA OneCommand ==
    ASSUME NEW e, Sound(e), e.kind # "progress", command' = <<e>>
    PROVE  CommandSort' /\ Len(command') = 1 /\ DOMAIN command' = {1} /\ \A n \in DOMAIN command' : command'[n] = e
<1>1. e \in Event  BY DEF Sound
<1>2. command' \in Seq(Event) /\ Len(command') = 1 /\ DOMAIN command' = {1} /\ command'[1] = e
  BY <1>1
<1> QED  BY <1>2 DEF CommandSort

LEMMA OrderOfWaiting ==
    ASSUME NEW pending \in SUBSET Reviews, NEW order \in InOrder(pending)
    PROVE  \E k \in Nat : /\ k = Cardinality(pending)
                          /\ order \in [1..k -> Reviews]
<1>1. pending \subseteq Reviews  OBVIOUS
<1>2. IsFiniteSet(pending)
  <2>1. MaxReviews \in Int /\ 1 \in Int  BY BoundsAssumption, SMT
  <2>2. IsFiniteSet(Reviews)  BY <2>1, FS_Interval DEF Reviews
  <2> QED  BY <1>1, <2>2, FS_Subset
<1>3. Cardinality(pending) \in Nat  BY <1>2, FS_CardinalityType
<1>4. order \in [1..Cardinality(pending) -> pending]  BY DEF InOrder
<1> QED  BY <1>1, <1>3, <1>4

LEMMA ReminderIsSound ==
    ASSUME SInv, NEW pending \in SUBSET Reviews, Reminder(pending)
    PROVE  Commanded /\ UNCHANGED <<activity, late, waiting, counts, reviews, lock, down>>
<1>1. PICK order \in InOrder(pending) :
         Answers([i \in 1..Cardinality(pending) |-> Ev("review", order[i])] \o <<Plain("done")>>)
  BY DEF Reminder
<1>2. PICK k \in Nat : k = Cardinality(pending) /\ order \in [1..k -> Reviews]
  BY OrderOfWaiting
<1> DEFINE s == [i \in 1..k |-> Ev("review", order[i])]
           E == {e \in Event : Sound(e) /\ e.kind \notin {"started", "progress"}}
<1>3. command' = s \o <<Plain("done")>> /\ UNCHANGED <<activity, late, waiting, counts, reviews, lock, down>>
  BY <1>1, <1>2 DEF Answers
<1>4. s \in Seq(E)
  <2>1. \A i \in 1..k : Ev("review", order[i]) \in E
    <3> SUFFICES ASSUME NEW i \in 1..k PROVE Ev("review", order[i]) \in E
      OBVIOUS
    <3>1. order[i] \in Reviews  BY <1>2
    <3>2. Sound(Ev("review", order[i]))  BY <3>1, ReviewIsSound
    <3>3. Ev("review", order[i]).kind = "review"  BY EvIs
    <3> QED  BY <3>2, <3>3 DEF Sound
  <2> HIDE DEF E
  <2>2. s \in [1..k -> E]  BY <2>1
  <2> HIDE DEF s
  <2> QED  BY <2>2, SMT
<1>5. Plain("done") \in E
  <2>1. Sound(Plain("done")) /\ Plain("done").kind = "done"  BY PlainIsSound DEF EventKinds
  <2> QED  BY <2>1 DEF Sound
<1> HIDE DEF s
<1>6. command' \in Seq(E)
  <2> HIDE DEF E
  <2>1. <<Plain("done")>> \in Seq(E)  BY <1>5, SMT
  <2> QED  BY <1>3, <1>4, <2>1, SMT
<1>7. \A n \in DOMAIN command' : command'[n] \in E
  <2> HIDE DEF E
  <2> QED  BY <1>6, SMT
<1>8. command' \in Seq(Event)
  <2>1. E \subseteq Event  OBVIOUS
  <2> HIDE DEF E
  <2> QED  BY <1>6, <2>1, SMT
<1>9. CommandSort'  BY <1>7, <1>8 DEF CommandSort
<1>10. counts'.runs \in 0..MaxRuns /\ late' \in Nat
  BY <1>3 DEF SInv, Sorts, TaskSort
<1> QED  BY <1>3, <1>7, <1>9, <1>10 DEF Commanded

LEMMA CancelsIsSound ==
    ASSUME SInv, NEW pending \in SUBSET Reviews, Cancels(pending)
    PROVE  Commanded /\ UNCHANGED <<activity, late, counts, lock, down>>
<1>1. PICK order \in InOrder(pending) :
         command' = [i \in 1..(2 * Cardinality(pending)) |->
                        IF i % 2 = 0 THEN Plain("done") ELSE Ev("expired", order[(i + 1) \div 2])]
  BY DEF Cancels
<1>2. PICK k \in Nat : k = Cardinality(pending) /\ order \in [1..k -> Reviews]
  BY OrderOfWaiting
<1> DEFINE E == {e \in Event : Sound(e) /\ e.kind \notin {"started", "progress"}}
           f(i) == IF i % 2 = 0 THEN Plain("done") ELSE Ev("expired", order[(i + 1) \div 2])
<1>3. \A i \in 1..(2 * k) : f(i) \in E
  <2> SUFFICES ASSUME NEW i \in 1..(2 * k) PROVE f(i) \in E
    OBVIOUS
  <2>1. CASE i % 2 = 0
    <3>1. Sound(Plain("done")) /\ Plain("done").kind = "done"  BY PlainIsSound DEF EventKinds
    <3> QED  BY <2>1, <3>1 DEF Sound
  <2>2. CASE i % 2 # 0
    <3>1. (i + 1) \div 2 \in 1..k  BY SMT
    <3>2. order[(i + 1) \div 2] \in Reviews  BY <1>2, <3>1
    <3>3. Sound(Ev("expired", order[(i + 1) \div 2])) /\ Ev("expired", order[(i + 1) \div 2]).kind = "expired"
      BY <3>2, ReviewIsSound, EvIs
    <3> QED  BY <2>2, <3>3 DEF Sound
  <2> QED  BY <2>1, <2>2
<1>4. command' = [i \in 1..(2 * k) |-> f(i)] /\ 2 * k \in Nat
  BY <1>1, <1>2
<1> HIDE DEF f
<1>5. command' \in [1..(2 * k) -> E]
  <2> HIDE DEF E
  <2> QED  BY <1>3, <1>4
<1>6. command' \in Seq(E)
  <2> HIDE DEF E
  <2> QED  BY <1>4, <1>5, SMT
<1>7. \A n \in DOMAIN command' : command'[n] \in E
  <2> HIDE DEF E
  <2> QED  BY <1>5
<1>8. command' \in Seq(Event)
  <2>1. E \subseteq Event  OBVIOUS
  <2> HIDE DEF E
  <2> QED  BY <1>6, <2>1, SMT
<1>9. CommandSort'  BY <1>7, <1>8 DEF CommandSort
<1>10. /\ waiting' = waiting \ pending /\ reviews' = reviews \ pending
       /\ UNCHANGED <<activity, late, counts, lock, down>>
  BY DEF Cancels
<1>11. counts'.runs \in 0..MaxRuns /\ late' \in Nat
  BY <1>10 DEF SInv, Sorts, TaskSort
<1> QED  BY <1>7, <1>9, <1>10, <1>11 DEF Commanded

LEMMA StartsIsSound ==
    ASSUME SInv, NEW waits, NEW known, Starts(waits, known),
           waits \subseteq waiting, known \subseteq reviews, counts'.runs \in 0..MaxRuns
    PROVE  Commanded /\ UNCHANGED <<lock, down>>
<1>1. waiting' = waits /\ reviews' = known /\ UNCHANGED <<lock, down>>  BY DEF Starts
<1>2. CASE activity' = "preparing" /\ command' = <<Plain("started")>>
           /\ late' = IF activity = "suspending" THEN late + 1 ELSE late
  <2>1. Sound(Plain("started")) /\ Plain("started").kind = "started"  BY PlainIsSound DEF EventKinds
  <2>2. CommandSort' /\ Len(command') = 1  BY <1>2, <2>1, OneCommand
  <2>3. late' \in Nat  BY <1>2, SMT DEF SInv, Sorts, TaskSort
  <2> QED  BY <1>1, <1>2, <2>2, <2>3 DEF Commanded
<1>3. CASE UNCHANGED <<activity, late>> /\ command' = <<Plain("error")>>
  <2>1. Sound(Plain("error")) /\ Plain("error").kind = "error"  BY PlainIsSound DEF EventKinds
  <2>2. CommandSort' /\ \A n \in DOMAIN command' : command'[n] = Plain("error")
    BY <1>3, <2>1, OneCommand
  <2>3. late' \in Nat  BY <1>3 DEF SInv, Sorts, TaskSort
  <2> QED  BY <1>1, <1>3, <2>1, <2>2, <2>3 DEF Commanded
<1> QED  BY <1>2, <1>3 DEF Starts

\* An answer of one event that starts nothing and stops nothing.
LEMMA AnswersIsSound ==
    ASSUME SInv, NEW e, Sound(e), e.kind \notin {"progress", "started"}, Answers(<<e>>)
    PROVE  Commanded /\ UNCHANGED <<activity, waiting, reviews, lock, down>>
<1>1. command' = <<e>> /\ UNCHANGED <<activity, late, waiting, counts, reviews, lock, down>>
  BY DEF Answers
<1>2. CommandSort' /\ \A n \in DOMAIN command' : command'[n] = e  BY <1>1, OneCommand
<1>3. late' \in Nat /\ counts'.runs \in 0..MaxRuns  BY <1>1 DEF SInv, Sorts, TaskSort
<1> QED  BY <1>1, <1>2, <1>3 DEF Commanded

LEMMA ChatIsSound ==
    ASSUME SInv, Chat
    PROVE  Commanded /\ UNCHANGED <<lock, down>> /\ (Running => command' = <<Plain("refused")>>)
<1>1. CASE Running /\ Answers(<<Plain("refused")>>)
  <2>1. Sound(Plain("refused")) /\ Plain("refused").kind = "refused"  BY PlainIsSound DEF EventKinds
  <2>2. Commanded /\ UNCHANGED <<activity, waiting, reviews, lock, down>>
    BY <1>1, <2>1, AnswersIsSound
  <2> QED  BY <1>1, <2>2 DEF Answers
<1>2. CASE ~ Running /\ (Reminder(fallback) \/ Cancels(fallback))
  <2>1. fallback \in SUBSET Reviews  BY DEF SInv, IInv, Counted
  <2> QED  BY <1>2, <2>1, ReminderIsSound, CancelsIsSound
<1>3. CASE /\ ~ Running /\ counts.runs < MaxRuns
           /\ Starts(waiting, reviews)
           /\ counts' = [counts EXCEPT !.runs = @ + 1]
  <2>1. counts'.runs \in 0..MaxRuns
    <3>1. counts \in [runs : Nat, reviews : 0..MaxReviews]  BY DEF SInv, IInv, Counted
    <3>2. counts'.runs = counts.runs + 1 /\ counts.runs \in Nat  BY <1>3, <3>1
    <3> QED  BY <1>3, <3>2, BoundsAssumption, SMT
  <2>2. Commanded /\ UNCHANGED <<lock, down>>  BY <1>3, <2>1, StartsIsSound
  <2> QED  BY <1>3, <2>2
<1> QED  BY <1>1, <1>2, <1>3 DEF Chat

LEMMA ReplyIsSound ==
    ASSUME SInv, NEW r \in Reviews \cup {NoReview}, Reply(r)
    PROVE  Commanded /\ UNCHANGED <<lock, down>>
<1>1. CASE Answers(<<Ev("expired", r)>>)
  <2>1. Sound(Ev("expired", r)) /\ Ev("expired", r).kind = "expired"
    BY DEF Sound, Ev, Event, EventKinds, NoReview
  <2> QED  BY <1>1, <2>1, AnswersIsSound
<1>2. CASE Answers(<<Plain("error")>>)
  <2>1. Sound(Plain("error")) /\ Plain("error").kind = "error"  BY PlainIsSound DEF EventKinds
  <2> QED  BY <1>2, <2>1, AnswersIsSound
<1>3. CASE Starts(waiting \ {r}, reviews \ {r}) /\ UNCHANGED counts
  <2>1. counts'.runs \in 0..MaxRuns  BY <1>3 DEF SInv, Sorts, TaskSort
  <2> QED  BY <1>3, <2>1, StartsIsSound
<1> QED  BY <1>1, <1>2, <1>3 DEF Reply

LEMMA StopIsSound ==
    ASSUME SInv, Stop
    PROVE  /\ Commanded
           /\ \/ UNCHANGED <<lock, down>>
              \/ lock.by = "task" /\ lock' = Free /\ Arrives(lock.to, <<EventMessage(lock.event)>>)
<1>1. CASE Reminder(waiting)
  <2>1. waiting \in SUBSET Reviews  BY DEF SInv, IInv, Counted
  <2> QED  BY <1>1, <2>1, ReminderIsSound
<1>2. CASE /\ activity' = "none"
           /\ command' = <<Plain("stopped")>>
           /\ IF lock.by = "task"
              THEN lock' = Free /\ Arrives(lock.to, <<EventMessage(lock.event)>>)
              ELSE UNCHANGED <<lock, down>>
           /\ UNCHANGED <<late, waiting, counts, reviews>>
  <2>1. Sound(Plain("stopped")) /\ Plain("stopped").kind = "stopped"  BY PlainIsSound DEF EventKinds
  <2>2. CommandSort' /\ Len(command') = 1 /\ DOMAIN command' = {1}
        /\ \A n \in DOMAIN command' : command'[n] = Plain("stopped")
    BY <1>2, <2>1, OneCommand
  <2>3. late' \in Nat /\ counts'.runs \in 0..MaxRuns  BY <1>2 DEF SInv, Sorts, TaskSort
  <2>4. Commanded  BY <1>2, <2>1, <2>2, <2>3 DEF Commanded
  <2> QED  BY <1>2, <2>4
<1> QED  BY <1>1, <1>2 DEF Stop

LEMMA CommandedIsCalm ==
    ASSUME SInv, NEW c \in Conns, coroutine[c].at = "attached", up[c] # <<>>, command = <<>>,
           Commanded, up' = [up EXCEPT ![c] = Tail(@)],
           UNCHANGED <<epoch, log, first, steps, socket, coroutine, faults, page, observer>>,
           Head(up[c]).name = "chat" /\ socket = c /\ Running => command' = <<Plain("refused")>>
    PROVE  Calm
<1>0. Sorts /\ Finished  BY DEF SInv
<1>1. up \in [Conns -> Seq(Command)]  BY <1>0 DEF Sorts, UpSort
<1>2. UpSort'
  <2>1. Tail(up[c]) \in Seq(Command)  BY <1>1, SMT
  <2> QED  BY <1>1, <2>1 DEF UpSort
<1>3. ~ (\E i \in DOMAIN command : command[i].kind \in {"stopped", "refused"})
  BY EmptyIsSequence
<1>4. activity \in {"closing", "none"} => steps = {} \/ Ended(Terminals)
  BY <1>0, <1>3 DEF Finished
<1>5. \A kinds : Ended(kinds)' <=> Ended(kinds)  BY DEF Ended
<1>6. Finished'
  <2>1. activity' \in {"closing", "none"} =>
          steps' = {} \/ Ended(Terminals)' \/ \E i \in DOMAIN command' : command'[i].kind = "stopped"
    BY <1>4, <1>5 DEF Commanded
  <2> QED  BY <2>1 DEF Commanded, Finished
<1>7. TaskSort' /\ CommandSort'
  <2>1. activity' \in {"none", "preparing", "working", "committed", "suspending", "closing"}
    BY <1>0 DEF Commanded, Sorts, TaskSort
  <2> QED  BY <2>1 DEF Commanded, TaskSort
<1>8. ASSUME TooEarly PROVE TooEarly' \/ Ended(Terminals) \/ steps = {} \/ ~ Subscribed
  <2>1. PICK i \in DOMAIN up[page.conn] : up[page.conn][i].name = "chat"
    BY <1>3, <1>8 DEF TooEarly
  <2>2. CASE c # page.conn
    <3>1. up'[page'.conn] = up[page.conn]  BY <1>1, <2>2
    <3> QED  BY <2>1, <3>1 DEF TooEarly
  <2>3. CASE c = page.conn
    <3>1. IsSequence(up[c])  BY <1>1 DEF IsSequence
    <3>2. PICK L \in Nat \ {0} : /\ DOMAIN up[c] = 1..L /\ Head(up[c]) = up[c][1]
                                 /\ DOMAIN Tail(up[c]) = 1..(L - 1)
                                 /\ \A j \in 1..(L - 1) : Tail(up[c])[j] = up[c][j + 1]
      BY <3>1, OneLess
    <3>3. up'[page'.conn] = Tail(up[c])  BY <1>1, <2>3
    <3>4. CASE i # 1
      <4>1. i - 1 \in 1..(L - 1) /\ (i - 1) + 1 = i  BY <2>1, <2>3, <3>2, <3>4, SMT
      <4>2. i - 1 \in DOMAIN Tail(up[c]) /\ Tail(up[c])[i - 1].name = "chat"
        BY <2>1, <2>3, <3>2, <4>1
      <4> QED  BY <3>3, <4>2 DEF TooEarly
    <3>5. CASE i = 1 /\ Running /\ socket = c
      <4>1. command' = <<Plain("refused")>>  BY <2>1, <2>3, <3>2, <3>5
      <4>2. Sound(Plain("refused")) /\ Plain("refused").kind = "refused"  BY PlainIsSound DEF EventKinds
      <4>3. 1 \in DOMAIN command' /\ command'[1] = Plain("refused")  BY <4>1, <4>2, OneCommand
      <4> QED  BY <4>2, <4>3 DEF TooEarly
    <3>6. CASE ~ Running
      BY <1>4, <3>6 DEF Running
    <3>7. CASE socket # c
      BY <2>3, <3>7 DEF Subscribed
    <3> QED  BY <3>4, <3>5, <3>6, <3>7
  <2> QED  BY <2>2, <2>3
<1>9. EpochSort'  BY <1>0 DEF Sorts, EpochSort
<1>10. activity' = "working" => activity = "working"  BY DEF Commanded
<1> QED  BY <1>2, <1>6, <1>7, <1>8, <1>9, <1>10 DEF Calm, Commanded, observer

LEMMA ReceiveKeepsShown ==
    ASSUME SInv, IInv', NEW c \in Conns, Receive(c)
    PROVE  SInv'
<1> DEFINE m == Head(up[c])
<1>1. /\ coroutine[c].at = "attached" /\ up[c] # <<>> /\ command = <<>>
      /\ up' = [up EXCEPT ![c] = Tail(@)]
      /\ UNCHANGED <<epoch, log, first, steps, socket, coroutine, faults, page, observer>>
      /\ IF socket # c THEN UNCHANGED <<session, reviews, lock, down>>
         ELSE CASE m.name = "chat" -> Chat
                [] m.name = "stop" -> Stop
                [] OTHER           -> Reply(m.review)
  BY DEF Receive
<1>2. m \in Command
  <2>1. up[c] \in Seq(Command)  BY DEF SInv, Sorts, UpSort
  <2> QED  BY <1>1, <2>1, SMT
<1>3. ASSUME UNCHANGED <<lock, down>> PROVE Still
  <2>1. /\ (Sending' <=> Sending) /\ (Subscribed' <=> Subscribed) /\ (Truncating' <=> Truncating)
        /\ (IsOpen' <=> IsOpen) /\ (Unattached' <=> Unattached)
    BY <1>1, <1>3 DEF Sending, Subscribed, IsOpen, Truncating, Truncated, Unattached
  <2>2. \A i : IsSync(i)' <=> IsSync(i)  BY <1>3 DEF IsSync
  <2>3. \A i : TellsAfter(i)' <=> TellsAfter(i)  BY <1>3, <2>1, <2>2 DEF TellsAfter
  <2>4. LockSort'  BY <1>1, <1>3 DEF SInv, Sorts, LockSort
  <2> QED  BY <1>1, <1>3, <2>1, <2>3, <2>4 DEF Still
<1>4. ASSUME lock.by = "task", lock' = Free, Arrives(lock.to, <<EventMessage(lock.event)>>)
      PROVE  Still \/ Reaching
  <2>1. SendEnds /\ page' = page
    BY <1>1, <1>4 DEF SendEnds, Arrives, Sending, Senders, SamePage, SameObserver, observer
  <2> QED  BY <2>1, SendEndsIsStill
<1> HIDE DEF m
<1>5. CASE socket # c
  <2>1. UNCHANGED <<session, reviews, lock, down>>  BY <1>1, <1>5
  <2>2. Commanded
    <3>1. CommandSort' /\ TaskSort /\ \A n : n \notin DOMAIN command'
      BY <1>1, <2>1, EmptyIsSequence DEF SInv, Sorts, CommandSort, session
    <3> QED  BY <2>1, <3>1 DEF Commanded, session, TaskSort
  <2>3. Calm  BY <1>1, <1>5, <2>2, CommandedIsCalm DEF m
  <2> QED  BY <1>3, <2>1, <2>3, StillKeeps
<1>6. CASE socket = c /\ m.name = "chat"
  <2>1. Commanded /\ UNCHANGED <<lock, down>> /\ (Running => command' = <<Plain("refused")>>)
    BY <1>1, <1>6, ChatIsSound
  <2>2. Calm  BY <1>1, <2>1, CommandedIsCalm
  <2> QED  BY <1>3, <2>1, <2>2, StillKeeps
<1>7. CASE socket = c /\ m.name # "chat"
  <2>1. Stop \/ Reply(m.review)  BY <1>1, <1>7
  <2>2. m.review \in Reviews \cup {NoReview}  BY <1>2 DEF Command
  <2>3. /\ Commanded
        /\ \/ UNCHANGED <<lock, down>>
           \/ lock.by = "task" /\ lock' = Free /\ Arrives(lock.to, <<EventMessage(lock.event)>>)
    BY <2>1, <2>2, StopIsSound, ReplyIsSound
  <2>4. Calm  BY <1>1, <1>7, <2>3, CommandedIsCalm DEF m
  <2> QED  BY <1>3, <1>4, <2>3, <2>4, StillKeeps, ReachingKeeps
<1> QED  BY <1>5, <1>6, <1>7

\* The task is done, or nothing happens.
LEMMA TaskIsDoneKeepsShown ==
    ASSUME SInv, IInv', TaskIsDone
    PROVE  SInv'
<1>0. Sorts /\ Finished  BY DEF SInv
<1>1. /\ activity = "closing" /\ activity' = "none"
      /\ UNCHANGED <<server, late, waiting, counts, command, down, up, faults, page, observer>>
  BY DEF TaskIsDone
<1>2. Finished'  BY <1>0, <1>1 DEF Finished, Ended, server
<1>3. TaskSort' /\ CommandSort' /\ UpSort' /\ EpochSort'
  BY <1>0, <1>1 DEF Sorts, TaskSort, CommandSort, UpSort, EpochSort, server
<1>4. TooEarly' <=> TooEarly  BY <1>1 DEF TooEarly
<1>5. Calm  BY <1>1, <1>2, <1>3, <1>4 DEF Calm, server, observer
<1>6. Still
  <2>1. /\ (Sending' <=> Sending) /\ (Subscribed' <=> Subscribed) /\ (Truncating' <=> Truncating)
        /\ (IsOpen' <=> IsOpen) /\ (Unattached' <=> Unattached)
    BY <1>1 DEF Sending, Subscribed, IsOpen, Truncating, Truncated, Unattached, server
  <2>2. \A i : IsSync(i)' <=> IsSync(i)  BY <1>1 DEF IsSync
  <2>3. \A i : TellsAfter(i)' <=> TellsAfter(i)  BY <1>1, <2>1, <2>2 DEF TellsAfter
  <2>4. LockSort'  BY <1>0, <1>1 DEF Sorts, LockSort, server
  <2> QED  BY <1>1, <2>1, <2>3, <2>4 DEF Still, server
<1> QED  BY <1>5, <1>6, StillKeeps

LEMMA StutterKeepsShown ==
    ASSUME SInv, IInv', UNCHANGED vars
    PROVE  SInv'
<1>1. /\ (Known' <=> Known) /\ (IsOpen' <=> IsOpen) /\ (Sending' <=> Sending) /\ (Truncating' <=> Truncating)
      /\ (Subscribed' <=> Subscribed) /\ (Unattached' <=> Unattached)
      /\ UNCHANGED <<epoch, log, first, steps, reviews, session, up, page, observer, faults>>
      /\ down' = down /\ coroutine' = coroutine /\ lock' = lock
  BY DEF vars, server, Known, IsOpen, Sending, Truncating, Truncated, Subscribed, Unattached
<1>2. Calm
  <2>1. faults \in 0..MaxFaults  BY DEF SInv, Sorts, EpochSort
  <2>2. faults' \in faults..MaxFaults  BY <1>1, <2>1, BoundsAssumption, SMT
  <2> QED  BY <1>1, <2>2, SameSessionIsCalm
<1>3. Still
  <2>2. \A i : IsSync(i)' <=> IsSync(i)  BY <1>1 DEF IsSync
  <2>3. \A i : TellsAfter(i)' <=> TellsAfter(i)  BY <1>1, <2>2 DEF TellsAfter
  <2>4. LockSort'  BY <1>1 DEF SInv, Sorts, LockSort
  <2> QED  BY <1>1, <2>3, <2>4 DEF Still
<1> QED  BY <1>2, <1>3, StillKeeps

-----------------------------------------------------------------------------
(* The page has no connection, a new one, or another.                        *)

\* The messages under way are none: what is shown is what was.
LEMMA AwayKeeps ==
    ASSUME SInv, IInv', down' = <<>>, Finished', Stepped',
           EpochSort', LogSort', StateSort', LockSort', TaskSort', CommandSort', UpSort', PageSort', ObserverSort',
           ~ Subscribed', ~ TellsAfter(0)',
           Sending' => /\ Known' => page'.cursor.seq < Len(log')
                       /\ given' < Len(log'),
           IsOpen' => coroutine'[page'.conn].at = "opening" /\ Unattached',
           notice' # "none" \/ missed' # {} => Known',
           \A n : Waiting(n)' => ShownOf(n)'
    PROVE  SInv'
<1>1. DOMAIN down' = {}  BY EmptyIsSequence
<1>2. Carries'  BY <1>1 DEF Carries
<1>3. Sorts'  BY <1>2 DEF Sorts
<1>4. Ordered'  BY <1>1 DEF Ordered
<1>5. Held'  BY DEF Held
<1>6. StepsShown' /\ BusyShown'  BY DEF StepsShown, BusyShown
<1>7. ReviewShown'
  <2> SUFFICES ASSUME NEW n, Waiting(n)' PROVE (ShownOf(n) /\ SyncedOf(n) /\ ReplayedOf(n) /\ ComesOf(n))'
    BY DEF ReviewShown
  <2> QED  BY <1>1 DEF SyncedOf, ReplayedOf, ComesOf
<1> QED  BY <1>3, <1>4, <1>5, <1>6, <1>7 DEF SInv

\* The same server and session, and a page without a connection that has handled
\* what it had, and shows the same review.
LEMMA ApartKeepsShown ==
    ASSUME SInv, IInv', UNCHANGED <<server, session>>, down' = <<>>, ~ IsOpen',
           EpochSort', UpSort', PageSort', ObserverSort',
           page'.cursor = page.cursor, page'.review = page.review, given' = given, missed' = missed,
           answered \subseteq answered',
           notice' = notice \/ (missed # {} /\ notice' # "none")
    PROVE  SInv'
<1>0. Sorts /\ Finished /\ Stepped /\ Ordered /\ Held /\ ReviewShown  BY DEF SInv
<1>1. /\ epoch' = epoch /\ log' = log /\ first' = first /\ steps' = steps /\ reviews' = reviews
      /\ lock' = lock /\ activity' = activity /\ late' = late /\ waiting' = waiting
      /\ counts' = counts /\ command' = command
  BY DEF server, session
<1>2. LogSort' /\ StateSort' /\ LockSort' /\ TaskSort' /\ CommandSort'
  BY <1>0, <1>1 DEF Sorts, LogSort, StateSort, LockSort, TaskSort, CommandSort
<1>3. Finished' /\ Stepped'  BY <1>0, <1>1 DEF Finished, Stepped, Ended
<1>4. ~ Subscribed' /\ ~ TellsAfter(0)'  BY DEF Subscribed, TellsAfter
<1>5. (Known' <=> Known) /\ (Sending' <=> Sending)  BY <1>1 DEF Known, Sending
<1>6. Sending' => /\ Known' => page'.cursor.seq < Len(log')
                  /\ given' < Len(log')
  BY <1>0, <1>1, <1>5 DEF Ordered
<1>7. notice' # "none" \/ missed' # {} => Known'  BY <1>0, <1>5 DEF Held
<1>8. ASSUME NEW n, Waiting(n)' PROVE ShownOf(n)'
  <2>1. Waiting(n)  BY <1>1, <1>8 DEF Waiting
  <2>2. ShownOf(n)  BY <1>0, <2>1 DEF ReviewShown
  <2> QED  BY <1>1, <1>5, <2>2 DEF ShownOf, Handled
<1> QED  BY <1>2, <1>3, <1>4, <1>6, <1>7, <1>8, AwayKeeps

LEMMA LossKeepsShown ==
    ASSUME SInv, IInv', Drop \/ HeartbeatTimeout
    PROVE  SInv'
<1>0. Sorts /\ Types  BY DEF SInv, IInv
<1>1. /\ page' = Closed /\ down' = <<>> /\ UNCHANGED <<server, session, missed, answered, given>>
      /\ notice' = IF missed # {} /\ notice = "none" THEN "cut" ELSE notice
  BY DEF Drop, HeartbeatTimeout, Loses
<1>2. page \in Page /\ Decisions(page)  BY <1>0 DEF Sorts, PageSort
<1>3. Closed \in Page /\ Decisions(Closed) /\ Closed.review = page.review  BY <1>2, ClosedIsPage
<1>4. PageSort'
  BY <1>1, <1>3 DEF PageSort, Page, Decisions, server
<1>5. Closed.cursor = page.cursor /\ Closed.link = "closed"  BY <1>0, ClosedIsApart DEF Types
<1>6. UpSort'
  <2>1. up' \in {up, [up EXCEPT ![page.conn] = <<>>]}  BY DEF Drop, HeartbeatTimeout
  <2>2. <<>> \in Seq(Command)  OBVIOUS
  <2> QED  BY <1>0, <2>1, <2>2 DEF Sorts, UpSort
<1>7. EpochSort'
  <2>1. epoch' = epoch /\ (faults' = faults \/ (faults < MaxFaults /\ faults' = faults + 1))
    BY <1>1 DEF Drop, HeartbeatTimeout, server
  <2> QED  BY <1>0, <2>1, BoundsAssumption, SMT DEF Sorts, EpochSort
<1>8. ObserverSort'  BY <1>0, <1>1 DEF Sorts, ObserverSort, server
<1>9. ~ IsOpen' /\ page'.cursor = page.cursor /\ page'.review = page.review
  BY <1>1, <1>3, <1>5 DEF IsOpen
<1>10. notice' = notice \/ (missed # {} /\ notice' # "none")  BY <1>1
<1> QED  BY <1>1, <1>4, <1>6, <1>7, <1>8, <1>9, <1>10, ApartKeepsShown

LEMMA ReconnectKeepsShown ==
    ASSUME SInv, IInv', Reconnect
    PROVE  SInv'
<1>0. Sorts /\ Types /\ Wires  BY DEF SInv, IInv
<1>1. /\ page.link = "closed" /\ page.conn + 1 \in Conns /\ page' = Connecting(page)
      /\ UNCHANGED <<server, session, down, up, faults, observer>>
  BY DEF Reconnect
<1>2. page \in Page /\ Decisions(page)  BY <1>0 DEF Sorts, PageSort
<1>3. page' \in Page /\ Decisions(page')  BY <1>1, <1>2, ConnectingIsPage
<1>4. PageSort'  BY <1>1, <1>3 DEF PageSort, Page, Decisions, server, observer
<1>5. page'.cursor = page.cursor /\ page'.review = page.review /\ page'.link = "connecting"
  BY <1>0, <1>1 DEF Connecting, Types, PageFields
<1>6. ~ IsOpen' /\ down' = <<>>  BY <1>0, <1>1, <1>5 DEF IsOpen, Wires
<1>7. UpSort' /\ EpochSort' /\ ObserverSort'
  BY <1>0, <1>1 DEF Sorts, UpSort, EpochSort, ObserverSort, server, observer
<1> QED  BY <1>1, <1>4, <1>5, <1>6, <1>7, ApartKeepsShown DEF observer

LEMMA ReloadKeepsShown ==
    ASSUME SInv, IInv', Reload
    PROVE  SInv'
<1>0. Sorts /\ Types /\ Locks /\ Finished /\ Stepped  BY DEF SInv, IInv
<1>1. /\ faults < MaxFaults /\ page.conn + 1 \in Conns /\ faults' = faults + 1
      /\ page' = NewPage(page.conn + 1, page.sent)
      /\ down' = <<>> /\ missed' = {} /\ answered' = {} /\ given' = 0 /\ notice' = "none"
      /\ UNCHANGED <<server, session, up>>
  BY DEF Reload
<1>2. /\ epoch' = epoch /\ log' = log /\ first' = first /\ steps' = steps /\ reviews' = reviews
      /\ lock' = lock /\ activity' = activity /\ late' = late /\ waiting' = waiting
      /\ counts' = counts /\ command' = command
  BY <1>1 DEF server, session
<1>3. page \in Page /\ page.sent \in 0..MaxCommands  BY <1>0, PageHas DEF Sorts, PageSort
<1>4. PageSort'
  <2>1. epoch \in Nat  BY <1>0 DEF Types
  <2>2. /\ page' \in Page /\ page'.replies = {} /\ page'.status = "idle"
        /\ page'.chats = 0 /\ page'.sent = page.sent
    BY <1>1, <1>3, <2>1, NewPageIsPage
  <2>3. 0 <= page.sent  BY <1>3, SMT
  <2> QED  BY <1>2, <2>2, <2>3 DEF PageSort, Page, Decisions
<1>5. ~ IsOpen' /\ ~ Known'
  <2>1. page'.link = "connecting" /\ page'.cursor.epoch = 0  BY <1>1 DEF NewPage, NoCursor
  <2>2. epoch # 0  BY <1>0 DEF Types
  <2> QED  BY <1>2, <2>1, <2>2 DEF IsOpen, Known
<1>6. LogSort' /\ StateSort' /\ LockSort' /\ TaskSort' /\ CommandSort' /\ UpSort'
  BY <1>0, <1>1, <1>2 DEF Sorts, LogSort, StateSort, LockSort, TaskSort, CommandSort, UpSort
<1>7. EpochSort'
  BY <1>0, <1>1, <1>2, BoundsAssumption, SMT DEF Sorts, EpochSort
<1>8. ObserverSort'  BY <1>0, <1>1 DEF Sorts, ObserverSort
<1>9. Finished' /\ Stepped'  BY <1>0, <1>2 DEF Finished, Stepped, Ended
<1>10. ~ Subscribed' /\ ~ TellsAfter(0)'  BY <1>5 DEF Subscribed, TellsAfter
<1>11. Sending' => given' < Len(log')
  <2> SUFFICES ASSUME Sending PROVE 0 < Len(log)
    BY <1>1, <1>2 DEF Sending
  <2>1. PICK N \in Nat : N = Len(log)  BY <1>0 DEF Types, IsSequence
  <2>2. N # 0  BY <1>0, <2>1 DEF Locks
  <2>3. 0 < N  BY <2>2, SMT
  <2> QED  BY <2>1, <2>3
<1>12. \A n : Waiting(n)' => ShownOf(n)'  BY <1>5 DEF ShownOf, Handled
<1> QED  BY <1>1, <1>4, <1>5, <1>6, <1>7, <1>8, <1>9, <1>10, <1>11, <1>12, AwayKeeps

LEMMA CrashKeepsShown ==
    ASSUME SInv, IInv', Crash
    PROVE  SInv'
<1>0. Sorts /\ Types /\ Wires  BY DEF SInv, IInv
<1>1. /\ faults < MaxFaults /\ faults' = faults + 1
      /\ epoch' = epoch + 1 /\ log' = <<>> /\ first' = 1 /\ steps' = {} /\ reviews' = {}
      /\ socket' = Offline /\ lock' = Free
      /\ activity' = "none" /\ late' = 0 /\ command' = <<>>
      /\ down' = <<>> /\ up' = [c \in Conns |-> <<>>]
      /\ page' = (IF page.link = "closed" THEN page ELSE Closed)
      /\ missed' = {} /\ given' = 0 /\ notice' = "none"
      /\ UNCHANGED <<waiting, counts, answered>>
  BY DEF Crash
<1>2. page \in Page /\ Decisions(page)  BY <1>0 DEF Sorts, PageSort
<1>3. /\ page' \in Page /\ Decisions(page') /\ page'.cursor = page.cursor /\ page'.link = "closed"
  BY <1>0, <1>1, <1>2, ClosedIsPage, ClosedIsApart DEF Types
<1>4. page.cursor.epoch \in Nat /\ page.cursor.seq \in Nat /\ page.cursor.epoch <= epoch /\ epoch \in Nat
      /\ page.cursor \in [epoch : Nat, seq : Nat]
  BY <1>0 DEF Types
<1>5. PageSort'
  <2>1. page'.cursor \in [epoch : 0..(epoch + 1), seq : Nat]
    <3>1. page.cursor.epoch \in 0..(epoch + 1)  BY <1>4, SMT
    <3> QED  BY <1>3, <1>4, <3>1
  <2>2. page' \in Page'
    <3>1. PICK C : C = [epoch : 0..epoch', seq : Nat]  OBVIOUS
    <3>2. page'.cursor \in C  BY <1>1, <2>1, <3>1
    <3>3. page' \in [conn : Conns, link : {"connecting", "open", "closed"}, retry : BOOLEAN,
         attempts : 0..MaxAttempts, synced : BOOLEAN,
         cursor : C, sent : 0..MaxCommands,
         stop : BOOLEAN, chats : 0..MaxCommands, replies : SUBSET Command,
         busy : BOOLEAN, steps : SUBSET Steps,
         review : Reviews \cup {NoReview},
         status : {"idle", "pending", "submitting", "accepted", "rejected", "expired"}]
      BY <1>3, <3>2 DEF Page
    <3> QED  BY <3>1, <3>3 DEF Page
  <2> QED  BY <1>1, <1>3, <2>2 DEF PageSort, Decisions
<1>6. ~ IsOpen' /\ ~ Known' /\ ~ Sending'
  <2>1. page.cursor.epoch # epoch + 1  BY <1>4, SMT
  <2> QED  BY <1>1, <1>3, <2>1 DEF IsOpen, Known, Sending, Senders, Free
<1>7. DOMAIN log' = {} /\ Len(log') = 0 /\ log' \in Seq(Event) /\ command' \in Seq(Event) /\ DOMAIN command' = {}
  BY <1>1, EmptyIsSequence
<1>8. LogSort'
  <2>1. Max({1, 0}) = 1  BY LargerOfTwo, SMT
  <2>2. Max({1, Len(log')}) = 1  BY <1>7, <2>1
  <2>3. first' \in 1..1 /\ Len(log') - first' < Capacity  BY <1>1, <1>7, CapacityAssumption, SMT
  <2> QED  BY <1>7, <2>2, <2>3 DEF LogSort
<1>9. LockSort'  BY <1>1, <1>7, SMT DEF LockSort, Free
<1>10. StateSort' /\ CommandSort' /\ TaskSort'
  BY <1>0, <1>1, <1>7 DEF Sorts, StateSort, CommandSort, TaskSort
<1>11. UpSort'
  <2>1. <<>> \in Seq(Command)  OBVIOUS
  <2> QED  BY <1>1, <2>1 DEF UpSort
<1>12. EpochSort'
  BY <1>0, <1>1, BoundsAssumption, SMT DEF Sorts, EpochSort
<1>13. ObserverSort'  BY <1>0, <1>1 DEF Sorts, ObserverSort
<1>14. Finished' /\ Stepped'  BY <1>1, <1>7 DEF Finished, Stepped
<1>15. ~ Subscribed' /\ ~ TellsAfter(0)'  BY <1>6 DEF Subscribed, TellsAfter
<1>16. \A n : ~ Waiting(n)'  BY <1>7 DEF Waiting
<1> QED  BY <1>1, <1>5, <1>6, <1>8, <1>9, <1>10, <1>11, <1>12, <1>13, <1>14, <1>15, <1>16, AwayKeeps

\* The connection opens: its coroutine has yet to begin the replay.
LEMMA OrdersAreSequences ==
    ASSUME NEW S, IsFiniteSet(S), NEW s \in Orders(S)
    PROVE  s \in Seq(S)
<1>1. Cardinality(S) \in Nat  BY FS_CardinalityType
<1>2. s \in [1..Cardinality(S) -> S]  BY DEF Orders
<1> QED  BY <1>1, <1>2, SMT

LEMMA CommandsAreFinite == IsFiniteSet(Command)
<1>1. IsFiniteSet(CommandNames)
  <2>1. CommandNames = {"stop"} \cup {"chat"} \cup {"accept"} \cup {"reject"}  BY DEF CommandNames
  <2> QED  BY <2>1, FS_Singleton, FS_Union
<1>2. IsFiniteSet(Reviews \cup {NoReview})
  <2>1. MaxReviews \in Int /\ 1 \in Int  BY BoundsAssumption, SMT
  <2>2. IsFiniteSet(Reviews)  BY <2>1, FS_Interval DEF Reviews
  <2> QED  BY <2>2, FS_Singleton, FS_Union
<1>3. IsFiniteSet(CommandNames \X (Reviews \cup {NoReview}))  BY <1>1, <1>2, FS_Product
<1> DEFINE f == [x \in CommandNames \X (Reviews \cup {NoReview}) |-> [name |-> x[1], review |-> x[2]]]
<1>4. f \in Surjection(CommandNames \X (Reviews \cup {NoReview}), Command)
  <2>1. \A x \in CommandNames \X (Reviews \cup {NoReview}) : f[x] \in Command  BY DEF Command
  <2>2. \A y \in Command : \E x \in CommandNames \X (Reviews \cup {NoReview}) : f[x] = y
    <3> SUFFICES ASSUME NEW y \in Command
                 PROVE  \E x \in CommandNames \X (Reviews \cup {NoReview}) : f[x] = y
      OBVIOUS
    <3>1. y.name \in CommandNames /\ y.review \in Reviews \cup {NoReview}
          /\ y = [name |-> y.name, review |-> y.review]
      BY DEF Command
    <3>2. <<y.name, y.review>> \in CommandNames \X (Reviews \cup {NoReview})  BY <3>1
    <3>3. f[<<y.name, y.review>>] = y  BY <3>1, <3>2
    <3> HIDE DEF f
    <3> QED  BY <3>2, <3>3
  <2>3. f \in [CommandNames \X (Reviews \cup {NoReview}) -> Command]  BY <2>1
  <2> HIDE DEF f
  <2> QED  BY <2>2, <2>3 DEF Surjection
<1> QED  BY <1>3, <1>4, FS_Surjection

LEMMA FlushedAreCommands ==
    ASSUME page \in Page, NEW s \in Flushed(page)
    PROVE  s \in Seq(Command)
<1>1. /\ page.stop \in BOOLEAN /\ page.chats \in 0..MaxCommands /\ page.replies \in SUBSET Command
  BY PageHas
<1>2. PICK replies \in Orders(page.replies) :
        s = (IF page.stop THEN <<Give("stop")>> ELSE <<>>)
              \o [i \in 1..page.chats |-> Give("chat")] \o replies
  BY DEF Flushed
<1>3. replies \in Seq(Command)
  <2>1. IsFiniteSet(page.replies)  BY <1>1, CommandsAreFinite, FS_Subset
  <2>2. replies \in Seq(page.replies)  BY <2>1, OrdersAreSequences
  <2> QED  BY <1>1, <2>2, SMT
<1>4. \A name \in CommandNames : Give(name) \in Command  BY DEF Give, Command
<1> DEFINE a == IF page.stop THEN <<Give("stop")>> ELSE <<>>
           b == [i \in 1..page.chats |-> Give("chat")]
<1>5. a \in Seq(Command)
  <2>1. Give("stop") \in Command  BY <1>4 DEF CommandNames
  <2>2. <<Give("stop")>> \in Seq(Command) /\ <<>> \in Seq(Command)  BY <2>1, SMT
  <2> QED  BY <2>2
<1>6. b \in Seq(Command)
  <2>1. Give("chat") \in Command  BY <1>4 DEF CommandNames
  <2>2. b \in [1..page.chats -> Command]  BY <2>1
  <2>3. page.chats \in Nat  BY <1>1, BoundsAssumption, SMT
  <2> HIDE DEF b
  <2> QED  BY <2>2, <2>3, SMT
<1>7. s = a \o b \o replies  BY <1>2
<1> HIDE DEF a, b
<1>8. a \o b \in Seq(Command)  BY <1>5, <1>6, SMT
<1> QED  BY <1>3, <1>7, <1>8, SMT

LEMMA OpenKeepsShown ==
    ASSUME SInv, IInv', Open
    PROVE  SInv'
<1>0. Sorts /\ Types /\ Wires /\ Finished /\ Stepped /\ Ordered /\ Held /\ ReviewShown  BY DEF SInv, IInv
<1>1. /\ page.link = "connecting"
      /\ coroutine' = [coroutine EXCEPT ![page.conn] = [at |-> "opening", todo |-> waiting]]
      /\ \E commands \in Flushed(page) : up' = [up EXCEPT ![page.conn] = commands]
      /\ page' = Opened(page)
      /\ epoch' = epoch /\ log' = log /\ first' = first /\ steps' = steps /\ reviews' = reviews
      /\ socket' = socket /\ lock' = lock /\ down' = down /\ faults' = faults
      /\ activity' = activity /\ late' = late /\ waiting' = waiting /\ counts' = counts
      /\ command' = command /\ UNCHANGED observer
  BY DEF Open
<1>2. page \in Page /\ Decisions(page) /\ answered \subseteq Reviews
  BY <1>0 DEF Sorts, PageSort, ObserverSort
<1>3. page' \in Page /\ Decisions(page') /\ page'.review = page.review
  BY <1>1, <1>2, OpenedIsPage
<1>4. page'.conn = page.conn /\ page'.link = "open" /\ page'.cursor = page.cursor
  BY <1>0, <1>1 DEF Opened, Types, PageFields
<1>5. PageSort' /\ ObserverSort'
  BY <1>0, <1>1, <1>3 DEF PageSort, ObserverSort, Page, Decisions, observer, Sorts
<1>6. UpSort'
  <2>1. PICK commands \in Flushed(page) : up' = [up EXCEPT ![page.conn] = commands]  BY <1>1
  <2>2. commands \in Seq(Command)  BY <1>2, FlushedAreCommands
  <2> QED  BY <1>0, <2>1, <2>2 DEF Sorts, UpSort
<1>7. LogSort' /\ StateSort' /\ LockSort' /\ TaskSort' /\ CommandSort' /\ EpochSort'
  BY <1>0, <1>1 DEF Sorts, LogSort, StateSort, LockSort, TaskSort, CommandSort, EpochSort
<1>8. Finished' /\ Stepped'  BY <1>0, <1>1 DEF Finished, Stepped, Ended
<1>9. down' = <<>> /\ DOMAIN down' = {}
  BY <1>0, <1>1, EmptyIsSequence DEF Wires, IsOpen
<1>10. coroutine[page.conn].at = "none" /\ socket # page.conn /\ lock.to # page.conn
  BY <1>0, <1>1, ConnsAreNumbers DEF Wires, Types
<1>11. ~ Subscribed' /\ ~ TellsAfter(0)' /\ (Known' <=> Known) /\ (Sending' <=> Sending)
  BY <1>1, <1>4, <1>9, <1>10 DEF Subscribed, TellsAfter, Truncating, Known, Sending
<1>12. coroutine'[page'.conn].at = "opening" /\ Unattached'
  BY <1>0, <1>1, <1>4, <1>10 DEF Unattached, Types
<1>13. Sending' => /\ Known' => page'.cursor.seq < Len(log')
                   /\ given' < Len(log')
  BY <1>0, <1>1, <1>4, <1>11 DEF Ordered, observer
<1>14. notice' # "none" \/ missed' # {} => Known'  BY <1>0, <1>1, <1>11 DEF Held, observer
<1>15. ASSUME NEW n, Waiting(n)' PROVE ShownOf(n)'
  <2>1. Waiting(n)  BY <1>1, <1>15 DEF Waiting, observer
  <2>2. ShownOf(n)  BY <1>0, <2>1 DEF ReviewShown
  <2> QED  BY <1>1, <1>3, <1>4, <1>11, <2>2 DEF ShownOf, Handled, observer
<1> QED  BY <1>5, <1>6, <1>7, <1>8, <1>9, <1>11, <1>12, <1>13, <1>14, <1>15, AwayKeeps

-----------------------------------------------------------------------------
(* The user.                                                                 *)

\* Decisions of a page when the reviews in S are answered.
DecidesIn(p, S) ==
    /\ p.status # "idle" => p.review # NoReview
    /\ p.status \in {"submitting", "accepted", "rejected"} => p.review \in S
    /\ \A m \in p.replies : m.review \in S
    /\ p.chats <= p.sent

\* What the user does to the page: it stays on its connection, or makes one.
LEMMA UserIsPage ==
    ASSUME SInv, NEW name, name \in CommandNames, User(name)
    PROVE  /\ page' \in Page /\ PageSort' /\ page'.review = page.review /\ page'.cursor = page.cursor
           /\ answered \subseteq answered' /\ answered' \subseteq Reviews /\ UpSort'
           /\ name # "chat" => page'.steps = page.steps /\ page'.busy = page.busy
           /\ page.busy => page'.busy
           /\ \/ /\ page.link = "open" /\ page'.link = "open" /\ page'.conn = page.conn
                 /\ DOMAIN up[page.conn] \subseteq DOMAIN up'[page.conn]
                 /\ \A i \in DOMAIN up[page.conn] : up'[page.conn][i] = up[page.conn][i]
                 /\ name = "chat" => \E i \in DOMAIN up'[page.conn] : up'[page.conn][i].name = "chat"
              \/ page'.link = "connecting"
<1>0. Sorts  BY DEF SInv
<1>1. /\ page \in Page /\ Decisions(page) /\ up \in [Conns -> Seq(Command)] /\ answered \subseteq Reviews
      /\ DOMAIN page = PageFields /\ page.conn \in Conns /\ page.review \in Reviews \cup {NoReview}
      /\ page.sent \in 0..MaxCommands /\ page.chats \in 0..MaxCommands /\ page.replies \in SUBSET Command
      /\ page.status \in {"idle", "pending", "submitting", "accepted", "rejected", "expired"}
  BY <1>0, PageHas DEF Sorts, PageSort, UpSort, ObserverSort
<1> DEFINE m == [name |-> name, review |-> IF name \in OfflineCommands THEN NoReview ELSE page.review]
           busy == IF name = "chat" THEN TRUE ELSE page.busy
           steps1 == IF name = "chat" THEN {} ELSE page.steps
           ordered == [page EXCEPT !.sent = @ + 1,
                        !.busy = IF name = "chat" THEN TRUE ELSE @,
                        !.steps = IF name = "chat" THEN {} ELSE @]
           replies == {x \in page.replies : x.review # m.review} \cup {m}
           queued == CASE name = "stop" -> [ordered EXCEPT !.stop = TRUE]
                       [] name = "chat" -> [ordered EXCEPT !.chats = @ + 1]
                       [] OTHER -> [ordered EXCEPT !.status = "submitting",
                                      !.replies = {x \in @ : x.review # m.review} \cup {m}]
           waits == [queued EXCEPT !.attempts = IF name = "chat" THEN @ ELSE 0]
           status == IF name \in OfflineCommands THEN page.status ELSE Decided(name)
<1>2. \/ page.link = "open" /\ up' = [up EXCEPT ![page.conn] = Append(@, m)]
            /\ page' = [ordered EXCEPT !.status = IF name \in OfflineCommands THEN @ ELSE Decided(name)]
      \/ page.link = "connecting" /\ page' = waits /\ up' = up
      \/ /\ page.link = "closed" /\ page.conn + 1 \in Conns
         /\ page' = [Connecting(queued) EXCEPT !.attempts = 0] /\ up' = up
  BY Zenon DEF User
<1> HIDE DEF m, ordered, queued, waits
<1>16. /\ page.sent < MaxCommands /\ epoch' = epoch
       /\ answered' = IF name \in OfflineCommands THEN answered ELSE answered \cup {page.review}
       /\ CASE name = "chat" -> ~ page.busy
            [] name = "stop" -> page.busy
            [] OTHER         -> page.status = "pending"
  BY Zenon DEF User, server
<1>17. name \notin OfflineCommands => page.status = "pending"
  BY <1>16 DEF OfflineCommands
<1>3. m \in Command /\ m.name = name /\ (name \notin OfflineCommands => m.review = page.review)
  BY <1>1 DEF Command, m
<1>4. name \notin OfflineCommands => page.review \in Reviews
  BY <1>1, <1>17 DEF Decisions
<1>5. answered \subseteq answered' /\ answered' \subseteq Reviews
      /\ (name \notin OfflineCommands => page.review \in answered')
  BY <1>1, <1>4, <1>16
<1>6. \E s \in 0..MaxCommands : s = page.sent + 1
  BY <1>1, <1>16, BoundsAssumption, SMT
<1>7. /\ ordered \in Page /\ DOMAIN ordered = PageFields
      /\ ordered.sent = page.sent + 1 /\ ordered.busy = busy /\ ordered.steps = steps1
      /\ ordered.conn = page.conn /\ ordered.link = page.link /\ ordered.cursor = page.cursor
      /\ ordered.review = page.review /\ ordered.status = page.status
      /\ ordered.replies = page.replies /\ ordered.chats = page.chats
  <2>1. PICK x \in Page : x = [page EXCEPT !.sent = @ + 1]  BY <1>1, <1>6, PageWith
  <2>2. CASE name = "chat"
    <3>1. PICK y \in Page : y = [x EXCEPT !.busy = TRUE]  BY PageWith
    <3>2. [y EXCEPT !.steps = {}] \in Page  BY PageWith
    <3>3. ordered = [y EXCEPT !.steps = {}]  BY <2>1, <2>2, <3>1 DEF ordered
    <3> QED  BY <1>1, <2>2, <3>2, <3>3, <2>1, <3>1 DEF PageFields
  <2>3. CASE name # "chat"
    <3>1. ordered = x  BY <1>1, <2>1, <2>3 DEF ordered, PageFields
    <3> QED  BY <1>1, <2>1, <2>3, <3>1 DEF PageFields
  <2> QED  BY <2>2, <2>3
<1>8. Decisions(ordered) /\ page.chats <= page.sent
  BY <1>1, <1>7, SMT DEF Decisions
<1>9. /\ queued \in Page /\ DOMAIN queued = PageFields
      /\ queued.busy = busy /\ queued.steps = steps1
      /\ queued.conn = page.conn /\ queued.link = page.link /\ queued.cursor = page.cursor
      /\ queued.review = page.review
      /\ DecidesIn(queued, answered')
  <2>1. CASE name = "stop"
    <3>1. queued = [ordered EXCEPT !.stop = TRUE]  BY <2>1 DEF queued
    <3>2. queued \in Page  BY <1>7, <3>1, PageWith
    <3>3. /\ DOMAIN queued = PageFields /\ queued.busy = busy /\ queued.steps = steps1
          /\ queued.conn = page.conn /\ queued.link = page.link /\ queued.cursor = page.cursor
          /\ queued.review = page.review /\ queued.status = ordered.status /\ queued.replies = ordered.replies
          /\ queued.chats = ordered.chats /\ queued.sent = ordered.sent
      BY <1>7, <3>1 DEF PageFields
    <3>4. DecidesIn(queued, answered')  BY <1>5, <1>7, <1>8, <3>3 DEF Decisions, DecidesIn
    <3> QED  BY <3>2, <3>3, <3>4
  <2>2. CASE name = "chat"
    <3>1. queued = [ordered EXCEPT !.chats = @ + 1]  BY <2>2 DEF queued
    <3>2. \E k \in 0..MaxCommands : k = ordered.chats + 1 /\ k <= ordered.sent
      BY <1>1, <1>7, <1>8, <1>16, BoundsAssumption, SMTT(30)
    <3>3. queued \in Page  BY <1>7, <3>1, <3>2, PageWith
    <3>4. /\ DOMAIN queued = PageFields /\ queued.busy = busy /\ queued.steps = steps1
          /\ queued.conn = page.conn /\ queued.link = page.link /\ queued.cursor = page.cursor
          /\ queued.review = page.review /\ queued.status = ordered.status /\ queued.replies = ordered.replies
          /\ queued.chats = ordered.chats + 1 /\ queued.sent = ordered.sent
      BY <1>7, <3>1 DEF PageFields
    <3>5. DecidesIn(queued, answered')  BY <1>5, <1>7, <1>8, <3>2, <3>4 DEF Decisions, DecidesIn
    <3> QED  BY <3>3, <3>4, <3>5
  <2>3. CASE name \notin OfflineCommands
    <3>1. queued = [ordered EXCEPT !.status = "submitting", !.replies = {x \in @ : x.review # m.review} \cup {m}]
      BY <2>3 DEF OfflineCommands, queued
    <3>2. replies \in SUBSET Command /\ \A x \in replies : x.review \in answered'
      BY <1>1, <1>3, <1>5, <2>3 DEF Decisions
    <3>3. queued = [ordered EXCEPT !.status = "submitting", !.replies = replies]  BY <1>7, <3>1
    <3> HIDE DEF replies
    <3>4. PICK r \in SUBSET Command : r = replies  BY <3>2
    <3>5. queued \in Page
      <4>1. PICK y \in Page : y = [ordered EXCEPT !.status = "submitting"]  BY <1>7, PageWith
      <4>2. [y EXCEPT !.replies = r] \in Page  BY PageWith
      <4> QED  BY <3>3, <3>4, <4>1, <4>2
    <3>6. /\ DOMAIN queued = PageFields /\ queued.busy = busy /\ queued.steps = steps1
          /\ queued.conn = page.conn /\ queued.link = page.link /\ queued.cursor = page.cursor
          /\ queued.review = page.review /\ queued.status = "submitting" /\ queued.replies = replies
          /\ queued.chats = ordered.chats /\ queued.sent = ordered.sent
      BY <1>7, <3>3 DEF PageFields
    <3>7. page.review # NoReview  BY <1>1, <1>17, <2>3 DEF Decisions
    <3>8. DecidesIn(queued, answered')  BY <1>5, <1>7, <1>8, <2>3, <3>2, <3>6, <3>7 DEF Decisions, DecidesIn
    <3> QED  BY <3>5, <3>6, <3>8
  <2> QED  BY <2>1, <2>2, <2>3 DEF OfflineCommands
<1>10. /\ name # "chat" => steps1 = page.steps /\ busy = page.busy
       /\ page.busy => busy
  OBVIOUS
<1> HIDE DEF busy, steps1
<1> DEFINE Wanted ==
       /\ page' \in Page /\ UpSort' /\ page'.review = page.review /\ page'.cursor = page.cursor
       /\ DecidesIn(page', answered') /\ page'.busy = busy /\ page'.steps = steps1
       /\ \/ /\ page.link = "open" /\ page'.link = "open" /\ page'.conn = page.conn
             /\ DOMAIN up[page.conn] \subseteq DOMAIN up'[page.conn]
             /\ \A i \in DOMAIN up[page.conn] : up'[page.conn][i] = up[page.conn][i]
             /\ name = "chat" => \E i \in DOMAIN up'[page.conn] : up'[page.conn][i].name = "chat"
          \/ page'.link = "connecting"
<1>11. ASSUME page.link = "connecting" /\ page' = waits /\ up' = up
       PROVE  Wanted
  <2>1. PICK n \in 0..MaxAttempts : waits = [queued EXCEPT !.attempts = n]
    <3>1. 0 \in 0..MaxAttempts  BY BoundsAssumption, SMT
    <3>2. queued.attempts \in 0..MaxAttempts  BY <1>9, PageHas
    <3> QED  BY <3>1, <3>2, Zenon DEF waits
  <2>2. page' \in Page  BY <1>9, <1>11, <2>1, PageWith
  <2>3. /\ page'.busy = busy /\ page'.steps = steps1 /\ page'.link = "connecting" /\ page'.cursor = page.cursor
        /\ page'.review = page.review /\ page'.status = queued.status /\ page'.replies = queued.replies
        /\ page'.chats = queued.chats /\ page'.sent = queued.sent
    BY <1>9, <1>11, <2>1 DEF PageFields
  <2>4. DecidesIn(page', answered')  BY <1>9, <2>3 DEF DecidesIn
  <2>5. UpSort'  BY <1>1, <1>11 DEF UpSort
  <2> QED  BY <1>10, <2>2, <2>3, <2>4, <2>5
<1>12. ASSUME /\ page.link = "closed" /\ page.conn + 1 \in Conns
            /\ page' = [Connecting(queued) EXCEPT !.attempts = 0] /\ up' = up
       PROVE  Wanted
  <2>1. PICK x \in Page : x = Connecting(queued)
    BY <1>9, <1>12, PageWith DEF Connecting
  <2>2. 0 \in 0..MaxAttempts  BY BoundsAssumption, SMT
  <2>3. page' \in Page  BY <1>12, <2>1, <2>2, PageWith
  <2>4. /\ page'.busy = busy /\ page'.steps = steps1 /\ page'.link = "connecting" /\ page'.cursor = page.cursor
        /\ page'.review = page.review /\ page'.status = queued.status /\ page'.replies = queued.replies
        /\ page'.chats = queued.chats /\ page'.sent = queued.sent
    BY <1>9, <1>12 DEF Connecting, PageFields
  <2>5. DecidesIn(page', answered')  BY <1>9, <2>4 DEF Decisions, DecidesIn
  <2>6. UpSort'  BY <1>1, <1>12 DEF UpSort
  <2> QED  BY <1>10, <2>3, <2>4, <2>5, <2>6
<1>13. ASSUME /\ page.link = "open" /\ up' = [up EXCEPT ![page.conn] = Append(@, m)]
            /\ page' = [ordered EXCEPT !.status = IF name \in OfflineCommands THEN @ ELSE Decided(name)]
       PROVE  Wanted
  <2>1. page' = [ordered EXCEPT !.status = status]  BY <1>7, <1>13
  <2>2. status \in {"idle", "pending", "submitting", "accepted", "rejected", "expired"}
        /\ (status # page.status => name \notin OfflineCommands)
    BY <1>1 DEF Decided
  <2> HIDE DEF status
  <2>3. page' \in Page  BY <1>7, <2>1, <2>2, PageWith
  <2>4. /\ page'.busy = busy /\ page'.steps = steps1 /\ page'.link = "open" /\ page'.cursor = page.cursor
        /\ page'.conn = page.conn
        /\ page'.review = page.review /\ page'.status = status /\ page'.replies = page.replies
        /\ page'.chats = page.chats /\ page'.sent = ordered.sent
    BY <1>7, <1>13, <2>1 DEF PageFields
  <2>5. DecidesIn(page', answered')
    <3>1. name \notin OfflineCommands => page.review # NoReview  BY <1>1, <1>17 DEF Decisions
    <3> QED  BY <1>5, <1>7, <1>8, <2>2, <2>4, <3>1 DEF Decisions, DecidesIn
  <2>6. up[page.conn] \in Seq(Command) /\ up'[page.conn] = Append(up[page.conn], m)
    BY <1>1, <1>13
  <2> HIDE DEF m
  <2>7. Append(up[page.conn], m) \in Seq(Command)  BY <1>3, <2>6, SMT
  <2>8. UpSort'  BY <1>1, <1>13, <2>7 DEF UpSort
  <2>9. /\ DOMAIN up[page.conn] \subseteq DOMAIN up'[page.conn]
        /\ \A i \in DOMAIN up[page.conn] : up'[page.conn][i] = up[page.conn][i]
        /\ \E i \in DOMAIN up'[page.conn] : up'[page.conn][i] = m
    <3>1. \A s \in Seq(Command) : \A x \in Command :
             /\ Len(s) \in Nat /\ DOMAIN s = 1..Len(s) /\ DOMAIN Append(s, x) = 1..(Len(s) + 1)
             /\ \A i \in 1..Len(s) : Append(s, x)[i] = s[i]
             /\ Append(s, x)[Len(s) + 1] = x
      BY SMT
    <3>2. /\ Len(up[page.conn]) \in Nat /\ DOMAIN up[page.conn] = 1..Len(up[page.conn])
          /\ DOMAIN up'[page.conn] = 1..(Len(up[page.conn]) + 1)
          /\ \A i \in 1..Len(up[page.conn]) : up'[page.conn][i] = up[page.conn][i]
          /\ up'[page.conn][Len(up[page.conn]) + 1] = m
      BY <1>3, <2>6, <3>1
    <3>3. \A k \in Nat : k + 1 \in 1..(k + 1) /\ 1..k \subseteq 1..(k + 1)  BY SMT
    <3> QED  BY <3>2, <3>3
  <2> QED  BY <1>3, <1>10, <1>13, <2>3, <2>4, <2>5, <2>8, <2>9
<1>14. Wanted
  <2> HIDE DEF m, Wanted
  <2>1. CASE /\ page.link = "open" /\ up' = [up EXCEPT ![page.conn] = Append(@, m)]
             /\ page' = [ordered EXCEPT !.status = IF name \in OfflineCommands THEN @ ELSE Decided(name)]
    BY <1>13, <2>1
  <2>2. CASE page.link = "connecting" /\ page' = waits /\ up' = up
    BY <1>11, <2>2
  <2>3. CASE /\ page.link = "closed" /\ page.conn + 1 \in Conns
             /\ page' = [Connecting(queued) EXCEPT !.attempts = 0] /\ up' = up
    BY <1>12, <2>3
  <2> QED  BY <1>2, <2>1, <2>2, <2>3
<1>15. PageSort'
  <2>1. Page' = Page  BY <1>16 DEF Page
  <2>2. Decisions(page)'  BY <1>14 DEF Decisions, DecidesIn
  <2> QED  BY <1>14, <2>1, <2>2 DEF PageSort
<1> HIDE DEF m
<1> QED  BY <1>5, <1>10, <1>14, <1>15

LEMMA UserKeepsShown ==
    ASSUME SInv, IInv', NEW name, name \in CommandNames, User(name)
    PROVE  SInv'
<1>0. /\ Sorts /\ Finished /\ Stepped /\ Ordered /\ Held /\ StepsShown /\ BusyShown /\ ReviewShown
  BY DEF SInv
<1>1. UNCHANGED <<server, session, down, faults, missed, given, notice>>
  BY Zenon DEF User
<1>2. /\ epoch' = epoch /\ log' = log /\ first' = first /\ steps' = steps /\ reviews' = reviews
      /\ socket' = socket /\ lock' = lock /\ coroutine' = coroutine /\ activity' = activity
      /\ late' = late /\ waiting' = waiting /\ counts' = counts /\ command' = command
      /\ down' = down /\ faults' = faults /\ missed' = missed /\ given' = given /\ notice' = notice
  BY <1>1 DEF server, session
<1>3. /\ PageSort' /\ page'.review = page.review /\ page'.cursor = page.cursor
      /\ answered \subseteq answered' /\ answered' \subseteq Reviews /\ UpSort'
      /\ name # "chat" => page'.steps = page.steps /\ page'.busy = page.busy
      /\ page.busy => page'.busy
      /\ \/ /\ page.link = "open" /\ page'.link = "open" /\ page'.conn = page.conn
            /\ DOMAIN up[page.conn] \subseteq DOMAIN up'[page.conn]
            /\ \A i \in DOMAIN up[page.conn] : up'[page.conn][i] = up[page.conn][i]
            /\ name = "chat" => \E i \in DOMAIN up'[page.conn] : up'[page.conn][i].name = "chat"
         \/ page'.link = "connecting"
  BY UserIsPage
<1>4. ObserverSort' /\ EpochSort'
  BY <1>0, <1>2, <1>3 DEF Sorts, ObserverSort, EpochSort
<1>5. CASE page'.link = "connecting"
  <2>1. ~ IsOpen' /\ down' = <<>>  BY <1>5 DEF IInv, Wires, IsOpen
  <2> QED  BY <1>1, <1>2, <1>3, <1>4, <2>1, ApartKeepsShown
<1>6. CASE /\ page.link = "open" /\ page'.link = "open" /\ page'.conn = page.conn
           /\ DOMAIN up[page.conn] \subseteq DOMAIN up'[page.conn]
           /\ \A i \in DOMAIN up[page.conn] : up'[page.conn][i] = up[page.conn][i]
           /\ name = "chat" => \E i \in DOMAIN up'[page.conn] : up'[page.conn][i].name = "chat"
  <2>1. /\ (Known' <=> Known) /\ IsOpen /\ IsOpen' /\ (Sending' <=> Sending)
        /\ (Subscribed' <=> Subscribed) /\ (Unattached' <=> Unattached)
        /\ (Truncating' <=> Truncating)
    BY <1>2, <1>3, <1>6 DEF Known, IsOpen, Sending, Subscribed, Unattached, Truncating, Truncated
  <2>2. \A i : (IsSync(i)' <=> IsSync(i)) /\ (IsEvent(i)' <=> IsEvent(i))
    BY <1>2 DEF IsSync, IsEvent
  <2>3. \A i : TellsAfter(i)' <=> TellsAfter(i)
    BY <1>2, <2>1, <2>2 DEF TellsAfter
  <2>4. \A kinds : Ended(kinds)' <=> Ended(kinds)  BY <1>2 DEF Ended
  <2>5. LogSort' /\ StateSort' /\ LockSort' /\ TaskSort' /\ CommandSort' /\ Carries'
    BY <1>0, <1>2, <2>2 DEF Sorts, LogSort, StateSort, LockSort, TaskSort, CommandSort, Carries
  <2>6. Sorts'  BY <1>3, <1>4, <2>5 DEF Sorts
  <2>7. Ordered'  BY <1>0, <1>2, <1>3, <2>1, <2>2 DEF Ordered
  <2>8. Held'  BY <1>0, <1>2, <1>6, <2>1, <2>3 DEF Held
  <2>9. Finished' /\ Stepped'  BY <1>0, <1>2, <2>4 DEF Finished, Stepped
  <2>10. TooEarly => TooEarly'  BY <1>2, <1>6 DEF TooEarly
  <2>11. name = "chat" => TooEarly'  BY <1>6 DEF TooEarly
  <2>12. StepsShown'
    <3> SUFFICES ASSUME Subscribed', ~ Ended(Terminals)', ~ TooEarly', NEW s \in steps' PROVE StepThen(s)'
      BY DEF StepsShown
    <3>1. Subscribed /\ ~ Ended(Terminals) /\ ~ TooEarly /\ s \in steps /\ page'.steps = page.steps
      BY <1>2, <1>3, <2>1, <2>4, <2>10, <2>11
    <3>2. StepThen(s)  BY <1>0, <3>1 DEF StepsShown
    <3> QED  BY <1>2, <2>1, <3>1, <3>2 DEF StepThen
  <2>13. BusyShown'
    <3> SUFFICES ASSUME Subscribed', coroutine'[page'.conn].at = "attached", Works' PROVE BusyThen'
      BY DEF BusyShown
    <3>1. Subscribed /\ coroutine[page.conn].at = "attached" /\ Works
      BY <1>2, <1>6, <2>1, <2>4 DEF Works
    <3>2. BusyThen  BY <1>0, <3>1 DEF BusyShown
    <3> QED  BY <1>2, <1>3, <2>1, <3>2 DEF BusyThen
  <2>14. ReviewShown'
    <3> SUFFICES ASSUME NEW n, Waiting(n)' PROVE (ShownOf(n) /\ SyncedOf(n) /\ ReplayedOf(n) /\ ComesOf(n))'
      BY DEF ReviewShown
    <3>1. Waiting(n)  BY <1>2, <1>3 DEF Waiting
    <3>2. ShownOf(n) /\ SyncedOf(n) /\ ReplayedOf(n) /\ ComesOf(n)  BY <1>0, <3>1 DEF ReviewShown
    <3>3. Handled(n)' <=> Handled(n)  BY <1>3, <2>1 DEF Handled
    <3>4. Brings(n)' <=> Brings(n)  BY <1>2, <2>2 DEF Brings
    <3>5. \A i : Before(n, i)' <=> Before(n, i)  BY <1>2, <2>2, <3>3 DEF Before
    <3>6. ShownOf(n)'  BY <1>2, <1>3, <3>2, <3>3 DEF ShownOf
    <3>7. SyncedOf(n)'  BY <1>2, <2>2, <3>2, <3>5 DEF SyncedOf
    <3>8. ReplayedOf(n)'  BY <1>2, <2>1, <3>2, <3>3, <3>4 DEF ReplayedOf
    <3>9. ComesOf(n)'  BY <1>2, <2>1, <2>3, <3>2, <3>3, <3>4 DEF ComesOf
    <3> QED  BY <3>6, <3>7, <3>8, <3>9
  <2> QED  BY <2>6, <2>7, <2>8, <2>9, <2>12, <2>13, <2>14 DEF SInv
<1> QED  BY <1>3, <1>5, <1>6

-----------------------------------------------------------------------------
(* A connection's coroutine attaches, or ends.                               *)

LEMMA FaultsStay == SInv /\ faults' = faults => faults' \in faults..MaxFaults
<1> SUFFICES ASSUME SInv, faults' = faults PROVE faults' \in faults..MaxFaults
  OBVIOUS
<1>1. faults \in 0..MaxFaults  BY DEF SInv, Sorts, EpochSort
<1> QED  BY <1>1, BoundsAssumption, SMT

LEMMA DetachKeepsShown ==
    ASSUME SInv, IInv', NEW c \in Conns, Detach(c)
    PROVE  SInv'
<1>0. Types /\ Sorts /\ Offline \notin Conns  BY ConnsAreNumbers DEF SInv, IInv
<1>1. /\ ~ Reaches(c)
      /\ \/ lock' = lock
         \/ lock.by = "attach" /\ lock.to = c /\ lock' = Free
      /\ coroutine' = [coroutine EXCEPT ![c] = [NoCoroutine EXCEPT !.at = "gone"]]
      /\ socket' = IF socket = c THEN Offline ELSE socket
      /\ UNCHANGED <<epoch, log, first, steps, reviews, session, down, up, faults, page, observer>>
  BY DEF Detach
<1>2. Calm  BY <1>1, FaultsStay, SameSessionIsCalm
<1>3. IsOpen => c # page.conn  BY <1>1 DEF Reaches, IsOpen
<1>4. (Sending' <=> Sending) /\ (IsOpen' <=> IsOpen)
  BY <1>1 DEF Sending, Senders, Free, IsOpen
<1>5. IsOpen => /\ coroutine'[page.conn] = coroutine[page.conn]
                /\ (lock'.by = "attach" /\ lock'.to = page.conn <=> lock.by = "attach" /\ lock.to = page.conn)
                /\ lock.to = page.conn /\ lock.by = "attach" => lock'.event = lock.event
  BY <1>0, <1>1, <1>3 DEF Types, Free
<1>6. IsOpen => (Truncating' <=> Truncating) /\ (Unattached' <=> Unattached)
  BY <1>1, <1>5 DEF Truncating, Truncated, Unattached
<1>7. \A i : IsSync(i)' <=> IsSync(i)  BY <1>1 DEF IsSync
<1>8. \A i : TellsAfter(i)' <=> TellsAfter(i)
  BY <1>1, <1>4, <1>6, <1>7 DEF TellsAfter
<1>9. LockSort'
  <2>1. PICK N \in Nat : N = Len(log)  BY <1>0 DEF Types, IsSequence
  <2>2. lock'.event \in {lock.event, 0}  BY <1>1 DEF Free
  <2>3. lock.event \in 0..N /\ Len(log') = N  BY <1>0, <1>1, <2>1 DEF Sorts, LockSort
  <2> QED  BY <2>2, <2>3, SMT DEF LockSort
<1>10. Subscribed' => Subscribed
  BY <1>0, <1>1, <1>4 DEF Subscribed, Types
<1> QED  BY <1>1, <1>2, <1>4, <1>5, <1>6, <1>8, <1>9, <1>10, StillKeeps DEF Still

\* What a connection lacks.
Lacking == IF Known THEN {n \in first..Len(log) : n > page.cursor.seq} ELSE Current

\* An event a page without a cursor is given is a step, a review or an end of the run.
LEMMA CurrentKinds ==
    ASSUME NEW n \in Current
    PROVE  /\ n \in DOMAIN log
           /\ \/ log[n].kind \in {"progress", "review"}
              \/ log[n].kind \in Terminals /\ \A k \in DOMAIN log : k > n => log[k].kind # "started"
<1>1. n \in DOMAIN log  BY CurrentIsOfTheLog
<1>2. CASE n \in SinceStart(Newest({"progress"}))
  BY <1>1, <1>2 DEF SinceStart, Newest
<1>3. CASE n \in ReviewEvents
  <2>1. PICK E \in {{x \in DOMAIN log :
            log[x] = Ev("review", r) /\ \A y \in DOMAIN log : y > x => log[y] # log[x]} : r \in reviews} : n \in E
    BY <1>3, Zenon DEF ReviewEvents
  <2>2. PICK r : log[n] = Ev("review", r)  BY <2>1
  <2> QED  BY <1>1, <2>2 DEF Ev
<1>4. CASE n \in SinceStart(Newest(Terminals))
  BY <1>1, <1>4 DEF SinceStart, Newest
<1> QED  BY <1>2, <1>3, <1>4 DEF Current

\* The replay arrives behind the snapshot, in the order of the log.
LEMMA ReplayArrives ==
    ASSUME IInv, NEW c \in Conns, AttachBegins(c), IsOpen, c = page.conn
    PROVE  /\ 1 \in DOMAIN down' /\ down'[1] = Snapshot /\ DOMAIN down' \subseteq Nat \ {0}
           /\ Lacking \subseteq DOMAIN log
           /\ \A i \in DOMAIN down' : i # 1 => \E n \in Lacking : down'[i] = EventMessage(n)
           /\ \A n \in Lacking : \E i \in DOMAIN down' : i # 1 /\ down'[i] = EventMessage(n)
           /\ \A i, j \in DOMAIN down' : i # 1 /\ i < j => down'[i].seq < down'[j].seq
<1>0. Types /\ Fresh  BY DEF IInv
<1>1. /\ coroutine[c].at = "opening" /\ lock = Free
      /\ \E replay \in InOrder(Lacking) :
            Arrives(c, <<Snapshot>> \o [i \in DOMAIN replay |-> EventMessage(replay[i])])
  <2> DEFINE lacking == IF Known THEN {n \in first..Len(log) : n > page.cursor.seq} ELSE Current
  <2>1. \E replay \in InOrder(lacking) :
           Arrives(c, <<Snapshot>> \o [i \in DOMAIN replay |-> EventMessage(replay[i])])
    BY DEF AttachBegins, Known
  <2>2. lacking = Lacking  BY DEF Lacking
  <2> HIDE DEF lacking
  <2>3. coroutine[c].at = "opening" /\ lock = Free  BY DEF AttachBegins
  <2> QED  BY <2>1, <2>2, <2>3
<1>2. PICK N \in Nat : N = Len(log) /\ DOMAIN log = 1..N
  BY <1>0 DEF Types, IsSequence
<1>3. Lacking \subseteq DOMAIN log
  <2>1. first \in Nat \ {0}  BY <1>0 DEF Types
  <2> QED  BY <1>2, <2>1, CurrentIsOfTheLog, SMT DEF Lacking
<1>4. down = <<>> /\ IsSequence(down) /\ DOMAIN down = {}
  BY <1>0, <1>1, EmptyIsSequence DEF Fresh, Free
<1>5. PICK replay \in InOrder(Lacking) :
        down' = down \o (<<Snapshot>> \o [i \in DOMAIN replay |-> EventMessage(replay[i])])
  BY <1>1 DEF Arrives, Reaches, IsOpen
<1>6. PICK k \in Nat : /\ replay \in [1..k -> Lacking]
                       /\ \A n \in Lacking : \E i \in 1..k : replay[i] = n
                       /\ \A i, j \in 1..k : i < j => replay[i] < replay[j]
  <2>1. IsSequence(log)  BY <1>0, Zenon DEF Types
  <2>2. Lacking \in SUBSET DOMAIN log  BY <1>3, Zenon
  <2> QED  BY <1>5, <2>1, <2>2, ReplayIsOfTheLog, Zenon
<1> DEFINE r == [i \in 1..k |-> EventMessage(replay[i])]
           R == {EventMessage(n) : n \in Lacking}
           m == Snapshot
<1>7. r \in [1..k -> R]  BY <1>6
<1>8. DOMAIN replay = 1..k  BY <1>6
<1>9. down' = down \o (<<m>> \o r)  BY <1>5, <1>8
<1>10. \A j \in 1..k : r[j] = EventMessage(replay[j])  OBVIOUS
<1> HIDE DEF r, R, m
<1>11. DOMAIN down' = 1..(1 + k) /\ down'[1] = m /\ \A j \in 1..k : down'[1 + j] = r[j]
  <2>1. IsSequence(r) /\ k = Len(r)
    <3>1. r \in Seq(R) /\ Len(r) = k  BY <1>6, <1>7, SMT
    <3> QED  BY <3>1 DEF IsSequence
  <2> DEFINE t == down \o (<<m>> \o r)
  <2>3. t = down \o (<<m>> \o r) /\ down' = t  BY <1>9
  <2> HIDE DEF t
  <2>2. /\ DOMAIN t = 1..(Len(down) + 1 + k)
        /\ t[Len(down) + 1] = m
        /\ \A j \in 1..k : t[Len(down) + 1 + j] = r[j]
    BY <1>4, <2>1, <2>3, ManyMore
  <2>4. Len(down) = 0  BY <1>4
  <2>5. /\ DOMAIN down' = 1..(0 + 1 + k) /\ down'[0 + 1] = m
        /\ \A j \in 1..k : down'[0 + 1 + j] = r[j]
    BY <2>2, <2>3, <2>4, Zenon
  <2>6. 0 + 1 + k = 1 + k /\ 0 + 1 = 1 /\ \A j \in 1..k : 0 + 1 + j = 1 + j  BY SMT
  <2> QED  BY <2>5, <2>6
<1>12. \A j \in 1..k : 1 + j \in DOMAIN down' /\ 1 + j # 1 /\ down'[1 + j] = EventMessage(replay[j])
  <2>1. \A j \in 1..k : 1 + j \in 1..(1 + k) /\ 1 + j # 1  BY SMT
  <2> QED  BY <1>10, <1>11, <2>1
<1>13. \A i \in DOMAIN down' : i # 1 => \E j \in 1..k : i = 1 + j
  <2>1. \A i \in 1..(1 + k) : i # 1 => i - 1 \in 1..k /\ i = 1 + (i - 1)  BY SMT
  <2> QED  BY <1>11, <2>1
<1>14. 1 \in DOMAIN down' /\ DOMAIN down' \subseteq Nat \ {0}
  <2>1. 1 \in 1..(1 + k) /\ 1..(1 + k) \subseteq Nat \ {0}  BY SMT
  <2> QED  BY <1>11, <2>1, Zenon
<1>15. down'[1] = Snapshot  BY <1>11 DEF m
<1>16. \A i \in DOMAIN down' : i # 1 => \E n \in Lacking : down'[i] = EventMessage(n)
  <2> SUFFICES ASSUME NEW i \in DOMAIN down', i # 1
               PROVE  \E n \in Lacking : down'[i] = EventMessage(n)
    OBVIOUS
  <2>1. PICK j \in 1..k : i = 1 + j  BY <1>13
  <2>2. replay[j] \in Lacking  BY <1>6
  <2>3. down'[i] = EventMessage(replay[j])  BY <1>12, <2>1
  <2> QED  BY <2>2, <2>3
<1>17. \A n \in Lacking : \E i \in DOMAIN down' : i # 1 /\ down'[i] = EventMessage(n)
  BY <1>6, <1>12
<1>18. ASSUME NEW i \in DOMAIN down', NEW j \in DOMAIN down', i # 1, i < j
       PROVE  down'[i].seq < down'[j].seq
  <2>1. j # 1
    <3>1. i \in Nat \ {0} /\ j \in Nat  BY <1>14
    <3> QED  BY <1>18, <3>1
  <2>2. PICK a \in 1..k : i = 1 + a  BY <1>13, <1>18
  <2>3. PICK b \in 1..k : j = 1 + b  BY <1>13, <2>1
  <2>4. a < b  BY <1>18, <2>2, <2>3, SMT
  <2>5. replay[a] < replay[b]  BY <1>6, <2>4
  <2>6. down'[i] = EventMessage(replay[a]) /\ down'[j] = EventMessage(replay[b])
    BY <1>12, <2>2, <2>3
  <2>7. down'[i].seq = replay[a] /\ down'[j].seq = replay[b]
    BY <2>6 DEF EventMessage
  <2> QED  BY <2>5, <2>7
<1> QED  BY <1>3, <1>14, <1>15, <1>16, <1>17, <1>18

\* A connection that is not the page's attaches.
LEMMA AttachElsewhereKeepsShown ==
    ASSUME SInv, IInv', NEW c \in Conns, AttachBegins(c), ~ (IsOpen /\ c = page.conn)
    PROVE  SInv'
<1>0. Types /\ Wires /\ Sorts /\ Finished /\ Stepped /\ Held /\ ReviewShown  BY DEF SInv, IInv
<1>1. /\ coroutine[c].at = "opening" /\ lock = Free /\ socket' = c
      /\ given' = (IF c # page.conn THEN given ELSE IF Known THEN 0 ELSE Len(log))
      /\ lock' = [by |-> "attach", to |-> c, event |-> IF Known THEN page.cursor.seq ELSE 0]
      /\ UNCHANGED <<epoch, log, first, steps, reviews, coroutine,
                     session, up, faults, page, missed, answered, notice>>
  BY DEF AttachBegins, Known
<1>2. down' = down  BY DEF AttachBegins, Arrives, Reaches, IsOpen
<1>3. LockSort'
  <2>1. PICK N \in Nat : N = Len(log)  BY <1>0 DEF Types, IsSequence
  <2>2. lock'.event = (IF Known THEN page.cursor.seq ELSE 0) /\ Len(log') = N  BY <1>1, <2>1
  <2>3. Known => page.cursor.seq \in 1..N  BY <1>0, <2>1 DEF Types
  <2> QED  BY <2>2, <2>3, SMT DEF LockSort
<1>4. ~ Sending /\ ~ Sending' /\ (IsOpen' <=> IsOpen) /\ (Known' <=> Known)
  BY <1>1 DEF Sending, Senders, Free, IsOpen, Known
<1>5. CASE IsOpen
  <2>1. c # page.conn /\ given' = given  BY <1>1, <1>5
  <2>2. Calm  BY <1>1, <2>1, FaultsStay, SameSessionIsCalm DEF observer
  <2>3. ~ Truncating /\ ~ Truncating' /\ ~ Subscribed' /\ (Unattached' <=> Unattached)
    BY <1>1, <2>1 DEF Truncating, Free, Subscribed, Unattached
  <2>4. \A i : IsSync(i)' <=> IsSync(i)  BY <1>2 DEF IsSync
  <2>5. \A i : TellsAfter(i)' <=> TellsAfter(i)
    BY <1>2, <1>4, <2>3, <2>4 DEF TellsAfter
  <2> QED  BY <1>1, <1>2, <1>3, <1>4, <2>2, <2>3, <2>5, StillKeeps DEF Still
<1>6. CASE ~ IsOpen
  <2>1. down' = <<>>  BY <1>0, <1>2, <1>6 DEF Wires
  <2>2. Finished' /\ Stepped'  BY <1>0, <1>1 DEF Finished, Stepped, Ended, session
  <2>3. EpochSort' /\ LogSort' /\ StateSort' /\ TaskSort' /\ CommandSort' /\ UpSort' /\ ObserverSort'
    BY <1>0, <1>1 DEF Sorts, EpochSort, LogSort, StateSort, TaskSort, CommandSort, UpSort, ObserverSort, session
  <2>4. PageSort'  BY <1>0, <1>1 DEF Sorts, PageSort, Page, Decisions
  <2>5. ~ Subscribed' /\ ~ TellsAfter(0)' /\ ~ IsOpen'  BY <1>4, <1>6 DEF Subscribed, TellsAfter
  <2>6. notice' # "none" \/ missed' # {} => Known'  BY <1>0, <1>1, <1>4 DEF Held
  <2>7. ASSUME NEW n, Waiting(n)' PROVE ShownOf(n)'
    <3>1. Waiting(n)  BY <1>1, <2>7 DEF Waiting, session
    <3>2. ShownOf(n)  BY <1>0, <3>1 DEF ReviewShown
    <3> QED  BY <1>1, <1>4, <3>2 DEF ShownOf, Handled
  <2> QED  BY <1>3, <1>4, <2>1, <2>2, <2>3, <2>4, <2>5, <2>6, <2>7, AwayKeeps
<1> QED  BY <1>5, <1>6

\* The page's connection attaches.
LEMMA AttachHereKeepsShown ==
    ASSUME SInv, IInv', NEW c \in Conns, AttachBegins(c), IsOpen, c = page.conn
    PROVE  SInv'
<1>0. Types /\ Sorts /\ Finished /\ Stepped /\ Held /\ ReviewShown /\ IInv  BY DEF SInv, IInv
<1>1. /\ coroutine[c].at = "opening" /\ lock = Free /\ socket' = c
      /\ given' = (IF Known THEN 0 ELSE Len(log))
      /\ lock' = [by |-> "attach", to |-> c, event |-> IF Known THEN page.cursor.seq ELSE 0]
      /\ UNCHANGED <<epoch, log, first, steps, reviews, coroutine,
                     session, up, faults, page, missed, answered, notice>>
  BY DEF AttachBegins, Known
<1>2. /\ 1 \in DOMAIN down' /\ down'[1] = Snapshot /\ DOMAIN down' \subseteq Nat \ {0}
      /\ Lacking \subseteq DOMAIN log
      /\ \A i \in DOMAIN down' : i # 1 => \E n \in Lacking : down'[i] = EventMessage(n)
      /\ \A n \in Lacking : \E i \in DOMAIN down' : i # 1 /\ down'[i] = EventMessage(n)
      /\ \A i, j \in DOMAIN down' : i # 1 /\ i < j => down'[i].seq < down'[j].seq
  BY <1>0, ReplayArrives
<1>3. PICK N \in Nat : N = Len(log) /\ DOMAIN log = 1..N  BY <1>0 DEF Types, IsSequence
<1>4. /\ down'[1].what = "snapshot" /\ down'[1].steps = steps
      /\ \A n : /\ EventMessage(n).what = "event" /\ EventMessage(n).seq = n
                /\ EventMessage(n).event = log[n]
  BY <1>2 DEF Snapshot, EventMessage
<1>5. \A i \in DOMAIN down' :
         /\ ~ IsSync(i)'
         /\ IsEvent(i)' <=> i # 1
         /\ i # 1 => \E n \in Lacking : down'[i] = EventMessage(n) /\ down'[i].seq = n /\ down'[i].event = log[n]
  BY <1>2, <1>4 DEF IsSync, IsEvent
<1>6. /\ ~ Sending /\ ~ Sending' /\ IsOpen' /\ (Known' <=> Known) /\ ~ Unattached'
      /\ (Truncating' <=> Truncated(IF Known THEN page.cursor.seq ELSE 0))
  BY <1>1 DEF Sending, Senders, Free, IsOpen, Known, Unattached, Truncating, Truncated
<1>7. /\ page.cursor.seq \in Nat /\ first \in Nat \ {0} /\ (Known => page.cursor.seq \in 1..N)
      /\ Known => Lacking = {n \in first..N : n > page.cursor.seq}
      /\ ~ Known => Lacking = Current
  BY <1>0, <1>3 DEF Types, Lacking
<1>8. TellsAfter(0)' => Known
  <2> SUFFICES ASSUME TellsAfter(0)' PROVE Known
    OBVIOUS
  <2>1. Truncating'  BY <1>5 DEF TellsAfter, IsSync
  <2> QED  BY <1>6, <2>1 DEF Truncated
<1>9. Sorts'
  <2>1. EpochSort' /\ LogSort' /\ StateSort' /\ TaskSort' /\ CommandSort' /\ UpSort' /\ ObserverSort'
    BY <1>0, <1>1 DEF Sorts, EpochSort, LogSort, StateSort, TaskSort, CommandSort, UpSort, ObserverSort, session
  <2>2. PageSort'  BY <1>0, <1>1 DEF Sorts, PageSort, Page, Decisions
  <2>3. LockSort'
    <3>1. lock'.event = (IF Known THEN page.cursor.seq ELSE 0) /\ Len(log') = N  BY <1>1, <1>3
    <3> QED  BY <1>7, <3>1, SMT DEF LockSort
  <2>4. Carries'
    <3>1. steps \subseteq Steps /\ log' = log  BY <1>0, <1>1 DEF Sorts, StateSort
    <3> SUFFICES ASSUME NEW i \in DOMAIN down'
                 PROVE  /\ IsEvent(i)' => down'[i].event = log'[down'[i].seq]
                        /\ down'[i].what = "snapshot" => down'[i].steps \subseteq Steps
                        /\ IsSync(i)' => down'[i].running \in BOOLEAN
      BY DEF Carries
    <3>2. CASE i = 1  BY <1>4, <1>5, <3>1, <3>2
    <3>3. CASE i # 1  BY <1>4, <1>5, <3>1, <3>3
    <3> QED  BY <3>2, <3>3
  <2> QED  BY <2>1, <2>2, <2>3, <2>4 DEF Sorts
<1>10. Ordered'
  <2>1. \A i, j \in DOMAIN down' : IsEvent(i)' /\ IsEvent(j)' /\ i < j => down'[i].seq < down'[j].seq
    BY <1>2, <1>5
  <2>2. ASSUME NEW i \in DOMAIN down', IsEvent(i)', Known' PROVE page'.cursor.seq < down'[i].seq
    <3>1. PICK n \in Lacking : down'[i].seq = n  BY <1>5, <2>2
    <3>2. n \in Nat /\ n > page.cursor.seq  BY <1>3, <1>6, <1>7, <2>2
    <3> QED  BY <1>1, <1>7, <3>1, <3>2
  <2> QED  BY <1>6, <2>1, <2>2 DEF Ordered
<1>11. Held'
  BY <1>0, <1>1, <1>6, <1>8 DEF Held
<1>12. Finished' /\ Stepped'  BY <1>0, <1>1 DEF Finished, Stepped, Ended, session
<1>13. StepsShown'
  <2> SUFFICES ASSUME ~ Ended(Terminals)', NEW s \in steps' PROVE StepThen(s)'
    BY DEF StepsShown
  <2>1. ~ Ended(Terminals) /\ s \in steps  BY <1>1 DEF Ended
  <2>2. PICK n0 \in DOMAIN log : log[n0] = Ev("progress", s) /\ \A k \in DOMAIN log : k > n0 => log[k].kind # "started"
    BY <1>0, <2>1 DEF Stepped
  <2>3. \A n \in DOMAIN log : log[n].kind \in Endings => n < n0
    <3> SUFFICES ASSUME NEW n \in DOMAIN log, log[n].kind \in Endings, ~ (n < n0) PROVE FALSE
      OBVIOUS
    <3>1. n \in Nat /\ n0 \in Nat  BY <1>3
    <3>2. \A k \in DOMAIN log : k > n => k > n0  BY <1>3, <3>1, SMT
    <3>3. Ended(Terminals)  BY <2>2, <3>2 DEF Ended, Endings, Terminals
    <3> QED  BY <2>1, <3>3
  <2>4. \A i \in DOMAIN down' : Clears(down'[i], s) => i # 1 /\ down'[i].event.kind \in Endings
    <3> SUFFICES ASSUME NEW i \in DOMAIN down', Clears(down'[i], s)
                 PROVE  i # 1 /\ down'[i].event.kind \in Endings
      OBVIOUS
    <3>1. i # 1  BY <1>4, <2>1 DEF Clears
    <3>2. down'[i].what = "event"  BY <1>4, <1>5, <3>1
    <3> QED  BY <3>1, <3>2 DEF Clears
  <2>5. CASE n0 \in Lacking
    <3>1. PICK i \in DOMAIN down' : i # 1 /\ down'[i] = EventMessage(n0)  BY <1>2, <2>5
    <3>2. Gives(down'[i], s)  BY <1>4, <2>2, <3>1 DEF Gives
    <3>3. ASSUME NEW j \in DOMAIN down', j > i, Clears(down'[j], s) PROVE FALSE
      <4>1. j # 1 /\ down'[j].event.kind \in Endings  BY <2>4, <3>3
      <4>2. PICK n \in Lacking : down'[j].seq = n /\ down'[j].event = log[n]  BY <1>5, <4>1
      <4>3. n < n0  BY <1>2, <2>3, <4>1, <4>2
      <4>4. down'[i].seq < down'[j].seq
        <5>1. i < j  BY <1>2, <3>3
        <5> QED  BY <1>2, <3>1, <5>1
      <4>5. n0 < n /\ n \in Nat /\ n0 \in Nat  BY <1>2, <1>3, <1>4, <3>1, <4>2, <4>4, SMTT(30)
      <4> QED  BY <4>3, <4>5
    <3> QED  BY <3>1, <3>2, <3>3 DEF StepThen
  <2>6. CASE n0 \notin Lacking
    <3>1. ASSUME NEW j \in DOMAIN down', Clears(down'[j], s) PROVE FALSE
      <4>1. j # 1 /\ down'[j].event.kind \in Endings  BY <2>4, <3>1
      <4>2. PICK n \in Lacking : down'[j].seq = n /\ down'[j].event = log[n]  BY <1>5, <4>1
      <4>3. n \in DOMAIN log /\ log[n].kind \in Endings /\ n < n0  BY <1>2, <2>3, <4>1, <4>2
      <4>4. CASE Known
        <5>1. n \in first..N /\ n > page.cursor.seq  BY <1>7, <4>2, <4>4
        <5>2. n0 \in 1..N  BY <1>3
        <5>3. n0 \in first..N /\ n0 > page.cursor.seq  BY <1>7, <4>3, <5>1, <5>2, SMT
        <5> QED  BY <1>7, <2>6, <4>4, <5>3
      <4>5. CASE ~ Known
        <5>1. n \in Current  BY <1>7, <4>2, <4>5
        <5>2. log[n].kind \notin {"progress", "review"}  BY <4>3 DEF Endings
        <5>3. Ended(Terminals)  BY <5>1, <5>2, CurrentKinds DEF Ended
        <5> QED  BY <2>1, <5>3
      <4> QED  BY <4>4, <4>5
    <3>2. Gives(down'[1], s)  BY <1>4, <2>1 DEF Gives
    <3> QED  BY <1>2, <3>1, <3>2 DEF StepThen
  <2> QED  BY <2>5, <2>6
<1>14. BusyShown'
  <2>1. coroutine'[page'.conn].at = "opening"  BY <1>1
  <2> QED  BY <2>1 DEF BusyShown
<1>15. ReviewShown'
  <2> SUFFICES ASSUME NEW n, Waiting(n)' PROVE (ShownOf(n) /\ SyncedOf(n) /\ ReplayedOf(n) /\ ComesOf(n))'
    BY DEF ReviewShown
  <2>1. Waiting(n)  BY <1>1 DEF Waiting, session
  <2>2. ShownOf(n)  BY <1>0, <2>1 DEF ReviewShown
  <2>3. Handled(n)' <=> Handled(n)  BY <1>1, <1>6 DEF Handled
  <2>4. n \in 1..N /\ log[n].kind = "review" /\ n \in DOMAIN log  BY <1>3, <2>1 DEF Waiting
  <2>5. n \in Lacking => Brings(n)'
    <3> SUFFICES ASSUME n \in Lacking PROVE Brings(n)'
      OBVIOUS
    <3>1. PICK i \in DOMAIN down' : i # 1 /\ down'[i] = EventMessage(n)  BY <1>2
    <3> QED  BY <1>4, <1>5, <3>1 DEF Brings
  <2>6. ~ Known => Brings(n)'
    <3> SUFFICES ASSUME ~ Known PROVE n \in Lacking
      BY <2>5
    <3>1. log[n] \in Event  BY <1>0, <2>4 DEF Sorts, LogSort, Sound
    <3>2. log[n] = Ev("review", log[n].arg)  BY <2>4, <3>1 DEF Event, Ev
    <3>3. \A k \in DOMAIN log : k > n => log[k] # log[n]  BY <2>1, <2>4 DEF Waiting
    <3>4. log[n].arg \in reviews  BY <2>1 DEF Waiting
    <3>5. n \in ReviewEvents
      <4>1. PICK r \in reviews : r = log[n].arg  BY <3>4
      <4>2. n \in {x \in DOMAIN log : log[x] = Ev("review", r) /\ \A k \in DOMAIN log : k > x => log[k] # log[x]}
        BY <2>4, <3>2, <3>3, <4>1
      <4> QED  BY <4>2, Zenon DEF ReviewEvents
    <3> QED  BY <1>7, <3>5 DEF Current
  <2>7. ShownOf(n)'  BY <1>1, <2>2, <2>3 DEF ShownOf
  <2>8. SyncedOf(n)'  BY <1>5 DEF SyncedOf
  <2>9. ReplayedOf(n)'
    <3>1. CASE Known
      <4>1. given' = 0  BY <1>1, <3>1
      <4>2. ~ (n <= given')  BY <2>4, <4>1
      <4> QED  BY <4>2 DEF ReplayedOf
    <3> QED  BY <2>6, <3>1 DEF ReplayedOf
  <2>10. ComesOf(n)'
    <3> SUFFICES ASSUME ~ Handled(n)' PROVE Brings(n)' \/ TellsAfter(0)'
      BY DEF ComesOf
    <3>1. CASE Known
      <4>1. n > page.cursor.seq  BY <1>3, <1>7, <2>3, <2>4, <3>1 DEF Handled
      <4>2. CASE n >= first
        <5>1. n \in first..N  BY <1>7, <2>4, <4>2, SMT
        <5> QED  BY <1>7, <2>5, <3>1, <4>1, <5>1
      <4>3. CASE ~ (n >= first)
        <5>1. page.cursor.seq # 0 /\ page.cursor.seq < first - 1
          BY <1>7, <2>4, <3>1, <4>1, <4>3, SMT
        <5>2. Truncating'  BY <1>6, <3>1, <5>1 DEF Truncated
        <5> QED  BY <1>6, <5>2 DEF TellsAfter
      <4> QED  BY <4>2, <4>3
    <3> QED  BY <2>6, <3>1
  <2> QED  BY <2>7, <2>8, <2>9, <2>10
<1> QED  BY <1>9, <1>10, <1>11, <1>12, <1>13, <1>14, <1>15 DEF SInv

\* The session_sync says what is true when it is sent.
LEMMA AttachEndsKeepsShown ==
    ASSUME SInv, IInv', AttachEnds
    PROVE  SInv'
<1>0. /\ Types /\ Locks /\ Sorts /\ Ordered /\ Held /\ StepsShown /\ BusyShown /\ ReviewShown
      /\ Offline \notin Conns
  BY ConnsAreNumbers DEF SInv, IInv
<1> DEFINE m == [what |-> "sync", running |-> Running, pending |-> reviews, truncated |-> Truncated(lock.event)]
<1>1. /\ lock.by = "attach" /\ Arrives(lock.to, <<m>>)
      /\ coroutine' = [coroutine EXCEPT ![lock.to].at = "attached"] /\ lock' = Free
      /\ UNCHANGED <<epoch, log, first, steps, reviews, socket, session, up, faults, page, observer>>
  BY DEF AttachEnds
<1>2. /\ m.what = "sync" /\ m.running = Running /\ m.pending = reviews /\ m.truncated = Truncated(lock.event)
  OBVIOUS
<1> HIDE DEF m
<1>3. Calm  BY <1>1, FaultsStay, SameSessionIsCalm
<1>4. /\ (Known' <=> Known) /\ (IsOpen' <=> IsOpen)
      /\ \A kinds : Ended(kinds)' <=> Ended(kinds)
      /\ \A n : Waiting(n)' => Waiting(n)
      /\ \A n : Handled(n)' <=> Handled(n)
      /\ Works' => Works
      /\ LogSort' /\ StateSort' /\ PageSort' /\ ObserverSort' /\ Stepped'
  BY <1>3, CalmLeaves
<1>5. /\ ~ Sending /\ ~ Sending' /\ ~ Truncating' /\ (Subscribed' <=> Subscribed)
      /\ lock.to \in Conns /\ coroutine[lock.to].at = "opening"
      /\ coroutine'[lock.to].at = "attached"
      /\ lock.to # page.conn => coroutine'[page.conn] = coroutine[page.conn]
  BY <1>0, <1>1, <1>4 DEF Sending, Senders, Free, Truncating, Subscribed, Types, Locks
<1>6. LockSort'
  <2>1. PICK N \in Nat : N = Len(log)  BY <1>0 DEF Types, IsSequence
  <2>2. lock'.event = 0 /\ Len(log') = N  BY <1>1, <2>1 DEF Free
  <2> QED  BY <2>2, SMT DEF LockSort
<1>7. CASE ~ Reaches(lock.to)
  <2>1. down' = down /\ (IsOpen => lock.to # page.conn)  BY <1>1, <1>7 DEF Arrives, Reaches, IsOpen
  <2>2. IsOpen => ~ Truncating /\ (Unattached' <=> Unattached)
    BY <1>1, <1>5, <2>1 DEF Truncating, Unattached, Free
  <2>3. \A i : IsSync(i)' <=> IsSync(i)  BY <2>1 DEF IsSync
  <2>4. \A i : TellsAfter(i)' <=> TellsAfter(i)
    BY <1>4, <1>5, <2>1, <2>2, <2>3 DEF TellsAfter
  <2> QED  BY <1>3, <1>5, <1>6, <2>1, <2>2, <2>4, StillKeeps DEF Still
<1>8. CASE Reaches(lock.to)
  <2>1. lock.to = page.conn /\ IsOpen /\ down' = down \o <<m>> /\ page' = page /\ UNCHANGED <<epoch, log, steps, reviews, session, observer>>
    BY <1>1, <1>8 DEF Arrives, Reaches, IsOpen
  <2>2. PICK L \in Nat : /\ DOMAIN down = 1..L /\ DOMAIN down' = 1..(L + 1)
                         /\ \A i \in 1..L : down'[i] = down[i]
                         /\ down'[L + 1] = m
    <3>1. IsSequence(down)  BY <1>0 DEF Types
    <3>2. /\ Len(down) \in Nat /\ DOMAIN down = 1..Len(down) /\ DOMAIN (down \o <<m>>) = 1..(Len(down) + 1)
          /\ \A i \in 1..Len(down) : (down \o <<m>>)[i] = down[i]
          /\ (down \o <<m>>)[Len(down) + 1] = m
      BY <3>1, OneMore
    <3> QED  BY <2>1, <3>2, Zenon
  <2>3. /\ DOMAIN down \subseteq DOMAIN down' /\ \A i \in DOMAIN down : down'[i] = down[i]
        /\ L + 1 \in DOMAIN down' /\ L + 1 > 0 /\ \A i \in DOMAIN down' : i \in DOMAIN down \/ i = L + 1
        /\ \A i \in DOMAIN down : i < L + 1 /\ ~ (L + 1 < i)
        /\ \A i \in DOMAIN down' : ~ (i > L + 1)
    BY <2>2, SMT
  <2>4. /\ \A i \in DOMAIN down : (IsSync(i)' <=> IsSync(i)) /\ (IsEvent(i)' <=> IsEvent(i))
        /\ IsSync(L + 1)' /\ ~ IsEvent(L + 1)' /\ down'[L + 1] = m
    BY <1>2, <2>2, <2>3 DEF IsSync, IsEvent
  <2>5. Truncating <=> m.truncated  BY <1>1, <1>2, <2>1 DEF Truncating
  <2>6. TellsAfter(0)' <=> TellsAfter(0)
    <3>1. TellsAfter(0) => TellsAfter(0)'
      BY <1>4, <1>5, <2>1, <2>3, <2>4, <2>5 DEF TellsAfter
    <3>2. TellsAfter(0)' => TellsAfter(0)
      BY <1>4, <1>5, <2>1, <2>3, <2>4, <2>5 DEF TellsAfter
    <3> QED  BY <3>1, <3>2
  <2>7. Carries'
    <3> SUFFICES ASSUME NEW i \in DOMAIN down'
                 PROVE  /\ IsEvent(i)' => down'[i].event = log'[down'[i].seq]
                        /\ down'[i].what = "snapshot" => down'[i].steps \subseteq Steps
                        /\ IsSync(i)' => down'[i].running \in BOOLEAN
      BY DEF Carries
    <3>1. CASE i \in DOMAIN down  BY <1>0, <2>1, <2>3, <2>4, <3>1 DEF Sorts, Carries
    <3>2. CASE i = L + 1  BY <1>2, <2>4, <3>2 DEF Running
    <3> QED  BY <2>3, <3>1, <3>2
  <2>8. Sorts'  BY <1>3, <1>4, <1>6, <2>7 DEF Sorts, Calm
  <2>9. Ordered'
    <3>1. ASSUME NEW i \in DOMAIN down', NEW j \in DOMAIN down', IsEvent(i)', IsEvent(j)', i < j
          PROVE  down'[i].seq < down'[j].seq
      BY <1>0, <2>3, <2>4, <3>1 DEF Ordered
    <3>2. ASSUME NEW i \in DOMAIN down', IsEvent(i)', Known' PROVE page'.cursor.seq < down'[i].seq
      BY <1>0, <1>4, <2>1, <2>3, <2>4, <3>2 DEF Ordered
    <3> QED  BY <1>5, <3>1, <3>2 DEF Ordered
  <2>10. Held'  BY <1>0, <1>4, <1>5, <2>1, <2>6 DEF Held, observer
  <2>11. StepsShown'
    <3> SUFFICES ASSUME Subscribed', ~ Ended(Terminals)', ~ TooEarly', NEW s \in steps' PROVE StepThen(s)'
      BY DEF StepsShown
    <3>1. Subscribed /\ ~ Ended(Terminals) /\ ~ TooEarly /\ s \in steps
      BY <1>1, <1>4, <1>5, <2>1 DEF TooEarly, session
    <3>2. StepThen(s)  BY <1>0, <3>1 DEF StepsShown
    <3>3. ~ Clears(m, s)  BY <1>2 DEF Clears
    <3>4. CASE s \in page.steps /\ \A i \in DOMAIN down : ~ Clears(down[i], s)
      BY <2>1, <2>3, <2>4, <3>3, <3>4 DEF StepThen
    <3>5. CASE \E i \in DOMAIN down : Gives(down[i], s) /\ \A j \in DOMAIN down : j > i => ~ Clears(down[j], s)
      BY <2>3, <2>4, <3>3, <3>5 DEF StepThen
    <3> QED  BY <1>5, <3>2, <3>4, <3>5 DEF StepThen
  <2>12. BusyShown'
    <3> SUFFICES ASSUME Works' PROVE BusyThen'
      BY DEF BusyShown
    <3>1. m.running  BY <1>2, <1>4 DEF Works, Running
    <3>2. Begins(m)  BY <1>2, <3>1 DEF Begins
    <3> QED  BY <2>3, <2>4, <3>2 DEF BusyThen
  <2>13. ReviewShown'
    <3> SUFFICES ASSUME NEW n, Waiting(n)' PROVE (ShownOf(n) /\ SyncedOf(n) /\ ReplayedOf(n) /\ ComesOf(n))'
      BY DEF ReviewShown
    <3>1. ShownOf(n) /\ SyncedOf(n) /\ ReplayedOf(n) /\ ComesOf(n)
      BY <1>0, <1>4 DEF ReviewShown
    <3>2. Brings(n) => Brings(n)'  BY <2>3, <2>4 DEF Brings
    <3>3. \A i \in DOMAIN down : Before(n, i) => Before(n, i)'
      BY <1>4, <2>3, <2>4 DEF Before
    <3>4. ShownOf(n)'  BY <1>4, <2>1, <3>1 DEF ShownOf, observer
    <3>5. log'[n].arg \in m.pending /\ log' = log
      BY <1>2, <1>4, <2>1 DEF Waiting
    <3>6. SyncedOf(n)'  BY <2>3, <2>4, <3>1, <3>3, <3>5 DEF SyncedOf
    <3>7. ~ Unattached /\ given' = given /\ lock.to = page.conn
      BY <1>1, <2>1 DEF Unattached, observer
    <3>8. ReplayedOf(n)'  BY <1>4, <3>1, <3>2, <3>7 DEF ReplayedOf
    <3>9. ComesOf(n)'  BY <1>4, <1>5, <2>1, <2>6, <3>1, <3>2 DEF ComesOf, observer
    <3> QED  BY <3>4, <3>6, <3>8, <3>9
  <2> QED  BY <1>3, <1>4, <2>8, <2>9, <2>10, <2>11, <2>12, <2>13 DEF SInv, Calm
<1> QED  BY <1>7, <1>8

-----------------------------------------------------------------------------
(* The page reads what arrived first.                                        *)

\* What a page shows of an event.
LEMMA ShownShows ==
    ASSUME NEW p \in Page, NEW e, Sound(e)
    PROVE  /\ e.kind \notin Endings => p.steps \subseteq Shown(p, e).steps
           /\ e.kind = "progress" => e.arg \in Shown(p, e).steps
           /\ e.kind \notin Endings \cup {"expired"} /\ p.busy => Shown(p, e).busy
           /\ e.kind = "started" => Shown(p, e).busy
           /\ e.kind = "review" => Shown(p, e).review = e.arg
           /\ e.kind # "review" /\ p.status \notin {"accepted", "rejected"} => Shown(p, e).review = p.review
<1>0. DOMAIN p = PageFields /\ p.steps \in SUBSET Steps  BY PageHas
<1>1. e.kind \in EventKinds  BY DEF Sound, Event
<1>2. CASE e.kind = "started"
  <2>1. Shown(p, e) = [p EXCEPT !.busy = TRUE]  BY <1>2 DEF Shown
  <2> QED  BY <1>0, <1>2, <2>1 DEF PageFields
<1>3. CASE e.kind = "progress"
  <2>1. Shown(p, e) = [p EXCEPT !.steps = @ \cup {e.arg}]  BY <1>3 DEF Shown
  <2> QED  BY <1>0, <1>3, <2>1 DEF PageFields
<1>4. CASE e.kind = "review"
  <2>1. (Shown(p, e) = p /\ p.review = e.arg) \/ Shown(p, e) = [p EXCEPT !.review = e.arg, !.status = "pending"]
    BY <1>4 DEF Shown
  <2> QED  BY <1>0, <1>4, <2>1 DEF PageFields
<1>5. CASE e.kind = "expired"
  <2>1. p.review \notin {e.arg, NoReview} => Shown(p, e) = p  BY <1>5 DEF Shown
  <2>2. ~ (p.review \notin {e.arg, NoReview}) =>
           Shown(p, e) = [p EXCEPT !.busy = FALSE,
                            !.status = IF p.review = e.arg /\ @ # "idle" THEN "expired" ELSE @]
    BY <1>5 DEF Shown
  <2>3. Shown(p, e) = p \/ \E s \in {p.status, "expired"} : Shown(p, e) = [p EXCEPT !.busy = FALSE, !.status = s]
    <3>1. CASE p.review = e.arg /\ p.status # "idle"  BY <2>1, <2>2, <3>1
    <3>2. CASE ~ (p.review = e.arg /\ p.status # "idle")  BY <2>1, <2>2, <3>2
    <3> QED  BY <3>1, <3>2
  <2>4. Shown(p, e).review = p.review /\ Shown(p, e).steps = p.steps
    BY <1>0, <2>3 DEF PageFields
  <2> QED  BY <1>5, <2>4
<1>6. CASE e.kind = "committed"
  <2>1. Shown(p, e) = IF p.status = "accepted" THEN Cleared(p) ELSE p  BY <1>6 DEF Shown
  <2> QED  BY <1>0, <1>6, <2>1 DEF Cleared, PageFields
<1>7. CASE e.kind = "refused"
  <2>1. Shown(p, e) = p  BY <1>7 DEF Shown
  <2> QED  BY <1>7, <2>1
<1>8. CASE e.kind = "done"
  <2>1. Shown(p, e) = Idle(IF p.status = "rejected" THEN Cleared(p) ELSE p)  BY <1>8 DEF Shown
  <2>2. p.status # "rejected" => Shown(p, e).review = p.review  BY <1>0, <2>1 DEF Idle, PageFields
  <2> QED  BY <1>8, <2>2 DEF Endings
<1>9. CASE e.kind \in {"stopped", "error"}
  <2>1. PICK s : Shown(p, e) = Idle([p EXCEPT !.status = s])  BY <1>9 DEF Shown
  <2>2. Shown(p, e).review = p.review  BY <1>0, <2>1 DEF Idle, PageFields
  <2> QED  BY <1>9, <2>2 DEF Endings
<1> QED  BY <1>1, <1>2, <1>3, <1>4, <1>5, <1>6, <1>7, <1>8, <1>9 DEF EventKinds

\* The messages behind the first.
LEMMA TheRest ==
    ASSUME IInv, IsOpen, down # <<>>, down' = Tail(down)
    PROVE  /\ 1 \in DOMAIN down /\ Head(down) = down[1]
           /\ DOMAIN down \subseteq Nat \ {0} /\ DOMAIN down' \subseteq Nat \ {0}
           /\ \A i \in DOMAIN down' : /\ i + 1 \in DOMAIN down /\ down'[i] = down[i + 1]
                                      /\ IsSync(i)' <=> IsSync(i + 1)
                                      /\ IsEvent(i)' <=> IsEvent(i + 1)
           /\ \A k \in DOMAIN down : k # 1 => \E i \in DOMAIN down' : k = i + 1
<1>1. PICK L \in Nat \ {0} :
              /\ Len(down) = L /\ DOMAIN down = 1..L /\ Head(down) = down[1]
              /\ IsSequence(down') /\ Len(down') = L - 1 /\ DOMAIN down' = 1..(L - 1)
              /\ \A i \in 1..(L - 1) : down'[i] = down[i + 1]
  <2>1. IsSequence(down)  BY DEF IInv, Types
  <2> QED  BY <2>1, OneLess
<1>2. 1 \in 1..L /\ 1..L \subseteq Nat \ {0} /\ 1..(L - 1) \subseteq Nat \ {0}  BY SMT
<1>3. \A i \in 1..(L - 1) : i + 1 \in 1..L  BY SMT
<1>4. \A k \in 1..L : k # 1 => k - 1 \in 1..(L - 1) /\ k = (k - 1) + 1  BY SMT
<1>5. \A i \in DOMAIN down' : i + 1 \in DOMAIN down /\ down'[i] = down[i + 1]  BY <1>1, <1>3
<1>6. \A i \in DOMAIN down' : (IsSync(i)' <=> IsSync(i + 1)) /\ (IsEvent(i)' <=> IsEvent(i + 1))
  BY <1>5 DEF IsSync, IsEvent
<1>7. \A k \in DOMAIN down : k # 1 => \E i \in DOMAIN down' : k = i + 1
  <2> SUFFICES ASSUME NEW k \in DOMAIN down, k # 1 PROVE \E i \in DOMAIN down' : k = i + 1
    OBVIOUS
  <2>1. k - 1 \in DOMAIN down' /\ k = (k - 1) + 1  BY <1>1, <1>4
  <2> QED  BY <2>1
<1> QED  BY <1>1, <1>2, <1>5, <1>6, <1>7

\* What the page does with the first message, as far as what it shows goes.
Takes ==
    /\ IsOpen /\ down # <<>> /\ down' = Tail(down)
    /\ UNCHANGED <<server, session, up, faults, answered, given>>
    /\ page'.conn = page.conn /\ page'.link = page.link /\ PageSort' /\ ObserverSort'
    /\ IsEvent(1) => page'.cursor.epoch = epoch /\ page'.cursor.seq = down[1].seq
    /\ ~ IsEvent(1) => page'.cursor = page.cursor
    /\ notice' # "none" \/ missed' # {} => Known'
    /\ notice # "none" => notice' # "none"
    /\ IsSync(1) /\ down[1].truncated => notice' # "none"
    /\ \A s : s \in page.steps /\ ~ Clears(down[1], s) => s \in page'.steps
    /\ \A s : Gives(down[1], s) => s \in page'.steps
    /\ page.busy /\ ~ Halts(down[1]) => page'.busy
    /\ Begins(down[1]) => page'.busy
    /\ \A n : Waiting(n) => ShownOf(n)'

LEMMA TakesKeeps ==
    ASSUME SInv, IInv', Takes
    PROVE  SInv'
<1>0. /\ Sorts /\ Ordered /\ Held /\ Finished /\ Stepped /\ StepsShown /\ BusyShown /\ ReviewShown
      /\ IInv /\ Types /\ Syncs /\ Downs
  BY DEF SInv, IInv
<1>1. /\ 1 \in DOMAIN down /\ DOMAIN down \subseteq Nat \ {0} /\ DOMAIN down' \subseteq Nat \ {0}
      /\ \A i \in DOMAIN down' : /\ i + 1 \in DOMAIN down /\ down'[i] = down[i + 1]
                                 /\ IsSync(i)' <=> IsSync(i + 1)
                                 /\ IsEvent(i)' <=> IsEvent(i + 1)
      /\ \A k \in DOMAIN down : k # 1 => \E i \in DOMAIN down' : k = i + 1
  BY <1>0, TheRest DEF Takes
<1>2. /\ epoch' = epoch /\ log' = log /\ first' = first /\ steps' = steps /\ reviews' = reviews
      /\ socket' = socket /\ lock' = lock /\ coroutine' = coroutine /\ activity' = activity
      /\ late' = late /\ waiting' = waiting /\ counts' = counts /\ command' = command
      /\ up' = up /\ faults' = faults /\ answered' = answered /\ given' = given
      /\ page'.conn = page.conn /\ page'.link = page.link
  BY DEF Takes, server, session
<1>3. /\ PageSort' /\ ObserverSort' /\ IsOpen
      /\ IsEvent(1) => page'.cursor.epoch = epoch /\ page'.cursor.seq = down[1].seq
      /\ ~ IsEvent(1) => page'.cursor = page.cursor
      /\ notice' # "none" \/ missed' # {} => Known'
      /\ notice # "none" => notice' # "none"
      /\ IsSync(1) /\ down[1].truncated => notice' # "none"
  BY DEF Takes
<1>4. /\ IsOpen' /\ (Sending' <=> Sending) /\ (Truncating' <=> Truncating) /\ (Subscribed' <=> Subscribed)
      /\ (Unattached' <=> Unattached) /\ (Known => Known')
  BY <1>2, <1>3 DEF IsOpen, Sending, Truncating, Truncated, Subscribed, Unattached, Known
<1>5. \A kinds : Ended(kinds)' <=> Ended(kinds)  BY <1>2 DEF Ended
<1>6. \A i \in DOMAIN down' : 1 < i + 1 /\ \A j \in DOMAIN down' : i < j <=> i + 1 < j + 1
  BY <1>1
<1>7. PICK N \in Nat : N = Len(log)  BY <1>0 DEF Types, IsSequence
<1>8. /\ \A i \in DOMAIN down : IsEvent(i) => down[i].seq \in 1..N
      /\ page.cursor.seq \in Nat
  BY <1>0, <1>7 DEF Downs, Types
<1>9. IsEvent(1) /\ Known => page.cursor.seq < down[1].seq  BY <1>0, <1>1 DEF Ordered
<1>10. \A n \in Int : Handled(n) => Handled(n)'
  <2> SUFFICES ASSUME NEW n \in Int, Handled(n) PROVE Handled(n)'
    OBVIOUS
  <2>1. Known' /\ n <= page.cursor.seq  BY <1>4 DEF Handled
  <2>2. n <= page'.cursor.seq
    <3>1. CASE IsEvent(1)
      <4>1. page'.cursor.seq = down[1].seq /\ down[1].seq \in 1..N /\ page.cursor.seq < down[1].seq
        BY <1>1, <1>3, <1>8, <1>9, <3>1 DEF Handled
      <4> QED  BY <1>8, <2>1, <4>1, SMT
    <3>2. CASE ~ IsEvent(1)  BY <1>3, <2>1, <3>2
    <3> QED  BY <3>1, <3>2
  <2> QED  BY <2>1, <2>2 DEF Handled
<1>11. TellsAfter(0)' => TellsAfter(0)
  <2> SUFFICES ASSUME TellsAfter(0)', ~ Truncating PROVE TellsAfter(0)
    BY <1>3 DEF TellsAfter
  <2>1. PICK i \in DOMAIN down' : IsSync(i)' /\ down'[i].truncated  BY <1>4 DEF TellsAfter
  <2>2. i + 1 \in DOMAIN down /\ IsSync(i + 1) /\ down[i + 1].truncated /\ i + 1 > 0  BY <1>1, <2>1
  <2> QED  BY <1>3, <2>2 DEF TellsAfter
<1>12. TellsAfter(0) => TellsAfter(0)' \/ notice' # "none"
  <2> SUFFICES ASSUME TellsAfter(0), ~ Truncating PROVE TellsAfter(0)' \/ notice' # "none"
    BY <1>4 DEF TellsAfter
  <2>1. PICK k \in DOMAIN down : IsSync(k) /\ down[k].truncated  BY DEF TellsAfter
  <2>2. CASE k = 1  BY <1>3, <2>1, <2>2
  <2>3. CASE k # 1
    <3>1. PICK i \in DOMAIN down' : k = i + 1  BY <1>1, <2>3
    <3>2. IsSync(i)' /\ down'[i].truncated /\ i > 0  BY <1>1, <2>1, <3>1
    <3> QED  BY <1>4, <3>2 DEF TellsAfter
  <2> QED  BY <2>2, <2>3
<1>13. Sorts'
  <2>1. EpochSort' /\ LogSort' /\ StateSort' /\ LockSort' /\ TaskSort' /\ CommandSort' /\ UpSort'
    BY <1>0, <1>2 DEF Sorts, EpochSort, LogSort, StateSort, LockSort, TaskSort, CommandSort, UpSort
  <2>2. Carries'  BY <1>0, <1>1, <1>2 DEF Sorts, Carries
  <2> QED  BY <1>3, <2>1, <2>2 DEF Sorts
<1>14. Ordered'
  <2>1. ASSUME NEW i \in DOMAIN down', NEW j \in DOMAIN down', IsEvent(i)', IsEvent(j)', i < j
        PROVE  down'[i].seq < down'[j].seq
    BY <1>0, <1>1, <1>6, <2>1 DEF Ordered
  <2>2. ASSUME NEW i \in DOMAIN down', IsEvent(i)', Known' PROVE page'.cursor.seq < down'[i].seq
    <3>1. i + 1 \in DOMAIN down /\ IsEvent(i + 1) /\ down'[i] = down[i + 1] /\ 1 < i + 1  BY <1>1, <1>6, <2>2
    <3>2. CASE IsEvent(1)  BY <1>0, <1>1, <1>3, <3>1, <3>2 DEF Ordered
    <3>3. CASE ~ IsEvent(1)
      <4>1. page'.cursor = page.cursor /\ Known  BY <1>2, <1>3, <2>2, <3>3 DEF Known
      <4> QED  BY <1>0, <3>1, <4>1 DEF Ordered
    <3> QED  BY <3>2, <3>3
  <2>3. ASSUME Sending'
        PROVE  /\ \A i \in DOMAIN down' : IsEvent(i)' => down'[i].seq < Len(log')
               /\ Known' => page'.cursor.seq < Len(log')
               /\ given' < Len(log')
    <3>1. CASE IsEvent(1)  BY <1>0, <1>1, <1>2, <1>3, <1>4, <2>3, <3>1 DEF Ordered
    <3>2. CASE ~ IsEvent(1)
      <4>1. page'.cursor = page.cursor /\ (Known' => Known)  BY <1>2, <1>3, <3>2 DEF Known
      <4> QED  BY <1>0, <1>1, <1>2, <1>4, <2>3, <4>1 DEF Ordered
    <3> QED  BY <3>1, <3>2
  <2> QED  BY <2>1, <2>2, <2>3 DEF Ordered
<1>15. Held'  BY <1>0, <1>2, <1>3, <1>4, <1>11 DEF Held
<1>16. Finished' /\ Stepped'  BY <1>0, <1>2, <1>5 DEF Finished, Stepped
<1>17. StepsShown'
  <2> SUFFICES ASSUME Subscribed', ~ Ended(Terminals)', ~ TooEarly', NEW s \in steps' PROVE StepThen(s)'
    BY DEF StepsShown
  <2>1. Subscribed /\ ~ Ended(Terminals) /\ ~ TooEarly /\ s \in steps  BY <1>2, <1>4, <1>5 DEF TooEarly
  <2>2. StepThen(s)  BY <1>0, <2>1 DEF StepsShown
  <2>3. /\ s \in page.steps /\ ~ Clears(down[1], s) => s \in page'.steps
        /\ Gives(down[1], s) => s \in page'.steps
    BY DEF Takes
  <2>4. CASE Sending /\ log[Len(log)] = Ev("progress", s)  BY <1>2, <1>4, <2>4 DEF StepThen
  <2>5. CASE s \in page.steps /\ \A i \in DOMAIN down : ~ Clears(down[i], s)
    BY <1>1, <2>3, <2>5 DEF StepThen
  <2>6. CASE \E i \in DOMAIN down : Gives(down[i], s) /\ \A j \in DOMAIN down : j > i => ~ Clears(down[j], s)
    <3>1. PICK i \in DOMAIN down : Gives(down[i], s) /\ \A j \in DOMAIN down : j > i => ~ Clears(down[j], s)  BY <2>6
    <3>2. CASE i = 1
      <4>1. \A j \in DOMAIN down' : ~ Clears(down'[j], s)  BY <1>1, <1>6, <3>1, <3>2
      <4> QED  BY <2>3, <3>1, <3>2, <4>1 DEF StepThen
    <3>3. CASE i # 1
      <4>1. PICK k \in DOMAIN down' : i = k + 1  BY <1>1, <3>3
      <4>2. Gives(down'[k], s)  BY <1>1, <3>1, <4>1
      <4>3. \A j \in DOMAIN down' : j > k => ~ Clears(down'[j], s)  BY <1>1, <1>6, <3>1, <4>1
      <4> QED  BY <4>2, <4>3 DEF StepThen
    <3> QED  BY <3>2, <3>3
  <2> QED  BY <2>2, <2>4, <2>5, <2>6 DEF StepThen
<1>18. BusyShown'
  <2> SUFFICES ASSUME Subscribed', coroutine'[page'.conn].at = "attached", Works' PROVE BusyThen'
    BY DEF BusyShown
  <2>1. Subscribed /\ coroutine[page.conn].at = "attached" /\ Works  BY <1>2, <1>4, <1>5 DEF Works
  <2>2. BusyThen  BY <1>0, <2>1 DEF BusyShown
  <2>3. /\ page.busy /\ ~ Halts(down[1]) => page'.busy
        /\ Begins(down[1]) => page'.busy
    BY DEF Takes
  <2>4. CASE Sending /\ log[Len(log)].kind = "started"  BY <1>2, <1>4, <2>4 DEF BusyThen
  <2>5. CASE page.busy /\ \A i \in DOMAIN down : ~ Halts(down[i])
    BY <1>1, <2>3, <2>5 DEF BusyThen
  <2>6. CASE \E i \in DOMAIN down : Begins(down[i]) /\ \A j \in DOMAIN down : j > i => ~ Halts(down[j])
    <3>1. PICK i \in DOMAIN down : Begins(down[i]) /\ \A j \in DOMAIN down : j > i => ~ Halts(down[j])  BY <2>6
    <3>2. CASE i = 1
      <4>1. \A j \in DOMAIN down' : ~ Halts(down'[j])  BY <1>1, <1>6, <3>1, <3>2
      <4> QED  BY <2>3, <3>1, <3>2, <4>1 DEF BusyThen
    <3>3. CASE i # 1
      <4>1. PICK k \in DOMAIN down' : i = k + 1  BY <1>1, <3>3
      <4>2. Begins(down'[k])  BY <1>1, <3>1, <4>1
      <4>3. \A j \in DOMAIN down' : j > k => ~ Halts(down'[j])  BY <1>1, <1>6, <3>1, <4>1
      <4> QED  BY <4>2, <4>3 DEF BusyThen
    <3> QED  BY <3>2, <3>3
  <2> QED  BY <2>2, <2>4, <2>5, <2>6 DEF BusyThen
<1>19. ReviewShown'
  <2> SUFFICES ASSUME NEW n, Waiting(n)' PROVE (ShownOf(n) /\ SyncedOf(n) /\ ReplayedOf(n) /\ ComesOf(n))'
    BY DEF ReviewShown
  <2>1. Waiting(n)  BY <1>2 DEF Waiting
  <2>2. SyncedOf(n) /\ ReplayedOf(n) /\ ComesOf(n)  BY <1>0, <2>1 DEF ReviewShown
  <2>3. ShownOf(n)'  BY <2>1 DEF Takes
  <2>4. n \in Int
    <3>1. n \in DOMAIN log /\ IsSequence(log)  BY <1>0, <2>1 DEF Waiting, Types
    <3> QED  BY <3>1 DEF IsSequence
  <2>5. ~ Handled(n)' => ~ Handled(n)  BY <1>10, <2>4
  <2>6. ~ Handled(n)' /\ Brings(n) => Brings(n)'
    <3> SUFFICES ASSUME ~ Handled(n)', Brings(n) PROVE Brings(n)'
      OBVIOUS
    <3>1. PICK k \in DOMAIN down : IsEvent(k) /\ down[k].seq = n  BY DEF Brings
    <3>2. k # 1
      <4> SUFFICES ASSUME k = 1 PROVE FALSE
        OBVIOUS
      <4>1. Known' /\ page'.cursor.seq = n  BY <1>2, <1>3, <3>1 DEF Known
      <4>2. n <= page'.cursor.seq  BY <2>4, <4>1, SMT
      <4> QED  BY <4>1, <4>2 DEF Handled
    <3>3. PICK i \in DOMAIN down' : k = i + 1  BY <1>1, <3>2
    <3> QED  BY <1>1, <3>1, <3>3 DEF Brings
  <2>7. SyncedOf(n)'
    <3> SUFFICES ASSUME NEW i \in DOMAIN down', IsSync(i)', log'[n].arg \notin down'[i].pending PROVE Before(n, i)'
      BY DEF SyncedOf
    <3>1. i + 1 \in DOMAIN down /\ IsSync(i + 1) /\ down'[i] = down[i + 1] /\ 1 < i + 1  BY <1>1, <1>6
    <3>2. Before(n, i + 1)  BY <1>2, <2>2, <3>1 DEF SyncedOf
    <3>3. ~ Handled(n)'
      <4>1. CASE IsEvent(1)
        <5>1. page'.cursor.seq = down[1].seq /\ down[1].seq < n /\ down[1].seq \in Int
          BY <1>1, <1>3, <1>8, <3>1, <3>2, <4>1 DEF Before
        <5>2. ~ (n <= page'.cursor.seq)  BY <2>4, <5>1, SMT
        <5> QED  BY <5>2 DEF Handled
      <4>2. CASE ~ IsEvent(1)
        BY <1>2, <1>3, <3>2, <4>2 DEF Before, Handled, Known
      <4> QED  BY <4>1, <4>2
    <3>4. ASSUME NEW j \in DOMAIN down', IsEvent(j)', j < i PROVE down'[j].seq < n
      BY <1>1, <1>6, <3>2, <3>4 DEF Before
    <3> QED  BY <3>3, <3>4 DEF Before
  <2>8. ReplayedOf(n)'  BY <1>2, <1>3, <1>4, <2>2, <2>5, <2>6 DEF ReplayedOf
  <2>9. ComesOf(n)'
    BY <1>2, <1>3, <1>4, <1>12, <2>2, <2>5, <2>6 DEF ComesOf
  <2> QED  BY <2>3, <2>7, <2>8, <2>9
<1> QED  BY <1>13, <1>14, <1>15, <1>16, <1>17, <1>18, <1>19 DEF SInv

LEMMA Reading ==
    ASSUME SInv, PageReads
    PROVE  /\ IsOpen /\ down # <<>> /\ down' = Tail(down) /\ UNCHANGED <<server, session, up, faults>>
           /\ epoch' = epoch /\ log' = log /\ reviews' = reviews /\ waiting' = waiting
           /\ 1 \in DOMAIN down /\ Head(down) = down[1]
           /\ page \in Page /\ Decisions(page) /\ DOMAIN page = PageFields /\ Page' = Page
           /\ ObserverSort /\ Held /\ ReviewShown /\ IInv
           /\ down[1].what \in {"event", "snapshot", "sync"}
           /\ IsEvent(1) <=> down[1].what = "event"
           /\ IsSync(1) <=> down[1].what = "sync"
<1>1. IsOpen /\ down # <<>> /\ down' = Tail(down) /\ UNCHANGED <<server, session, up, faults>>
  BY DEF PageReads, IsOpen
<1>2. epoch' = epoch /\ log' = log /\ reviews' = reviews /\ waiting' = waiting
  BY <1>1 DEF server, session
<1>3. IInv /\ Types /\ Downs /\ Sorts /\ Held /\ ReviewShown  BY DEF SInv, IInv
<1>4. 1 \in DOMAIN down /\ Head(down) = down[1]  BY <1>1, <1>3, TheRest
<1>5. page \in Page /\ Decisions(page) /\ DOMAIN page = PageFields /\ ObserverSort
  BY <1>3, PageHas DEF Sorts, PageSort
<1>6. Page' = Page  BY <1>2 DEF Page
<1>7. /\ down[1].what \in {"event", "snapshot", "sync"}
      /\ IsEvent(1) <=> down[1].what = "event"
      /\ IsSync(1) <=> down[1].what = "sync"
  BY <1>3, <1>4 DEF Downs, IsEvent, IsSync
<1> QED  BY <1>1, <1>2, <1>3, <1>4, <1>5, <1>6, <1>7

LEMMA SnapshotTakes ==
    ASSUME SInv, PageReads, down[1].what = "snapshot"
    PROVE  Takes
<1>1. /\ IsOpen /\ down # <<>> /\ down' = Tail(down) /\ UNCHANGED <<server, session, up, faults>>
      /\ epoch' = epoch /\ log' = log /\ reviews' = reviews /\ waiting' = waiting
      /\ 1 \in DOMAIN down /\ Head(down) = down[1]
      /\ page \in Page /\ Decisions(page) /\ DOMAIN page = PageFields /\ Page' = Page
      /\ ObserverSort /\ Held /\ ReviewShown
      /\ ~ IsEvent(1) /\ ~ IsSync(1)
  BY Reading
<1>2. page' = [page EXCEPT !.steps = down[1].steps] /\ UNCHANGED observer
  BY <1>1 DEF PageReads
<1>3. missed' = missed /\ answered' = answered /\ given' = given /\ notice' = notice
  BY <1>2 DEF observer
<1>4. /\ page'.conn = page.conn /\ page'.link = page.link /\ page'.cursor = page.cursor
      /\ page'.busy = page.busy /\ page'.steps = down[1].steps
      /\ page'.review = page.review /\ page'.status = page.status /\ page'.replies = page.replies
      /\ page'.chats = page.chats /\ page'.sent = page.sent
  BY <1>1, <1>2 DEF PageFields
<1>5. PageSort'
  <2>1. down[1].steps \in SUBSET Steps  BY <1>1 DEF SInv, Sorts, Carries
  <2>2. page' \in Page  BY <1>1, <1>2, <2>1, PageWith
  <2>3. Decisions(page)'  BY <1>1, <1>3, <1>4 DEF Decisions
  <2> QED  BY <1>1, <2>2, <2>3 DEF PageSort
<1>6. ObserverSort'  BY <1>1, <1>3 DEF ObserverSort
<1>7. Known' <=> Known  BY <1>1, <1>4 DEF Known
<1>8. notice' # "none" \/ missed' # {} => Known'  BY <1>1, <1>3, <1>7 DEF Held
<1>9. /\ \A s : s \in page.steps /\ ~ Clears(down[1], s) => s \in page'.steps
      /\ \A s : Gives(down[1], s) => s \in page'.steps
      /\ ~ Begins(down[1])
  BY <1>4 DEF Clears, Gives, Begins
<1>10. \A n : Waiting(n) => ShownOf(n)'
  BY <1>1, <1>3, <1>4, <1>7 DEF ReviewShown, ShownOf, Handled
<1> QED  BY <1>1, <1>3, <1>4, <1>5, <1>6, <1>8, <1>9, <1>10 DEF Takes

LEMMA SyncTakes ==
    ASSUME SInv, PageReads, down[1].what = "sync"
    PROVE  Takes
<1>1. /\ IsOpen /\ down # <<>> /\ down' = Tail(down) /\ UNCHANGED <<server, session, up, faults>>
      /\ epoch' = epoch /\ log' = log /\ reviews' = reviews /\ waiting' = waiting
      /\ 1 \in DOMAIN down /\ Head(down) = down[1]
      /\ page \in Page /\ Decisions(page) /\ DOMAIN page = PageFields /\ Page' = Page
      /\ ObserverSort /\ Held /\ ReviewShown
      /\ ~ IsEvent(1) /\ IsSync(1)
  BY Reading
<1> DEFINE p == [page EXCEPT !.synced = TRUE, !.busy = down[1].running]
<1>2. /\ page' = IF p.status = "pending" /\ p.review \notin down[1].pending THEN Cleared(p) ELSE p
      /\ notice' = IF down[1].truncated THEN "given" ELSE notice
      /\ missed' = missed /\ given' = given /\ answered' = answered
  <2>1. PageReadsSync(down[1])  BY <1>1 DEF PageReads
  <2>2. /\ page' = IF p.status = "pending" /\ p.review \notin down[1].pending THEN Cleared(p) ELSE p
        /\ UNCHANGED <<missed, given, answered>>
    BY <2>1, Zenon DEF PageReadsSync
  <2>3. notice' = IF down[1].truncated THEN "given" ELSE notice  BY <2>1, Zenon DEF PageReadsSync
  <2> HIDE DEF p
  <2> QED  BY <2>2, <2>3
<1>3. p \in Page /\ DOMAIN p = PageFields
  <2>1. down[1].running \in BOOLEAN  BY <1>1 DEF SInv, Sorts, Carries
  <2>2. PICK x \in Page : x = [page EXCEPT !.synced = TRUE]  BY <1>1, PageWith
  <2>3. \A v \in BOOLEAN : [page EXCEPT !.synced = TRUE, !.busy = v] \in Page  BY <2>2, PageWith
  <2>4. p \in Page  BY <2>1, <2>3, Zenon
  <2> QED  BY <2>4, PageHas
<1>4. /\ p.conn = page.conn /\ p.link = page.link /\ p.cursor = page.cursor
      /\ p.busy = down[1].running /\ p.steps = page.steps
      /\ p.review = page.review /\ p.status = page.status /\ p.replies = page.replies
      /\ p.chats = page.chats /\ p.sent = page.sent
  BY <1>1 DEF PageFields
<1>5. Decisions(p)  BY <1>1, <1>4 DEF Decisions
<1> HIDE DEF p
<1>6. page' \in {p, Cleared(p)}  BY <1>2
<1>7. page' \in Page /\ Decisions(page')  BY <1>3, <1>5, <1>6, ClearedAndIdle
<1>8. /\ page'.conn = page.conn /\ page'.link = page.link /\ page'.cursor = page.cursor
      /\ page'.busy = down[1].running /\ page'.steps = page.steps
  BY <1>3, <1>4, <1>6 DEF Cleared, PageFields
<1>9. PageSort' /\ ObserverSort'
  BY <1>1, <1>2, <1>7 DEF PageSort, ObserverSort, Decisions
<1>10. Known' <=> Known  BY <1>1, <1>8 DEF Known
<1>11. notice' # "none" \/ missed' # {} => Known'
  <2>1. down[1].truncated => TellsAfter(0)
    <3>1. 1 > 0  BY SMT
    <3> QED  BY <1>1, <3>1 DEF TellsAfter
  <2> QED  BY <1>1, <1>2, <1>10, <2>1 DEF Held
<1>12. /\ notice # "none" => notice' # "none"
       /\ down[1].truncated => notice' # "none"
  BY <1>2
<1>13. /\ \A s : ~ Gives(down[1], s)
       /\ ~ Halts(down[1]) => page'.busy
       /\ Begins(down[1]) => page'.busy
  BY <1>8 DEF Gives, Halts, Begins
<1>14. \A n : Waiting(n) => ShownOf(n)'
  <2> SUFFICES ASSUME NEW n, Waiting(n), Handled(n)'
               PROVE  page'.review = log[n].arg \/ notice' # "none" \/ missed' # {}
    BY <1>1 DEF ShownOf
  <2>1. Handled(n)  BY <1>8, <1>10 DEF Handled
  <2>2. page.review = log[n].arg \/ notice # "none" \/ missed # {}
    BY <1>1, <2>1 DEF ReviewShown, ShownOf
  <2>3. log[n].arg \in down[1].pending  BY <1>1, <2>1 DEF ReviewShown, SyncedOf, Before
  <2>4. page.review = log[n].arg => page' = p  BY <1>2, <1>4, <2>3
  <2> QED  BY <1>2, <1>4, <1>12, <2>2, <2>4
<1> QED  BY <1>1, <1>2, <1>8, <1>9, <1>11, <1>12, <1>13, <1>14 DEF Takes

\* The replay of the state misses nothing of what came before its end.
LEMMA NoneComesBefore ==
    ASSUME SInv, IsOpen, down # <<>>, 1 \in DOMAIN down, DOMAIN down \subseteq Nat \ {0},
           IsEvent(1), NEW n \in Int, Waiting(n), n < down[1].seq, n <= given
    PROVE  Handled(n)
<1> SUFFICES ASSUME ~ Handled(n) PROVE FALSE
  OBVIOUS
<1>1. Fresh /\ Downs /\ Types /\ Ordered /\ ReviewShown  BY DEF SInv, IInv
<1>2. ~ Unattached  BY <1>1 DEF Fresh, Unattached
<1>3. PICK j \in DOMAIN down : IsEvent(j) /\ down[j].seq = n
  BY <1>1, <1>2 DEF ReviewShown, ReplayedOf, Brings
<1>4. PICK N \in Nat : N = Len(log)  BY <1>1 DEF Types, IsSequence
<1>5. down[1].seq \in 1..N  BY <1>1, <1>4 DEF Downs
<1>6. CASE j = 1
  <2>1. down[1].seq = n /\ down[1].seq < down[1].seq  BY <1>3, <1>6
  <2> QED  BY <1>5, <2>1, SMT
<1>7. CASE j # 1
  <2>1. 1 < j  BY <1>7
  <2>2. down[1].seq < down[j].seq  BY <1>1, <1>3, <2>1 DEF Ordered
  <2> QED  BY <1>3, <1>5, <2>2, SMT
<1> QED  BY <1>6, <1>7

LEMMA EventTakes ==
    ASSUME SInv, PageReads, down[1].what = "event"
    PROVE  Takes
<1>1. /\ IsOpen /\ down # <<>> /\ down' = Tail(down) /\ UNCHANGED <<server, session, up, faults>>
      /\ epoch' = epoch /\ log' = log /\ reviews' = reviews /\ waiting' = waiting
      /\ 1 \in DOMAIN down /\ Head(down) = down[1]
      /\ page \in Page /\ Decisions(page) /\ DOMAIN page = PageFields /\ Page' = Page
      /\ ObserverSort /\ Held /\ ReviewShown /\ IInv
      /\ IsEvent(1) /\ ~ IsSync(1)
  BY Reading
<1>2. PICK N \in Nat : N = Len(log) /\ DOMAIN log = 1..N  BY <1>1 DEF IInv, Types, IsSequence
<1>3. PICK q \in 1..N : q = down[1].seq  BY <1>1, <1>2 DEF IInv, Downs
<1>4. PICK e :
         /\ q = down[1].seq /\ e = down[1].event /\ e = log[q] /\ Sound(e)
         /\ down[1].epoch = epoch
         /\ Covered(q - 1, 1) \/ TellsAfter(1)
         /\ Known => page.cursor.seq < q
  <2>1. /\ down[1].epoch = epoch
        /\ Covered(down[1].seq - 1, 1) \/ TellsAfter(1)
    BY <1>1, <1>2 DEF IInv, Downs
  <2>2. down[1].event = log[down[1].seq]  BY <1>1 DEF SInv, Sorts, Carries
  <2>3. Known => page.cursor.seq < down[1].seq  BY <1>1 DEF SInv, Ordered
  <2>4. Sound(log[down[1].seq])  BY <1>2, <1>3 DEF SInv, Sorts, LogSort
  <2> QED  BY <1>3, <2>1, <2>2, <2>3, <2>4
<1>5. page.cursor.seq \in Nat /\ given \in 0..N  BY <1>1, <1>2 DEF IInv, Types
<1>6. /\ page' = [Shown(page, e) EXCEPT !.cursor = [epoch |-> epoch, seq |-> q]]
      /\ missed' = IF Known THEN missed \cup ((Max({page.cursor.seq, given}) + 1)..(q - 1)) ELSE {}
      /\ notice' = IF Known THEN notice ELSE "none"
      /\ given' = given /\ answered' = answered
  <2>1. PageReadsEvent(down[1])  BY <1>1 DEF PageReads
  <2>2. (page.cursor.epoch = down[1].epoch) <=> Known  BY <1>4 DEF Known
  <2>3. ~ (Known /\ page.cursor.seq >= down[1].seq)  BY <1>4, <1>5, SMT
  <2> QED  BY <1>4, <2>1, <2>2, <2>3 DEF PageReadsEvent
<1>7. PICK p \in Page : p = Shown(page, e) /\ Decisions(p) /\ DOMAIN p = PageFields
  BY <1>1, <1>4, ShownIsPage, PageHas
<1>8. p.conn = page.conn /\ p.link = page.link  BY <1>1, <1>7, ShownIsAlike DEF Alike
<1>9. /\ page'.conn = page.conn /\ page'.link = page.link
      /\ page'.cursor = [epoch |-> epoch, seq |-> q] /\ page'.busy = p.busy /\ page'.steps = p.steps
      /\ page'.review = p.review /\ page'.status = p.status /\ page'.replies = p.replies
      /\ page'.chats = p.chats /\ page'.sent = p.sent
  BY <1>6, <1>7, <1>8 DEF PageFields
<1>10. PageSort'
  <2>1. epoch \in 0..epoch /\ q \in Nat  BY <1>1, SMT DEF IInv, Types
  <2>2. [epoch |-> epoch, seq |-> q] \in [epoch : 0..epoch, seq : Nat]  BY <2>1
  <2>3. page' \in Page  BY <1>6, <1>7, <2>2, PageWith
  <2>4. Decisions(page')  BY <1>7, <1>9 DEF Decisions
  <2> QED  BY <1>1, <1>6, <2>3, <2>4 DEF PageSort, Decisions
<1>11. Max({page.cursor.seq, given}) = IF page.cursor.seq >= given THEN page.cursor.seq ELSE given
  <2>1. PICK a \in Int, b \in Int : a = page.cursor.seq /\ b = given  BY <1>5, SMT
  <2> QED  BY <2>1, LargerOfTwo
<1>12. ObserverSort'
  <2>1. PICK x \in Nat : x = Max({page.cursor.seq, given})  BY <1>5, <1>11
  <2>2. (x + 1)..(q - 1) \subseteq 1..N  BY SMT
  <2>3. missed \subseteq 1..N  BY <1>1, <1>2 DEF ObserverSort
  <2>4. missed' \subseteq 1..N  BY <1>6, <2>1, <2>2, <2>3
  <2> QED  BY <1>1, <1>2, <1>6, <2>4 DEF ObserverSort
<1>13. Known' /\ page'.cursor.seq = q  BY <1>1, <1>9 DEF Known
<1>14. notice # "none" => notice' # "none"
  BY <1>1, <1>6 DEF Held
<1>15. /\ \A s : s \in page.steps /\ ~ Clears(down[1], s) => s \in page'.steps
       /\ \A s : Gives(down[1], s) => s \in page'.steps
       /\ page.busy /\ ~ Halts(down[1]) => page'.busy
       /\ Begins(down[1]) => page'.busy
  <2>1. /\ e.kind \notin Endings => page.steps \subseteq p.steps
        /\ e.kind = "progress" => e.arg \in p.steps
        /\ e.kind \notin Endings \cup {"expired"} /\ page.busy => p.busy
        /\ e.kind = "started" => p.busy
    BY <1>1, <1>4, <1>7, ShownShows
  <2>2. \A s : e = Ev("progress", s) => e.kind = "progress" /\ e.arg = s  BY EvIs
  <2>3. \A s : s \in page.steps /\ ~ Clears(down[1], s) => s \in page'.steps
    BY <1>4, <1>9, <2>1 DEF Clears
  <2>4. \A s : Gives(down[1], s) => s \in page'.steps
    BY <1>4, <1>9, <2>1, <2>2 DEF Gives
  <2>5. page.busy /\ ~ Halts(down[1]) => page'.busy  BY <1>4, <1>9, <2>1 DEF Halts
  <2>6. Begins(down[1]) => page'.busy  BY <1>4, <1>9, <2>1 DEF Begins
  <2> QED  BY <2>3, <2>4, <2>5, <2>6
<1>16. \A n : Waiting(n) => ShownOf(n)'
  <2> SUFFICES ASSUME NEW n, Waiting(n), Handled(n)'
               PROVE  page'.review = log[n].arg \/ notice' # "none" \/ missed' # {}
    BY <1>1 DEF ShownOf
  <2>1. n \in 1..N /\ log[n].kind = "review" /\ log[n].arg \notin answered
        /\ \A k \in 1..N : k > n => log[k].kind # "review"
    BY <1>2 DEF Waiting
  <2>2. n <= q  BY <1>13 DEF Handled
  <2>3. /\ e.kind = "review" => p.review = e.arg
        /\ e.kind # "review" /\ page.status \notin {"accepted", "rejected"} => p.review = page.review
    BY <1>1, <1>4, <1>7, ShownShows
  <2>4. CASE n = q  BY <1>4, <1>9, <2>1, <2>3, <2>4
  <2>5. CASE n < q
    <3>1. e.kind # "review"  BY <1>4, <2>1, <2>5
    <3>2. DOMAIN down \subseteq Nat \ {0}
      <4>1. PICK L \in Nat : DOMAIN down = 1..L  BY <1>1, SMTT(30) DEF IInv, Types, IsSequence
      <4> QED  BY <4>1, SMT
    <3>3. n <= given => Handled(n)  BY <1>1, <1>4, <2>1, <2>5, <3>2, NoneComesBefore
    <3>4. Known
      <4> SUFFICES ASSUME ~ Known PROVE FALSE
        OBVIOUS
      <4>1. ~ TellsAfter(1)
        <5>1. \A k \in DOMAIN down : k > 1 => k > 0  BY <3>2, SMT
        <5>2. TellsAfter(1) => TellsAfter(0)  BY <5>1 DEF TellsAfter
        <5> QED  BY <1>1, <5>2 DEF Held
      <4>2. \A j \in DOMAIN down : ~ (j < 1)  BY <3>2, SMT
      <4>3. q - 1 <= given  BY <1>4, <4>1, <4>2 DEF Covered
      <4>4. n <= given  BY <1>5, <2>1, <2>5, <4>3, SMT
      <4> QED  BY <3>3, <4>4 DEF Handled
    <3>5. notice' = notice /\ missed \subseteq missed'  BY <1>6, <3>4
    <3>6. CASE Handled(n)
      <4>1. page.review = log[n].arg \/ notice # "none" \/ missed # {}
        BY <1>1, <3>6 DEF ReviewShown, ShownOf
      <4>2. page.review = log[n].arg => p.review = page.review
        BY <1>1, <2>1, <2>3, <3>1 DEF Decisions
      <4> QED  BY <1>9, <3>5, <4>1, <4>2
    <3>7. CASE ~ Handled(n)
      <4>1. ~ (n <= page.cursor.seq) /\ ~ (n <= given)  BY <3>3, <3>4, <3>7 DEF Handled
      <4>2. PICK x \in Nat : x = Max({page.cursor.seq, given}) /\ ~ (n <= x)  BY <1>5, <1>11, <4>1
      <4>3. n \in (x + 1)..(q - 1)  BY <2>1, <2>5, <4>2, SMT
      <4> QED  BY <1>6, <3>4, <4>2, <4>3
    <3> QED  BY <3>6, <3>7
  <2>6. n = q \/ n < q  BY <2>1, <2>2, SMT
  <2> QED  BY <2>4, <2>5, <2>6
<1> QED
  BY <1>1, <1>4, <1>6, <1>8, <1>9, <1>10, <1>12, <1>13, <1>14, <1>15, <1>16 DEF Takes

LEMMA PageReadsKeepsShown ==
    ASSUME SInv, IInv', PageReads
    PROVE  SInv'
  BY Reading, SnapshotTakes, SyncTakes, EventTakes, TakesKeeps

-----------------------------------------------------------------------------
(* Every step of Next is of one of these kinds.                              *)

LEMMA InitShown == Init => SInv
<1> SUFFICES ASSUME Init PROVE SInv
  OBVIOUS
<1>1. /\ epoch = 1 /\ log = <<>> /\ first = 1 /\ steps = {} /\ reviews = {} /\ lock = Free
      /\ activity = "none" /\ late = 0 /\ waiting = {} /\ command = <<>>
      /\ counts = [runs |-> 0, reviews |-> 0]
      /\ down = <<>> /\ up = [c \in Conns |-> <<>>] /\ faults = 0 /\ page = NewPage(1, 0)
      /\ missed = {} /\ answered = {} /\ given = 0 /\ notice = "none"
  BY DEF Init
<1>2. IInv  BY Initially
<1>3. DOMAIN log = {} /\ DOMAIN down = {} /\ DOMAIN command = {}  BY <1>1, EmptyIsSequence
<1>4. /\ MaxFaults \in Nat /\ MaxRuns \in Nat /\ MaxCommands \in Nat /\ Capacity \in Nat \ {0}
      /\ 1 \in Conns
  BY BoundsAssumption, CapacityAssumption, SMT DEF Conns
<1>5. page \in Page /\ Decisions(page) /\ page.link = "connecting" /\ page.cursor.epoch = 0
  <2>1. 0 \in 0..MaxCommands  BY <1>4, SMT
  <2>2. /\ page \in Page /\ page.replies = {} /\ page.status = "idle" /\ page.chats = 0 /\ page.sent = 0
    BY <1>1, <1>4, <2>1, NewPageIsPage
  <2>3. page.link = "connecting" /\ page.cursor.epoch = 0  BY <1>1 DEF NewPage, NoCursor
  <2> QED  BY <2>2, <2>3, SMT DEF Decisions
<1>6. ~ IsOpen /\ ~ Sending /\ ~ Known /\ ~ Subscribed /\ ~ TellsAfter(0)
  BY <1>1, <1>5 DEF IsOpen, Sending, Senders, Free, Known, Subscribed, TellsAfter
<1>7. Sorts
  <2>1. EpochSort  BY <1>1, <1>4, SMT DEF EpochSort
  <2>2. LogSort
    <3>1. log \in Seq(Event) /\ Len(log) = 0  BY <1>1
    <3>2. Max({1, Len(log)}) = 1  BY <3>1, LargerOfTwo, SMT
    <3>3. first \in 1..1 /\ Len(log) - first < Capacity  BY <1>1, <1>4, <3>1, SMT
    <3> QED  BY <1>3, <3>1, <3>2, <3>3 DEF LogSort
  <2>3. StateSort /\ ObserverSort  BY <1>1 DEF StateSort, ObserverSort
  <2>4. LockSort  BY <1>1, SMT DEF LockSort, Free
  <2>5. TaskSort  BY <1>1, <1>4, SMT DEF TaskSort
  <2>6. CommandSort  BY <1>1, <1>3 DEF CommandSort
  <2>7. UpSort  BY <1>1 DEF UpSort
  <2>8. PageSort /\ Carries  BY <1>3, <1>5 DEF PageSort, Carries
  <2> QED  BY <2>1, <2>2, <2>3, <2>4, <2>5, <2>6, <2>7, <2>8 DEF Sorts
<1>8. Ordered  BY <1>3, <1>6 DEF Ordered
<1>9. Held  BY <1>1, <1>6 DEF Held
<1>10. Finished /\ Stepped  BY <1>1, <1>3 DEF Finished, Stepped
<1>11. StepsShown /\ BusyShown  BY <1>6 DEF StepsShown, BusyShown
<1>12. ReviewShown  BY <1>3 DEF ReviewShown, Waiting
<1> QED  BY <1>2, <1>7, <1>8, <1>9, <1>10, <1>11, <1>12 DEF SInv

LEMMA AddsKeepsShown ==
    ASSUME SInv, IInv',
           Step \/ Commits \/ Asks \/ Ends \/ LateEnds \/ CommandSends \/ \E c \in Conns : ShowReview(c)
    PROVE  SInv'
<1>1. PICK e : Adds(e) /\ AddsFor(e)  BY AddsKinds
<1>2. Sorts' /\ Ordered' /\ Held'  BY <1>1, AddsKeepsSorts, AddsKeepsOrder
<1>3. Finished' /\ Stepped'  BY <1>1, AddsKeepsRun
<1>4. StepsShown' /\ BusyShown'  BY <1>1, AddsKeepsWork
<1>5. ReviewShown'  BY <1>1, AddsKeepsReviews
<1> QED  BY <1>2, <1>3, <1>4, <1>5 DEF SInv

LEMMA NextKeepsShown ==
    ASSUME SInv, [Next]_vars
    PROVE  SInv'
<1>1. IInv'  BY NextKeeps DEF SInv
<1>2. CASE UNCHANGED vars  BY <1>1, <1>2, StutterKeepsShown
<1> SUFFICES ASSUME Next PROVE SInv'
  BY <1>2
<1>3. CASE ServerStep
  <2>1. CASE SendReturns  BY <1>1, <2>1, SendOverKeepsShown
  <2>2. CASE AttachEnds  BY <1>1, <2>2, AttachEndsKeepsShown
  <2>3. CASE CommandSends \/ LateEnds  BY <1>1, <2>3, AddsKeepsShown
  <2>4. CASE TaskIsDone  BY <1>1, <2>4, TaskIsDoneKeepsShown
  <2>5. ASSUME NEW c \in Conns, ShowReview(c) PROVE SInv'  BY <1>1, <2>5, AddsKeepsShown
  <2>6. ASSUME NEW c \in Conns, AttachBegins(c) PROVE SInv'
    <3>1. CASE IsOpen /\ c = page.conn  BY <1>1, <2>6, <3>1, AttachHereKeepsShown
    <3>2. CASE ~ (IsOpen /\ c = page.conn)  BY <1>1, <2>6, <3>2, AttachElsewhereKeepsShown
    <3> QED  BY <3>1, <3>2
  <2>7. ASSUME NEW c \in Conns, Detach(c) \/ Receive(c) PROVE SInv'
    BY <1>1, <2>7, DetachKeepsShown, ReceiveKeepsShown
  <2> QED  BY <1>3, <2>1, <2>2, <2>3, <2>4, <2>5, <2>6, <2>7 DEF ServerStep
<1>4. CASE PageStep
  BY <1>1, <1>4, OpenKeepsShown, ReconnectKeepsShown, LossKeepsShown, PageReadsKeepsShown DEF PageStep
<1>5. CASE Step \/ Commits \/ Asks \/ Ends  BY <1>1, <1>5, AddsKeepsShown
<1>6. CASE SendFails  BY <1>1, <1>6, SendOverKeepsShown
<1>7. CASE Drop  BY <1>1, <1>7, LossKeepsShown
<1>8. CASE Crash  BY <1>1, <1>8, CrashKeepsShown
<1>9. CASE Reload  BY <1>1, <1>9, ReloadKeepsShown
<1>10. CASE \E name \in CommandNames : User(name)  BY <1>1, <1>10, UserKeepsShown
<1> QED  BY <1>3, <1>4, <1>5, <1>6, <1>7, <1>8, <1>9, <1>10 DEF Next

\* What a quiet page shows is what there is (agentChatEventHandler.ts, reviewStore.ts,
\* chat_connection.py: _progress, _reviews, attach and session_sync): all the steps of
\* the run that works, and that it works, unless an end was announced since it began;
\* and the newest review that waits and that this user has not answered, unless the page
\* was told that it misses events. For any number of connections, faults, commands,
\* runs, reviews and steps, and any capacity of the buffer.
THEOREM ConnectionShows == Spec => []ShowsWhatIs
<1>1. Init => SInv  BY InitShown
<1>2. SInv /\ [Next]_vars => SInv'  BY NextKeepsShown
<1>3. SInv => ShowsWhatIs  BY InvariantMeansShown
<1> QED  BY <1>1, <1>2, <1>3, PTL DEF Spec

=============================================================================
