--------------------------- MODULE ServicesProofs ---------------------------
(***************************************************************************)
(* Proofs about services that stand beside the run of the agent, for any   *)
(* values of their constants: commands, background tasks, evaluation cases *)
(* and batches, plugins, hooks and tasks.  A behaviour of MCServices is    *)
(* about one of them; each has its inductive invariant.                    *)
(***************************************************************************)
EXTENDS MCServices, TLAPS

-----------------------------------------------------------------------------
(* A command: the process and its pipes, the threads that read them, and    *)
(* what the coroutine concludes.                                             *)

\* Before the process is started there is nothing of it, and then there is.
NothingYet ==
    /\ at \in {"admit", "starting"} =>
        process.is = "none" /\ \A p \in Command!Pipes : reader[p] = "idle"
    /\ at \in {"loop", "join", "cancelled join"} => process.is # "none"
    /\ process.is = "none" => kin = "none" /\ stray = "none"
    /\ process.code = 2 => process.is = "exited"

\* A reader ends at the limit or with an empty pipe nobody will write to.
DoneIsDrained ==
    /\ dropped => exceeded
    /\ \A p \in Command!Pipes : reader[p] = "done" =>
        exceeded \/ (process.is = "exited" /\ kin = "none" /\ pipe[p] = 0)

\* Nobody is sent SIGTERM unless the loop found why, the run was canceled, or the
\* output could not be read.
EndedForAReason ==
    /\ process.is = "signalled" \/ process.code = 2 =>
        reason # "completed" \/ at \in {"cancelled join", "cancelled"} \/ Command!ReaderBroke
    /\ at = "cancelled join" => process.is \in {"signalled", "exited"}

\* The coroutine comes back when the readers have, or one of them has failed.
BackAfterReaders ==
    /\ at = "returned" => Command!ReaderBroke \/ \A p \in Command!Pipes : reader[p] \in {"idle", "done"}
    /\ status \in {"success", "failed"} => at = "returned"
    /\ status = "success" \/ (status = "failed" /\ process.is # "none" /\ ~Command!ReaderBroke) =>
        /\ process.is = "exited" /\ ~exceeded /\ reason = "completed"
        /\ \A p \in Command!Pipes : reader[p] = "done"

CommandInv ==
    /\ Command!TypeOK /\ Command!KeptIsBounded /\ Command!EndedIsOver
    /\ NothingYet /\ DoneIsDrained /\ EndedForAReason /\ BackAfterReaders

LEMMA CommandInit == ASSUME Command!Init PROVE CommandInv
<1>1. Command!TypeOK
  <2>1. /\ pipe \in [Command!Pipes -> 0..Pipe] /\ kept \in [Command!Pipes -> Nat]
        /\ reader \in [Command!Pipes -> {"idle", "top", "read", "done", "failed"}]
    BY OutputIsCounted DEF Command!Init
  <2>2. process \in [is : {"none", "running", "signalled", "exited"}, code : 0..2]
    BY DEF Command!Init
  <2> QED
    BY <2>1, <2>2 DEF Command!Init, Command!TypeOK, Command!Reasons
<1>2. Command!KeptIsBounded
  BY OutputIsCounted DEF Command!Init, Command!KeptIsBounded, Command!Collected, Command!Pipes
<1> QED
  BY <1>1, <1>2
  DEF CommandInv, Command!Init, Command!EndedIsOver, NothingYet, DoneIsDrained,
      EndedForAReason, BackAfterReaders, Command!ReaderBroke, Command!Pipes

LEMMA ReadsStep ==
  ASSUME CommandInv, NEW p \in Command!Pipes, Command!Reads(p)
  PROVE  CommandInv'
<1> DEFINE n == Command!Least(Chunk, pipe[p])
           more == Command!Kept(n)
<1>1. pipe[p] \in Nat /\ Chunk \in Nat \ {0} /\ Limit \in Nat /\ pipe[p] <= Pipe /\ Pipe \in Nat
  <2>1. pipe \in [Command!Pipes -> 0..Pipe]
    BY DEF CommandInv, Command!TypeOK
  <2> QED
    BY <2>1, OutputIsCounted
<1>2. n \in Nat /\ n <= pipe[p]
  BY <1>1 DEF Command!Least
<1>3. kept["stdout"] \in Nat /\ kept["stderr"] \in Nat /\ Command!Collected <= Limit
      /\ Command!Collected \in Nat
  <2>1. kept \in [Command!Pipes -> Nat] /\ Command!Collected <= Limit
    BY DEF CommandInv, Command!TypeOK, Command!KeptIsBounded
  <2>2. kept["stdout"] \in Nat /\ kept["stderr"] \in Nat
    BY <2>1 DEF Command!Pipes
  <2> QED
    BY <2>1, <2>2 DEF Command!Collected
<1>4. more \in Nat /\ more <= n /\ more <= Limit - Command!Collected
      /\ (more < n => n > Limit - Command!Collected)
  BY <1>1, <1>2, <1>3 DEF Command!Kept, Command!Least
<1> HIDE DEF n, more
<1>5. CASE n = 0
  <2>1. /\ reader' = [reader EXCEPT ![p] = "done"]
        /\ UNCHANGED <<command, at, process, kin, stray, pipe, kept, dropped, exceeded, pressed, reason, status>>
        /\ Command!AtEnd /\ reader[p] = "read" /\ pipe[p] = 0
    BY <1>1, <1>5 DEF Command!Reads, n, Command!Least
  <2> QED
    BY <2>1
    DEF CommandInv, Command!TypeOK, Command!KeptIsBounded, Command!Collected, Command!EndedIsOver,
        NothingYet, DoneIsDrained, EndedForAReason, BackAfterReaders, Command!ReaderBroke, Command!Pipes, Command!AtEnd
<1>6. CASE n # 0
  <2>1. /\ pipe' = [pipe EXCEPT ![p] = @ - n]
        /\ kept' = [kept EXCEPT ![p] = @ + more]
        /\ dropped' = (dropped \/ more < n)
        /\ exceeded' = IF n > Limit - Command!Collected THEN TRUE ELSE exceeded
        /\ reader' = [reader EXCEPT ![p] = "top"]
        /\ reader[p] = "read"
        /\ UNCHANGED <<command, at, process, kin, stray, pressed, reason, status>>
    BY <1>6 DEF Command!Reads, n, more
  <2>2. Command!TypeOK'
    <3>1. pipe[p] - n \in 0..Pipe /\ kept[p] + more \in Nat
      BY <1>1, <1>2, <1>3, <1>4 DEF Command!Pipes
    <3> QED
      BY <2>1, <3>1 DEF CommandInv, Command!TypeOK
  <2>3. Command!KeptIsBounded'
    <3>1. kept \in [Command!Pipes -> Nat]
      BY DEF CommandInv, Command!TypeOK
    <3>2. Command!Collected' = Command!Collected + more
      BY <1>3, <1>4, <2>1, <3>1 DEF Command!Collected, Command!Pipes
    <3> QED
      BY <1>1, <1>3, <1>4, <3>2 DEF Command!KeptIsBounded
  <2>4. (dropped' => exceeded') /\ (exceeded => exceeded')
    BY <2>1, <1>4 DEF CommandInv, DoneIsDrained
  <2>5. pipe' \in [Command!Pipes -> 0..Pipe] /\ reader \in [Command!Pipes -> {"idle", "top", "read", "done", "failed"}]
        /\ \A q \in Command!Pipes : q # p => pipe'[q] = pipe[q]
    BY <2>1, <2>2 DEF CommandInv, Command!TypeOK
  <2>6. (Command!ReaderBroke' <=> Command!ReaderBroke) /\ reader' \in [Command!Pipes -> {"idle", "top", "read", "done", "failed"}]
        /\ (\E q \in Command!Pipes : reader[q] # "idle")
    BY <2>1, <2>5 DEF Command!ReaderBroke
  <2>7. /\ at = "returned" => Command!ReaderBroke
        /\ ~ (status = "success" \/ (status = "failed" /\ process.is # "none" /\ ~Command!ReaderBroke))
    BY <2>1 DEF CommandInv, BackAfterReaders
  <2>8. Command!EndedIsOver'
    BY <2>1, <2>4, <2>6 DEF CommandInv, Command!EndedIsOver
  <2>9. NothingYet' /\ EndedForAReason' /\ BackAfterReaders'
    BY <2>1, <2>5, <2>6, <2>7 DEF CommandInv, NothingYet, EndedForAReason, BackAfterReaders
  <2>10. DoneIsDrained'
    BY <2>1, <2>4, <2>5 DEF CommandInv, DoneIsDrained
  <2> QED
    BY <2>2, <2>3, <2>8, <2>9, <2>10 DEF CommandInv
<1> QED
  BY <1>5, <1>6

\* What the steps other than read()'s say of the types, and what is left to show.
LEMMA CommandStep == ASSUME CommandInv, Command!Next PROVE CommandInv'
<1> USE DEF Command!Ended
<1>0. /\ process \in [is : {"none", "running", "signalled", "exited"}, code : 0..2]
      /\ pipe \in [Command!Pipes -> 0..Pipe] /\ kept \in [Command!Pipes -> Nat]
      /\ reader \in [Command!Pipes -> {"idle", "top", "read", "done", "failed"}]
  BY DEF CommandInv, Command!TypeOK
<1>a. ASSUME Command!TypeOK', UNCHANGED kept,
             Command!EndedIsOver', NothingYet', DoneIsDrained', EndedForAReason', BackAfterReaders'
      PROVE  CommandInv'
  BY <1>a DEF CommandInv, Command!KeptIsBounded, Command!Collected
<1>1. ASSUME Command!Admit PROVE CommandInv'
  <2>1. /\ process' \in [is : {"none", "running", "signalled", "exited"}, code : 0..2]
        /\ pipe' \in [Command!Pipes -> 0..Pipe] /\ UNCHANGED kept
        /\ reader' \in [Command!Pipes -> {"idle", "top", "read", "done", "failed"}]
    BY <1>0, <1>1 DEF Command!Admit
  <2>2. Command!TypeOK'
    BY <1>1, <2>1, ZenonT(30) DEF CommandInv, Command!TypeOK, Command!Reasons, Command!Admit
  <2>3. Command!EndedIsOver' /\ NothingYet' /\ BackAfterReaders'
    BY <1>0, <1>1, <2>1
    DEF CommandInv, Command!EndedIsOver, NothingYet, DoneIsDrained, EndedForAReason,
        BackAfterReaders, Command!ReaderBroke, Command!Admit
  <2>4. DoneIsDrained'
    BY <1>0, <1>1, <2>1
    DEF CommandInv, NothingYet, DoneIsDrained, Command!Admit
  <2>5. EndedForAReason'
    BY <1>0, <1>1, <2>1 DEF CommandInv, NothingYet, EndedForAReason, Command!ReaderBroke, Command!Admit
  <2> QED
    BY <1>a, <2>1, <2>2, <2>3, <2>4, <2>5
<1>2. ASSUME Command!Started PROVE CommandInv'
  <2>1. /\ process' \in [is : {"none", "running", "signalled", "exited"}, code : 0..2]
        /\ pipe' \in [Command!Pipes -> 0..Pipe] /\ UNCHANGED kept
        /\ reader' \in [Command!Pipes -> {"idle", "top", "read", "done", "failed"}]
    BY <1>0, <1>2 DEF Command!Started
  <2>2. Command!TypeOK'
    BY <1>2, <2>1, ZenonT(30) DEF CommandInv, Command!TypeOK, Command!Reasons, Command!Started
  <2>3. Command!EndedIsOver' /\ NothingYet' /\ BackAfterReaders'
    BY <1>0, <1>2, <2>1
    DEF CommandInv, Command!EndedIsOver, NothingYet, DoneIsDrained, EndedForAReason,
        BackAfterReaders, Command!ReaderBroke, Command!Started
  <2>4. DoneIsDrained'
    BY <1>0, <1>2, <2>1
    DEF CommandInv, NothingYet, DoneIsDrained, Command!Started
  <2>5. EndedForAReason'
    BY <1>0, <1>2, <2>1 DEF CommandInv, NothingYet, EndedForAReason, Command!ReaderBroke, Command!Started
  <2> QED
    BY <1>a, <2>1, <2>2, <2>3, <2>4, <2>5
<1>3. ASSUME Command!Poll PROVE CommandInv'
  <2>1. /\ process' \in [is : {"none", "running", "signalled", "exited"}, code : 0..2]
        /\ pipe' \in [Command!Pipes -> 0..Pipe] /\ UNCHANGED kept
        /\ reader' \in [Command!Pipes -> {"idle", "top", "read", "done", "failed"}]
    BY <1>0, <1>3 DEF Command!Poll, Command!Terminate, Command!Reached, Command!Found, Command!Joined
  <2>2. Command!TypeOK'
    BY <1>3, <2>1, ZenonT(30) DEF CommandInv, Command!TypeOK, Command!Reasons, Command!Poll, Command!Terminate, Command!Reached, Command!Found, Command!Joined
  <2>3. Command!EndedIsOver' /\ NothingYet' /\ BackAfterReaders'
    <3>1. Command!EndedIsOver'
      BY <1>0, <1>3, <2>1
      DEF CommandInv, Command!EndedIsOver, NothingYet, BackAfterReaders, Command!ReaderBroke,
          Command!Poll, Command!Found, Command!Joined, Command!Terminate, Command!Reached
    <3>2. NothingYet'
      BY <1>0, <1>3, <2>1 DEF CommandInv, NothingYet, Command!Poll, Command!Found, Command!Joined, Command!Terminate, Command!Reached
    <3>3. BackAfterReaders'
      BY <1>0, <1>3, <2>1 DEF CommandInv, NothingYet, BackAfterReaders, Command!ReaderBroke, Command!Poll, Command!Found, Command!Joined, Command!Terminate, Command!Reached
    <3> QED
      BY <3>1, <3>2, <3>3
  <2>4. DoneIsDrained'
    BY <1>0, <1>3, <2>1
    DEF CommandInv, NothingYet, DoneIsDrained, Command!Poll, Command!Terminate, Command!Reached, Command!Found, Command!Joined
  <2>5. EndedForAReason'
    BY <1>0, <1>3, <2>1 DEF CommandInv, NothingYet, EndedForAReason, Command!ReaderBroke, Command!Poll, Command!Terminate, Command!Reached, Command!Found, Command!Joined
  <2> QED
    BY <1>a, <2>1, <2>2, <2>3, <2>4, <2>5
<1>4. ASSUME Command!Join PROVE CommandInv'
  <2>1. /\ process' \in [is : {"none", "running", "signalled", "exited"}, code : 0..2]
        /\ pipe' \in [Command!Pipes -> 0..Pipe] /\ UNCHANGED kept
        /\ reader' \in [Command!Pipes -> {"idle", "top", "read", "done", "failed"}]
    BY <1>0, <1>4 DEF Command!Join, Command!Final, Command!Evidence, Command!Joined
  <2>2. Command!TypeOK'
    BY <1>4, <2>1, ZenonT(30) DEF CommandInv, Command!TypeOK, Command!Reasons, Command!Join, Command!Final, Command!Evidence, Command!Joined
  <2>3. Command!EndedIsOver' /\ NothingYet' /\ BackAfterReaders'
    <3>1. /\ process.is = "exited" /\ \A p \in Command!Pipes : reader[p] = "done"
          /\ at' = "returned" /\ UNCHANGED <<process, kin, stray, reader, exceeded>>
      BY <1>4 DEF Command!Join, Command!Joined
    <3>2. kin = "none" \/ exceeded
      BY <3>1 DEF CommandInv, DoneIsDrained, Command!Pipes
    <3>3. status' \in {"success", "failed"} => reason' = "completed" /\ ~exceeded
      <4>1. status' = Command!Evidence(Command!Final) /\ reason' = Command!Final
            /\ reason \in Command!Reasons
        BY <1>4 DEF Command!Join, CommandInv, Command!TypeOK
      <4>2. Command!Final \in Command!Reasons
        BY <4>1 DEF Command!Final, Command!Reasons
      <4>3. status' \in {"success", "failed"} => Command!Final = "completed"
        BY <4>1, <4>2 DEF Command!Evidence, Command!Reasons
      <4>4. Command!Final = "completed" => ~exceeded
        BY DEF Command!Final
      <4> QED
        BY <4>1, <4>3, <4>4
    <3>4. ~Command!ReaderBroke'
      BY <3>1 DEF Command!ReaderBroke
    <3>5. NothingYet'
      BY <3>1 DEF CommandInv, NothingYet
    <3>6. BackAfterReaders'
      BY <3>1, <3>3, <3>4 DEF BackAfterReaders
    <3>7. Command!EndedIsOver'
      BY <3>1, <3>2 DEF CommandInv, Command!EndedIsOver
    <3> QED
      BY <3>5, <3>6, <3>7
  <2>4. DoneIsDrained'
    BY <1>0, <1>4, <2>1
    DEF CommandInv, NothingYet, DoneIsDrained, Command!Join, Command!Final, Command!Evidence, Command!Joined
  <2>5. EndedForAReason'
    BY <1>0, <1>4, <2>1 DEF CommandInv, NothingYet, EndedForAReason, Command!ReaderBroke, Command!Join, Command!Final, Command!Evidence, Command!Joined
  <2> QED
    BY <1>a, <2>1, <2>2, <2>3, <2>4, <2>5
<1>13. ASSUME Command!JoinFails PROVE CommandInv'
  <2>1. /\ process' \in [is : {"none", "running", "signalled", "exited"}, code : 0..2]
        /\ pipe' \in [Command!Pipes -> 0..Pipe] /\ UNCHANGED kept
        /\ reader' \in [Command!Pipes -> {"idle", "top", "read", "done", "failed"}]
    BY <1>0, <1>13 DEF Command!JoinFails, Command!Terminate, Command!Reached
  <2>2. Command!TypeOK'
    BY <1>13, <2>1, ZenonT(30)
    DEF CommandInv, Command!TypeOK, Command!Reasons, Command!JoinFails, Command!Terminate, Command!Reached
  <2>3. Command!EndedIsOver' /\ NothingYet' /\ BackAfterReaders'
    BY <1>0, <1>13, <2>1
    DEF CommandInv, Command!EndedIsOver, NothingYet, DoneIsDrained, EndedForAReason,
        BackAfterReaders, Command!ReaderBroke, Command!JoinFails, Command!Terminate, Command!Reached
  <2>4. DoneIsDrained'
    BY <1>0, <1>13, <2>1
    DEF CommandInv, NothingYet, DoneIsDrained, Command!JoinFails, Command!Terminate, Command!Reached
  <2>5. EndedForAReason'
    BY <1>0, <1>13, <2>1
    DEF CommandInv, NothingYet, EndedForAReason, Command!ReaderBroke, Command!JoinFails, Command!Terminate, Command!Reached
  <2> QED
    BY <1>a, <2>1, <2>2, <2>3, <2>4, <2>5
<1>5. ASSUME Command!CancelledJoin PROVE CommandInv'
  <2>1. /\ process' \in [is : {"none", "running", "signalled", "exited"}, code : 0..2]
        /\ pipe' \in [Command!Pipes -> 0..Pipe] /\ UNCHANGED kept
        /\ reader' \in [Command!Pipes -> {"idle", "top", "read", "done", "failed"}]
    BY <1>0, <1>5 DEF Command!CancelledJoin, Command!Joined
  <2>2. Command!TypeOK'
    BY <1>5, <2>1, ZenonT(30) DEF CommandInv, Command!TypeOK, Command!Reasons, Command!CancelledJoin, Command!Joined
  <2>3. Command!EndedIsOver' /\ NothingYet' /\ BackAfterReaders'
    BY <1>0, <1>5, <2>1
    DEF CommandInv, Command!EndedIsOver, NothingYet, DoneIsDrained, EndedForAReason,
        BackAfterReaders, Command!ReaderBroke, Command!CancelledJoin, Command!Joined
  <2>4. DoneIsDrained'
    BY <1>0, <1>5, <2>1
    DEF CommandInv, NothingYet, DoneIsDrained, Command!CancelledJoin, Command!Joined
  <2>5. EndedForAReason'
    BY <1>0, <1>5, <2>1 DEF CommandInv, NothingYet, EndedForAReason, Command!ReaderBroke, Command!CancelledJoin, Command!Joined
  <2> QED
    BY <1>a, <2>1, <2>2, <2>3, <2>4, <2>5
<1>6. ASSUME Command!Dies PROVE CommandInv'
  <2>1. /\ process' \in [is : {"none", "running", "signalled", "exited"}, code : 0..2]
        /\ pipe' \in [Command!Pipes -> 0..Pipe] /\ UNCHANGED kept
        /\ reader' \in [Command!Pipes -> {"idle", "top", "read", "done", "failed"}]
    BY <1>0, <1>6 DEF Command!Dies
  <2>2. Command!TypeOK'
    BY <1>6, <2>1, ZenonT(30) DEF CommandInv, Command!TypeOK, Command!Reasons, Command!Dies
  <2>3. Command!EndedIsOver' /\ NothingYet' /\ BackAfterReaders'
    <3>1. /\ process.is # "none" => process'.is # "none"
          /\ process.is = "none" => process' = process
          /\ process.is = "exited" => process'.is = "exited"
          /\ process.is # "running" => process'.is # "running"
          /\ kin' \in {kin, "none"} /\ stray' \in {stray, "none"}
          /\ UNCHANGED <<at, reader, exceeded, reason, status>>
          /\ process' = process \/ (process.is = "signalled" /\ process'.is = "exited")
      BY <1>0, <1>6 DEF Command!Dies
    <3>2. process.is # "none" \/ (kin' = "none" /\ stray' = "none")
      BY <3>1 DEF CommandInv, NothingYet
    <3>3. Command!ReaderBroke' <=> Command!ReaderBroke
      BY <3>1 DEF Command!ReaderBroke
    <3>4. Command!EndedIsOver'
      BY <3>1, <3>2, <3>3 DEF CommandInv, Command!EndedIsOver
    <3>5. NothingYet'
      BY <3>1, <3>2 DEF CommandInv, NothingYet
    <3>6. BackAfterReaders'
      BY <3>1, <3>3 DEF CommandInv, BackAfterReaders
    <3> QED
      BY <3>4, <3>5, <3>6
  <2>4. DoneIsDrained'
    BY <1>0, <1>6, <2>1
    DEF CommandInv, NothingYet, DoneIsDrained, Command!Dies
  <2>5. EndedForAReason'
    <3>1. process'.is \in {process.is, "exited"} /\ (process'.code = 2 => process.is = "signalled" \/ process.code = 2)
      BY <1>0, <1>6 DEF Command!Dies
    <3>2. UNCHANGED <<at, reader, reason>>
      BY <1>6 DEF Command!Dies
    <3>3. Command!ReaderBroke' <=> Command!ReaderBroke
      BY <3>2 DEF Command!ReaderBroke
    <3>4. process'.is = "signalled" => process.is = "signalled"
      BY <3>1
    <3>5. process'.is = "signalled" \/ process'.code = 2 => process.is = "signalled" \/ process.code = 2
      BY <3>1, <3>4
    <3>6. /\ process.is = "signalled" \/ process.code = 2 =>
              reason # "completed" \/ at \in {"cancelled join", "cancelled"} \/ Command!ReaderBroke
          /\ at = "cancelled join" => process.is \in {"signalled", "exited"}
      BY DEF CommandInv, EndedForAReason
    <3>7. process'.is = "signalled" \/ process'.code = 2 =>
              reason' # "completed" \/ at' \in {"cancelled join", "cancelled"} \/ Command!ReaderBroke'
      BY <3>2, <3>3, <3>5, <3>6
    <3>8. at' = "cancelled join" => process'.is \in {"signalled", "exited"}
      BY <3>1, <3>2, <3>6
    <3> QED
      BY <3>7, <3>8 DEF EndedForAReason
  <2> QED
    BY <1>a, <2>1, <2>2, <2>3, <2>4, <2>5
<1>7. ASSUME Command!Forks \/ Command!KinEnds PROVE CommandInv'
  <2>1. /\ process' \in [is : {"none", "running", "signalled", "exited"}, code : 0..2]
        /\ pipe' \in [Command!Pipes -> 0..Pipe] /\ UNCHANGED kept
        /\ reader' \in [Command!Pipes -> {"idle", "top", "read", "done", "failed"}]
    BY <1>0, <1>7 DEF Command!Forks, Command!KinEnds
  <2>2. Command!TypeOK'
    BY <1>7, <2>1, ZenonT(30) DEF CommandInv, Command!TypeOK, Command!Reasons, Command!Forks, Command!KinEnds
  <2>3. Command!EndedIsOver' /\ NothingYet' /\ BackAfterReaders'
    <3>1. Command!EndedIsOver'
      BY <1>0, <1>7, <2>1
      DEF CommandInv, Command!EndedIsOver, NothingYet, BackAfterReaders, Command!ReaderBroke,
          Command!Forks, Command!KinEnds
    <3>2. NothingYet'
      BY <1>0, <1>7, <2>1 DEF CommandInv, NothingYet, Command!Forks, Command!KinEnds
    <3>3. BackAfterReaders'
      <4>1. UNCHANGED <<at, reader, status, process, exceeded, reason>>
        BY <1>7 DEF Command!Forks, Command!KinEnds
      <4>2. Command!ReaderBroke' <=> Command!ReaderBroke
        BY <4>1 DEF Command!ReaderBroke
      <4> QED
        BY <4>1, <4>2 DEF CommandInv, BackAfterReaders
    <3> QED
      BY <3>1, <3>2, <3>3
  <2>4. DoneIsDrained'
    <3>1. /\ kin = "none" => process.is = "running" \/ kin' = "none"
          /\ UNCHANGED <<dropped, exceeded, process, pipe, reader>>
      BY <1>7 DEF Command!Forks, Command!KinEnds
    <3> QED
      BY <3>1 DEF CommandInv, DoneIsDrained
  <2>5. EndedForAReason'
    BY <1>0, <1>7, <2>1 DEF CommandInv, NothingYet, EndedForAReason, Command!ReaderBroke, Command!Forks, Command!KinEnds
  <2> QED
    BY <1>a, <2>1, <2>2, <2>3, <2>4, <2>5
<1>8. ASSUME Command!Cancelled PROVE CommandInv'
  <2>1. /\ process' \in [is : {"none", "running", "signalled", "exited"}, code : 0..2]
        /\ pipe' \in [Command!Pipes -> 0..Pipe] /\ UNCHANGED kept
        /\ reader' \in [Command!Pipes -> {"idle", "top", "read", "done", "failed"}]
    BY <1>0, <1>8 DEF Command!Cancelled, Command!EndsIt, Command!Terminate, Command!Reached
  <2>2. Command!TypeOK'
    BY <1>8, <2>1, ZenonT(30) DEF CommandInv, Command!TypeOK, Command!Reasons, Command!Cancelled, Command!EndsIt, Command!Terminate, Command!Reached
  <2>3. Command!EndedIsOver' /\ NothingYet' /\ BackAfterReaders'
    BY <1>0, <1>8, <2>1
    DEF CommandInv, Command!EndedIsOver, NothingYet, DoneIsDrained, EndedForAReason,
        BackAfterReaders, Command!ReaderBroke, Command!Cancelled, Command!EndsIt, Command!Terminate, Command!Reached
  <2>4. DoneIsDrained'
    BY <1>0, <1>8, <2>1
    DEF CommandInv, NothingYet, DoneIsDrained, Command!Cancelled, Command!EndsIt, Command!Terminate, Command!Reached
  <2>5. EndedForAReason'
    <3>1. at' \in {"cancelled join", "cancelled"}
      BY <1>8 DEF Command!Cancelled
    <3>2. at' = "cancelled join" => process'.is \in {"signalled", "exited"}
      <4>1. ASSUME at' = "cancelled join" PROVE at \in {"loop", "join"} /\ Command!Terminate
        BY <1>8, <4>1 DEF Command!Cancelled, Command!EndsIt
      <4>2. ASSUME at \in {"loop", "join"} PROVE process.is # "none"
        BY <4>2 DEF CommandInv, EndedForAReason, NothingYet
      <4> QED
        BY <4>1, <4>2, <1>0 DEF Command!Terminate, Command!Reached
    <3> QED
      BY <3>1, <3>2 DEF EndedForAReason
  <2> QED
    BY <1>a, <2>1, <2>2, <2>3, <2>4, <2>5
<1>9. ASSUME NEW p \in Command!Pipes, Command!Writes(p) PROVE CommandInv'
  <2>1. /\ process' \in [is : {"none", "running", "signalled", "exited"}, code : 0..2]
        /\ pipe' \in [Command!Pipes -> 0..Pipe] /\ UNCHANGED kept
        /\ reader' \in [Command!Pipes -> {"idle", "top", "read", "done", "failed"}]
    BY <1>0, <1>9, OutputIsCounted DEF Command!Writes
  <2>2. Command!TypeOK'
    BY <1>9, <2>1, ZenonT(30) DEF CommandInv, Command!TypeOK, Command!Reasons, Command!Writes
  <2>3. Command!EndedIsOver' /\ NothingYet' /\ BackAfterReaders'
    BY <1>0, <1>9, <2>1
    DEF CommandInv, Command!EndedIsOver, NothingYet, DoneIsDrained, EndedForAReason,
        BackAfterReaders, Command!ReaderBroke, Command!Writes
  <2>4. DoneIsDrained'
    BY <1>0, <1>9, <2>1
    DEF CommandInv, NothingYet, DoneIsDrained, Command!Writes
  <2>5. EndedForAReason'
    BY <1>0, <1>9, <2>1 DEF CommandInv, NothingYet, EndedForAReason, Command!ReaderBroke, Command!Writes
  <2> QED
    BY <1>a, <2>1, <2>2, <2>3, <2>4, <2>5
<1>10. ASSUME NEW p \in Command!Pipes, Command!Looks(p) PROVE CommandInv'
  <2>1. /\ process' \in [is : {"none", "running", "signalled", "exited"}, code : 0..2]
        /\ pipe' \in [Command!Pipes -> 0..Pipe] /\ UNCHANGED kept
        /\ reader' \in [Command!Pipes -> {"idle", "top", "read", "done", "failed"}]
    BY <1>0, <1>10 DEF Command!Looks
  <2>2. Command!TypeOK'
    BY <1>10, <2>1, ZenonT(30) DEF CommandInv, Command!TypeOK, Command!Reasons, Command!Looks
  <2>3. Command!EndedIsOver' /\ NothingYet' /\ BackAfterReaders'
    BY <1>0, <1>10, <2>1
    DEF CommandInv, Command!EndedIsOver, NothingYet, DoneIsDrained, EndedForAReason,
        BackAfterReaders, Command!ReaderBroke, Command!Looks
  <2>4. DoneIsDrained'
    BY <1>0, <1>10, <2>1
    DEF CommandInv, NothingYet, DoneIsDrained, Command!Looks
  <2>5. EndedForAReason'
    BY <1>0, <1>10, <2>1 DEF CommandInv, NothingYet, EndedForAReason, Command!ReaderBroke, Command!Looks
  <2> QED
    BY <1>a, <2>1, <2>2, <2>3, <2>4, <2>5
<1>14. ASSUME NEW p \in Command!Pipes, Command!ReadFails(p) PROVE CommandInv'
  <2>1. /\ process' \in [is : {"none", "running", "signalled", "exited"}, code : 0..2]
        /\ pipe' \in [Command!Pipes -> 0..Pipe] /\ UNCHANGED kept
        /\ reader' \in [Command!Pipes -> {"idle", "top", "read", "done", "failed"}]
    BY <1>0, <1>14 DEF Command!ReadFails
  <2>2. Command!TypeOK'
    BY <1>14, <2>1, ZenonT(30) DEF CommandInv, Command!TypeOK, Command!Reasons, Command!ReadFails
  <2>3. Command!EndedIsOver' /\ NothingYet' /\ BackAfterReaders'
    BY <1>0, <1>14, <2>1
    DEF CommandInv, Command!EndedIsOver, NothingYet, DoneIsDrained, EndedForAReason,
        BackAfterReaders, Command!ReaderBroke, Command!ReadFails
  <2>4. DoneIsDrained'
    BY <1>0, <1>14, <2>1
    DEF CommandInv, NothingYet, DoneIsDrained, Command!ReadFails
  <2>5. EndedForAReason'
    BY <1>0, <1>14, <2>1 DEF CommandInv, NothingYet, EndedForAReason, Command!ReaderBroke, Command!ReadFails
  <2> QED
    BY <1>a, <2>1, <2>2, <2>3, <2>4, <2>5
<1>11. ASSUME NEW code \in 0..1, Command!Exits(code) PROVE CommandInv'
  <2>1. /\ process' \in [is : {"none", "running", "signalled", "exited"}, code : 0..2]
        /\ pipe' \in [Command!Pipes -> 0..Pipe] /\ UNCHANGED kept
        /\ reader' \in [Command!Pipes -> {"idle", "top", "read", "done", "failed"}]
    BY <1>0, <1>11 DEF Command!Exits
  <2>2. Command!TypeOK'
    BY <1>11, <2>1, ZenonT(30) DEF CommandInv, Command!TypeOK, Command!Reasons, Command!Exits
  <2>3. Command!EndedIsOver' /\ NothingYet' /\ BackAfterReaders'
    <3>1. Command!EndedIsOver'
      BY <1>0, <1>11, <2>1
      DEF CommandInv, Command!EndedIsOver, NothingYet, BackAfterReaders, Command!ReaderBroke,
          Command!Exits
    <3>2. NothingYet'
      BY <1>0, <1>11, <2>1 DEF CommandInv, NothingYet, Command!Exits
    <3>3. BackAfterReaders'
      BY <1>0, <1>11, <2>1 DEF CommandInv, NothingYet, BackAfterReaders, Command!ReaderBroke, Command!Exits
    <3> QED
      BY <3>1, <3>2, <3>3
  <2>4. DoneIsDrained'
    BY <1>0, <1>11, <2>1
    DEF CommandInv, NothingYet, DoneIsDrained, Command!Exits
  <2>5. EndedForAReason'
    <3>1. process'.is = "exited" /\ process'.code # 2
      BY <1>11 DEF Command!Exits
    <3> QED
      BY <3>1, <1>11 DEF CommandInv, EndedForAReason, Command!ReaderBroke, Command!Exits
  <2> QED
    BY <1>a, <2>1, <2>2, <2>3, <2>4, <2>5
<1>12. ASSUME NEW what \in {"stop", "deadline"}, Command!Press(what) PROVE CommandInv'
  <2>1. /\ process' \in [is : {"none", "running", "signalled", "exited"}, code : 0..2]
        /\ pipe' \in [Command!Pipes -> 0..Pipe] /\ UNCHANGED kept
        /\ reader' \in [Command!Pipes -> {"idle", "top", "read", "done", "failed"}]
    BY <1>0, <1>12 DEF Command!Press
  <2>2. Command!TypeOK'
    BY <1>12, <2>1, ZenonT(30) DEF CommandInv, Command!TypeOK, Command!Reasons, Command!Press
  <2>3. Command!EndedIsOver' /\ NothingYet' /\ BackAfterReaders'
    BY <1>0, <1>12, <2>1
    DEF CommandInv, Command!EndedIsOver, NothingYet, DoneIsDrained, EndedForAReason,
        BackAfterReaders, Command!ReaderBroke, Command!Press
  <2>4. DoneIsDrained'
    BY <1>0, <1>12, <2>1
    DEF CommandInv, NothingYet, DoneIsDrained, Command!Press
  <2>5. EndedForAReason'
    BY <1>0, <1>12, <2>1 DEF CommandInv, NothingYet, EndedForAReason, Command!ReaderBroke, Command!Press
  <2> QED
    BY <1>a, <2>1, <2>2, <2>3, <2>4, <2>5
<1> QED
  BY <1>1, <1>2, <1>3, <1>4, <1>5, <1>6, <1>7, <1>8, <1>9, <1>10, <1>11, <1>12, <1>13, <1>14, ReadsStep
  DEF Command!Next, Command!Works

LEMMA CommandMeans == ASSUME CommandInv PROVE Command!CompleteIsComplete
<1> SUFFICES ASSUME status = "success" \/ (status = "failed" /\ process.is # "none" /\ ~Command!ReaderBroke)
             PROVE  /\ ~dropped /\ \A p \in Command!Pipes : pipe[p] = 0
                    /\ process.code # 2 /\ reason = "completed"
  BY DEF Command!CompleteIsComplete
<1>1. /\ process.is = "exited" /\ ~exceeded /\ reason = "completed" /\ at = "returned"
      /\ \A p \in Command!Pipes : reader[p] = "done"
  BY DEF CommandInv, BackAfterReaders
<1>2. ~Command!ReaderBroke
  BY <1>1 DEF Command!ReaderBroke
<1> QED
  BY <1>1, <1>2 DEF CommandInv, DoneIsDrained, EndedForAReason

-----------------------------------------------------------------------------
(* Background tasks: what their owner waits for before it goes on.           *)

\* Once the owner has canceled, nothing runs that it does not wait for.
CanceledAreAwaited == owner = "cancelling" =>
    /\ Background!Live \subseteq awaited
    /\ \A j \in Jobs : job[j] \notin {"ready", "running"}

\* A record is settled before its task is over, or by the callback.
ClosedIsSettled == \A j \in Jobs : record[j] = "pending" =>
    job[j] \in {"ready", "running", "unstarted", "cleaning", "done"}

BackgroundInv ==
    /\ Background!TypeOK /\ Background!ReleasedIsOver
    /\ CanceledAreAwaited /\ ClosedIsSettled
    /\ interrupted => cancelled

LEMMA BackgroundInit == ASSUME Background!Init PROVE BackgroundInv
BY DEF Background!Init, BackgroundInv, Background!TypeOK, Background!Over,
       Background!ReleasedIsOver, CanceledAreAwaited, ClosedIsSettled

\* A job's step: it starts or ends, and starts only while it may.
LEMMA JobStep ==
  ASSUME BackgroundInv, NEW j \in Jobs, NEW state, NEW to,
         Background!Becomes(j, state, to),
         state \in {"running", "done", "closed"}, job[j] # "none",
         to \in {"none", "pending", "completed", "degraded", "failed", "cancelled"},
         state = "running" => job[j] = "ready",
         state \in {"running", "done"} => job[j] \in {"ready", "running", "unstarted", "cleaning"},
         state = "closed" => to # "pending" /\ job[j] = "done"
  PROVE  BackgroundInv'
<1>1. /\ job \in [Jobs -> {"none", "ready", "running", "unstarted", "cleaning", "done", "closed"}]
      /\ record \in [Jobs -> {"none", "pending", "completed", "degraded", "failed", "cancelled"}]
      /\ job' = [job EXCEPT ![j] = state] /\ record' = [record EXCEPT ![j] = to]
      /\ UNCHANGED <<owner, awaited, cancelled, interrupted>>
  BY DEF BackgroundInv, Background!TypeOK, Background!Over, Background!Becomes
<1>2. Background!TypeOK'
  BY <1>1 DEF BackgroundInv, Background!TypeOK, Background!Over
<1>3. Background!Live' \subseteq Background!Live
  BY <1>1 DEF Background!Live, Background!Over
<1>4. Background!ReleasedIsOver' /\ CanceledAreAwaited'
  BY <1>1, <1>3 DEF BackgroundInv, Background!ReleasedIsOver, CanceledAreAwaited
<1>5. ClosedIsSettled'
  BY <1>1 DEF BackgroundInv, ClosedIsSettled
<1> QED
  BY <1>1, <1>2, <1>4, <1>5 DEF BackgroundInv

\* The owner cancels what lives.
LEMMA CancelAndDrainStep ==
  ASSUME BackgroundInv, Background!CancelAndDrain, UNCHANGED record,
         interrupted' \in BOOLEAN, cancelled' \in BOOLEAN, interrupted' => cancelled'
  PROVE  BackgroundInv'
<1>1. /\ job \in [Jobs -> {"none", "ready", "running", "unstarted", "cleaning", "done", "closed"}]
      /\ record \in [Jobs -> {"none", "pending", "completed", "degraded", "failed", "cancelled"}]
      /\ job' = [j \in Jobs |-> Background!Cancelled(job[j])]
      /\ awaited' = Background!Live /\ owner' = "cancelling"
  BY DEF BackgroundInv, Background!TypeOK, Background!Over, Background!CancelAndDrain
<1>2. \A j \in Jobs : job'[j] = CASE job[j] = "running" -> "cleaning"
                                  [] job[j] = "ready" -> "unstarted" [] OTHER -> job[j]
  BY <1>1 DEF Background!Cancelled
<1>3. \A j \in Jobs : job'[j] \in {"none", "unstarted", "cleaning", "done", "closed"}
      /\ (job[j] \in {"none", "done", "closed"} <=> job'[j] \in {"none", "done", "closed"})
      /\ (job[j] # "closed" => job'[j] # "closed") /\ (job[j] # "none" => job'[j] # "none")
  BY <1>1, <1>2
<1>4. Background!Live' = Background!Live
  BY <1>3 DEF Background!Live, Background!Over
<1>5. Background!TypeOK'
  BY <1>1, <1>3 DEF BackgroundInv, Background!TypeOK, Background!Over, Background!Live
<1>6. ClosedIsSettled'
  BY <1>1, <1>3 DEF BackgroundInv, ClosedIsSettled
<1> QED
  BY <1>1, <1>3, <1>4, <1>5, <1>6
  DEF BackgroundInv, Background!ReleasedIsOver, CanceledAreAwaited

LEMMA BackgroundStep == ASSUME BackgroundInv, Background!Next PROVE BackgroundInv'
<1>0. /\ job \in [Jobs -> {"none", "ready", "running", "unstarted", "cleaning", "done", "closed"}]
      /\ record \in [Jobs -> {"none", "pending", "completed", "degraded", "failed", "cancelled"}]
  BY DEF BackgroundInv, Background!TypeOK, Background!Over
<1>1. ASSUME NEW j \in Jobs, Background!Start(j) \/ Background!SetupFails(j) \/ Background!NeverRuns(j)
      PROVE  BackgroundInv'
  BY <1>1, JobStep DEF Background!Start, Background!SetupFails, Background!NeverRuns
<1>2. ASSUME NEW j \in Jobs, NEW status0 \in {"completed", "degraded", "failed", "cancelled"},
             Background!CleansUp(j, status0) \/ Background!Finish(j, status0)
      PROVE  BackgroundInv'
  BY <1>2, JobStep DEF Background!CleansUp, Background!Finish
<1>3. ASSUME NEW j \in Jobs, NEW to \in {"failed", "cancelled"}, Background!Settle(j, to)
      PROVE  BackgroundInv'
  <2>1. Background!Settled(record[j], to) \in {"none", "completed", "degraded", "failed", "cancelled"}
    BY <1>0 DEF Background!Settled
  <2> QED
    BY <1>3, <2>1, JobStep DEF Background!Settle
<1>4. ASSUME NEW j \in Jobs, Background!Submit(j) PROVE BackgroundInv'
  <2>1. /\ job[j] = "none" /\ job' = [job EXCEPT ![j] = "ready"]
        /\ record' = [record EXCEPT ![j] = "pending"]
        /\ UNCHANGED <<owner, awaited, cancelled, interrupted>>
    BY <1>4 DEF Background!Submit
  <2>2. owner \in {"body", "draining"}
    <3>1. ASSUME NEW i \in Jobs, job[i] = "running" PROVE owner \notin {"cancelling", "released"}
      BY <3>1 DEF BackgroundInv, CanceledAreAwaited, Background!ReleasedIsOver, Background!Live,
                  Background!Over
    <3> QED
      BY <1>4, <3>1 DEF Background!Submit, BackgroundInv, Background!TypeOK
  <2>3. Background!TypeOK'
    BY <1>0, <2>1 DEF BackgroundInv, Background!TypeOK, Background!Over
  <2>4. ClosedIsSettled'
    BY <1>0, <2>1 DEF BackgroundInv, ClosedIsSettled
  <2> QED
    BY <2>1, <2>2, <2>3, <2>4 DEF BackgroundInv, Background!ReleasedIsOver, CanceledAreAwaited
<1>5. ASSUME Background!Drain \/ Background!WaitOver PROVE BackgroundInv'
  BY <1>5
  DEF Background!Drain, Background!WaitOver, Background!Wait, BackgroundInv, Background!TypeOK,
      Background!ReleasedIsOver, Background!Live, CanceledAreAwaited, ClosedIsSettled
<1>6. ASSUME Background!Timeout PROVE BackgroundInv'
  BY <1>6, CancelAndDrainStep DEF Background!Timeout, BackgroundInv, Background!TypeOK
<1>7. ASSUME Background!OwnerCancelled PROVE BackgroundInv'
  <2>1. CASE owner = "draining" /\ Background!CancelAndDrain
    BY <1>7, <2>1, CancelAndDrainStep DEF Background!OwnerCancelled
  <2>2. CASE owner = "cancelling" /\ owner' = Background!GoesOn /\ UNCHANGED <<job, awaited>>
    BY <1>7, <2>2
    DEF Background!OwnerCancelled, Background!GoesOn, BackgroundInv, Background!TypeOK,
        Background!ReleasedIsOver, Background!Live, CanceledAreAwaited, ClosedIsSettled
  <2> QED
    BY <1>7, <2>1, <2>2 DEF Background!OwnerCancelled
<1>8. ASSUME Background!CleanupOver PROVE BackgroundInv'
  <2>1. Background!Live = {}
    BY <1>8 DEF Background!CleanupOver, BackgroundInv, CanceledAreAwaited, Background!Live,
                Background!Over, Background!TypeOK
  <2> QED
    BY <1>8, <2>1
    DEF Background!CleanupOver, Background!Reported, BackgroundInv, Background!TypeOK,
        Background!ReleasedIsOver, Background!Live, CanceledAreAwaited, ClosedIsSettled
<1> QED
  BY <1>1, <1>2, <1>3, <1>4, <1>5, <1>6, <1>7, <1>8 DEF Background!Next, Background!Steps

LEMMA BackgroundMeans ==
  ASSUME BackgroundInv
  PROVE  Background!CancellationIsKept /\ Background!PendingIsUnsettled
BY DEF BackgroundInv, Background!TypeOK, Background!Over, Background!Live,
       Background!ReleasedIsOver, ClosedIsSettled, Background!CancellationIsKept,
       Background!PendingIsUnsettled

-----------------------------------------------------------------------------
(* An evaluation case: a turn that was begun and its summary, the gates and  *)
(* the verdict, and the task the runner bound.                               *)

\* Nothing happens to a case before its agent.
NothingBegun == pc \in {"fixture", "session", "agent", "escaped"} =>
    /\ caseTurn = 0 /\ rows = 0
    /\ bound = [is |-> "none", finalized |-> FALSE, refused |-> FALSE]
    /\ result.status = "running"

\* The earlier turns are summed up, the later ones are not begun.
TurnsInOrder == \A n \in 1..Turns :
    (n < caseTurn => summedUp[n] = 1) /\ (n > caseTurn => summedUp[n] = 0)

\* The turn that runs has its summary when the agent is done, or its checkers are.
OwnSummary ==
    /\ pc \in {"turn", "turn_checks", "commit", "case_checks", "finalize", "exit", "record"} =>
        caseTurn \in 1..Turns /\ rows = 0
    /\ pc = "turn" => summedUp[caseTurn] = 0 /\ ~written
    /\ pc = "turn_checks" =>
        \/ agent = "production" /\ summedUp[caseTurn] = 1 /\ written
        \/ agent = "injected" /\ summedUp[caseTurn] = 0 /\ ~written
    /\ pc \in {"commit", "case_checks", "finalize", "exit"} => summedUp[caseTurn] = 1 /\ written
    /\ pc \in {"record", "returned"} /\ caseTurn # 0 =>
        \/ summedUp[caseTurn] = 1
        \/ summedUp[caseTurn] = 2 /\ agent = "production" /\ result.status = "timeout"

\* Before the checkers of the case nothing has passed.
NotYetPassed ==
    pc \in {"fixture", "session", "agent", "turn", "turn_checks", "commit", "case_checks"} =>
        ~result.passed

\* A task that was finalized does not run, and past the finalization none does unless
\* it was refused.
\* Only turns are skipped, and only by an agent without tools.
SkippedByTheBare == \A g \in Case!Gates :
    gates[g] = "skipped" => agent = "bare" /\ g \in 1..Turns

BoundIsFinalized ==
    /\ bound.finalized => bound.is # "running"
    /\ pc \in {"exit", "record", "returned"} /\ bound.is = "running" => bound.refused

CaseInv ==
    /\ Case!TypeOK /\ Case!PassedIsEarned /\ NothingBegun /\ TurnsInOrder /\ OwnSummary
    /\ NotYetPassed /\ BoundIsFinalized /\ SkippedByTheBare

LEMMA CaseInit == ASSUME Case!Init PROVE CaseInv
<1>1. /\ summedUp \in [1..Turns -> 0..2]
      /\ gates \in [Case!Gates -> Case!Verdicts \cup {"unknown", "skipped"}]
      /\ bound \in [is : {"none", "running", "completed", "failed", "timed_out", "budget_exceeded"},
                    finalized : BOOLEAN, refused : BOOLEAN]
      /\ result \in [status : Case!Statuses, passed : BOOLEAN, category : Case!Categories]
  BY DEF Case!Init, Case!Statuses, Case!Categories
<1>a. 0 \in 0..Turns
  BY ScriptsHaveTurns
<1>b. pc \in Case!Stages /\ written \in BOOLEAN /\ failure \in BOOLEAN
  BY DEF Case!Init, Case!Stages
<1>2. caseTurn \in 0..Turns /\ rows \in 0..1
  BY <1>a DEF Case!Init
<1>3. Case!TypeOK
  BY <1>1, <1>b, <1>2 DEF Case!Init, Case!TypeOK
<1> QED
  BY <1>3, ScriptsHaveTurns
  DEF CaseInv, Case!Init, Case!PassedIsEarned, NothingBegun, TurnsInOrder, OwnSummary,
      NotYetPassed, BoundIsFinalized, SkippedByTheBare

\* finalize_task() leaves a task that runs only where it was refused.
LEMMA FinalizedMeans ==
  ASSUME CaseInv, NEW end \in {"completed", "failed", "timed_out", "budget_exceeded"},
         bound' \in Case!Finalized(end)
  PROVE  /\ bound' \in [is : {"none", "running", "completed", "failed", "timed_out",
                              "budget_exceeded"},
                        finalized : BOOLEAN, refused : BOOLEAN]
         /\ bound'.finalized => bound'.is # "running"
         /\ bound'.is = "running" => bound'.refused
<1>1. bound \in [is : {"none", "running", "completed", "failed", "timed_out", "budget_exceeded"},
                 finalized : BOOLEAN, refused : BOOLEAN]
  BY DEF CaseInv, Case!TypeOK
<1>2. CASE bound.is = "none" \/ bound.finalized
  BY <1>1, <1>2 DEF Case!Finalized, CaseInv, BoundIsFinalized
<1>3. CASE ~(bound.is = "none" \/ bound.finalized)
  <2>1. CASE bound' = [is |-> end, finalized |-> TRUE, refused |-> FALSE]
    BY <2>1
  <2>2. CASE bound' = [bound EXCEPT !.refused = TRUE]
    BY <1>1, <1>3, <2>2
  <2> QED
    BY <1>3, <2>1, <2>2 DEF Case!Finalized
<1> QED
  BY <1>2, <1>3

\* The turn that runs, or failed, is summed up unless it was.
LEMMA SummedMeans ==
  ASSUME CaseInv, pc \in {"turn", "turn_checks", "commit", "case_checks", "exit"}
  PROVE  /\ Case!Summed \in [1..Turns -> 0..2]
         /\ Case!Summed[caseTurn] = 1
         /\ \A n \in 1..Turns : n # caseTurn => Case!Summed[n] = summedUp[n]
<1>0. caseTurn \in 1..Turns /\ summedUp \in [1..Turns -> 0..2]
  BY DEF CaseInv, Case!TypeOK, OwnSummary
<1>1. caseTurn \in 1..Turns /\ summedUp \in [1..Turns -> 0..2] /\ Turns \in Nat /\ caseTurn # 0
  BY <1>0, ScriptsHaveTurns
<1>2. CASE written
  BY <1>1, <1>2 DEF CaseInv, OwnSummary, Case!Summed
<1>3. CASE ~written
  <2>1. summedUp[caseTurn] = 0 /\ Case!Summed = [summedUp EXCEPT ![caseTurn] = @ + 1]
    BY <1>1, <1>3 DEF CaseInv, OwnSummary, Case!Summed
  <2>2. Case!Summed = [summedUp EXCEPT ![caseTurn] = 1]
    BY <1>1, <2>1
  <2> QED
    BY <1>1, <2>2
<1> QED
  BY <1>2, <1>3

\* A step to the row that is written of a run which raised.
LEMMA FailureStep ==
  ASSUME CaseInv, pc \in {"turn", "turn_checks", "commit", "case_checks", "exit"},
         NEW status0 \in {"timeout", "error"}, NEW category \in Case!Categories,
         NEW end \in {"failed", "timed_out"},
         result' = [result EXCEPT !.status = status0, !.category = category],
         bound' \in Case!Finalized(end), pc' = "record", written' = TRUE,
         summedUp' \in [1..Turns -> 0..2],
         \A n \in 1..Turns : n # caseTurn => summedUp'[n] = summedUp[n],
         \/ summedUp'[caseTurn] = 1
         \/ summedUp'[caseTurn] = 2 /\ agent = "production" /\ status0 = "timeout",
         UNCHANGED <<agent, caseTurn, phase, gates, failure, budget, rows>>
  PROVE  CaseInv'
<1>1. /\ bound' \in [is : {"none", "running", "completed", "failed", "timed_out",
                           "budget_exceeded"},
                     finalized : BOOLEAN, refused : BOOLEAN]
      /\ BoundIsFinalized'
  BY FinalizedMeans DEF BoundIsFinalized
<1>a. /\ result \in [status : Case!Statuses, passed : BOOLEAN, category : Case!Categories]
      /\ caseTurn \in 1..Turns /\ rows = 0
  BY DEF CaseInv, Case!TypeOK, OwnSummary
<1>2. /\ result \in [status : Case!Statuses, passed : BOOLEAN, category : Case!Categories]
      /\ caseTurn \in 1..Turns /\ rows = 0 /\ Turns \in Nat /\ caseTurn # 0
  BY <1>a, ScriptsHaveTurns
<1>3. /\ result' \in [status : Case!Statuses, passed : BOOLEAN, category : Case!Categories]
      /\ result'.status = status0 /\ result'.passed = result.passed
  BY <1>2 DEF Case!Statuses
<1>4. Case!TypeOK'
  BY <1>1, <1>3 DEF CaseInv, Case!TypeOK, Case!Stages
<1>5. Case!PassedIsEarned'
  BY <1>3 DEF CaseInv, Case!PassedIsEarned, Case!Gates
<1>6. TurnsInOrder' /\ OwnSummary'
  BY <1>2, <1>3 DEF CaseInv, TurnsInOrder, OwnSummary
<1> QED
  BY <1>1, <1>4, <1>5, <1>6 DEF CaseInv, NothingBegun, NotYetPassed, SkippedByTheBare

LEMMA CaseStep == ASSUME CaseInv, Case!Next PROVE CaseInv'
<1>0. /\ summedUp \in [1..Turns -> 0..2] /\ Turns \in Nat /\ Turns # 0 /\ caseTurn \in 0..Turns
      /\ gates \in [Case!Gates -> Case!Verdicts \cup {"unknown", "skipped"}]
      /\ bound \in [is : {"none", "running", "completed", "failed", "timed_out", "budget_exceeded"},
                    finalized : BOOLEAN, refused : BOOLEAN]
      /\ result \in [status : Case!Statuses, passed : BOOLEAN, category : Case!Categories]
  BY ScriptsHaveTurns DEF CaseInv, Case!TypeOK
<1>1. ASSUME Case!Raises PROVE CaseInv'
  <2>1. PICK kind \in {"timeout", "error"} : Case!Handle(kind)
    BY <1>1 DEF Case!Raises
  <2>2. /\ pc \in {"turn", "turn_checks", "commit", "case_checks", "exit"}
        /\ UNCHANGED <<agent, caseTurn, phase, gates, failure, budget, rows>>
        /\ summedUp' = Case!Summed /\ written' = TRUE /\ pc' = "record"
    BY <1>1, <2>1 DEF Case!Raises, Case!Handle
  <2>3. CASE kind = "timeout"
    <3>1. /\ result' = [result EXCEPT !.status = "timeout", !.category = "timeout"]
          /\ bound' \in Case!Finalized("timed_out")
      BY <2>1, <2>3 DEF Case!Handle
    <3>2. "timeout" \in Case!Categories
      BY DEF Case!Categories
    <3> QED
      BY <2>2, <3>1, <3>2, SummedMeans, FailureStep
  <2>4. CASE kind = "error"
    <3>1. /\ result' = [result EXCEPT !.status = "error", !.category = Case!Category]
          /\ bound' \in Case!Finalized("failed")
      BY <2>1, <2>4 DEF Case!Handle
    <3>2. Case!Category \in Case!Categories
      BY DEF Case!Categories, Case!Category
    <3> QED
      BY <2>2, <3>1, <3>2, SummedMeans, FailureStep
  <2> QED
    BY <2>3, <2>4
<1>2. ASSUME Case!Deadline PROVE CaseInv'
  <2>1. /\ pc \in {"turn", "turn_checks"}
        /\ result' = [result EXCEPT !.status = "timeout", !.category = "timeout"]
        /\ bound' \in Case!Finalized("timed_out") /\ written' = TRUE /\ pc' = "record"
        /\ UNCHANGED <<agent, caseTurn, phase, gates, failure, budget, rows>>
    BY <1>2 DEF Case!Deadline
  <2>2. "timeout" \in Case!Categories
    BY DEF Case!Categories
  <2>3. CASE pc = "turn" /\ agent = "production"
    <3>1. summedUp' = [Case!Summed EXCEPT ![caseTurn] = @ + 1]
      BY <1>2, <2>3 DEF Case!Deadline
    <3>2. /\ Case!Summed \in [1..Turns -> 0..2] /\ Case!Summed[caseTurn] = 1
          /\ \A n \in 1..Turns : n # caseTurn => Case!Summed[n] = summedUp[n]
          /\ caseTurn \in 1..Turns
      BY <2>3, SummedMeans DEF CaseInv, OwnSummary
    <3>3. /\ summedUp' \in [1..Turns -> 0..2] /\ summedUp'[caseTurn] = 2
          /\ \A n \in 1..Turns : n # caseTurn => summedUp'[n] = summedUp[n]
      BY <3>1, <3>2
    <3> QED
      BY <2>1, <2>2, <2>3, <3>3, FailureStep
  <2>4. CASE ~(pc = "turn" /\ agent = "production")
    <3>1. summedUp' = Case!Summed
      BY <1>2, <2>4 DEF Case!Deadline
    <3> QED
      BY <2>1, <2>2, <3>1, SummedMeans, FailureStep
  <2> QED
    BY <2>3, <2>4
<1>3. ASSUME Case!Escapes \/ Case!Cancel \/ Case!Session \/ Case!Exit PROVE CaseInv'
  <2>1. UNCHANGED <<agent, caseTurn, phase, written, summedUp, gates, failure, budget, bound,
                    result, rows>>
    BY <1>3 DEF Case!Escapes, Case!Cancel, Case!Session, Case!Exit
  <2>2. \/ pc \in {"session", "agent"} /\ pc' = "escaped"
        \/ pc' = "cancelled"
        \/ pc = "session" /\ pc' = "agent"
        \/ pc = "exit" /\ pc' = "record"
    BY <1>3 DEF Case!Escapes, Case!Cancel, Case!Session, Case!Exit
  <2>3. Case!TypeOK' /\ Case!PassedIsEarned'
    BY <2>1, <2>2
    DEF CaseInv, Case!TypeOK, Case!Stages, Case!Ended, Case!PassedIsEarned, Case!Gates
  <2>4. /\ NothingBegun' /\ TurnsInOrder' /\ NotYetPassed' /\ BoundIsFinalized'
        /\ SkippedByTheBare'
    BY <2>1, <2>2
    DEF CaseInv, NothingBegun, TurnsInOrder, NotYetPassed, BoundIsFinalized, SkippedByTheBare
  <2>5. OwnSummary'
    BY <2>1, <2>2 DEF CaseInv, OwnSummary, NothingBegun
  <2> QED
    BY <2>3, <2>4, <2>5 DEF CaseInv
<1>4. ASSUME Case!Fixture PROVE CaseInv'
  <2>1. /\ pc = "fixture" /\ caseTurn = 0 /\ rows = 0 /\ ~result.passed
        /\ bound = [is |-> "none", finalized |-> FALSE, refused |-> FALSE]
        /\ UNCHANGED <<agent, caseTurn, phase, written, summedUp, gates, failure, budget, bound>>
    BY <1>4 DEF Case!Fixture, CaseInv, NothingBegun, NotYetPassed
  <2>2. CASE pc' = "session" /\ UNCHANGED <<result, rows>>
    BY <2>1, <2>2
    DEF CaseInv, Case!TypeOK, Case!Stages, Case!PassedIsEarned, Case!Gates, NothingBegun,
        TurnsInOrder, OwnSummary, NotYetPassed, BoundIsFinalized, SkippedByTheBare
  <2>3. CASE /\ pc' = "returned" /\ rows' = rows + 1
             /\ result' = [result EXCEPT !.status = "error", !.category = "environment_failure"]
    <3>a. "error" \in Case!Statuses /\ "environment_failure" \in Case!Categories
      BY DEF Case!Statuses, Case!Categories
    <3>b. result' \in [status : Case!Statuses, passed : BOOLEAN, category : Case!Categories]
      BY <1>0, <2>3, <3>a
    <3>c. result'.passed = result.passed /\ rows' = 1
      BY <1>0, <2>1, <2>3
    <3>1. /\ result' \in [status : Case!Statuses, passed : BOOLEAN, category : Case!Categories]
          /\ ~result'.passed /\ rows' = 1
      BY <2>1, <3>b, <3>c
    <3>2. Case!TypeOK'
      BY <2>1, <2>3, <3>1 DEF CaseInv, Case!TypeOK, Case!Ended
    <3> QED
      BY <2>1, <2>3, <3>1, <3>2
      DEF CaseInv, Case!PassedIsEarned, NothingBegun, TurnsInOrder, OwnSummary, NotYetPassed,
          BoundIsFinalized, SkippedByTheBare
  <2> QED
    BY <1>4, <2>2, <2>3 DEF Case!Fixture
<1>5. ASSUME Case!Agent PROVE CaseInv'
  <2>1. /\ pc = "agent" /\ caseTurn = 0 /\ rows = 0 /\ ~result.passed
        /\ bound = [is |-> "none", finalized |-> FALSE, refused |-> FALSE]
        /\ caseTurn' = 1 /\ ~written' /\ written' \in BOOLEAN /\ pc' = "turn" /\ phase' = "agent"
        /\ UNCHANGED <<agent, summedUp, gates, failure, budget, result, rows>>
    BY <1>5 DEF Case!Agent, Case!Begin, CaseInv, NothingBegun, NotYetPassed
  <2>2. bound' = bound \/ bound' = [bound EXCEPT !.is = "running"]
    BY <1>5 DEF Case!Agent
  <2>3. /\ bound' \in [is : {"none", "running", "completed", "failed", "timed_out",
                             "budget_exceeded"},
                       finalized : BOOLEAN, refused : BOOLEAN]
        /\ ~bound'.finalized
    BY <1>0, <2>1, <2>2
  <2>4. Case!TypeOK'
    BY <1>0, <2>1, <2>3 DEF CaseInv, Case!TypeOK, Case!Stages
  <2>5. TurnsInOrder' /\ OwnSummary'
    BY <1>0, <2>1 DEF CaseInv, TurnsInOrder, OwnSummary
  <2> QED
    BY <2>1, <2>3, <2>4, <2>5
    DEF CaseInv, Case!PassedIsEarned, Case!Gates, NothingBegun, NotYetPassed, BoundIsFinalized,
        SkippedByTheBare
<1>6. ASSUME Case!Turn PROVE CaseInv'
  <2>1. /\ pc = "turn" /\ caseTurn \in 1..Turns /\ rows = 0 /\ ~result.passed
        /\ summedUp[caseTurn] = 0 /\ ~written
        /\ pc' = "turn_checks" /\ phase' \in {"agent", "checker"} /\ agent # "bare"
        /\ UNCHANGED <<agent, caseTurn, gates, bound, result, rows>>
    BY <1>6 DEF Case!Turn, CaseInv, OwnSummary, NotYetPassed
  <2>2. budget' \in {"none", "finalization", "hard"} /\ failure' \in BOOLEAN
    BY <1>6 DEF Case!Turn, Case!Stronger, CaseInv, Case!TypeOK
  <2>3. /\ summedUp' \in [1..Turns -> 0..2] /\ written' \in BOOLEAN
        /\ \A n \in 1..Turns : n # caseTurn => summedUp'[n] = summedUp[n]
        /\ \/ agent = "production" /\ summedUp'[caseTurn] = 1 /\ written'
           \/ agent = "injected" /\ summedUp'[caseTurn] = 0 /\ ~written'
    <3>1. CASE agent = "production"
      <4>1. summedUp' = [summedUp EXCEPT ![caseTurn] = 1] /\ written' = TRUE
        BY <1>0, <1>6, <2>1, <3>1 DEF Case!Turn
      <4> QED
        BY <1>0, <2>1, <3>1, <4>1
    <3>2. CASE agent # "production"
      <4>1. summedUp' = summedUp /\ agent = "injected"
        BY <1>6, <2>1, <3>2 DEF Case!Turn, CaseInv, Case!TypeOK, Case!Agents
      <4>2. ~written' /\ written' \in BOOLEAN
        BY <1>6, <2>1, <3>2 DEF Case!Turn, CaseInv, Case!TypeOK
      <4> QED
        BY <1>0, <2>1, <4>1, <4>2
    <3> QED
      BY <3>1, <3>2
  <2>4. Case!TypeOK'
    BY <2>1, <2>2, <2>3 DEF CaseInv, Case!TypeOK, Case!Stages
  <2>5. TurnsInOrder' /\ OwnSummary'
    BY <1>0, <2>1, <2>3 DEF CaseInv, TurnsInOrder, OwnSummary
  <2> QED
    BY <2>1, <2>4, <2>5
    DEF CaseInv, Case!PassedIsEarned, NothingBegun, NotYetPassed, BoundIsFinalized,
        SkippedByTheBare
<1>7. ASSUME Case!TurnChecks \/ Case!BareTurn PROVE CaseInv'
  <2>0. /\ Case!Goes /\ pc \in {"turn", "turn_checks"}
        /\ UNCHANGED <<agent, failure, budget, bound, result, rows>>
        /\ \E verdict \in Case!Verdicts \cup {"skipped"} :
              /\ gates' = [gates EXCEPT ![caseTurn] = verdict]
              /\ verdict = "skipped" => agent = "bare"
    BY <1>7 DEF Case!TurnChecks, Case!BareTurn, Case!Verdicts
  <2>1. /\ pc \in {"turn", "turn_checks"} /\ caseTurn \in 1..Turns /\ rows = 0 /\ ~result.passed
        /\ phase' = "agent"
        /\ UNCHANGED <<agent, failure, budget, bound, result, rows>>
    BY <2>0 DEF Case!Goes, CaseInv, OwnSummary, NotYetPassed
  <2>2. gates' \in [Case!Gates -> Case!Verdicts \cup {"unknown", "skipped"}]
    BY <1>0, <2>0
  <2>s. SkippedByTheBare'
    BY <1>0, <2>0, <2>1 DEF CaseInv, SkippedByTheBare, Case!Gates, Case!Reviews, Case!Case, Case!Verdicts
  <2>3. /\ summedUp' \in [1..Turns -> 0..2] /\ summedUp'[caseTurn] = 1
        /\ \A n \in 1..Turns : n # caseTurn => summedUp'[n] = summedUp[n]
    BY <2>0, <2>1, SummedMeans DEF Case!Goes
  <2>4. CASE caseTurn < Turns
    <3>a. caseTurn' = caseTurn + 1 /\ written' = FALSE /\ pc' = "turn"
      BY <2>0, <2>4 DEF Case!Goes, Case!Begin
    <3>1. caseTurn' = caseTurn + 1 /\ written' = FALSE /\ pc' = "turn" /\ caseTurn' \in 0..Turns
          /\ caseTurn' \in 1..Turns
      BY <1>0, <2>1, <2>4, <3>a
    <3>2. Case!TypeOK'
      BY <1>0, <2>1, <2>2, <2>3, <3>1 DEF CaseInv, Case!TypeOK, Case!Stages
    <3>3. TurnsInOrder' /\ OwnSummary'
      BY <1>0, <2>1, <2>3, <3>1 DEF CaseInv, TurnsInOrder, OwnSummary
    <3> QED
      BY <2>1, <2>s, <3>1, <3>2, <3>3
      DEF CaseInv, Case!PassedIsEarned, NothingBegun, NotYetPassed, BoundIsFinalized,
        SkippedByTheBare
  <2>5. CASE ~(caseTurn < Turns)
    <3>1. caseTurn' = caseTurn /\ written' = TRUE /\ pc' = "commit"
      BY <2>0, <2>5 DEF Case!Goes
    <3>2. Case!TypeOK'
      BY <1>0, <2>1, <2>2, <2>3, <3>1 DEF CaseInv, Case!TypeOK, Case!Stages
    <3>3. TurnsInOrder' /\ OwnSummary'
      BY <1>0, <2>1, <2>3, <3>1 DEF CaseInv, TurnsInOrder, OwnSummary
    <3> QED
      BY <2>1, <2>s, <3>1, <3>2, <3>3
      DEF CaseInv, Case!PassedIsEarned, NothingBegun, NotYetPassed, BoundIsFinalized,
        SkippedByTheBare
  <2> QED
    BY <2>4, <2>5
<1>8. ASSUME Case!Commit PROVE CaseInv'
  <2>1. /\ pc = "commit" /\ ~result.passed /\ pc' = "case_checks" /\ phase' = "checker"
        /\ UNCHANGED <<agent, caseTurn, written, summedUp, failure, budget, bound, result, rows>>
        /\ gates' \in [Case!Gates -> Case!Verdicts \cup {"unknown", "skipped"}]
    BY <1>0, <1>8 DEF Case!Commit, CaseInv, NotYetPassed
  <2>s. SkippedByTheBare'
    <3>1. PICK verdict \in Case!Verdicts : gates' = [gates EXCEPT ![Case!Reviews] = verdict]
      BY <1>8 DEF Case!Commit
    <3> QED
      BY <1>0, <2>1, <3>1 DEF CaseInv, SkippedByTheBare, Case!Verdicts, Case!Gates
  <2>2. Case!TypeOK'
    BY <2>1 DEF CaseInv, Case!TypeOK, Case!Stages
  <2> QED
    BY <2>1, <2>s, <2>2
    DEF CaseInv, Case!PassedIsEarned, NothingBegun, TurnsInOrder, OwnSummary, NotYetPassed,
        BoundIsFinalized
<1>9. ASSUME Case!CaseChecks PROVE CaseInv'
  <2>1. PICK verdict \in Case!Verdicts :
          gates' = [gates EXCEPT ![Case!Case] = verdict] /\ result' = Case!Outcome(verdict)
    BY <1>9 DEF Case!CaseChecks
  <2>2. /\ pc = "case_checks" /\ pc' = "finalize"
        /\ UNCHANGED <<agent, caseTurn, phase, written, summedUp, failure, budget, bound, rows>>
    BY <1>9 DEF Case!CaseChecks
  <2>3. /\ gates' \in [Case!Gates -> Case!Verdicts \cup {"unknown", "skipped"}]
        /\ Case!Case \in Case!Gates
        /\ gates' = [gates EXCEPT ![Case!Case] = verdict]
    BY <1>0, <2>1 DEF Case!Case, Case!Gates, Case!Reviews
  <2>s. SkippedByTheBare'
    BY <1>0, <2>1, <2>2, <2>3 DEF CaseInv, SkippedByTheBare, Case!Verdicts, Case!Gates
  <2>p. Case!Passed(verdict) =>
          \A g \in Case!Gates :
              \/ gates'[g] = "passed"
              \/ gates'[g] = "skipped" /\ agent = "bare" /\ g \in 1..Turns
    BY <1>0, <2>1, <2>3 DEF CaseInv, SkippedByTheBare, Case!Passed, Case!Gates
  <2>4. Case!Passed(verdict) \in BOOLEAN
    BY DEF Case!Passed
  <2>5. /\ result' \in [status : Case!Statuses, passed : BOOLEAN, category : Case!Categories]
        /\ result'.passed =>
             /\ Case!Passed(verdict) /\ ~failure /\ budget # "hard"
             /\ result'.status \notin {"failed", "budget_exceeded"}
    BY <2>1, <2>4 DEF Case!Outcome, Case!Statuses, Case!Categories
  <2>6. Case!TypeOK'
    BY <2>2, <2>3, <2>5 DEF CaseInv, Case!TypeOK, Case!Stages
  <2>7. Case!PassedIsEarned'
    BY <2>2, <2>p, <2>5 DEF Case!PassedIsEarned, Case!Gates
  <2> QED
    BY <2>2, <2>6, <2>7, <2>s
    DEF CaseInv, NothingBegun, TurnsInOrder, OwnSummary, NotYetPassed, BoundIsFinalized
<1>10. ASSUME Case!Finalize PROVE CaseInv'
  <2>1. PICK end \in {"completed", "failed", "budget_exceeded"} : bound' \in Case!Finalized(end)
    BY <1>10 DEF Case!Finalize
  <2>2. /\ pc = "finalize" /\ pc' = "exit"
        /\ UNCHANGED <<agent, caseTurn, phase, written, summedUp, gates, failure, budget, result, rows>>
    BY <1>10 DEF Case!Finalize
  <2>3. /\ bound' \in [is : {"none", "running", "completed", "failed", "timed_out",
                             "budget_exceeded"},
                       finalized : BOOLEAN, refused : BOOLEAN]
        /\ BoundIsFinalized'
    BY <2>1, FinalizedMeans DEF BoundIsFinalized
  <2>4. Case!TypeOK'
    BY <2>2, <2>3 DEF CaseInv, Case!TypeOK, Case!Stages
  <2> QED
    BY <2>2, <2>3, <2>4
    DEF CaseInv, Case!PassedIsEarned, Case!Gates, NothingBegun, TurnsInOrder, OwnSummary,
        NotYetPassed, SkippedByTheBare
<1>11. ASSUME Case!Record PROVE CaseInv'
  <2>1. /\ pc = "record" /\ pc' = "returned" /\ rows' = rows + 1
        /\ UNCHANGED <<agent, caseTurn, phase, written, summedUp, gates, failure, budget, bound,
                       result>>
    BY <1>11 DEF Case!Record
  <2>2. rows' \in 0..1
    BY <2>1 DEF CaseInv, OwnSummary
  <2>3. Case!TypeOK'
    BY <2>1, <2>2 DEF CaseInv, Case!TypeOK, Case!Ended
  <2> QED
    BY <2>1, <2>3
    DEF CaseInv, Case!PassedIsEarned, Case!Gates, NothingBegun, TurnsInOrder, OwnSummary,
        NotYetPassed, BoundIsFinalized, SkippedByTheBare
<1> QED
  BY <1>1, <1>2, <1>3, <1>4, <1>5, <1>6, <1>7, <1>8, <1>9, <1>10, <1>11 DEF Case!Next

LEMMA CaseMeans == ASSUME CaseInv PROVE Case!EveryTurnIsSummedUp /\ Case!TaskIsSettled
<1>1. /\ Turns \in Nat /\ caseTurn \in 0..Turns /\ summedUp \in [1..Turns -> 0..2]
      /\ bound.finalized \in BOOLEAN
  BY ScriptsHaveTurns DEF CaseInv, Case!TypeOK
<1>2. Case!EveryTurnIsSummedUp
  BY <1>1 DEF CaseInv, TurnsInOrder, OwnSummary, Case!EveryTurnIsSummedUp
<1>3. Case!TaskIsSettled
  BY <1>1 DEF CaseInv, BoundIsFinalized, Case!TaskIsSettled
<1> QED
  BY <1>2, <1>3

-----------------------------------------------------------------------------
(* Batches of cases, their rows, and what is merged of them.                 *)

\* The results of a batch are those of its first cases; it ends as completed when,
\* and only when, it has them all.
BatchIsSound(b, batch) ==
    /\ \A i \in 1..Len(batch.results) : batch.results[i] = Batch!ResultOf(b, batch, i)
    /\ batch.status = "queued" => batch.results = <<>> /\ batch.cases # <<>>
    /\ batch.status = "running" => Len(batch.results) < Len(batch.cases)
    /\ batch.status = "completed" => Len(batch.results) = Len(batch.cases)
    /\ batch.status = "none" => batch = Batch!NoBatch

BatchInv ==
    /\ Batch!TypeOK /\ Batch!PerformanceIsWhole
    /\ \A b \in Batches : BatchIsSound(b, batches[b]) /\ BatchIsSound(b, file[b])
    /\ \A b \in Batches : batches[b].status \in Batch!ActiveStatuses => b \in memory
    /\ \A b \in Batches : file[b].status \notin Batch!ActiveStatuses
    /\ \A b \in deleted : b \notin memory /\ file[b] = Batch!NoBatch

LEMMA NothingIsSound ==
  /\ \A b \in Batches : BatchIsSound(b, Batch!NoBatch)
  /\ Batch!NoBatch.status \notin Batch!ActiveStatuses
<1>1. Batch!NoBatch.status = "none" /\ Batch!NoBatch.results = <<>>
  BY DEF Batch!NoBatch
<1>2. \A i \in 1..Len(<<>>) : FALSE
  OBVIOUS
<1> QED
  BY <1>1, <1>2 DEF BatchIsSound, Batch!ActiveStatuses

LEMMA BatchInit == ASSUME Batch!Init PROVE BatchInv
<1>1. /\ batches \in [Batches -> Batch!Batch \cup {Batch!NoBatch}]
      /\ file \in [Batches -> Batch!Batch \cup {Batch!NoBatch}]
      /\ \A b \in Batches : batches[b] = Batch!NoBatch /\ file[b] = Batch!NoBatch
  BY DEF Batch!Init
<1>2. Batch!TypeOK /\ Batch!PerformanceIsWhole
  BY <1>1 DEF Batch!Init, Batch!TypeOK, Batch!PerformanceIsWhole
<1> QED
  BY <1>1, <1>2, NothingIsSound DEF BatchInv, Batch!Init

\* A batch is put in the place of another, in memory and perhaps in the file.
LEMMA BatchChanges ==
  ASSUME BatchInv, NEW b \in Batches, NEW batch \in Batch!Batch, b \in memory', b \notin deleted,
         BatchIsSound(b, batch), batches' = [batches EXCEPT ![b] = batch],
         \/ file' = file
         \/ file' = [file EXCEPT ![b] = batch] /\ batch.status \notin Batch!ActiveStatuses,
         memory' \in {memory, memory \cup {b}}, tasks' \subseteq Batches,
         UNCHANGED <<performance, deleted>>
  PROVE  BatchInv'
<1>1. /\ batches \in [Batches -> Batch!Batch \cup {Batch!NoBatch}]
      /\ file \in [Batches -> Batch!Batch \cup {Batch!NoBatch}]
      /\ memory \subseteq Batches /\ deleted \subseteq Batches
  BY DEF BatchInv, Batch!TypeOK
<1>2. /\ batches' \in [Batches -> Batch!Batch \cup {Batch!NoBatch}]
      /\ file' \in [Batches -> Batch!Batch \cup {Batch!NoBatch}]
      /\ memory' \subseteq Batches
      /\ batches'[b] = batch
      /\ \/ file'[b] = file[b]
         \/ file'[b] = batch /\ batch.status \notin Batch!ActiveStatuses
      /\ \A c \in Batches : c # b => batches'[c] = batches[c] /\ file'[c] = file[c]
  <2>1. /\ batches' \in [Batches -> Batch!Batch \cup {Batch!NoBatch}] /\ batches'[b] = batch
        /\ \A c \in Batches : c # b => batches'[c] = batches[c]
    BY <1>1
  <2>2. CASE file' = file
    BY <1>1, <2>1, <2>2
  <2>3. CASE file' = [file EXCEPT ![b] = batch] /\ batch.status \notin Batch!ActiveStatuses
    <3>1. /\ file' \in [Batches -> Batch!Batch \cup {Batch!NoBatch}] /\ file'[b] = batch
          /\ \A c \in Batches : c # b => file'[c] = file[c]
      BY <1>1, <2>3
    <3> QED
      BY <1>1, <2>1, <2>3, <3>1
  <2> QED
    BY <2>2, <2>3
<1>3. Batch!TypeOK' /\ Batch!PerformanceIsWhole'
  BY <1>2 DEF BatchInv, Batch!TypeOK, Batch!PerformanceIsWhole
<1>4. \A c \in Batches : BatchIsSound(c, batches'[c]) /\ BatchIsSound(c, file'[c])
  BY <1>2 DEF BatchInv
<1>5. \A c \in Batches : batches'[c].status \in Batch!ActiveStatuses => c \in memory'
  BY <1>2 DEF BatchInv
<1>6. \A c \in Batches : file'[c].status \notin Batch!ActiveStatuses
  BY <1>2 DEF BatchInv
<1>7. \A c \in deleted' : c \notin memory' /\ file'[c] = Batch!NoBatch
  BY <1>1, <1>2 DEF BatchInv
<1>8. \A c \in Batches : BatchIsSound(c, batches[c])' /\ BatchIsSound(c, file[c])'
  BY <1>4 DEF BatchIsSound, Batch!ResultOf, Batch!NoBatch
<1> QED
  BY <1>3, <1>5, <1>6, <1>7, <1>8 DEF BatchInv

\* Of a batch that is active, the manager has the object and nobody deleted it.
LEMMA ActiveIsThere ==
  ASSUME BatchInv, NEW b \in Batches, batches[b].status \in Batch!ActiveStatuses
  PROVE  b \in memory /\ b \notin deleted /\ batches[b] \in Batch!Batch
<1>1. Batch!NoBatch.status \notin Batch!ActiveStatuses
  BY DEF Batch!ActiveStatuses, Batch!NoBatch
<1>2. batches[b] \in Batch!Batch \cup {Batch!NoBatch}
  BY DEF BatchInv, Batch!TypeOK
<1> QED
  BY <1>1, <1>2 DEF BatchInv

\* What is merged of completed batches is of one version and has the baseline once.
LEMMA MergedIsWhole ==
  ASSUME BatchInv, NEW chosen \in SUBSET Batches, NEW merged,
         \A r \in merged : \E b \in chosen : r \in Batch!ResultsIn(Batch!Known(b)),
         \A b \in chosen : Batch!Known(b).status = "completed",
         \A b, c \in chosen : Batch!Known(b).version = Batch!Known(c).version,
         Batch!Agree(merged), Batch!Covers(merged)
  PROVE  /\ merged \subseteq Batch!Results
         /\ merged # {} /\ Batch!Agree(merged) /\ Batch!CasesOf(merged) = Baseline
         /\ \A r, s \in merged : r.version = s.version
<1>1. \A b \in chosen :
        Batch!Known(b) \in Batch!Batch /\ BatchIsSound(b, Batch!Known(b))
  <2> SUFFICES ASSUME NEW b \in chosen
               PROVE  Batch!Known(b) \in Batch!Batch /\ BatchIsSound(b, Batch!Known(b))
    OBVIOUS
  <2>1. Batch!NoBatch.status = "none" /\ Batch!Known(b).status = "completed"
    BY DEF Batch!NoBatch
  <2>2. Batch!Known(b) # Batch!NoBatch
    BY <2>1
  <2>3. Batch!Known(b) = batches[b] \/ Batch!Known(b) = file[b]
    BY DEF Batch!Known
  <2> QED
    BY <2>2, <2>3 DEF BatchInv, Batch!TypeOK
<1>2. \A b \in chosen : \A r \in Batch!ResultsIn(Batch!Known(b)) :
        r \in Batch!Results /\ r.version = Batch!Known(b).version
  <2> SUFFICES ASSUME NEW b \in chosen, NEW r \in Batch!ResultsIn(Batch!Known(b))
               PROVE  r \in Batch!Results /\ r.version = Batch!Known(b).version
    OBVIOUS
  <2>1. Batch!Known(b).results \in Seq(Batch!Results)
    BY <1>1 DEF Batch!Batch
  <2>2. PICK i \in 1..Len(Batch!Known(b).results) : r = Batch!Known(b).results[i]
    BY <2>1 DEF Batch!ResultsIn
  <2>3. r = Batch!ResultOf(b, Batch!Known(b), i)
    BY <1>1, <2>2 DEF BatchIsSound
  <2>4. Batch!Known(b).results[i] \in Batch!Results
    BY <2>1, <2>2
  <2> QED
    BY <2>2, <2>3, <2>4 DEF Batch!ResultOf
<1>3. \A r \in merged : \E b \in chosen : r \in Batch!Results /\ r.version = Batch!Known(b).version
  BY <1>2
<1> QED
  BY <1>3 DEF Batch!Covers

LEMMA BatchStep == ASSUME BatchInv, Batch!Next PROVE BatchInv'
<1>0. /\ batches \in [Batches -> Batch!Batch \cup {Batch!NoBatch}]
      /\ file \in [Batches -> Batch!Batch \cup {Batch!NoBatch}]
      /\ memory \subseteq Batches /\ tasks \subseteq Batches /\ deleted \subseteq Batches
  BY DEF BatchInv, Batch!TypeOK
<1>1. ASSUME NEW b \in Batches, NEW v \in AgentVersions, NEW cases \in Selections, Batch!Start(b, v, cases)
      PROVE  BatchInv'
  <2> DEFINE batch == [status |-> "queued", version |-> v, cases |-> cases, results |-> <<>>]
  <2>1. cases \in Seq(Catalog) /\ cases # <<>>
    BY SelectionsAreCases
  <2>2. batch \in Batch!Batch
    BY <2>1 DEF Batch!Batch, Batch!ActiveStatuses
  <2>3. BatchIsSound(b, batch)
    <3>1. \A n \in 1..Len(<<>>) : FALSE
      OBVIOUS
    <3> QED
      BY <2>1, <3>1 DEF BatchIsSound
  <2>4. /\ batches' = [batches EXCEPT ![b] = batch] /\ file' = file
        /\ memory' = memory \cup {b} /\ b \notin deleted /\ tasks' \subseteq Batches
        /\ UNCHANGED <<performance, deleted>>
    BY <1>0, <1>1 DEF Batch!Start
  <2> HIDE DEF batch
  <2> QED
    BY <2>2, <2>3, <2>4, BatchChanges
<1>2. ASSUME NEW b \in Batches, Batch!Run(b) PROVE BatchInv'
  <2>1. batches[b].status = "queued" /\ batches[b].status \in Batch!ActiveStatuses
    BY <1>2 DEF Batch!Run, Batch!ActiveStatuses
  <2>2. b \in memory /\ b \notin deleted /\ batches[b] \in Batch!Batch
    BY <2>1, ActiveIsThere
  <2> DEFINE batch == [batches[b] EXCEPT !.status = "running"]
  <2>3. batch \in Batch!Batch
    BY <2>2 DEF Batch!Batch, Batch!ActiveStatuses
  <2>4. BatchIsSound(b, batches[b])
    BY DEF BatchInv
  <2>5. BatchIsSound(b, batch)
    <3>1. /\ batch.results = <<>> /\ batch.cases \in Seq(Catalog) /\ batch.cases # <<>>
          /\ batch.status = "running"
      BY <2>1, <2>2, <2>4 DEF BatchIsSound, Batch!Batch
    <3>2. Len(<<>>) = 0 /\ Len(batch.cases) > 0
      BY <3>1
    <3> HIDE DEF batch
    <3> QED
      BY <3>1, <3>2 DEF BatchIsSound
  <2>6. /\ batches' = [batches EXCEPT ![b] = batch]
        /\ UNCHANGED <<memory, tasks, file, performance, deleted>>
    BY <1>2 DEF Batch!Run
  <2> HIDE DEF batch
  <2> QED
    BY <1>0, <2>2, <2>3, <2>5, <2>6, BatchChanges
<1>3. ASSUME NEW b \in Batches, Batch!CaseReturns(b) PROVE BatchInv'
  <2>1. batches[b].status = "running" /\ batches[b].status \in Batch!ActiveStatuses
    BY <1>3 DEF Batch!CaseReturns, Batch!ActiveStatuses
  <2>2. /\ b \in memory /\ b \notin deleted /\ batches[b] \in Batch!Batch
        /\ BatchIsSound(b, batches[b])
    BY <2>1, ActiveIsThere DEF BatchInv
  <2>3. /\ batches[b].cases \in Seq(Catalog) /\ batches[b].results \in Seq(Batch!Results)
        /\ batches[b].version \in AgentVersions
    BY <2>2 DEF Batch!Batch
  <2> DEFINE n == Len(batches[b].results) + 1
             row == Batch!ResultOf(b, batches[b], n)
             got == Append(batches[b].results, row)
  <2>4. n \in 1..Len(batches[b].cases)
    BY <2>1, <2>2, <2>3 DEF BatchIsSound
  <2>5. row \in Batch!Results
    BY <2>3, <2>4 DEF Batch!ResultOf, Batch!Results
  <2>6. /\ got \in Seq(Batch!Results) /\ Len(got) = n
        /\ \A i \in 1..Len(got) : got[i] = Batch!ResultOf(b, batches[b], i)
    <3> HIDE DEF row
    <3>1. /\ got \in Seq(Batch!Results) /\ Len(got) = n /\ got[n] = row
          /\ \A i \in 1..Len(batches[b].results) : got[i] = batches[b].results[i]
      BY <2>3, <2>5
    <3>2. \A i \in 1..Len(batches[b].results) :
            batches[b].results[i] = Batch!ResultOf(b, batches[b], i)
      BY <2>2 DEF BatchIsSound
    <3>3. \A i \in 1..n : i = n \/ i \in 1..Len(batches[b].results)
      BY <2>3
    <3> HIDE DEF got, n
    <3> QED
      BY <3>1, <3>2, <3>3 DEF row
  <2>7. /\ IF Len(got) = Len(batches[b].cases)
           THEN Batch!Ends(b, [batches[b] EXCEPT !.results = got, !.status = "completed"])
           ELSE batches' = [batches EXCEPT ![b].results = got] /\ UNCHANGED <<memory, tasks, file>>
        /\ UNCHANGED <<performance, deleted>>
    BY <1>3 DEF Batch!CaseReturns
  <2>8. Len(got) \in Nat /\ Len(batches[b].cases) \in Nat /\ Len(got) <= Len(batches[b].cases)
    BY <2>3, <2>4, <2>6
  <2>9. \A batch : batch.version = batches[b].version /\ batch.cases = batches[b].cases =>
          \A i \in 1..Len(got) : Batch!ResultOf(b, batches[b], i) = Batch!ResultOf(b, batch, i)
    BY DEF Batch!ResultOf
  <2> HIDE DEF got, n, row
  <2>10. CASE Len(got) = Len(batches[b].cases)
    <3> DEFINE batch == [batches[b] EXCEPT !.results = got, !.status = "completed"]
    <3>1. batch \in Batch!Batch /\ batch.status = "completed" /\ batch.results = got
          /\ batch.cases = batches[b].cases /\ batch.version = batches[b].version
      BY <2>2, <2>6 DEF Batch!Batch, Batch!FinalStatuses
    <3>2. Batch!Ends(b, batch) /\ UNCHANGED <<performance, deleted>>
      BY <2>7, <2>10
    <3> HIDE DEF batch
    <3>3. BatchIsSound(b, batch)
      BY <2>6, <2>9, <2>10, <3>1 DEF BatchIsSound
    <3>4. batch.status \notin Batch!ActiveStatuses
      BY <3>1 DEF Batch!ActiveStatuses
    <3> QED
      BY <1>0, <2>2, <3>1, <3>2, <3>3, <3>4, BatchChanges DEF Batch!Ends
  <2>11. CASE Len(got) # Len(batches[b].cases)
    <3> DEFINE batch == [batches[b] EXCEPT !.results = got]
    <3>1. batch \in Batch!Batch /\ batch.status = "running" /\ batch.results = got
          /\ batch.cases = batches[b].cases /\ batch.version = batches[b].version
      BY <2>1, <2>2, <2>6 DEF Batch!Batch
    <3>2. batches' = [batches EXCEPT ![b] = batch]
          /\ UNCHANGED <<memory, tasks, file, performance, deleted>>
      BY <2>7, <2>11
    <3> HIDE DEF batch
    <3>3. BatchIsSound(b, batch)
      BY <2>6, <2>8, <2>9, <2>11, <3>1 DEF BatchIsSound
    <3> QED
      BY <1>0, <2>2, <3>1, <3>2, <3>3, BatchChanges
  <2> QED
    BY <2>10, <2>11
<1>4. ASSUME NEW b \in Batches, Batch!Stops(b) PROVE BatchInv'
  <2>1. batches[b].status = "running" /\ batches[b].status \in Batch!ActiveStatuses
    BY <1>4 DEF Batch!Stops, Batch!ActiveStatuses
  <2>2. /\ b \in memory /\ b \notin deleted /\ batches[b] \in Batch!Batch
        /\ BatchIsSound(b, batches[b])
    BY <2>1, ActiveIsThere DEF BatchInv
  <2>3. PICK why \in {"failed", "cancelled"} : Batch!Ends(b, [batches[b] EXCEPT !.status = why])
    BY <1>4 DEF Batch!Stops, Batch!StatusAfter
  <2> DEFINE batch == [batches[b] EXCEPT !.status = why]
  <2>4. /\ batch \in Batch!Batch /\ batch.status = why /\ batch.results = batches[b].results
        /\ batch.cases = batches[b].cases /\ batch.version = batches[b].version
    BY <2>2 DEF Batch!Batch, Batch!FinalStatuses
  <2>5. Batch!Ends(b, batch) /\ UNCHANGED <<performance, deleted>>
    BY <1>4, <2>3 DEF Batch!Stops
  <2> HIDE DEF batch
  <2>6. BatchIsSound(b, batch)
    BY <2>2, <2>4 DEF BatchIsSound, Batch!ResultOf
  <2>7. batch.status \notin Batch!ActiveStatuses
    BY <2>4 DEF Batch!ActiveStatuses
  <2> QED
    BY <1>0, <2>2, <2>4, <2>5, <2>6, <2>7, BatchChanges DEF Batch!Ends
<1>5. ASSUME NEW b \in Batches, Batch!Delete(b) PROVE BatchInv'
  <2>1. /\ memory' = memory \ {b} /\ file' = [file EXCEPT ![b] = Batch!NoBatch]
        /\ deleted' = deleted \cup {b} /\ UNCHANGED <<batches, tasks, performance>>
        /\ Batch!Known(b).status \in Batch!FinalStatuses
    BY <1>5 DEF Batch!Delete, Batch!Deletable
  <2>2. /\ file' \in [Batches -> Batch!Batch \cup {Batch!NoBatch}] /\ file'[b] = Batch!NoBatch
        /\ \A c \in Batches : c # b => file'[c] = file[c]
    BY <1>0, <2>1
  <2>3. Batch!TypeOK' /\ Batch!PerformanceIsWhole'
    BY <2>1, <2>2 DEF BatchInv, Batch!TypeOK, Batch!PerformanceIsWhole
  <2>4. batches[b].status \notin Batch!ActiveStatuses
    BY <2>1 DEF BatchInv, Batch!Known, Batch!ActiveStatuses, Batch!FinalStatuses
  <2>5. BatchIsSound(b, Batch!NoBatch) /\ Batch!NoBatch.status \notin Batch!ActiveStatuses
    BY NothingIsSound
  <2>6. \A c \in Batches : BatchIsSound(c, batches'[c]) /\ BatchIsSound(c, file'[c])
    BY <2>1, <2>2, <2>5 DEF BatchInv
  <2>7. \A c \in Batches : BatchIsSound(c, batches[c])' /\ BatchIsSound(c, file[c])'
    BY <2>6 DEF BatchIsSound, Batch!ResultOf, Batch!NoBatch
  <2>8. /\ \A c \in Batches : batches'[c].status \in Batch!ActiveStatuses => c \in memory'
        /\ \A c \in Batches : file'[c].status \notin Batch!ActiveStatuses
        /\ \A c \in deleted' : c \notin memory' /\ file'[c] = Batch!NoBatch
    BY <1>0, <2>1, <2>2, <2>4, <2>5 DEF BatchInv
  <2> QED
    BY <2>3, <2>7, <2>8 DEF BatchInv
<1>6. ASSUME NEW chosen \in SUBSET Batches \ {{}}, Batch!Merge(chosen) PROVE BatchInv'
  <2>1. PICK merged :
          /\ merged = {r \in UNION {Batch!ResultsIn(Batch!Known(b)) : b \in chosen} : r.case \in Baseline}
          /\ performance' = performance \cup {merged}
    BY <1>6 DEF Batch!Merge
  <2>2. /\ merged \subseteq Batch!Results
        /\ merged # {} /\ Batch!Agree(merged) /\ Batch!CasesOf(merged) = Baseline
        /\ \A r, s \in merged : r.version = s.version
    <3>1. /\ \A b \in chosen : Batch!Known(b).status = "completed"
          /\ \A b, c \in chosen : Batch!Known(b).version = Batch!Known(c).version
          /\ Batch!Agree(merged) /\ Batch!Covers(merged)
      BY <1>6, <2>1 DEF Batch!Merge
    <3>2. /\ chosen \in SUBSET Batches
          /\ \A r \in merged : \E b \in chosen : r \in Batch!ResultsIn(Batch!Known(b))
      BY <2>1
    <3> QED
      BY <3>1, <3>2, MergedIsWhole
  <2>3. UNCHANGED <<batches, memory, tasks, file, deleted>>
    BY <1>6 DEF Batch!Merge
  <2>4. Batch!TypeOK'
    BY <2>1, <2>2, <2>3 DEF BatchInv, Batch!TypeOK
  <2>5. Batch!PerformanceIsWhole'
    BY <2>1, <2>2 DEF BatchInv, Batch!PerformanceIsWhole
  <2> QED
    BY <2>3, <2>4, <2>5 DEF BatchInv, BatchIsSound, Batch!ResultOf
<1>7. ASSUME NEW p \in performance, Batch!DeletePerformance(p) PROVE BatchInv'
  <2>1. performance' = performance \ {p} /\ UNCHANGED <<batches, memory, tasks, file, deleted>>
    BY <1>7 DEF Batch!DeletePerformance
  <2>2. Batch!TypeOK' /\ Batch!PerformanceIsWhole'
    BY <2>1 DEF BatchInv, Batch!TypeOK, Batch!PerformanceIsWhole
  <2> QED
    BY <2>1, <2>2 DEF BatchInv, BatchIsSound, Batch!ResultOf
<1>8. ASSUME Batch!Restart PROVE BatchInv'
  <2>1. /\ memory' = {} /\ tasks' = {} /\ UNCHANGED <<file, performance, deleted>>
        /\ batches' \in [Batches -> Batch!Batch \cup {Batch!NoBatch}]
        /\ \A b \in Batches : batches'[b] = Batch!NoBatch
    BY <1>8 DEF Batch!Restart
  <2>2. Batch!TypeOK' /\ Batch!PerformanceIsWhole'
    BY <2>1 DEF BatchInv, Batch!TypeOK, Batch!PerformanceIsWhole
  <2>3. /\ \A b \in Batches : BatchIsSound(b, Batch!NoBatch)
        /\ Batch!NoBatch.status \notin Batch!ActiveStatuses
    BY NothingIsSound
  <2>4. \A c \in Batches : BatchIsSound(c, batches'[c]) /\ BatchIsSound(c, file'[c])
    BY <2>1, <2>3 DEF BatchInv
  <2>5. \A c \in Batches : BatchIsSound(c, batches[c])' /\ BatchIsSound(c, file[c])'
    BY <2>4 DEF BatchIsSound, Batch!ResultOf, Batch!NoBatch
  <2> QED
    BY <2>1, <2>2, <2>3, <2>5 DEF BatchInv
<1>9. ASSUME NEW b \in Batches, Batch!NeverRuns(b) PROVE BatchInv'
  <2>1. tasks' = tasks \ {b} /\ UNCHANGED <<batches, memory, file, performance, deleted>>
    BY <1>9 DEF Batch!NeverRuns
  <2>2. Batch!TypeOK' /\ Batch!PerformanceIsWhole'
    BY <2>1 DEF BatchInv, Batch!TypeOK, Batch!PerformanceIsWhole
  <2> QED
    BY <2>1, <2>2 DEF BatchInv, BatchIsSound, Batch!ResultOf
<1>10. ASSUME NEW round \in Rounds, NEW v \in AgentVersions, NEW cases \in RoundCases,
              Batch!Register(round, v, cases)
       PROVE  BatchInv'
  <2> DEFINE p == {[from |-> round, version |-> v, case |-> c, place |-> 1] : c \in cases}
  <2>1. /\ performance' = performance \cup {p}
        /\ UNCHANGED <<batches, memory, tasks, file, deleted>>
    BY <1>10 DEF Batch!Register
  <2>2. cases \subseteq Catalog /\ cases # {} /\ round \notin Batches
    BY RoundsHaveCases, RoundsAreNoBatches
  <2>3. /\ p \subseteq Batch!Results /\ p # {} /\ \A r, s \in p : r.version = s.version
        /\ Batch!Agree(p) /\ \A r \in p : r.from \notin Batches
    <3>1. \A r \in p : r \in Batch!Results /\ r.version = v /\ r.from \notin Batches
      <4>1. \A c \in cases : c \in Catalog /\ round \in Batches \cup Rounds /\ 1 \in Nat
        BY <2>2
      <4>2. \A c \in cases :
              [from |-> round, version |-> v, case |-> c, place |-> 1] \in Batch!Results
        BY <4>1 DEF Batch!Results
      <4> QED
        BY <2>2, <4>2
    <3>2. Batch!Agree(p) /\ p # {}
      <4>1. \A r \in p : r = [from |-> round, version |-> v, case |-> r.case, place |-> 1]
        OBVIOUS
      <4>2. p # {}
        BY <2>2
      <4> HIDE DEF p
      <4> QED
        BY <4>1, <4>2 DEF Batch!Agree
    <3> HIDE DEF p
    <3> QED
      BY <3>1, <3>2
  <2> HIDE DEF p
  <2>4. Batch!TypeOK'
    BY <2>1, <2>3 DEF BatchInv, Batch!TypeOK
  <2>5. Batch!PerformanceIsWhole'
    BY <2>1, <2>3 DEF BatchInv, Batch!PerformanceIsWhole
  <2> QED
    BY <2>1, <2>4, <2>5 DEF BatchInv, BatchIsSound, Batch!ResultOf
<1> QED
  BY <1>1, <1>2, <1>3, <1>4, <1>5, <1>6, <1>7, <1>8, <1>9, <1>10 DEF Batch!Next

LEMMA BatchMeans == ASSUME BatchInv PROVE Batch!CompletedIsWhole /\ Batch!DeletedIsGone
<1>1. ASSUME NEW b \in Batches, NEW batch \in {batches[b], file[b]}, batch.status = "completed"
      PROVE  [i \in DOMAIN batch.results |-> batch.results[i].case] = batch.cases
  <2>1. batch \in Batch!Batch /\ BatchIsSound(b, batch)
    <3>1. Batch!NoBatch.status = "none"
      BY DEF Batch!NoBatch
    <3>2. batch # Batch!NoBatch
      BY <1>1, <3>1
    <3> QED
      BY <3>2 DEF BatchInv, Batch!TypeOK
  <2>2. batch.results \in Seq(Batch!Results) /\ batch.cases \in Seq(Catalog)
    BY <2>1 DEF Batch!Batch
  <2>3. /\ DOMAIN batch.results = 1..Len(batch.results) /\ DOMAIN batch.cases = 1..Len(batch.cases)
        /\ Len(batch.results) = Len(batch.cases)
    BY <1>1, <2>1, <2>2 DEF BatchIsSound
  <2>4. \A i \in 1..Len(batch.results) : batch.results[i].case = batch.cases[i]
    <3>1. \A i \in 1..Len(batch.results) : batch.results[i] = Batch!ResultOf(b, batch, i)
      BY <2>1 DEF BatchIsSound
    <3>2. \A i : Batch!ResultOf(b, batch, i).case = batch.cases[i]
      BY DEF Batch!ResultOf
    <3> QED
      BY <3>1, <3>2
  <2>5. batch.cases = [i \in DOMAIN batch.cases |-> batch.cases[i]]
    BY <2>2
  <2>6. [i \in DOMAIN batch.results |-> batch.results[i].case]
          = [i \in DOMAIN batch.cases |-> batch.cases[i]]
    BY <2>3, <2>4
  <2> QED
    BY <2>5, <2>6
<1>2. Batch!DeletedIsGone
  BY DEF BatchInv, Batch!TypeOK, Batch!DeletedIsGone, Batch!Known
<1> QED
  BY <1>1, <1>2 DEF Batch!CompletedIsWhole

-----------------------------------------------------------------------------
(* Plugins: the plan in force, the modules that were imported, and the       *)
(* threads of refreshes, canceled ones included.                             *)

Threads == [does : {"nothing", "queue", "import", "imported", "failed", "write", "written"},
            plan : Plugin!Catalogs]

\* Who may publish has the lock, and who imports is in its thread.
LocksAreHeld ==
    /\ \A r \in Requests : asked[r] \in {"building", "writing"} => turn = r
    /\ \A r \in Requests : importing = r <=> thread[r].does = "import"

\* What was imported is what the baseline has.
BaselineIsImported == \A p \in Plugins \ torn : imported[p] # 0 => baseline[p] = imported[p]

\* A plan that is being imported is what is on disk, or what was imported before.
ImportIsSound == \A r \in Requests : thread[r].does = "import" =>
    \A p \in Plugins : thread[r].plan[p] # 0 =>
        /\ baseline[p] = thread[r].plan[p]
        /\ p \notin torn =>
            /\ imported[p] # 0 => imported[p] = thread[r].plan[p]
            /\ imported[p] = 0 => disk[p] = thread[r].plan[p]

\* A plan that was imported is the code that runs.
PlanIsImported == \A r \in Requests : thread[r].does \in {"imported", "write", "written"} =>
    \A p \in Plugins \ torn : thread[r].plan[p] # 0 => imported[p] = thread[r].plan[p]

\* A plan that may still be published has what the one in force has.
PlanAdds == \A r \in Requests :
    (/\ asked[r] \in {"building", "writing"}
     /\ thread[r].does \in {"import", "imported", "write", "written"}) =>
        \A p \in Plugins : active[p] # 0 => thread[r].plan[p] = active[p]

WrittenIsArchived == \A r \in Requests :
    thread[r].does = "written" => thread[r].plan \in archive

\* A request that waits for its turn has no thread.
WaitingIsIdle == \A r \in Requests :
    asked[r] \in {"no", "queued"} => thread[r].does = "nothing"

PluginInv ==
    /\ Plugin!TypeOK /\ thread \in [Requests -> Threads]
    /\ Plugin!ActiveIsWhatRuns /\ Plugin!ActiveIsArchived
    /\ LocksAreHeld /\ BaselineIsImported /\ ImportIsSound /\ PlanIsImported /\ PlanAdds
    /\ WrittenIsArchived /\ WaitingIsIdle

LEMMA PluginInit == ASSUME Plugin!Init PROVE PluginInv
<1>1. Plugin!Empty \in Plugin!Catalogs /\ Plugin!NoThread \in Threads
      /\ \A p \in Plugins : Plugin!Empty[p] = 0
  BY DEF Plugin!Empty, Plugin!Catalogs, Plugin!Code, Plugin!NoThread, Threads
<1>2. /\ thread \in [Requests -> Threads]
      /\ \A r \in Requests : asked[r] = "no" /\ thread[r].does = "nothing"
      /\ importing = "nobody" /\ turn = "nobody"
  BY <1>1 DEF Plugin!Init, Plugin!NoThread, Plugin!Nobody
<1>3. Plugin!TypeOK
  <2>1. \A r \in Requests : thread[r] \in Threads
    BY <1>2
  <2> QED
    BY <1>1, <1>2, <2>1 DEF Plugin!Init, Plugin!TypeOK, Plugin!Nobody, Threads
<1>4. LocksAreHeld
  BY <1>2, RequestsHaveNames DEF LocksAreHeld
<1> QED
  BY <1>1, <1>2, <1>3, <1>4
  DEF Plugin!Init, PluginInv, Plugin!ActiveIsWhatRuns, Plugin!ActiveIsArchived,
      BaselineIsImported, ImportIsSound, PlanIsImported, PlanAdds, WrittenIsArchived,
      WaitingIsIdle

LEMMA PluginTypes ==
  ASSUME PluginInv
  PROVE  /\ disk \in Plugin!Catalogs /\ imported \in Plugin!Catalogs /\ baseline \in Plugin!Catalogs
         /\ active \in Plugin!Catalogs /\ archive \subseteq Plugin!Catalogs
         /\ thread \in [Requests -> Threads] /\ torn \subseteq Plugins
         /\ asked \in [Requests -> {"no", "queued", "building", "writing", "published",
                                    "unchanged", "rejected", "cancelled"}]
         /\ turn \in Requests \cup {"nobody"} /\ importing \in Requests \cup {"nobody"}
BY DEF PluginInv, Plugin!TypeOK, Plugin!Nobody

\* A step that changes neither plugins nor plans: a request goes on, or ends.
LEMMA RequestStep ==
  ASSUME PluginInv, NEW r \in Requests, NEW t \in Threads, NEW to,
         to \in {"queued", "building", "writing", "unchanged", "rejected", "cancelled"},
         asked' = [asked EXCEPT ![r] = to], thread' = [thread EXCEPT ![r] = t],
         turn' \in Requests \cup {"nobody"},
         turn' = turn \/ turn \in {r, "nobody"},
         to \in {"building", "writing"} => turn' = r,
         \/ t = thread[r] /\ to \notin {"building", "writing"} /\ asked[r] # "no"
         \/ t = thread[r] /\ to = "queued" /\ asked[r] = "no"
         \/ t.does \in {"nothing", "queue"} /\ thread[r].does # "import" /\ to # "queued"
         \/ /\ t.does = "write" /\ t.plan = thread[r].plan /\ thread[r].does = "imported"
            /\ asked[r] = "building" /\ to = "writing",
         to = "queued" => asked[r] = "no",
         UNCHANGED <<disk, imported, baseline, active, archive, importing, torn>>
  PROVE  PluginInv'
<1>1. thread \in [Requests -> Threads] /\ LocksAreHeld
  BY PluginTypes DEF PluginInv
<1>2. /\ thread' \in [Requests -> Threads] /\ thread'[r] = t
      /\ \A q \in Requests : q # r => thread'[q] = thread[q]
      /\ asked' \in [Requests -> {"no", "queued", "building", "writing", "published",
                                  "unchanged", "rejected", "cancelled"}]
      /\ asked'[r] = to /\ \A q \in Requests : q # r => asked'[q] = asked[q]
  BY <1>1, PluginTypes
<1>3. Plugin!TypeOK'
  <2>1. \A q \in Requests : thread'[q] \in Threads
    BY <1>2
  <2> QED
    BY <2>1, PluginTypes DEF Plugin!TypeOK, Plugin!Nobody, Threads
<1>4. LocksAreHeld'
  <2>1. \A q \in Requests : asked'[q] \in {"building", "writing"} => turn' = q
    BY <1>1, <1>2, RequestsHaveNames DEF LocksAreHeld
  <2>2. \A q \in Requests : importing' = q <=> thread'[q].does = "import"
    BY <1>1, <1>2 DEF LocksAreHeld
  <2> QED
    BY <2>1, <2>2 DEF LocksAreHeld
<1>5. Plugin!ActiveIsWhatRuns' /\ Plugin!ActiveIsArchived' /\ BaselineIsImported'
  BY DEF PluginInv, Plugin!ActiveIsWhatRuns, Plugin!ActiveIsArchived, BaselineIsImported
<1>6. ImportIsSound'
  BY <1>2 DEF PluginInv, ImportIsSound
<1>7. PlanIsImported'
  BY <1>2 DEF PluginInv, PlanIsImported
<1>8. PlanAdds'
  BY <1>2 DEF PluginInv, PlanAdds
<1>9. WrittenIsArchived'
  BY <1>2 DEF PluginInv, WrittenIsArchived
<1>10. WaitingIsIdle'
  BY <1>2 DEF PluginInv, WaitingIsIdle
<1> QED
  BY <1>2, <1>3, <1>4, <1>5, <1>6, <1>7, <1>8, <1>9, <1>10 DEF PluginInv

LEMMA PluginStep == ASSUME PluginInv, Plugin!Next PROVE PluginInv' /\ Plugin!Adds
<1>0. /\ disk \in Plugin!Catalogs /\ imported \in Plugin!Catalogs /\ baseline \in Plugin!Catalogs
      /\ active \in Plugin!Catalogs /\ archive \subseteq Plugin!Catalogs
      /\ thread \in [Requests -> Threads] /\ torn \subseteq Plugins
      /\ asked \in [Requests -> {"no", "queued", "building", "writing", "published",
                                 "unchanged", "rejected", "cancelled"}]
      /\ turn \in Requests \cup {"nobody"} /\ importing \in Requests \cup {"nobody"}
      /\ LocksAreHeld
  BY PluginTypes DEF PluginInv
<1>1. \A r \in Requests : thread[r] \in Threads /\ thread[r].plan \in Plugin!Catalogs
                          /\ thread[r] = [does |-> thread[r].does, plan |-> thread[r].plan]
  BY <1>0 DEF Threads
<1>a. UNCHANGED active => Plugin!Adds
  BY DEF Plugin!Adds
<1>2. ASSUME NEW p \in Plugins, NEW v \in Plugin!Code, Plugin!Install(p, v)
      PROVE  PluginInv' /\ Plugin!Adds
  <2>1. /\ disk' = [disk EXCEPT ![p] = v]
        /\ torn' = IF importing # "nobody" /\ thread[importing].plan[p] # imported[p]
                   THEN torn \cup {p} ELSE torn
        /\ UNCHANGED <<imported, baseline, active, archive, asked, turn, thread, importing>>
    BY <1>2 DEF Plugin!Install, Plugin!Nobody
  <2>2. /\ disk' \in Plugin!Catalogs /\ torn \subseteq torn' /\ torn' \subseteq Plugins
        /\ \A q \in Plugins : q # p => disk'[q] = disk[q]
    BY <1>0, <2>1 DEF Plugin!Catalogs
  <2>3. Plugin!TypeOK'
    <3>1. \A q \in Requests : thread'[q] \in Threads
      BY <1>1, <2>1
    <3> QED
      BY <1>0, <2>1, <2>2, <3>1 DEF Plugin!TypeOK, Plugin!Nobody, Threads
  <2>4. /\ Plugin!ActiveIsWhatRuns' /\ Plugin!ActiveIsArchived' /\ LocksAreHeld'
        /\ BaselineIsImported' /\ PlanIsImported' /\ PlanAdds' /\ WrittenIsArchived'
        /\ WaitingIsIdle'
    BY <2>1, <2>2
    DEF WaitingIsIdle, PluginInv, Plugin!ActiveIsWhatRuns, Plugin!ActiveIsArchived, LocksAreHeld,
        BaselineIsImported, PlanIsImported, PlanAdds, WrittenIsArchived
  <2>5. ImportIsSound'
    <3> SUFFICES ASSUME NEW r \in Requests, thread[r].does = "import", NEW q \in Plugins,
                        thread[r].plan[q] # 0
                 PROVE  /\ baseline[q] = thread[r].plan[q]
                        /\ q \notin torn' =>
                            /\ imported[q] # 0 => imported[q] = thread[r].plan[q]
                            /\ imported[q] = 0 => disk'[q] = thread[r].plan[q]
      BY <2>1 DEF ImportIsSound
    <3>1. importing = r /\ importing # "nobody"
      BY <1>0, RequestsHaveNames DEF LocksAreHeld
    <3>2. q = p /\ imported[q] = 0 => q \in torn'
      BY <2>1, <3>1
    <3> QED
      BY <2>2, <3>2 DEF PluginInv, ImportIsSound
  <2> QED
    BY <1>0, <1>a, <2>1, <2>3, <2>4, <2>5 DEF PluginInv
<1>3. ASSUME NEW r \in Requests, Plugin!Ask(r) PROVE PluginInv' /\ Plugin!Adds
  <2>1. /\ asked[r] = "no" /\ asked' = [asked EXCEPT ![r] = "queued"]
        /\ UNCHANGED <<disk, imported, baseline, active, archive, turn, thread, importing, torn>>
    BY <1>3 DEF Plugin!Ask
  <2>2. thread' = [thread EXCEPT ![r] = thread[r]] /\ thread[r] \in Threads
    BY <1>0, <1>1, <2>1
  <2> QED
    BY <1>0, <1>a, <2>1, <2>2, RequestStep
<1>4. ASSUME NEW r \in Requests, Plugin!TakesTurn(r) PROVE PluginInv' /\ Plugin!Adds
  <2> DEFINE t == [thread[r] EXCEPT !.does = "queue"]
  <2>1. /\ asked[r] = "queued" /\ asked' = [asked EXCEPT ![r] = "building"]
        /\ turn = "nobody" /\ turn' = r
        /\ thread' = [thread EXCEPT ![r] = t]
        /\ UNCHANGED <<disk, imported, baseline, active, archive, importing, torn>>
    BY <1>4 DEF Plugin!TakesTurn, Plugin!Nobody
  <2>2. t \in Threads /\ t.does = "queue"
    BY <1>1 DEF Threads
  <2>3. thread[r].does = "nothing"
    BY <2>1 DEF PluginInv, WaitingIsIdle
  <2> HIDE DEF t
  <2> QED
    BY <1>a, <2>1, <2>2, <2>3, RequestStep
<1>5. ASSUME NEW r \in Requests, Plugin!Cancel(r) PROVE PluginInv' /\ Plugin!Adds
  <2>1. /\ asked[r] # "no" /\ asked' = [asked EXCEPT ![r] = "cancelled"]
        /\ turn' = IF turn = r THEN "nobody" ELSE turn
        /\ UNCHANGED <<disk, imported, baseline, active, archive, thread, importing, torn>>
    BY <1>5 DEF Plugin!Cancel, Plugin!Nobody
  <2>2. thread' = [thread EXCEPT ![r] = thread[r]] /\ thread[r] \in Threads
    BY <1>0, <1>1, <2>1
  <2>3. turn' \in Requests \cup {"nobody"} /\ (turn' = turn \/ turn \in {r, "nobody"})
    BY <1>0, <2>1
  <2> QED
    BY <1>a, <2>1, <2>2, <2>3, RequestStep
\* A request that gets its answer lets the lock and its thread go.
<1>b. ASSUME NEW r \in Requests, asked[r] \in {"building", "writing"}, thread[r].does # "import",
             NEW to \in {"rejected", "unchanged"}, Plugin!Answers(r, to),
             UNCHANGED <<disk, imported, baseline, active, archive, importing, torn>>
      PROVE  PluginInv'
  <2>1. Plugin!NoThread \in Threads /\ Plugin!NoThread.does = "nothing"
    BY DEF Plugin!NoThread, Plugin!Empty, Threads, Plugin!Catalogs, Plugin!Code
  <2>2. turn = r
    BY <1>0, <1>b DEF LocksAreHeld
  <2>3. /\ asked' = [asked EXCEPT ![r] = to] /\ turn' = "nobody"
        /\ thread' = [thread EXCEPT ![r] = Plugin!NoThread]
    BY <1>b DEF Plugin!Answers, Plugin!Nobody
  <2> QED
    BY <1>b, <2>1, <2>2, <2>3, RequestStep
<1>6. ASSUME NEW r \in Requests, Plugin!Built(r) PROVE PluginInv' /\ Plugin!Adds
  <2>1. /\ asked[r] = "building" /\ thread[r].does \in {"imported", "failed"}
        /\ UNCHANGED <<disk, imported, baseline, active, archive, importing, torn>>
    BY <1>6 DEF Plugin!Built
  <2>2. CASE Plugin!Answers(r, "rejected") \/ Plugin!Answers(r, "unchanged")
    BY <1>a, <1>b, <2>1, <2>2
  <2>3. CASE ~(Plugin!Answers(r, "rejected") \/ Plugin!Answers(r, "unchanged"))
    <3> DEFINE t == [thread[r] EXCEPT !.does = "write"]
    <3>1. /\ asked' = [asked EXCEPT ![r] = "writing"] /\ turn' = turn
          /\ thread' = [thread EXCEPT ![r] = t] /\ thread[r].does # "failed"
      BY <1>6, <2>3 DEF Plugin!Built
    <3>2. t \in Threads /\ t.does = "write" /\ t.plan = thread[r].plan
      BY <1>1 DEF Threads
    <3>3. turn = r
      BY <1>0, <2>1 DEF LocksAreHeld
    <3> HIDE DEF t
    <3> QED
      BY <1>0, <1>a, <2>1, <3>1, <3>2, <3>3, RequestStep
  <2> QED
    BY <2>2, <2>3
<1>7. ASSUME NEW r \in Requests, Plugin!WriteFails(r) PROVE PluginInv' /\ Plugin!Adds
  BY <1>7, <1>a, <1>b DEF Plugin!WriteFails
<1>8. ASSUME NEW r \in Requests, Plugin!Publish(r) PROVE PluginInv' /\ Plugin!Adds
  <2>1. /\ asked[r] = "writing" /\ thread[r].does = "written" /\ active' = thread[r].plan
        /\ asked' = [asked EXCEPT ![r] = "published"] /\ turn' = "nobody"
        /\ thread' = [thread EXCEPT ![r] = Plugin!NoThread]
        /\ UNCHANGED <<disk, imported, baseline, archive, importing, torn>>
    BY <1>8 DEF Plugin!Publish, Plugin!Written, Plugin!Answers, Plugin!Nobody
  <2>2. Plugin!NoThread \in Threads /\ Plugin!NoThread.does = "nothing"
    BY DEF Plugin!NoThread, Plugin!Empty, Threads, Plugin!Catalogs, Plugin!Code
  <2>3. /\ thread' \in [Requests -> Threads] /\ thread'[r].does = "nothing"
        /\ \A q \in Requests : q # r => thread'[q] = thread[q]
        /\ asked' \in [Requests -> {"no", "queued", "building", "writing", "published",
                                    "unchanged", "rejected", "cancelled"}]
        /\ asked'[r] = "published" /\ \A q \in Requests : q # r => asked'[q] = asked[q]
    BY <1>0, <2>1, <2>2
  <2>4. Plugin!TypeOK'
    <3>1. \A q \in Requests : thread'[q] \in Threads
      BY <2>3
    <3> QED
      BY <1>0, <1>1, <2>1, <2>3, <3>1 DEF Plugin!TypeOK, Plugin!Nobody, Threads
  <2>5. turn = r /\ \A q \in Requests : asked'[q] \notin {"building", "writing"}
    BY <1>0, <2>1, <2>3 DEF LocksAreHeld
  <2>6. Plugin!Adds
    BY <2>1 DEF Plugin!Adds, PluginInv, PlanAdds
  <2>7. Plugin!ActiveIsWhatRuns' /\ Plugin!ActiveIsArchived'
    BY <2>1
    DEF PluginInv, PlanIsImported, WrittenIsArchived, Plugin!ActiveIsWhatRuns,
        Plugin!ActiveIsArchived
  <2>8. LocksAreHeld'
    BY <1>0, <2>1, <2>3, <2>5 DEF LocksAreHeld
  <2>9. BaselineIsImported' /\ ImportIsSound' /\ PlanIsImported' /\ WrittenIsArchived'
        /\ WaitingIsIdle'
    BY <2>1, <2>3
    DEF PluginInv, BaselineIsImported, ImportIsSound, PlanIsImported, WrittenIsArchived,
        WaitingIsIdle
  <2>10. PlanAdds'
    BY <2>5 DEF PlanAdds
  <2> QED
    BY <2>3, <2>4, <2>6, <2>7, <2>8, <2>9, <2>10 DEF PluginInv
<1>9. ASSUME NEW r \in Requests, Plugin!Scan(r) PROVE PluginInv' /\ Plugin!Adds
  <2>1. /\ thread[r].does = "queue" /\ importing = "nobody"
        /\ UNCHANGED <<disk, imported, active, archive, asked, turn, torn>>
    BY <1>9 DEF Plugin!Scan, Plugin!Nobody
  <2>2. CASE \E p \in Plugins : Plugin!Changed(p)
    <3> DEFINE t == [thread[r] EXCEPT !.does = "failed"]
    <3>1. thread' = [thread EXCEPT ![r] = t] /\ UNCHANGED <<importing, baseline>>
      BY <1>9, <2>2 DEF Plugin!Scan
    <3>2. t \in Threads /\ t.does = "failed"
      BY <1>1 DEF Threads
    <3> HIDE DEF t
    <3>3. /\ thread' \in [Requests -> Threads] /\ thread'[r].does = "failed"
          /\ \A q \in Requests : q # r => thread'[q] = thread[q]
      BY <1>0, <3>1, <3>2
    <3>4. Plugin!TypeOK'
      <4>1. \A q \in Requests : thread'[q] \in Threads
        BY <3>3
      <4> QED
        BY <1>0, <2>1, <3>1, <4>1 DEF Plugin!TypeOK, Plugin!Nobody, Threads
    <3>5. /\ Plugin!ActiveIsWhatRuns' /\ Plugin!ActiveIsArchived' /\ BaselineIsImported'
          /\ PlanIsImported' /\ WrittenIsArchived' /\ ImportIsSound' /\ PlanAdds'
      BY <2>1, <3>1, <3>3
      DEF PluginInv, Plugin!ActiveIsWhatRuns, Plugin!ActiveIsArchived, BaselineIsImported,
          PlanIsImported, WrittenIsArchived, ImportIsSound, PlanAdds
    <3>6. LocksAreHeld' /\ WaitingIsIdle'
      BY <1>0, <2>1, <3>1, <3>3 DEF PluginInv, LocksAreHeld, WaitingIsIdle
    <3> QED
      BY <1>a, <2>1, <3>3, <3>4, <3>5, <3>6 DEF PluginInv
  <2>3. CASE ~\E p \in Plugins : Plugin!Changed(p)
    <3> DEFINE t == [does |-> "import", plan |-> disk]
    <3>1. /\ thread' = [thread EXCEPT ![r] = t] /\ importing' = r
          /\ baseline' = [p \in Plugins |-> IF disk[p] = 0 THEN baseline[p] ELSE disk[p]]
      BY <1>9, <2>3 DEF Plugin!Scan
    <3>2. t \in Threads /\ t.does = "import" /\ t.plan = disk
      BY <1>0 DEF Threads
    <3> HIDE DEF t
    <3>3. /\ thread' \in [Requests -> Threads] /\ thread'[r].does = "import"
          /\ thread'[r].plan = disk
          /\ \A q \in Requests : q # r => thread'[q] = thread[q]
      BY <1>0, <3>1, <3>2
    <3>4. /\ baseline' \in Plugin!Catalogs
          /\ \A p \in Plugins : baseline'[p] = IF disk[p] = 0 THEN baseline[p] ELSE disk[p]
      BY <1>0, <3>1 DEF Plugin!Catalogs
    <3>5. Plugin!TypeOK'
      <4>1. \A q \in Requests : thread'[q] \in Threads
        BY <3>3
      <4> QED
        BY <1>0, <2>1, <3>1, <3>4, <4>1 DEF Plugin!TypeOK, Plugin!Nobody, Threads
    <3>6. \A p \in Plugins :
            /\ active[p] # 0 => disk[p] = active[p]
            /\ disk[p] # 0 /\ baseline[p] # 0 => disk[p] = baseline[p]
      BY <2>3 DEF Plugin!Changed
    <3>7. \A q \in Requests : thread[q].does # "import"
      BY <1>0, <2>1, RequestsHaveNames DEF LocksAreHeld
    <3>8. BaselineIsImported'
      BY <2>1, <3>4, <3>6 DEF PluginInv, BaselineIsImported
    <3>9. ImportIsSound'
      BY <2>1, <3>3, <3>4, <3>6, <3>7 DEF PluginInv, BaselineIsImported, ImportIsSound
    <3>10. PlanAdds'
      BY <2>1, <3>3, <3>6 DEF PluginInv, PlanAdds
    <3>11. /\ Plugin!ActiveIsWhatRuns' /\ Plugin!ActiveIsArchived'
           /\ PlanIsImported' /\ WrittenIsArchived'
      BY <2>1, <3>3
      DEF PluginInv, Plugin!ActiveIsWhatRuns, Plugin!ActiveIsArchived, PlanIsImported,
          WrittenIsArchived
    <3>12. LocksAreHeld' /\ WaitingIsIdle'
      BY <1>0, <2>1, <3>1, <3>3, <3>7 DEF PluginInv, LocksAreHeld, WaitingIsIdle
    <3> QED
      BY <1>a, <2>1, <3>3, <3>5, <3>8, <3>9, <3>10, <3>11, <3>12 DEF PluginInv
  <2> QED
    BY <2>2, <2>3
<1>10. ASSUME NEW r \in Requests, Plugin!Import(r) PROVE PluginInv' /\ Plugin!Adds
  <2> DEFINE wanted == {p \in Plugins : thread[r].plan[p] # 0}
             fails == {p \in wanted : imported[p] = 0 /\ <<p, disk[p]>> \in Broken \cup {<<p, 0>>}}
             now == IF fails = {} THEN "imported" ELSE "failed"
             t == [thread[r] EXCEPT !.does = now]
  <2>1. /\ importing = r /\ importing' = "nobody"
        /\ imported' = [p \in Plugins |->
                IF p \in wanted \ fails /\ imported[p] = 0 THEN disk[p] ELSE imported[p]]
        /\ thread' = [thread EXCEPT ![r] = t]
        /\ UNCHANGED <<disk, baseline, active, archive, asked, turn, torn>>
    BY <1>10 DEF Plugin!Import, Plugin!Nobody
  <2>2. t \in Threads /\ t.does = now /\ t.plan = thread[r].plan
    BY <1>1 DEF Threads
  <2>3. thread[r].does = "import"
    BY <1>0, <2>1 DEF LocksAreHeld
  <2>4. \A p \in Plugins : imported'[p] =
            IF p \in wanted \ fails /\ imported[p] = 0 THEN disk[p] ELSE imported[p]
    BY <2>1
  <2>5. imported' \in Plugin!Catalogs
    BY <1>0, <2>1 DEF Plugin!Catalogs
  <2>6. now = "imported" => \A p \in Plugins \ torn : thread[r].plan[p] # 0 =>
            imported'[p] = thread[r].plan[p]
    BY <2>3, <2>4 DEF PluginInv, ImportIsSound
  <2>7. \A p \in Plugins \ torn :
          /\ imported[p] # 0 => imported'[p] = imported[p]
          /\ imported'[p] # 0 /\ imported[p] = 0 => imported'[p] = baseline[p]
    BY <2>3, <2>4 DEF PluginInv, ImportIsSound
  <2>8. now \in {"imported", "failed"}
    OBVIOUS
  <2> HIDE DEF t, now, wanted, fails
  <2>9. /\ thread' \in [Requests -> Threads] /\ thread'[r].does = now
        /\ thread'[r].plan = thread[r].plan
        /\ \A q \in Requests : q # r => thread'[q] = thread[q]
    BY <1>0, <2>1, <2>2
  <2>10. Plugin!TypeOK'
    <3>1. \A q \in Requests : thread'[q] \in Threads
      BY <2>9
    <3> QED
      BY <1>0, <2>1, <2>5, <3>1 DEF Plugin!TypeOK, Plugin!Nobody, Threads
  <2>11. Plugin!ActiveIsWhatRuns'
    BY <2>1, <2>7 DEF PluginInv, Plugin!ActiveIsWhatRuns
  <2>12. BaselineIsImported'
    BY <2>1, <2>7 DEF PluginInv, BaselineIsImported
  <2>13. PlanIsImported'
    BY <2>1, <2>6, <2>7, <2>8, <2>9 DEF PluginInv, PlanIsImported
  <2>14. \A q \in Requests : thread'[q].does # "import"
    BY <1>0, <2>1, <2>8, <2>9 DEF LocksAreHeld
  <2>15. ImportIsSound' /\ LocksAreHeld'
    BY <1>0, <2>1, <2>14, RequestsHaveNames DEF ImportIsSound, LocksAreHeld
  <2>16. PlanAdds' /\ WrittenIsArchived' /\ Plugin!ActiveIsArchived'
    BY <2>1, <2>3, <2>8, <2>9
    DEF PluginInv, PlanAdds, WrittenIsArchived, Plugin!ActiveIsArchived
  <2>17. WaitingIsIdle'
    BY <2>1, <2>3, <2>9 DEF PluginInv, WaitingIsIdle
  <2> QED
    BY <1>a, <2>1, <2>9, <2>10, <2>11, <2>12, <2>13, <2>15, <2>16, <2>17 DEF PluginInv
<1>11. ASSUME NEW r \in Requests, Plugin!Write(r) PROVE PluginInv' /\ Plugin!Adds
  <2> DEFINE t == [thread[r] EXCEPT !.does = "written"]
  <2>1. /\ thread[r].does = "write" /\ archive' = archive \cup {thread[r].plan}
        /\ thread' = [thread EXCEPT ![r] = t]
        /\ UNCHANGED <<disk, imported, baseline, active, asked, turn, importing, torn>>
    BY <1>11 DEF Plugin!Write
  <2>2. t \in Threads /\ t.does = "written" /\ t.plan = thread[r].plan
    BY <1>1 DEF Threads
  <2> HIDE DEF t
  <2>3. /\ thread' \in [Requests -> Threads] /\ thread'[r].does = "written"
        /\ thread'[r].plan = thread[r].plan
        /\ \A q \in Requests : q # r => thread'[q] = thread[q]
    BY <1>0, <2>1, <2>2
  <2>4. archive' \subseteq Plugin!Catalogs
    BY <1>0, <1>1, <2>1
  <2>5. Plugin!TypeOK'
    <3>1. \A q \in Requests : thread'[q] \in Threads
      BY <2>3
    <3> QED
      BY <1>0, <2>1, <2>4, <3>1 DEF Plugin!TypeOK, Plugin!Nobody, Threads
  <2>6. /\ Plugin!ActiveIsWhatRuns' /\ Plugin!ActiveIsArchived' /\ BaselineIsImported'
        /\ PlanIsImported' /\ WrittenIsArchived' /\ ImportIsSound' /\ PlanAdds'
    BY <2>1, <2>3
    DEF PluginInv, Plugin!ActiveIsWhatRuns, Plugin!ActiveIsArchived, BaselineIsImported,
        PlanIsImported, WrittenIsArchived, ImportIsSound, PlanAdds
  <2>7. LocksAreHeld' /\ WaitingIsIdle'
    BY <1>0, <2>1, <2>3 DEF PluginInv, LocksAreHeld, WaitingIsIdle
  <2> QED
    BY <1>a, <2>1, <2>3, <2>5, <2>6, <2>7 DEF PluginInv
<1> QED
  BY <1>2, <1>3, <1>4, <1>5, <1>6, <1>7, <1>8, <1>9, <1>10, <1>11 DEF Plugin!Next

-----------------------------------------------------------------------------
(* Hooks of one event: who was called so far, and what they decided.         *)

\* What the order of the hooks, and their declarations, say at this point.
CalledInOrder ==
    /\ \A k \in DOMAIN ran : ran[k] < next
    /\ \A k, l \in DOMAIN ran : ran[k] = ran[l] => k = l

ObserversSoFar == ended \in {"no", "returned"} =>
    \A i \in DOMAIN hooks : i < next /\ hooks[i].mode = "observer" => Hook!Called(i)

\* A result is a decision; a guard that failed has given one, and in a batch
\* whoever wants it to be the last is heard.
DecisionsSoFar ==
    /\ \A k \in DOMAIN results : results[k][2] # "none"
    /\ ended \in {"no", "returned"} => \A i \in DOMAIN hooks :
        /\ Hook!Called(i) /\ hooks[i].closed /\ Hook!Validated(hooks[i]) = "error" =>
            IF stage = "batch_after" THEN Hook!Given("finalize") ELSE results # <<>>
        /\ (/\ i < next /\ stage = "batch_after" /\ ~observersOnly
            /\ hooks[i].mode = "control" /\ hooks[i].gives = "finalize") => Hook!Given("finalize")

HookInv ==
    /\ Hook!TypeOK /\ hooks \in [1..MaxHooks -> Hook!Declared(stage)]
    /\ CalledInOrder /\ ObserversSoFar /\ DecisionsSoFar
    /\ ended = "returned" => next > MaxHooks

LEMMA HookInit == ASSUME Hook!Init PROVE HookInv
<1>1. /\ hooks \in [1..MaxHooks -> Hook!Declared(stage)] /\ stage \in Hook!Stages
      /\ Hook!Declared(stage) \subseteq Hook!Hooks /\ MaxHooks \in Nat
      /\ next = 1 /\ ran = <<>> /\ results = <<>> /\ ended = "no" /\ observersOnly \in BOOLEAN
  BY HooksAreNumbered DEF Hook!Init, Hook!Declared
<1>2. hooks \in [1..MaxHooks -> Hook!Hooks]
  BY <1>1
<1>3. hooks \in Seq(Hook!Hooks) /\ Len(hooks) = MaxHooks
  BY <1>1, <1>2
<1>4. /\ next \in 1..MaxHooks + 1 /\ ran \in Seq(1..MaxHooks)
      /\ results \in Seq((1..MaxHooks) \X Hook!Returned)
  BY <1>1
<1>5. Hook!TypeOK
  BY <1>1, <1>3, <1>4 DEF Hook!TypeOK
<1> QED
  BY <1>1, <1>5
  DEF HookInv, CalledInOrder, ObserversSoFar, DecisionsSoFar, Hook!Called

\* What a hook may be found to have given, and what a decision of it is.
LEMMA ValidatedMeans ==
  ASSUME NEW h \in Hook!Declared(stage), stage \in Hook!Stages
  PROVE  /\ Hook!Validated(h) \in Hook!Returned \cup {"error", "interrupt", "cancel"}
         /\ Hook!Blocks \in Hook!Returned /\ Hook!Blocks # "none"
         /\ stage = "batch_after" => Hook!Blocks = "finalize"
         /\ h.closed => h.mode = "control"
         /\ stage = "batch_after" /\ h.mode = "control" /\ h.gives = "finalize" =>
                Hook!Validated(h) = "finalize"
<1>1. h \in Hook!Hooks /\ (h.closed => h.mode = "control")
  BY DEF Hook!Declared
<1>2. h.gives \in Hook!Returned \cup {"error", "interrupt", "cancel"}
  BY <1>1 DEF Hook!Hooks, Hook!Raised
<1>3. Hook!Validated(h) \in {"error", h.gives}
  BY DEF Hook!Validated
<1>4. Hook!Blocks \in Hook!Returned /\ Hook!Blocks # "none"
      /\ (stage = "batch_after" => Hook!Blocks = "finalize")
  BY DEF Hook!Blocks, Hook!Returned, Hook!None
<1>5. ASSUME stage = "batch_after", h.mode = "control", h.gives = "finalize"
      PROVE  Hook!Validated(h) = "finalize"
  <2>1. "finalize" \in Hook!Allowed[stage]
    BY <1>5 DEF Hook!Allowed
  <2> QED
    BY <1>5, <2>1 DEF Hook!Validated
<1> QED
  BY <1>1, <1>2, <1>3, <1>4, <1>5

LEMMA HookStep == ASSUME HookInv, Hook!Next PROVE HookInv'
<1>0. /\ MaxHooks \in Nat /\ hooks \in [1..MaxHooks -> Hook!Declared(stage)]
      /\ hooks \in Seq(Hook!Hooks) /\ Len(hooks) = MaxHooks /\ DOMAIN hooks = 1..MaxHooks
      /\ stage \in Hook!Stages /\ observersOnly \in BOOLEAN /\ next \in 1..MaxHooks + 1
      /\ ran \in Seq(1..MaxHooks) /\ results \in Seq((1..MaxHooks) \X Hook!Returned)
      /\ ended \in {"no", "returned", "interrupt", "cancel"}
  <2>1. hooks \in [1..MaxHooks -> Hook!Declared(stage)] /\ hooks \in Seq(Hook!Hooks) /\ MaxHooks \in Nat
    BY HooksAreNumbered DEF HookInv, Hook!TypeOK
  <2>2. DOMAIN hooks = 1..MaxHooks /\ DOMAIN hooks = 1..Len(hooks) /\ Len(hooks) \in Nat
    BY <2>1
  <2>3. Len(hooks) = MaxHooks
    BY <2>1, <2>2
  <2> QED
    BY <2>1, <2>2, <2>3 DEF HookInv, Hook!TypeOK
<1>1. ASSUME Hook!Return PROVE HookInv'
  <2>1. /\ ended = "no" /\ next > MaxHooks /\ ended' = "returned"
        /\ UNCHANGED <<stage, hooks, observersOnly, next, ran, results>>
    BY <1>0, <1>1 DEF Hook!Return
  <2>2. Hook!TypeOK'
    BY <2>1 DEF HookInv, Hook!TypeOK
  <2>3. Hook!Declared(stage)' = Hook!Declared(stage)
    BY <2>1 DEF Hook!Declared
  <2>4. \A i \in DOMAIN hooks : Hook!Called(i)' = Hook!Called(i)
        /\ Hook!Validated(hooks[i])' = Hook!Validated(hooks[i])
    BY <2>1 DEF Hook!Called, Hook!Validated
  <2>5. Hook!Given("finalize")' = Hook!Given("finalize")
    BY <2>1 DEF Hook!Given
  <2> QED
    BY <2>1, <2>2, <2>3, <2>4, <2>5
    DEF HookInv, CalledInOrder, ObserversSoFar, DecisionsSoFar
<1>2. ASSUME Hook!Call PROVE HookInv'
  <2> DEFINE h == hooks[next]
  <2>1. /\ ended = "no" /\ next \in 1..MaxHooks /\ next' = next + 1 /\ next' \in 1..MaxHooks + 1
        /\ UNCHANGED <<stage, hooks, observersOnly>>
    BY <1>0, <1>2 DEF Hook!Call
  <2>2. h \in Hook!Declared(stage) /\ Hook!Declared(stage)' = Hook!Declared(stage)
    BY <1>0, <2>1 DEF Hook!Declared
  <2>3. \A g : Hook!Validated(g)' = Hook!Validated(g)
    BY <2>1 DEF Hook!Validated
  <2>4. /\ Hook!Validated(h) \in Hook!Returned \cup {"error", "interrupt", "cancel"}
        /\ Hook!Blocks \in Hook!Returned /\ Hook!Blocks # "none"
        /\ stage = "batch_after" => Hook!Blocks = "finalize"
        /\ h.closed => h.mode = "control"
        /\ stage = "batch_after" /\ h.mode = "control" /\ h.gives = "finalize" =>
               Hook!Validated(h) = "finalize"
    BY <1>0, <2>2, ValidatedMeans
  <2>5. CASE Hook!PassedOver(h) \/ Hook!Skipped(h)
    <3>1. UNCHANGED <<ran, results, ended>>
      BY <1>2, <2>5 DEF Hook!Call
    <3>2. h.mode # "observer" /\ (stage = "batch_after" => h.mode = "service" \/ observersOnly)
      BY <2>5 DEF Hook!PassedOver, Hook!Skipped
    <3>3. Hook!TypeOK'
      BY <2>1, <3>1 DEF HookInv, Hook!TypeOK
    <3>4. CalledInOrder'
      BY <1>0, <2>1, <3>1 DEF HookInv, CalledInOrder
    <3>5. \A i \in DOMAIN hooks : Hook!Called(i)' = Hook!Called(i)
      BY <3>1 DEF Hook!Called
    <3>6. Hook!Given("finalize")' = Hook!Given("finalize")
      BY <3>1 DEF Hook!Given
    <3>7. ObserversSoFar'
      BY <1>0, <2>1, <3>1, <3>2, <3>5 DEF HookInv, ObserversSoFar
    <3>8. DecisionsSoFar'
      BY <1>0, <2>1, <2>3, <3>1, <3>2, <3>5, <3>6 DEF HookInv, DecisionsSoFar
    <3> QED
      BY <2>1, <2>2, <3>1, <3>3, <3>4, <3>7, <3>8 DEF HookInv
  <2>6. CASE ~(Hook!PassedOver(h) \/ Hook!Skipped(h))
    <3>1. ran' = Append(ran, next)
      BY <1>2, <2>6 DEF Hook!Call
    <3>2. /\ ran' \in Seq(1..MaxHooks) /\ DOMAIN ran' = 1..Len(ran) + 1
          /\ DOMAIN ran = 1..Len(ran) /\ Len(ran) \in Nat
          /\ ran'[Len(ran) + 1] = next
          /\ \A k \in 1..Len(ran) : ran'[k] = ran[k]
      BY <1>0, <2>1, <3>1
    <3>3. CalledInOrder'
      <4>1. \A k \in DOMAIN ran : ran[k] < next /\ ran[k] \in Nat
        BY <1>0, <3>2 DEF HookInv, CalledInOrder
      <4>2. \A k \in DOMAIN ran' : ran'[k] < next'
        <5> SUFFICES ASSUME NEW k \in 1..Len(ran) + 1 PROVE ran'[k] < next + 1
          BY <2>1, <3>2
        <5>1. CASE k = Len(ran) + 1
          BY <1>0, <3>2, <5>1
        <5>2. CASE k \in 1..Len(ran)
          <6>1. ran'[k] = ran[k] /\ ran[k] < next /\ ran[k] \in Nat
            BY <3>2, <4>1, <5>2
          <6> QED
            BY <1>0, <6>1
        <5> QED
          BY <3>2, <5>1, <5>2
      <4>3. ASSUME NEW k \in DOMAIN ran', NEW l \in DOMAIN ran', ran'[k] = ran'[l] PROVE k = l
        <5>1. CASE k \in 1..Len(ran) /\ l \in 1..Len(ran)
          BY <3>2, <4>3, <5>1 DEF HookInv, CalledInOrder
        <5>2. CASE k = Len(ran) + 1 \/ l = Len(ran) + 1
          <6>1. ASSUME NEW m \in 1..Len(ran) PROVE ran'[m] # next
            <7>1. ran'[m] = ran[m] /\ ran[m] < next /\ ran[m] \in Nat
              BY <3>2, <4>1
            <7> QED
              BY <1>0, <7>1
          <6> QED
            BY <3>2, <4>3, <5>2, <6>1
        <5> QED
          BY <3>2, <5>1, <5>2
      <4> QED
        BY <4>2, <4>3 DEF CalledInOrder
    <3>4. \A i \in DOMAIN hooks : Hook!Called(i)' <=> Hook!Called(i) \/ i = next
      <4> SUFFICES ASSUME NEW i \in DOMAIN hooks
                   PROVE  (\E k \in DOMAIN ran' : ran'[k] = i)
                            <=> (\E k \in DOMAIN ran : ran[k] = i) \/ i = next
        BY DEF Hook!Called
      <4> QED
        BY <3>2
    <3>5. CASE Hook!Stops(h)
      <4>1. ended' \in {"interrupt", "cancel"} /\ results' = results
        BY <1>2, <2>6, <3>5 DEF Hook!Call, Hook!Stops
      <4>2. Hook!TypeOK'
        BY <2>1, <3>2, <4>1 DEF HookInv, Hook!TypeOK
      <4> QED
        BY <2>1, <2>2, <3>3, <4>1, <4>2
        DEF HookInv, ObserversSoFar, DecisionsSoFar
    <3>6. CASE ~Hook!Stops(h)
      <4>1. /\ ended' = ended
            /\ results' = IF Hook!Validated(h) = "interrupt" THEN results ELSE results \o Hook!Counts(h)
        BY <1>2, <2>6, <3>6 DEF Hook!Call
      <4>2. \/ results' = results
            \/ \E d \in Hook!Returned \ {"none"} :
                 results' = results \o << <<next, d>> >>
        <5>1. CASE Hook!Validated(h) = "interrupt" \/ h.mode = "observer"
          <6>1. Hook!Counts(h) = <<>> \/ results' = results
            BY <4>1, <5>1 DEF Hook!Counts
          <6> QED
            BY <1>0, <4>1, <6>1
        <5>2. CASE Hook!Validated(h) # "interrupt" /\ h.mode # "observer"
          <6>1. Hook!Validated(h) \in Hook!Returned \cup {"error"}
            BY <2>4, <3>6, <5>2 DEF Hook!Stops
          <6>2. \/ Hook!Counts(h) = <<>>
                \/ \E d \in Hook!Returned \ {"none"} : Hook!Counts(h) = << <<next, d>> >>
            BY <2>4, <5>2, <6>1 DEF Hook!Counts, Hook!None
          <6>3. results' = results \o Hook!Counts(h) /\ results \o <<>> = results
            BY <1>0, <4>1, <5>2
          <6> QED
            BY <6>2, <6>3
        <5> QED
          BY <5>1, <5>2
      <4>3. /\ results' \in Seq((1..MaxHooks) \X Hook!Returned)
            /\ \A k \in DOMAIN results' : results'[k][2] # "none"
            /\ Hook!Given("finalize") => Hook!Given("finalize")'
            /\ results # <<>> => results' # <<>>
        <5>1. CASE results' = results
          BY <1>0, <5>1 DEF HookInv, DecisionsSoFar, Hook!Given
        <5>2. CASE results' # results
          <6>1. PICK d \in Hook!Returned \ {"none"} : results' = results \o << <<next, d>> >>
            BY <4>2, <5>2
          <6>2. <<next, d>> \in (1..MaxHooks) \X Hook!Returned /\ <<next, d>>[2] = d
            BY <2>1
          <6>3. results' = Append(results, <<next, d>>)
            BY <1>0, <6>1, <6>2
          <6>4. /\ results' \in Seq((1..MaxHooks) \X Hook!Returned)
                /\ DOMAIN results = 1..Len(results) /\ Len(results) \in Nat
                /\ DOMAIN results' = 1..Len(results) + 1
                /\ results'[Len(results) + 1] = <<next, d>>
                /\ \A k \in 1..Len(results) : results'[k] = results[k]
            BY <1>0, <6>2, <6>3
          <6>5. \A k \in DOMAIN results' : results'[k][2] # "none"
            <7> SUFFICES ASSUME NEW k \in 1..Len(results) + 1 PROVE results'[k][2] # "none"
              BY <6>4
            <7>1. CASE k = Len(results) + 1
              BY <6>2, <6>4, <7>1
            <7>2. CASE k \in 1..Len(results)
              BY <6>4, <7>2 DEF HookInv, DecisionsSoFar
            <7> QED
              BY <6>4, <7>1, <7>2
          <6>6. Hook!Given("finalize") => Hook!Given("finalize")'
            BY <6>4 DEF Hook!Given
          <6>7. results' # <<>>
            BY <6>4
          <6> QED
            BY <6>4, <6>5, <6>6, <6>7
        <5> QED
          BY <5>1, <5>2
      <4>4. ASSUME Hook!Validated(h) \in {"error", "finalize"}, h.mode = "control",
                   Hook!Validated(h) = "error" => h.closed
            PROVE  /\ results' # <<>>
                   /\ stage = "batch_after" => Hook!Given("finalize")'
        <5>1. PICK d \in {"finalize", Hook!Blocks} :
                 /\ Hook!Counts(h) = << <<next, d>> >>
                 /\ stage = "batch_after" => d = "finalize"
          BY <2>4, <4>4 DEF Hook!Counts, Hook!None
        <5>2. results' = results \o << <<next, d>> >>
          BY <4>1, <4>4, <5>1
        <5>3. <<next, d>> \in (1..MaxHooks) \X Hook!Returned /\ <<next, d>>[2] = d
          BY <2>1, <2>4 DEF Hook!Returned
        <5>4. /\ Len(results) \in Nat /\ DOMAIN results' = 1..Len(results) + 1
              /\ results'[Len(results) + 1] = <<next, d>> /\ results' # <<>>
          <6>1. results' = Append(results, <<next, d>>)
            BY <1>0, <5>2, <5>3
          <6> DEFINE S == (1..MaxHooks) \X Hook!Returned
          <6>2. results \in Seq(S) /\ <<next, d>> \in S
            BY <1>0, <5>3
          <6> HIDE DEF S
          <6>3. Len(results) \in Nat /\ Len(results') = Len(results) + 1 /\ results' \in Seq(S)
            BY <6>1, <6>2
          <6>4. results'[Len(results) + 1] = <<next, d>>
            BY <6>1, <6>2
          <6> QED
            BY <6>3, <6>4
        <5>5. stage = "batch_after" => Hook!Given("finalize")'
          BY <5>1, <5>3, <5>4 DEF Hook!Given
        <5> QED
          BY <5>4, <5>5
      <4>5. Hook!TypeOK'
        BY <2>1, <3>2, <4>1, <4>3 DEF HookInv, Hook!TypeOK
      <4>6. ObserversSoFar'
        BY <1>0, <2>1, <3>4, <4>1 DEF HookInv, ObserversSoFar
      <4>7. DecisionsSoFar'
        <5>1. ASSUME NEW i \in DOMAIN hooks, Hook!Called(i)', hooks[i].closed,
                     Hook!Validated(hooks[i]) = "error"
              PROVE  IF stage = "batch_after" THEN Hook!Given("finalize")' ELSE results' # <<>>
          <6>1. CASE i = next
            BY <2>4, <4>4, <5>1, <6>1
          <6>2. CASE Hook!Called(i)
            BY <2>1, <4>3, <5>1, <6>2 DEF HookInv, DecisionsSoFar
          <6> QED
            BY <3>4, <5>1, <6>1, <6>2
        <5>2. ASSUME NEW i \in DOMAIN hooks, i < next', stage = "batch_after", ~observersOnly,
                     hooks[i].mode = "control", hooks[i].gives = "finalize"
              PROVE  Hook!Given("finalize")'
          <6>1. CASE i = next
            BY <2>4, <4>4, <5>2, <6>1
          <6>2. CASE i < next
            BY <2>1, <4>3, <5>2, <6>2 DEF HookInv, DecisionsSoFar
          <6> QED
            BY <1>0, <2>1, <5>2, <6>1, <6>2
        <5> QED
          BY <2>1, <2>3, <4>3, <5>1, <5>2 DEF DecisionsSoFar
      <4> QED
        BY <2>1, <2>2, <3>3, <4>1, <4>5, <4>6, <4>7 DEF HookInv
    <3> QED
      BY <3>5, <3>6
  <2> QED
    BY <2>5, <2>6
<1> QED
  BY <1>1, <1>2 DEF Hook!Next

LEMMA HookMeans ==
  ASSUME HookInv
  PROVE  Hook!ObserversSee /\ Hook!FailedGuardBlocks /\ Hook!FinalizeWins
<1>0. /\ MaxHooks \in Nat /\ DOMAIN hooks = 1..MaxHooks
      /\ stage \in Hook!Stages /\ results \in Seq((1..MaxHooks) \X Hook!Returned)
  BY HooksAreNumbered DEF HookInv, Hook!TypeOK
<1>1. ASSUME ended = "returned" PROVE \A i \in DOMAIN hooks : i < next
  BY <1>0, <1>1 DEF HookInv, Hook!TypeOK
<1>2. Hook!ObserversSee
  BY <1>1 DEF HookInv, ObserversSoFar, CalledInOrder, Hook!ObserversSee
<1>3. results # <<>> => results[1][2] # "none"
  <2>1. results # <<>> => 1 \in DOMAIN results
    BY <1>0
  <2> QED
    BY <2>1 DEF HookInv, DecisionsSoFar
<1>4. Hook!FailedGuardBlocks
  BY <1>3
  DEF HookInv, DecisionsSoFar, Hook!FailedGuardBlocks, Hook!Decision, Hook!Strongest, Hook!None
<1>5. Hook!FinalizeWins
  BY <1>1
  DEF HookInv, DecisionsSoFar, Hook!FinalizeWins, Hook!Decision, Hook!Strongest
<1> QED
  BY <1>2, <1>4, <1>5

-----------------------------------------------------------------------------
(* The tasks: their files, and what each store has read of them and is about *)
(* to write.                                                                  *)

Ops(s) ==
    IF s = Task!Tools THEN {"update", "claim", "complete"}
    ELSE IF s = Task!Trees THEN {"add_worktree", "remove_worktree", "bind_worktree"}
    ELSE {"bound", "sync", "waiting", "over"}

\* A row that names a run is owned by it.
RowIsSound(row) == row \in Task!Row /\ (row.run # "none" => row.owner = row.run)

\* What a store has to write are rows of files that are there.
WorkIsSound(s) ==
    /\ work[s] = [op |-> work[s].op, name |-> work[s].name,
                  rows |-> work[s].rows, fresh |-> work[s].fresh]
    /\ work[s].op \in Ops(s) \cup {"none"} /\ work[s].name \in TreeNames \cup {"none"}
    /\ work[s].fresh \subseteq TaskIds
    /\ work[s].op = "none" => DOMAIN work[s].rows = {}
    /\ \A t \in DOMAIN work[s].rows : RowIsSound(work[s].rows[t]) /\ t \in Task!Known

BindingIsSound(r) ==
    /\ binding[r] \in [task : TaskIds \cup {"none"},
                       stage : {"none", "made", "bound", "waiting", "over", "unbound"}]
    /\ binding[r].stage # "none" => binding[r].task \in Task!Known

TaskTypes ==
    /\ \A t \in TaskIds : files[t] = Task!NoFile \/ RowIsSound(files[t])
    /\ DOMAIN files = TaskIds /\ DOMAIN work = Task!Stores /\ binding = [r \in BindingRuns |-> binding[r]]
    /\ git \subseteq branches /\ branches \subseteq TreeNames /\ stale \subseteq TaskIds
    /\ \A s \in Task!Stores : WorkIsSound(s)
    /\ \A r \in BindingRuns : BindingIsSound(r)

\* The rows of a store say what it is doing.
RowsAreOfTheOp ==
    /\ \A t \in DOMAIN work[Task!Tools].rows :
        LET row == work[Task!Tools].rows[t]
        IN  /\ work[Task!Tools].op = "update" => row.owner = "none"
            /\ work[Task!Tools].op = "complete" => row.status = "completed"
            /\ work[Task!Tools].op = "claim" => row.status = "in_progress"
            /\ DOMAIN work[Task!Tools].rows = {t}
    /\ \A t \in DOMAIN work[Task!Trees].rows :
        LET row == work[Task!Trees].rows[t]
        IN  /\ row.owner = "none" \/ row.status = "completed"
            /\ work[Task!Trees].op = "add_worktree" => row.worktree = work[Task!Trees].name
            /\ work[Task!Trees].op = "remove_worktree" => row.worktree = "none"
            /\ work[Task!Trees].op = "bind_worktree" => row.worktree \in git \cup {"none"}
    /\ \A r \in BindingRuns : \A t \in DOMAIN work[r].rows :
            work[r].rows[t].run = r /\ binding[r].task \in Task!Known
    /\ work[Task!Trees].op # "none" => work[Task!Trees].name \in TreeNames

\* What was read of a file nobody wrote since is still what it says.
Keeps(s, op, row, old) ==
    /\ old.status = "completed" => row.status = "completed"
    /\ row.status = "pending" => old.status = "pending"
    /\ row.owner = "agent" => old.owner = "agent" \/ (s = Task!Tools /\ op = "claim")
    /\ s # Task!Trees => row.worktree = old.worktree
    /\ old.blockedBy \subseteq row.blockedBy
    /\ s # Task!Tools \/ op # "update" => row.blockedBy = old.blockedBy
FreshIsKept ==
    \A s \in Task!Stores : \A t \in DOMAIN work[s].rows \cap work[s].fresh :
        Keeps(s, work[s].op, work[s].rows[t], files[t])

\* A task the agent owns has been started.
OwnedIsStarted ==
    \A t \in Task!Known \ stale : files[t].owner = "agent" => files[t].status # "pending"

\* A claim in progress is of a task that waits for nothing, and is the only one.
Working == {t \in Task!Known : files[t].status = "in_progress" /\ files[t].owner = "agent"}
ClaimIsFree ==
    work[Task!Tools].op = "claim" =>
        /\ Working = {}
        /\ \A t \in DOMAIN work[Task!Tools].rows : \A d \in work[Task!Tools].rows[t].blockedBy :
                files[d].status = "completed" \/ {d, t} \cap stale # {}
OneIsWorking == \A t, u \in Working : t = u

\* An update in progress adds nothing that waits for the task itself.
UpdateIsAcyclic ==
    work[Task!Tools].op = "update" =>
        \A t \in DOMAIN work[Task!Tools].rows : \A d \in work[Task!Tools].rows[t].blockedBy :
            t \notin Task!WaitsFor(d) \/ Task!WaitsFor(d) \cap stale # {}

\* A worktree that is being removed belongs to completed tasks.
RemovedIsCompleted ==
    work[Task!Trees].op = "remove_worktree" =>
        \A t \in Task!Known \ stale :
            files[t].worktree = work[Task!Trees].name => files[t].status = "completed"

TaskInv ==
    /\ TaskTypes /\ RowsAreOfTheOp /\ FreshIsKept
    /\ OwnedIsStarted /\ ClaimIsFree /\ OneIsWorking /\ Task!StartedIsUnblocked
    /\ Task!Acyclic /\ UpdateIsAcyclic
    /\ RemovedIsCompleted /\ Task!ActiveHasItsWorktree

\* What a task waits for, with the walk's graph as an argument.
WaitsIn(g, t) == {u \in TaskIds : \A seen \in SUBSET TaskIds :
                    (t \in seen /\ \A v \in seen : g[v] \subseteq seen) => u \in seen}
Graph == [TaskIds -> SUBSET TaskIds]
Blocks == [t \in TaskIds |-> files[t].blockedBy]

LEMMA WaitsInFacts ==
  ASSUME NEW g \in Graph, NEW x \in TaskIds
  PROVE  /\ x \in WaitsIn(g, x) /\ WaitsIn(g, x) \subseteq TaskIds
         /\ \A v \in WaitsIn(g, x) : g[v] \subseteq WaitsIn(g, x)
         /\ \A seen \in SUBSET TaskIds :
                (x \in seen /\ \A v \in seen : g[v] \subseteq seen) => WaitsIn(g, x) \subseteq seen
<1>1. x \in WaitsIn(g, x) /\ WaitsIn(g, x) \subseteq TaskIds
  BY DEF WaitsIn
<1>2. ASSUME NEW v \in WaitsIn(g, x), NEW w \in g[v]
      PROVE  w \in WaitsIn(g, x)
  <2>1. v \in TaskIds /\ w \in TaskIds
    BY <1>2 DEF WaitsIn, Graph
  <2>2. ASSUME NEW seen \in SUBSET TaskIds, x \in seen, \A u \in seen : g[u] \subseteq seen
        PROVE  w \in seen
    BY <1>2, <2>2 DEF WaitsIn
  <2> QED
    BY <2>1, <2>2 DEF WaitsIn
<1>3. ASSUME NEW seen \in SUBSET TaskIds, x \in seen, \A v \in seen : g[v] \subseteq seen
      PROVE  WaitsIn(g, x) \subseteq seen
  BY <1>3 DEF WaitsIn
<1> QED
  BY <1>1, <1>2, <1>3

LEMMA WaitsOn ==
  ASSUME NEW g \in Graph, NEW x \in TaskIds, NEW y \in WaitsIn(g, x)
  PROVE  WaitsIn(g, y) \subseteq WaitsIn(g, x)
<1>1. y \in TaskIds /\ WaitsIn(g, x) \subseteq TaskIds /\ \A v \in WaitsIn(g, x) : g[v] \subseteq WaitsIn(g, x)
  BY WaitsInFacts
<1> QED
  BY <1>1, WaitsInFacts

\* What does not wait for a task does not notice what that task waits for.
LEMMA ElsewhereAlike ==
  ASSUME NEW g \in Graph, NEW h \in Graph, NEW u \in TaskIds, NEW x \in TaskIds,
         \A v \in TaskIds : v # u => h[v] = g[v],
         u \notin WaitsIn(g, x)
  PROVE  WaitsIn(h, x) = WaitsIn(g, x)
<1> DEFINE W == WaitsIn(g, x)
           V == WaitsIn(h, x)
<1>1. x \in W /\ W \subseteq TaskIds /\ (\A v \in W : g[v] \subseteq W)
  BY WaitsInFacts
<1>2. x \in V /\ V \subseteq TaskIds /\ (\A v \in V : h[v] \subseteq V)
  BY WaitsInFacts
<1>3. V \subseteq W
  <2>1. \A v \in W : h[v] \subseteq W
    BY <1>1
  <2> QED
    BY <1>1, <2>1, WaitsInFacts
<1>4. W \subseteq V
  <2>1. \A v \in V : g[v] \subseteq V
    BY <1>2, <1>3
  <2> QED
    BY <1>2, <2>1, WaitsInFacts
<1> QED
  BY <1>3, <1>4

LEMMA StillThere ==
  ASSUME NEW g \in Graph, NEW h \in Graph, NEW u \in TaskIds, NEW x \in TaskIds,
         \A v \in TaskIds : v # u => h[v] = g[v],
         u \in WaitsIn(g, x)
  PROVE  u \in WaitsIn(h, x)
BY ElsewhereAlike

\* No task of a graph waits for itself, but through one of some others.
NoCycle(g, others) ==
    \A v \in TaskIds : \A e \in g[v] : v \notin WaitsIn(g, e) \/ WaitsIn(g, e) \cap others # {}

\* A task that is written blindly is one of the others from then on.
LEMMA BlindlyWritten ==
  ASSUME NEW g \in Graph, NEW h \in Graph, NEW u \in TaskIds, NEW others \in SUBSET TaskIds,
         \A v \in TaskIds : v # u => h[v] = g[v],
         NoCycle(g, others)
  PROVE  NoCycle(h, others \cup {u})
<1> SUFFICES ASSUME NEW v \in TaskIds, NEW e \in h[v], v \in WaitsIn(h, e),
                    WaitsIn(h, e) \cap (others \cup {u}) = {}
             PROVE  FALSE
  BY DEF NoCycle
<1>1. e \in TaskIds
  BY DEF Graph
<1>2. WaitsIn(g, e) = WaitsIn(h, e)
  BY <1>1, ElsewhereAlike
<1>3. v # u /\ e \in g[v]
  OBVIOUS
<1> QED
  BY <1>2, <1>3 DEF NoCycle

\* New blockers that do not wait for the task make no cycle.
LEMMA AddsNoCycle ==
  ASSUME NEW g \in Graph, NEW h \in Graph, NEW t \in TaskIds, NEW others \in SUBSET TaskIds,
         \A v \in TaskIds : v # t => h[v] = g[v],
         NoCycle(g, others),
         \A d \in h[t] : t \notin WaitsIn(g, d) \/ WaitsIn(g, d) \cap others # {},
         g[t] \subseteq h[t]
  PROVE  NoCycle(h, others)
<1> SUFFICES ASSUME NEW v \in TaskIds, NEW e \in h[v], v \in WaitsIn(h, e),
                    WaitsIn(h, e) \cap others = {}
             PROVE  FALSE
  BY DEF NoCycle
<1>1. e \in TaskIds /\ h[t] \subseteq TaskIds
  BY DEF Graph
<1>2. CASE t \notin WaitsIn(g, e)
  <2>1. WaitsIn(h, e) = WaitsIn(g, e)
    BY <1>1, <1>2, ElsewhereAlike
  <2>2. v # t /\ e \in g[v]
    BY <1>2, <2>1
  <2> QED
    BY <2>1, <2>2 DEF NoCycle
<1>3. CASE t \in WaitsIn(g, e)
  <2>1. WaitsIn(h, e) \subseteq TaskIds /\ e \in WaitsIn(h, e)
        /\ \A w \in WaitsIn(h, e) : h[w] \subseteq WaitsIn(h, e)
    BY <1>1, WaitsInFacts
  <2>2. \A w \in WaitsIn(h, e) : g[w] \subseteq WaitsIn(h, e)
    BY <2>1
  <2>3. WaitsIn(g, e) \subseteq WaitsIn(h, e)
    BY <1>1, <2>1, <2>2, WaitsInFacts
  <2>4. h[t] \subseteq WaitsIn(h, e)
    BY <1>3, <2>1, <2>3
  <2>5. ASSUME NEW d \in h[t]
        PROVE  WaitsIn(g, d) \subseteq WaitsIn(h, e) /\ t \notin WaitsIn(g, d) /\ d \in TaskIds
    <3>1. WaitsIn(g, d) \subseteq WaitsIn(h, e)
      BY <1>1, <2>1, <2>2, <2>4, <2>5, WaitsInFacts
    <3> QED
      BY <1>1, <2>5, <3>1
  <2> DEFINE S == WaitsIn(g, e) \cup UNION {WaitsIn(g, d) : d \in h[t]}
  <2>6. S \subseteq TaskIds /\ e \in S
    BY <1>1, <2>5, WaitsInFacts
  <2>7. ASSUME NEW w \in S
        PROVE  h[w] \subseteq S
    <3>1. CASE w = t
      <4>1. \A d \in h[t] : d \in WaitsIn(g, d)
        BY <1>1, WaitsInFacts
      <4> QED
        BY <3>1, <4>1
    <3>2. CASE w # t /\ w \in WaitsIn(g, e)
      <4>1. g[w] \subseteq WaitsIn(g, e) /\ w \in TaskIds
        BY <1>1, <3>2, WaitsInFacts
      <4> QED
        BY <3>2, <4>1
    <3>3. CASE w # t /\ w \notin WaitsIn(g, e)
      <4>1. PICK d \in h[t] : w \in WaitsIn(g, d)
        BY <2>7, <3>3
      <4>2. g[w] \subseteq WaitsIn(g, d) /\ w \in TaskIds
        BY <1>1, <4>1, WaitsInFacts
      <4> QED
        BY <3>3, <4>1, <4>2
    <3> QED
      BY <3>1, <3>2, <3>3
  <2>8. WaitsIn(h, e) \subseteq S
    <3> HIDE DEF S
    <3> QED
      BY <1>1, <2>6, <2>7, WaitsInFacts
  <2>9. WaitsIn(g, e) \cap others = {}
    BY <2>3
  <2>10. CASE v \in WaitsIn(g, e)
    <3>1. CASE v = t
      BY <1>3, <2>5, <3>1
    <3>2. CASE v # t
      BY <2>9, <2>10, <3>2 DEF NoCycle
    <3> QED
      BY <3>1, <3>2
  <2>11. CASE v \notin WaitsIn(g, e)
    <3>1. PICK d \in h[t] : v \in WaitsIn(g, d)
      BY <2>8, <2>11
    <3>2. v # t /\ d \in TaskIds
      BY <2>5, <3>1
    <3>3. e \in WaitsIn(g, d)
      <4>1. g[v] \subseteq WaitsIn(g, d)
        BY <3>1, <3>2, WaitsInFacts
      <4> QED
        BY <3>2, <4>1
    <3>4. WaitsIn(g, e) \subseteq WaitsIn(g, d)
      BY <3>2, <3>3, WaitsOn
    <3> QED
      BY <1>3, <2>5, <3>4
  <2> QED
    BY <2>10, <2>11
<1> QED
  BY <1>2, <1>3

LEMMA NamesDiffer ==
  /\ Task!Tools # Task!Trees /\ Task!Tools \notin BindingRuns /\ Task!Trees \notin BindingRuns
  /\ "agent" \notin BindingRuns /\ "none" \notin BindingRuns
  /\ Task!Tools \in Task!Stores /\ Task!Trees \in Task!Stores /\ BindingRuns \subseteq Task!Stores
  /\ \A s \in Task!Stores : s \in {Task!Tools, Task!Trees} \cup BindingRuns
BY RunsHaveNames DEF Task!Tools, Task!Trees, Task!Stores

LEMMA GraphMeans ==
  ASSUME TaskTypes
  PROVE  /\ Blocks \in Graph
         /\ \A x \in TaskIds : Task!WaitsFor(x) = WaitsIn(Blocks, x)
         /\ Task!Acyclic <=> NoCycle(Blocks, stale)
<1>1. Blocks \in Graph
  BY DEF Blocks, Graph, TaskTypes, RowIsSound, Task!Row, Task!NoFile, Task!NewTask
<1>2. \A x \in TaskIds : Task!WaitsFor(x) = WaitsIn(Blocks, x)
  BY DEF Task!WaitsFor, Task!Closed, WaitsIn, Blocks
<1>3. \A t \in TaskIds \ Task!Known : Blocks[t] = {}
  BY DEF Task!Known, Blocks, Task!NoFile, Task!NewTask
<1>4. \A t \in TaskIds : Blocks[t] = files[t].blockedBy /\ Blocks[t] \subseteq TaskIds
  BY <1>1 DEF Blocks, Graph
<1> QED
  BY <1>1, <1>2, <1>3, <1>4 DEF Task!Acyclic, NoCycle, Task!Known

LEMMA GraphMeansNext ==
  ASSUME TaskTypes'
  PROVE  /\ Blocks' \in Graph
         /\ \A x \in TaskIds : Task!WaitsFor(x)' = WaitsIn(Blocks', x)
         /\ Task!Acyclic' <=> NoCycle(Blocks', stale')
<1>1. Blocks' \in Graph
  BY DEF Blocks, Graph, TaskTypes, RowIsSound, Task!Row, Task!NoFile, Task!NewTask
<1>2. \A x \in TaskIds : Task!WaitsFor(x)' = WaitsIn(Blocks', x)
  BY DEF Task!WaitsFor, Task!Closed, WaitsIn, Blocks
<1>3. \A t \in TaskIds \ Task!Known' : Blocks'[t] = {}
  BY DEF Task!Known, Blocks, Task!NoFile, Task!NewTask
<1>4. \A t \in TaskIds : Blocks'[t] = files'[t].blockedBy /\ Blocks'[t] \subseteq TaskIds
  BY <1>1 DEF Blocks, Graph
<1> QED
  BY <1>1, <1>2, <1>3, <1>4 DEF Task!Acyclic, NoCycle, Task!Known

LEMMA TaskInit == ASSUME Task!Init PROVE TaskInv
<1>1. Task!Known = {} /\ Working = {} /\ \A s \in Task!Stores : work[s] = Task!Idle
  BY DEF Task!Init, Task!Known, Working
<1>2. DOMAIN Task!Idle.rows = {} /\ Task!Idle.fresh = {} /\ Task!Idle.op = "none" /\ Task!Idle.name = "none"
      /\ Task!Idle = [op |-> Task!Idle.op, name |-> Task!Idle.name,
                  rows |-> Task!Idle.rows, fresh |-> Task!Idle.fresh]
  BY DEF Task!Idle, Task!None
<1>3. TaskTypes
  <2>1. \A s \in Task!Stores : WorkIsSound(s)
    BY <1>1, <1>2 DEF WorkIsSound
  <2>2. \A r \in BindingRuns : BindingIsSound(r)
    BY DEF BindingIsSound, Task!Init, Task!NoBinding, Task!None
  <2> QED
    BY <2>1, <2>2 DEF TaskTypes, Task!Init
<1>4. RowsAreOfTheOp /\ FreshIsKept /\ ClaimIsFree /\ UpdateIsAcyclic /\ RemovedIsCompleted
  BY <1>1, <1>2, NamesDiffer DEF RowsAreOfTheOp, FreshIsKept, ClaimIsFree, UpdateIsAcyclic, RemovedIsCompleted
<1> QED
  BY <1>1, <1>3, <1>4
  DEF TaskInv, OwnedIsStarted, OneIsWorking, Task!StartedIsUnblocked, Task!Acyclic, Task!ActiveHasItsWorktree

\* A store that has read the files changes nothing but its own work.
LEMMA ReadsKeeps ==
  ASSUME TaskInv,
         NEW s \in Task!Stores, NEW op \in Ops(s), NEW name \in TreeNames \cup {"none"}, NEW read,
         Task!Reads(s, op, name, read),
         \A t \in DOMAIN read : /\ t \in Task!Known /\ RowIsSound(read[t])
                                /\ Keeps(s, op, read[t], files[t]),
         UNCHANGED <<files, git, branches, binding, stale>>
  PROVE  /\ work'[s] = [op |-> op, name |-> name, rows |-> read, fresh |-> DOMAIN read]
         /\ \A u \in Task!Stores : u # s => work'[u] = work[u]
         /\ TaskTypes' /\ FreshIsKept' /\ OwnedIsStarted' /\ OneIsWorking'
         /\ Task!StartedIsUnblocked' /\ Task!Acyclic' /\ Task!ActiveHasItsWorktree'
<1>1. work'[s] = [op |-> op, name |-> name, rows |-> read, fresh |-> DOMAIN read]
      /\ (\A u \in Task!Stores : u # s => work'[u] = work[u]) /\ DOMAIN work' = Task!Stores
  BY DEF Task!Reads, TaskInv, TaskTypes
<1>2. Task!Known' = Task!Known /\ Working' = Working
  BY DEF Task!Known, Working
<1>3. \A u \in Task!Stores : WorkIsSound(u)'
  <2>1. ASSUME NEW u \in Task!Stores, u # s PROVE WorkIsSound(u)'
    BY <1>1, <1>2, <2>1 DEF WorkIsSound, TaskInv, TaskTypes
  <2>2. WorkIsSound(s)'
    <3>1. op # "none"
      BY DEF Ops
    <3>2. DOMAIN read \subseteq TaskIds
      BY DEF Task!Known
    <3> QED
      BY <1>1, <1>2, <3>1, <3>2 DEF WorkIsSound
  <2> QED
    BY <2>1, <2>2
<1>4. \A r \in BindingRuns : BindingIsSound(r)'
  BY <1>2 DEF BindingIsSound, TaskInv, TaskTypes
<1>5. TaskTypes'
  BY <1>1, <1>3, <1>4 DEF TaskInv, TaskTypes
<1>6. FreshIsKept'
  BY <1>1 DEF FreshIsKept, TaskInv
<1>7. Task!Acyclic'
  <2>1. Blocks' = Blocks
    BY DEF Blocks
  <2> QED
    BY <1>5, <2>1, GraphMeans, GraphMeansNext DEF TaskInv
<1> QED
  BY <1>1, <1>2, <1>5, <1>6, <1>7
  DEF TaskInv, OwnedIsStarted, OneIsWorking, Task!StartedIsUnblocked, Task!ActiveHasItsWorktree

LEMMA UpdateStep ==
  ASSUME TaskInv, NEW t \in TaskIds, NEW deps \in SUBSET TaskIds, Task!UpdateTask(t, deps)
  PROVE  TaskInv'
<1> DEFINE row == [files[t] EXCEPT !.blockedBy = @ \cup deps]
           read == [u \in {t} |-> row]
<1>1. /\ t \in Task!Known /\ RowIsSound(files[t]) /\ files[t].owner = "none" /\ deps \subseteq TaskIds
      /\ \A d \in deps \ files[t].blockedBy : t \notin Task!WaitsFor(d)
      /\ Task!Reads(Task!Tools, "update", "none", read)
      /\ UNCHANGED <<files, git, branches, binding, stale>>
  BY DEF Task!UpdateTask, Task!Unclaimed, Task!DependsOn, Task!None, TaskInv, TaskTypes, Task!Known
<1>2. RowIsSound(row) /\ row.owner = "none" /\ row.blockedBy = files[t].blockedBy \cup deps
      /\ Keeps(Task!Tools, "update", row, files[t])
  BY <1>1 DEF RowIsSound, Task!Row, Keeps, Task!None
<1> HIDE DEF row
<1>3. /\ work'[Task!Tools] = [op |-> "update", name |-> "none", rows |-> read, fresh |-> DOMAIN read]
      /\ \A u \in Task!Stores : u # Task!Tools => work'[u] = work[u]
      /\ TaskTypes' /\ FreshIsKept' /\ OwnedIsStarted' /\ OneIsWorking'
      /\ Task!StartedIsUnblocked' /\ Task!Acyclic' /\ Task!ActiveHasItsWorktree'
  <2>1. "update" \in Ops(Task!Tools)
    BY DEF Ops
  <2>2. \A u \in DOMAIN read : /\ u \in Task!Known /\ RowIsSound(read[u])
                                /\ Keeps(Task!Tools, "update", read[u], files[u])
    BY <1>1, <1>2
  <2> HIDE DEF read
  <2> QED
    BY <1>1, <2>1, <2>2, NamesDiffer, ReadsKeeps
<1>4. RowsAreOfTheOp' /\ RemovedIsCompleted' /\ ClaimIsFree'
  BY <1>1, <1>2, <1>3, NamesDiffer
  DEF TaskInv, RowsAreOfTheOp, RemovedIsCompleted, ClaimIsFree, Task!Known
<1>5. UpdateIsAcyclic'
  <2>1. \A d \in row.blockedBy : t \notin Task!WaitsFor(d) \/ Task!WaitsFor(d) \cap stale # {}
    BY <1>1, <1>2 DEF TaskInv, Task!Acyclic
  <2>2. \A d : Task!WaitsFor(d)' = Task!WaitsFor(d)
    BY <1>1 DEF Task!WaitsFor, Task!Closed
  <2> QED
    BY <1>1, <1>3, <2>1, <2>2 DEF UpdateIsAcyclic
<1> QED
  BY <1>3, <1>4, <1>5 DEF TaskInv

LEMMA ClaimStep == ASSUME TaskInv, NEW t \in TaskIds, Task!Claim(t) PROVE TaskInv'
<1> DEFINE row == [files[t] EXCEPT !.owner = "agent", !.status = "in_progress", !.result = "running"]
           read == [u \in {t} |-> row]
<1>1. /\ t \in Task!Known /\ RowIsSound(files[t]) /\ files[t].owner = "none" /\ files[t].status = "pending"
      /\ \A d \in files[t].blockedBy : files[d].status = "completed"
      /\ ~\E u \in Task!Known : files[u].status = "in_progress" /\ files[u].owner = "agent"
      /\ Task!Reads(Task!Tools, "claim", "none", read)
      /\ UNCHANGED <<files, git, branches, binding, stale>>
  BY DEF Task!Claim, Task!Claimable, Task!CanStart, Task!Unclaimed, Task!None, Task!Agent,
         TaskInv, TaskTypes, Task!Known
<1>2. RowIsSound(row) /\ row.blockedBy = files[t].blockedBy /\ row.status = "in_progress"
      /\ Keeps(Task!Tools, "claim", row, files[t])
  <2>1. files[t].run = "none"
    BY <1>1 DEF RowIsSound
  <2> QED
    BY <1>1, <2>1 DEF RowIsSound, Task!Row, Keeps, Task!Agent
<1> HIDE DEF row
<1>3. /\ work'[Task!Tools] = [op |-> "claim", name |-> "none", rows |-> read, fresh |-> DOMAIN read]
      /\ \A u \in Task!Stores : u # Task!Tools => work'[u] = work[u]
      /\ TaskTypes' /\ FreshIsKept' /\ OwnedIsStarted' /\ OneIsWorking'
      /\ Task!StartedIsUnblocked' /\ Task!Acyclic' /\ Task!ActiveHasItsWorktree'
  <2>1. "claim" \in Ops(Task!Tools)
    BY DEF Ops
  <2>2. \A u \in DOMAIN read : /\ u \in Task!Known /\ RowIsSound(read[u])
                                /\ Keeps(Task!Tools, "claim", read[u], files[u])
    BY <1>1, <1>2
  <2> HIDE DEF read
  <2> QED
    BY <1>1, <2>1, <2>2, NamesDiffer, ReadsKeeps
<1>4. RowsAreOfTheOp' /\ RemovedIsCompleted' /\ UpdateIsAcyclic'
  BY <1>1, <1>2, <1>3, NamesDiffer
  DEF TaskInv, RowsAreOfTheOp, RemovedIsCompleted, UpdateIsAcyclic, Task!Known
<1>5. ClaimIsFree'
  <2>1. Working' = {}
    BY <1>1 DEF Working, Task!Known
  <2> QED
    BY <1>1, <1>2, <1>3, <2>1 DEF ClaimIsFree
<1> QED
  BY <1>3, <1>4, <1>5 DEF TaskInv

LEMMA CompleteStep == ASSUME TaskInv, NEW t \in TaskIds, Task!Complete(t) PROVE TaskInv'
<1> DEFINE row == [files[t] EXCEPT !.status = "completed", !.result = "completed"]
           read == [u \in {t} |-> row]
<1>1. /\ t \in Task!Known /\ RowIsSound(files[t])
      /\ Task!Reads(Task!Tools, "complete", "none", read)
      /\ UNCHANGED <<files, git, branches, binding, stale>>
  BY DEF Task!Complete, Task!None, TaskInv, TaskTypes, Task!Known
<1>2. RowIsSound(row) /\ row.status = "completed" /\ Keeps(Task!Tools, "complete", row, files[t])
  BY <1>1 DEF RowIsSound, Task!Row, Keeps
<1> HIDE DEF row
<1>3. /\ work'[Task!Tools] = [op |-> "complete", name |-> "none", rows |-> read, fresh |-> DOMAIN read]
      /\ \A u \in Task!Stores : u # Task!Tools => work'[u] = work[u]
      /\ TaskTypes' /\ FreshIsKept' /\ OwnedIsStarted' /\ OneIsWorking'
      /\ Task!StartedIsUnblocked' /\ Task!Acyclic' /\ Task!ActiveHasItsWorktree'
  <2>1. "complete" \in Ops(Task!Tools)
    BY DEF Ops
  <2>2. \A u \in DOMAIN read : /\ u \in Task!Known /\ RowIsSound(read[u])
                                /\ Keeps(Task!Tools, "complete", read[u], files[u])
    BY <1>1, <1>2
  <2> HIDE DEF read
  <2> QED
    BY <1>1, <2>1, <2>2, NamesDiffer, ReadsKeeps
<1>4. RowsAreOfTheOp' /\ RemovedIsCompleted' /\ ClaimIsFree' /\ UpdateIsAcyclic'
  BY <1>1, <1>2, <1>3, NamesDiffer
  DEF TaskInv, RowsAreOfTheOp, RemovedIsCompleted, ClaimIsFree, UpdateIsAcyclic, Task!Known
<1> QED
  BY <1>3, <1>4 DEF TaskInv

LEMMA AddWorktreeStep ==
  ASSUME TaskInv, NEW n \in TreeNames, NEW t \in TaskIds, Task!AddWorktree(n, t)
  PROVE  TaskInv'
<1> DEFINE row == [files[t] EXCEPT !.worktree = n]
           read == [u \in {t} |-> row]
<1>1. /\ t \in Task!Known /\ RowIsSound(files[t]) /\ files[t].owner = "none"
      /\ Task!Reads(Task!Trees, "add_worktree", n, read)
      /\ UNCHANGED <<files, git, branches, binding, stale>>
  BY DEF Task!AddWorktree, Task!Unclaimed, Task!None, TaskInv, TaskTypes, Task!Known
<1>2. RowIsSound(row) /\ row.owner = "none" /\ row.worktree = n
      /\ Keeps(Task!Trees, "add_worktree", row, files[t])
  BY <1>1 DEF RowIsSound, Task!Row, Keeps
<1> HIDE DEF row
<1>3. /\ work'[Task!Trees] = [op |-> "add_worktree", name |-> n, rows |-> read, fresh |-> DOMAIN read]
      /\ \A u \in Task!Stores : u # Task!Trees => work'[u] = work[u]
      /\ TaskTypes' /\ FreshIsKept' /\ OwnedIsStarted' /\ OneIsWorking'
      /\ Task!StartedIsUnblocked' /\ Task!Acyclic' /\ Task!ActiveHasItsWorktree'
  <2>1. "add_worktree" \in Ops(Task!Trees)
    BY NamesDiffer DEF Ops
  <2>2. \A u \in DOMAIN read : /\ u \in Task!Known /\ RowIsSound(read[u])
                                /\ Keeps(Task!Trees, "add_worktree", read[u], files[u])
    BY <1>1, <1>2
  <2> HIDE DEF read
  <2> QED
    BY <1>1, <2>1, <2>2, NamesDiffer, ReadsKeeps
<1>4. RowsAreOfTheOp' /\ RemovedIsCompleted' /\ ClaimIsFree'
  BY <1>1, <1>2, <1>3, NamesDiffer
  DEF TaskInv, RowsAreOfTheOp, RemovedIsCompleted, ClaimIsFree, Working, Task!Known
<1>5. UpdateIsAcyclic'
  BY <1>1, <1>3, NamesDiffer DEF TaskInv, UpdateIsAcyclic, Task!WaitsFor, Task!Closed
<1> QED
  BY <1>3, <1>4, <1>5 DEF TaskInv

LEMMA RemoveWorktreeStep ==
  ASSUME TaskInv, NEW n \in TreeNames, Task!RemoveWorktree(n)
  PROVE  TaskInv'
<1> DEFINE theirs == {t \in Task!Known : files[t].worktree = n}
           read == [t \in theirs |-> [files[t] EXCEPT !.worktree = "none"]]
<1>1. /\ \A t \in theirs : t \in TaskIds /\ t \in Task!Known /\ RowIsSound(files[t])
                          /\ files[t].status = "completed"
      /\ Task!Reads(Task!Trees, "remove_worktree", n, read)
      /\ UNCHANGED <<files, git, branches, binding, stale>>
  BY DEF Task!RemoveWorktree, Task!Removable, Task!None, TaskInv, TaskTypes, Task!Known
<1>2. ASSUME NEW t \in theirs
      PROVE  RowIsSound(read[t]) /\ read[t].status = "completed" /\ read[t].worktree = "none"
             /\ Keeps(Task!Trees, "remove_worktree", read[t], files[t])
  BY <1>1 DEF RowIsSound, Task!Row, Keeps, Task!None
<1>3. DOMAIN read = theirs
  OBVIOUS
<1> HIDE DEF read
<1>4. /\ work'[Task!Trees] = [op |-> "remove_worktree", name |-> n, rows |-> read, fresh |-> DOMAIN read]
      /\ \A u \in Task!Stores : u # Task!Trees => work'[u] = work[u]
      /\ TaskTypes' /\ FreshIsKept' /\ OwnedIsStarted' /\ OneIsWorking'
      /\ Task!StartedIsUnblocked' /\ Task!Acyclic' /\ Task!ActiveHasItsWorktree'
  <2>1. "remove_worktree" \in Ops(Task!Trees)
    BY NamesDiffer DEF Ops
  <2>2. \A u \in DOMAIN read : /\ u \in Task!Known /\ RowIsSound(read[u])
                                /\ Keeps(Task!Trees, "remove_worktree", read[u], files[u])
    BY <1>1, <1>2, <1>3
  <2> QED
    BY <1>1, <2>1, <2>2, NamesDiffer, ReadsKeeps
<1>5. RowsAreOfTheOp'
  <2>1. \A t \in DOMAIN work'[Task!Trees].rows :
            work'[Task!Trees].rows[t].status = "completed" /\ work'[Task!Trees].rows[t].worktree = "none"
    BY <1>2, <1>3, <1>4
  <2> HIDE DEF theirs
  <2> QED
    BY <1>1, <1>4, <2>1, NamesDiffer DEF TaskInv, RowsAreOfTheOp, Task!Known
<1>6. ClaimIsFree'
  BY <1>1, <1>4, NamesDiffer DEF TaskInv, ClaimIsFree, Working, Task!Known
<1>7. RemovedIsCompleted'
  <2>1. Task!Known' = Task!Known /\ work'[Task!Trees].name = n
    BY <1>1, <1>4 DEF Task!Known
  <2> QED
    BY <1>1, <2>1 DEF RemovedIsCompleted
<1>8. UpdateIsAcyclic'
  BY <1>1, <1>4, NamesDiffer DEF TaskInv, UpdateIsAcyclic, Task!WaitsFor, Task!Closed
<1> QED
  BY <1>4, <1>5, <1>6, <1>7, <1>8 DEF TaskInv

\* What a run that has a task reads of it.
LEMMA RunReads ==
  ASSUME TaskInv, NEW r \in BindingRuns, NEW t \in Task!Known, NEW op \in {"bound", "sync", "waiting", "over"},
         NEW row, RowIsSound(row), row.run = r, binding[r].task = t, Keeps(r, op, row, files[t]),
         Task!Reads(r, op, "none", [u \in {t} |-> row]),
         UNCHANGED <<files, git, branches, binding, stale>>
  PROVE  TaskInv'
<1> DEFINE read == [u \in {t} |-> row]
<1>1. /\ work'[r] = [op |-> op, name |-> "none", rows |-> read, fresh |-> DOMAIN read]
      /\ \A u \in Task!Stores : u # r => work'[u] = work[u]
      /\ TaskTypes' /\ FreshIsKept' /\ OwnedIsStarted' /\ OneIsWorking'
      /\ Task!StartedIsUnblocked' /\ Task!Acyclic' /\ Task!ActiveHasItsWorktree'
  <2>1. op \in Ops(r) /\ r \in Task!Stores
    BY NamesDiffer DEF Ops
  <2>2. \A u \in DOMAIN read : /\ u \in Task!Known /\ RowIsSound(read[u])
                                /\ Keeps(r, op, read[u], files[u])
    OBVIOUS
  <2>3. Task!Reads(r, op, "none", read)
    OBVIOUS
  <2> HIDE DEF read
  <2> QED
    BY <2>1, <2>2, <2>3, ReadsKeeps
<1>2. RowsAreOfTheOp'
  <2>1. \A u \in DOMAIN work'[r].rows : work'[r].rows[u].run = r
    BY <1>1
  <2>2. Task!Known' = Task!Known
    BY DEF Task!Known
  <2> HIDE DEF read
  <2> QED
    BY <1>1, <2>1, <2>2, NamesDiffer DEF TaskInv, RowsAreOfTheOp
<1>3. work'[Task!Tools] = work[Task!Tools] /\ work'[Task!Trees] = work[Task!Trees]
  BY <1>1, NamesDiffer
<1>4. ClaimIsFree' /\ RemovedIsCompleted'
  BY <1>3 DEF TaskInv, ClaimIsFree, RemovedIsCompleted, Working, Task!Known
<1>5. UpdateIsAcyclic'
  BY <1>3 DEF TaskInv, UpdateIsAcyclic, Task!WaitsFor, Task!Closed
<1> QED
  BY <1>1, <1>2, <1>4, <1>5 DEF TaskInv

\* Steps that change bindings only.
LEMMA BindingKeeps ==
  ASSUME TaskInv, UNCHANGED <<files, git, branches, work, stale>>,
         binding' = [r \in BindingRuns |-> binding'[r]],
         \A r \in BindingRuns : BindingIsSound(r)' /\ binding'[r].task = binding[r].task
  PROVE  TaskInv'
<1>1. Task!Known' = Task!Known /\ Working' = Working /\ \A d : Task!WaitsFor(d)' = Task!WaitsFor(d)
  BY DEF Task!Known, Working, Task!WaitsFor, Task!Closed
<1>2. TaskTypes'
  <2>1. \A s \in Task!Stores : WorkIsSound(s)'
    BY <1>1 DEF WorkIsSound, TaskInv, TaskTypes
  <2> QED
    BY <2>1 DEF TaskInv, TaskTypes
<1>3. RowsAreOfTheOp' /\ FreshIsKept' /\ OwnedIsStarted' /\ ClaimIsFree' /\ OneIsWorking'
  BY <1>1 DEF TaskInv, RowsAreOfTheOp, FreshIsKept, OwnedIsStarted, ClaimIsFree, OneIsWorking
<1>4. Task!StartedIsUnblocked' /\ Task!Acyclic' /\ UpdateIsAcyclic' /\ RemovedIsCompleted'
      /\ Task!ActiveHasItsWorktree'
  BY <1>1 DEF TaskInv, Task!StartedIsUnblocked, Task!Acyclic, UpdateIsAcyclic, RemovedIsCompleted,
              Task!ActiveHasItsWorktree
<1> QED
  BY <1>2, <1>3, <1>4 DEF TaskInv

LEMMA BindStep == ASSUME TaskInv, NEW r \in BindingRuns, Task!BindExecution(r) PROVE TaskInv'
<1> DEFINE t == binding[r].task
<1>1. t \in Task!Known /\ RowIsSound(files[t]) /\ BindingIsSound(r) /\ DOMAIN binding = BindingRuns
      /\ binding[r].stage = "made" /\ UNCHANGED <<files, git, branches, stale>>
  BY DEF Task!BindExecution, TaskInv, TaskTypes, BindingIsSound, Task!Known
<1>2. CASE Task!MayBind(r, t)
  <2> DEFINE row == [files[t] EXCEPT !.owner = r, !.run = r, !.result = "running",
                             !.status = IF @ = "pending" THEN "in_progress" ELSE @]
  <2>1. Task!Reads(r, "bound", "none", [u \in {t} |-> row]) /\ UNCHANGED binding
    BY <1>2 DEF Task!BindExecution, Task!None
  <2>2. row \in Task!Row /\ row.run = r /\ row.owner = r
    BY <1>1 DEF RowIsSound, Task!Row
  <2>3. Keeps(r, "bound", row, files[t])
    BY <1>1, NamesDiffer DEF RowIsSound, Task!Row, Keeps
  <2> HIDE DEF row
  <2> QED
    BY <1>1, <2>1, <2>2, <2>3, RunReads DEF RowIsSound
<1>3. CASE ~Task!MayBind(r, t)
  <2>1. UNCHANGED work /\ binding' = [binding EXCEPT ![r].stage = "unbound"]
    BY <1>3 DEF Task!BindExecution
  <2>2. \A u \in BindingRuns : BindingIsSound(u)' /\ binding'[u].task = binding[u].task
    BY <1>1, <2>1 DEF BindingIsSound, TaskInv, TaskTypes, Task!Known
  <2> QED
    BY <1>1, <2>1, <2>2, BindingKeeps
<1> QED
  BY <1>2, <1>3

LEMMA SyncStep == ASSUME TaskInv, NEW r \in BindingRuns, Task!Sync(r) PROVE TaskInv'
<1> DEFINE t == binding[r].task
<1>1. t \in Task!Known /\ RowIsSound(files[t]) /\ files[t].run = r
      /\ Task!Reads(r, "sync", "none", [u \in {t} |-> files[t]])
      /\ UNCHANGED <<files, git, branches, binding, stale>>
  <2>1. BindingIsSound(r) /\ binding[r].stage = "bound"
    BY DEF Task!Sync, TaskInv, TaskTypes
  <2> QED
    BY <2>1 DEF Task!Sync, Task!Bound, TaskInv, TaskTypes, BindingIsSound, Task!Known, Task!None
<1>2. Keeps(r, "sync", files[t], files[t])
  BY NamesDiffer DEF Keeps
<1> QED
  BY <1>1, <1>2, RunReads

LEMMA FinalizeStep ==
  ASSUME TaskInv, NEW r \in BindingRuns, NEW end \in {"waiting_approval", "failed", "completed"},
         Task!FinalizeExecution(r, end)
  PROVE  TaskInv'
<1> DEFINE t == binding[r].task
           op == IF end = "waiting_approval" THEN "waiting" ELSE "over"
<1>1. t \in Task!Known /\ RowIsSound(files[t]) /\ BindingIsSound(r) /\ DOMAIN binding = BindingRuns
      /\ UNCHANGED <<files, git, branches, stale>>
  <2>1. BindingIsSound(r) /\ binding[r].stage # "none"
    BY DEF Task!FinalizeExecution, TaskInv, TaskTypes
  <2> QED
    BY <2>1 DEF Task!FinalizeExecution, TaskInv, TaskTypes, BindingIsSound, Task!Known
<1>2. CASE Task!Bound(r)
  <2> DEFINE row == [files[t] EXCEPT !.result = end,
                             !.status = IF end = "completed" THEN "completed" ELSE @]
  <2>1. Task!Reads(r, op, "none", [u \in {t} |-> row]) /\ UNCHANGED binding /\ files[t].run = r
    BY <1>2 DEF Task!FinalizeExecution, Task!Bound, Task!None
  <2>2. row \in Task!Row /\ row.run = r /\ row.owner = files[t].owner
    BY <1>1, <2>1 DEF RowIsSound, Task!Row
  <2>3. Keeps(r, op, row, files[t])
    BY <1>1, NamesDiffer DEF RowIsSound, Task!Row, Keeps
  <2>4. RowIsSound(row)
    BY <1>1, <2>1, <2>2 DEF RowIsSound
  <2> HIDE DEF row
  <2> QED
    BY <1>1, <2>1, <2>2, <2>3, <2>4, RunReads
<1>3. CASE ~Task!Bound(r)
  <2>1. UNCHANGED work /\ binding' = [binding EXCEPT ![r].stage = "over"]
    BY <1>3 DEF Task!FinalizeExecution
  <2>2. \A u \in BindingRuns : BindingIsSound(u)' /\ binding'[u].task = binding[u].task
    <3>1. binding[r].stage # "none"
      BY DEF Task!FinalizeExecution
    <3> QED
      BY <1>1, <2>1, <3>1 DEF BindingIsSound, TaskInv, TaskTypes, Task!Known
  <2> QED
    BY <1>1, <2>1, <2>2, BindingKeeps
<1> QED
  BY <1>2, <1>3

LEMMA CreateKeeps ==
  ASSUME TaskInv, NEW t \in TaskIds, files[t] = Task!NoFile,
         files' = [files EXCEPT ![t] = Task!NewTask],
         UNCHANGED <<git, branches, work, stale>>,
         binding' = [r \in BindingRuns |-> binding'[r]],
         \A r \in BindingRuns : BindingIsSound(r)' /\ binding'[r].task \in {binding[r].task, t}
  PROVE  TaskInv'
<1>1. /\ DOMAIN files = TaskIds /\ DOMAIN files' = TaskIds /\ files'[t] = Task!NewTask
      /\ \A u \in TaskIds : u # t => files'[u] = files[u]
  BY DEF TaskInv, TaskTypes
<1>2. /\ RowIsSound(Task!NewTask) /\ Task!NewTask # Task!NoFile /\ Task!NewTask.owner = "none"
      /\ Task!NewTask.status = "pending" /\ Task!NewTask.worktree = "none" /\ Task!NewTask.blockedBy = {}
      /\ Task!NoFile.status = "no_file" /\ Task!NoFile.blockedBy = {} /\ Task!NoFile.owner = "none"
  BY DEF RowIsSound, Task!Row, Task!NewTask, Task!NoFile, Task!None
<1>3. Task!Known' = Task!Known \cup {t} /\ t \notin Task!Known /\ Working' = Working
  BY <1>1, <1>2 DEF Task!Known, Working
<1>4. TaskTypes'
  <2>1. \A s \in Task!Stores : WorkIsSound(s)'
    BY <1>3 DEF WorkIsSound, TaskInv, TaskTypes
  <2>2. \A u \in TaskIds : files'[u] = Task!NoFile \/ RowIsSound(files'[u])
    BY <1>1, <1>2 DEF TaskInv, TaskTypes
  <2> QED
    BY <1>1, <2>1, <2>2 DEF TaskInv, TaskTypes
<1>5. \A s \in Task!Stores : \A u \in DOMAIN work[s].rows : u \in Task!Known /\ files'[u] = files[u]
  <2>1. \A s \in Task!Stores : WorkIsSound(s)
    BY DEF TaskInv, TaskTypes
  <2> QED
    BY <1>1, <1>3, <2>1 DEF WorkIsSound, Task!Known
<1>6. Blocks' = Blocks
  BY <1>1, <1>2 DEF Blocks
<1>7. Task!Acyclic' /\ \A d \in TaskIds : Task!WaitsFor(d)' = Task!WaitsFor(d)
  BY <1>4, <1>6, GraphMeans, GraphMeansNext DEF TaskInv
<1>8. RowsAreOfTheOp' /\ OwnedIsStarted' /\ OneIsWorking'
  BY <1>1, <1>2, <1>3 DEF TaskInv, RowsAreOfTheOp, OwnedIsStarted, OneIsWorking
<1>9. FreshIsKept'
  BY <1>5 DEF TaskInv, FreshIsKept
<1>10. \A u \in Task!Known : RowIsSound(files[u])
  BY DEF TaskInv, TaskTypes, Task!Known
<1>11. \A s \in Task!Stores : \A u \in DOMAIN work[s].rows : work[s].rows[u].blockedBy \subseteq TaskIds
  <2>1. \A s \in Task!Stores : WorkIsSound(s)
    BY DEF TaskInv, TaskTypes
  <2> QED
    BY <2>1 DEF WorkIsSound, RowIsSound, Task!Row
<1>12. ClaimIsFree'
  BY <1>1, <1>2, <1>3, <1>11, NamesDiffer DEF TaskInv, ClaimIsFree
<1>13. UpdateIsAcyclic'
  BY <1>7, <1>11, NamesDiffer DEF TaskInv, UpdateIsAcyclic
<1>14. Task!StartedIsUnblocked'
  <2>1. \A u \in Task!Known : files[u].blockedBy \subseteq TaskIds
    BY <1>10 DEF RowIsSound, Task!Row
  <2> QED
    BY <1>1, <1>2, <1>3, <2>1 DEF TaskInv, Task!StartedIsUnblocked, Task!Agent
<1>15. RemovedIsCompleted'
  <2>1. work[Task!Trees].op = "remove_worktree" => work[Task!Trees].name # "none"
    BY TreesHaveNames DEF TaskInv, RowsAreOfTheOp
  <2> QED
    BY <1>1, <1>2, <1>3, <2>1 DEF TaskInv, RemovedIsCompleted
<1>16. Task!ActiveHasItsWorktree'
  BY <1>1, <1>2, <1>3 DEF TaskInv, Task!ActiveHasItsWorktree, Task!None
<1> QED
  BY <1>4, <1>7, <1>8, <1>9, <1>12, <1>13, <1>14, <1>15, <1>16 DEF TaskInv

LEMMA CreateStep ==
  ASSUME TaskInv, NEW t \in TaskIds,
         Task!CreateTask(t) \/ \E r \in BindingRuns : Task!CreateForRun(r, t)
  PROVE  TaskInv'
<1>1. files[t] = Task!NoFile /\ files' = [files EXCEPT ![t] = Task!NewTask]
      /\ DOMAIN binding = BindingRuns /\ DOMAIN files = TaskIds /\ UNCHANGED <<git, branches, work, stale>>
  BY DEF Task!CreateTask, Task!CreateForRun, TaskInv, TaskTypes
<1>2. Task!NewTask # Task!NoFile
  BY DEF Task!NewTask, Task!NoFile
<1>3. Task!Known \subseteq Task!Known' /\ t \in Task!Known'
  BY <1>1, <1>2 DEF Task!Known
<1>4. CASE Task!CreateTask(t)
  <2>1. UNCHANGED binding /\ binding = [r \in BindingRuns |-> binding[r]]
    BY <1>4 DEF Task!CreateTask, TaskInv, TaskTypes
  <2>2. \A r \in BindingRuns : BindingIsSound(r)'
    BY <1>3, <2>1 DEF BindingIsSound, TaskInv, TaskTypes
  <2> QED
    BY <1>1, <2>1, <2>2, CreateKeeps
<1>5. ASSUME NEW r \in BindingRuns, Task!CreateForRun(r, t)
      PROVE  TaskInv'
  <2>1. binding' = [binding EXCEPT ![r] = [task |-> t, stage |-> "made"]]
    BY <1>5 DEF Task!CreateForRun
  <2>2. \A u \in BindingRuns : BindingIsSound(u)' /\ binding'[u].task \in {binding[u].task, t}
    BY <1>1, <1>3, <2>1 DEF BindingIsSound, TaskInv, TaskTypes
  <2>3. binding' = [u \in BindingRuns |-> binding'[u]]
    BY <1>1, <2>1
  <2> QED
    BY <1>1, <2>1, <2>2, <2>3, CreateKeeps
<1> QED
  BY <1>4, <1>5

\* The worktree store runs git, or gives up.
LEMMA TreesKeeps ==
  ASSUME TaskInv, UNCHANGED <<files, binding, stale>>, DOMAIN work' = Task!Stores,
         \A u \in Task!Stores : u # Task!Trees => work'[u] = work[u],
         git' \subseteq branches', branches' \subseteq TreeNames,
         WorkIsSound(Task!Trees)',
         work'[Task!Trees].op \in {"none", "bind_worktree"},
         work'[Task!Trees].op # "none" => work'[Task!Trees].name \in TreeNames,
         \A t \in DOMAIN work'[Task!Trees].rows :
            LET row == work'[Task!Trees].rows[t]
            IN  /\ row.owner = "none" \/ row.status = "completed"
                /\ row.worktree \in git' \cup {"none"}
                /\ t \in work'[Task!Trees].fresh =>
                        Keeps(Task!Trees, work'[Task!Trees].op, row, files[t]),
         Task!ActiveHasItsWorktree'
  PROVE  TaskInv'
<1>1. Task!Known' = Task!Known /\ Working' = Working /\ \A d : Task!WaitsFor(d)' = Task!WaitsFor(d)
  BY DEF Task!Known, Working, Task!WaitsFor, Task!Closed
<1>2. TaskTypes'
  <2>1. \A s \in Task!Stores : WorkIsSound(s)'
    BY <1>1 DEF WorkIsSound, TaskInv, TaskTypes
  <2>2. \A r \in BindingRuns : BindingIsSound(r)'
    BY <1>1 DEF BindingIsSound, TaskInv, TaskTypes
  <2> QED
    BY <2>1, <2>2 DEF TaskInv, TaskTypes
<1>3. RowsAreOfTheOp'
  BY <1>1, NamesDiffer DEF TaskInv, RowsAreOfTheOp
<1>4. FreshIsKept'
  BY DEF TaskInv, FreshIsKept
<1>5. OwnedIsStarted' /\ ClaimIsFree' /\ OneIsWorking'
  BY <1>1, NamesDiffer DEF TaskInv, OwnedIsStarted, ClaimIsFree, OneIsWorking
<1>6. Task!StartedIsUnblocked' /\ Task!Acyclic' /\ UpdateIsAcyclic' /\ RemovedIsCompleted'
  BY <1>1, NamesDiffer
  DEF TaskInv, Task!StartedIsUnblocked, Task!Acyclic, UpdateIsAcyclic, RemovedIsCompleted
<1> QED
  BY <1>2, <1>3, <1>4, <1>5, <1>6 DEF TaskInv

LEMMA GitStep ==
  ASSUME TaskInv, (\E ok \in BOOLEAN : Task!GitRuns(ok)) \/ Task!SaveFails
  PROVE  TaskInv'
<1> DEFINE n == work[Task!Trees].name
<1>0. /\ WorkIsSound(Task!Trees) /\ DOMAIN work = Task!Stores /\ Task!Trees \in Task!Stores
      /\ git \subseteq branches /\ branches \subseteq TreeNames
      /\ UNCHANGED <<files, binding, stale>>
  BY NamesDiffer DEF TaskInv, TaskTypes, Task!GitRuns, Task!SaveFails
<1>i. DOMAIN Task!Idle.rows = {} /\ Task!Idle.fresh = {} /\ Task!Idle.op = "none" /\ Task!Idle.name = "none"
      /\ Task!Idle = [op |-> Task!Idle.op, name |-> Task!Idle.name,
                  rows |-> Task!Idle.rows, fresh |-> Task!Idle.fresh]
  BY DEF Task!Idle, Task!None
<1>1. CASE work' = [work EXCEPT ![Task!Trees] = Task!Idle] /\ UNCHANGED <<git, branches>>
  <2>1. work'[Task!Trees] = Task!Idle /\ DOMAIN work' = Task!Stores
        /\ \A u \in Task!Stores : u # Task!Trees => work'[u] = work[u]
    BY <1>0, <1>1
  <2>2. WorkIsSound(Task!Trees)'
    BY <1>i, <2>1 DEF WorkIsSound
  <2>3. Task!ActiveHasItsWorktree'
    BY <1>0, <1>1 DEF TaskInv, Task!ActiveHasItsWorktree, Task!Known
  <2> QED
    BY <1>0, <1>1, <1>i, <2>1, <2>2, <2>3, TreesKeeps
<1>2. ASSUME Task!GitRuns(TRUE)
      PROVE  TaskInv'
  <2>1. /\ work[Task!Trees].op \in {"add_worktree", "remove_worktree"}
        /\ git' = IF work[Task!Trees].op = "add_worktree" THEN git \cup {n} ELSE git \ {n}
        /\ branches' = branches \cup {n}
        /\ work' = [work EXCEPT ![Task!Trees].op = "bind_worktree"]
    BY <1>2 DEF Task!GitRuns
  <2>2. n \in TreeNames
    BY <2>1 DEF TaskInv, RowsAreOfTheOp
  <2>3. /\ work'[Task!Trees] = [op |-> "bind_worktree", name |-> n,
                                rows |-> work[Task!Trees].rows, fresh |-> work[Task!Trees].fresh]
        /\ DOMAIN work' = Task!Stores
        /\ \A u \in Task!Stores : u # Task!Trees => work'[u] = work[u]
    <3>1. work[Task!Trees] = [op |-> work[Task!Trees].op, name |-> n,
                              rows |-> work[Task!Trees].rows, fresh |-> work[Task!Trees].fresh]
      BY <1>0 DEF WorkIsSound
    <3> QED
      BY <1>0, <2>1, <3>1
  <2>4. WorkIsSound(Task!Trees)'
    <3>1. Task!Known' = Task!Known /\ "bind_worktree" \in Ops(Task!Trees)
      BY <1>0, NamesDiffer DEF Task!Known, Ops
    <3> QED
      BY <1>0, <2>2, <2>3, <3>1 DEF WorkIsSound
  <2>5. ASSUME NEW t \in DOMAIN work'[Task!Trees].rows
        PROVE  LET row == work'[Task!Trees].rows[t]
               IN  /\ row.owner = "none" \/ row.status = "completed"
                   /\ row.worktree \in git' \cup {"none"}
                   /\ t \in work'[Task!Trees].fresh =>
                        Keeps(Task!Trees, work'[Task!Trees].op, row, files[t])
    <3>1. work'[Task!Trees].rows[t].owner = "none" \/ work'[Task!Trees].rows[t].status = "completed"
      BY <2>3, <2>5 DEF TaskInv, RowsAreOfTheOp
    <3>2. work'[Task!Trees].rows[t].worktree \in git' \cup {"none"}
      BY <2>1, <2>3, <2>5 DEF TaskInv, RowsAreOfTheOp
    <3>3. t \in work'[Task!Trees].fresh =>
                        Keeps(Task!Trees, work'[Task!Trees].op, work'[Task!Trees].rows[t], files[t])
      <4>1. t \in work[Task!Trees].fresh =>
                        Keeps(Task!Trees, work[Task!Trees].op, work[Task!Trees].rows[t], files[t])
        BY <1>0, <2>3, <2>5 DEF TaskInv, FreshIsKept
      <4> QED
        BY <2>3, <4>1, NamesDiffer DEF Keeps
    <3> QED
      BY <3>1, <3>2, <3>3
  <2>6. Task!ActiveHasItsWorktree'
    BY <1>0, <2>1 DEF TaskInv, Task!ActiveHasItsWorktree, RemovedIsCompleted, Task!Known
  <2>7. git' \subseteq branches' /\ branches' \subseteq TreeNames
    BY <1>0, <2>1, <2>2
  <2> QED
    BY <1>0, <2>2, <2>3, <2>4, <2>5, <2>6, <2>7, TreesKeeps
<1>3. CASE Task!SaveFails
  BY <1>1, <1>3 DEF Task!SaveFails
<1>4. CASE Task!GitRuns(FALSE)
  BY <1>1, <1>4 DEF Task!GitRuns
<1> QED
  BY <1>2, <1>3, <1>4

\* A store writes a task it has read.
LEMMA SaveStep == ASSUME TaskInv, NEW s \in Task!Stores, Task!Save(s) PROVE TaskInv'
<1>1. PICK t \in DOMAIN work[s].rows :
        LET rest == [u \in DOMAIN work[s].rows \ {t} |-> work[s].rows[u]]
        IN  /\ work[s].op \notin {"add_worktree", "remove_worktree"}
            /\ files' = [files EXCEPT ![t] = work[s].rows[t]]
            /\ stale' = IF t \in work[s].fresh THEN stale ELSE stale \cup {t}
            /\ work' = [u \in Task!Stores |->
                            IF u # s THEN [work[u] EXCEPT !.fresh = @ \ {t}]
                            ELSE IF DOMAIN rest = {} THEN Task!Idle ELSE [work[s] EXCEPT !.rows = rest]]
            /\ binding' = IF s \in BindingRuns /\ work[s].op # "sync"
                          THEN [binding EXCEPT ![s].stage = work[s].op] ELSE binding
            /\ UNCHANGED <<git, branches>>
  BY DEF Task!Save
<1> DEFINE row == work[s].rows[t]
           op == work[s].op
<1>2. /\ \A u \in Task!Stores : WorkIsSound(u)
      /\ RowIsSound(row) /\ t \in TaskIds /\ t \in Task!Known /\ op \in Ops(s)
      /\ op \notin {"add_worktree", "remove_worktree"} /\ row # Task!NoFile
  <2>1. \A u \in Task!Stores : WorkIsSound(u)
    BY DEF TaskInv, TaskTypes
  <2>2. RowIsSound(row) /\ t \in Task!Known /\ op \in Ops(s)
    BY <2>1 DEF WorkIsSound
  <2>3. row # Task!NoFile
    BY <2>2 DEF RowIsSound, Task!Row, Task!NoFile, Task!NewTask
  <2> QED
    BY <1>1, <2>1, <2>2, <2>3 DEF Task!Known
<1>3. /\ DOMAIN files' = TaskIds /\ files'[t] = row /\ \A x \in TaskIds : x # t => files'[x] = files[x]
      /\ \A x \in Task!Known : RowIsSound(files[x])
      /\ stale \subseteq stale' /\ stale' \subseteq TaskIds
      /\ t \in work[s].fresh => stale' = stale
      /\ t \notin work[s].fresh => stale' = stale \cup {t}
      /\ UNCHANGED <<git, branches>>
  BY <1>1, <1>2 DEF TaskInv, TaskTypes, Task!Known
<1>4. Task!Known' = Task!Known
  BY <1>2, <1>3 DEF Task!Known
<1> DEFINE LeftOf(u) ==
            /\ DOMAIN work'[u].rows \subseteq DOMAIN work[u].rows
            /\ work'[u].fresh \subseteq work[u].fresh /\ t \notin work'[u].fresh \cap DOMAIN work'[u].rows
            /\ work'[u].op # "none" => work'[u].op = work[u].op /\ work'[u].name = work[u].name
            /\ \A x \in DOMAIN work'[u].rows :
                    work'[u].rows[x] = work[u].rows[x] /\ work'[u].op # "none"
            /\ u # s => /\ DOMAIN work'[u].rows = DOMAIN work[u].rows
                        /\ work'[u].op = work[u].op /\ work'[u].name = work[u].name
<1>5. /\ DOMAIN work' = Task!Stores
      /\ \A u \in Task!Stores : WorkIsSound(u)'
      /\ \A u \in Task!Stores : LeftOf(u)
      /\ DOMAIN work[s].rows = {t} => work'[s].op = "none"
  <2>1. ASSUME NEW u \in Task!Stores, u # s
        PROVE  WorkIsSound(u)' /\ LeftOf(u)
    <3>1. work[u] = [op |-> work[u].op, name |-> work[u].name,
                     rows |-> work[u].rows, fresh |-> work[u].fresh]
      BY <1>2 DEF WorkIsSound
    <3>2. work'[u] = [work[u] EXCEPT !.fresh = @ \ {t}]
      BY <1>1, <2>1
    <3>3. /\ work'[u] = [op |-> work'[u].op, name |-> work'[u].name,
                         rows |-> work'[u].rows, fresh |-> work'[u].fresh]
          /\ work'[u].op = work[u].op /\ work'[u].name = work[u].name
          /\ work'[u].rows = work[u].rows /\ work'[u].fresh = work[u].fresh \ {t}
      BY <3>1, <3>2
    <3>4. WorkIsSound(u)
      BY <1>2
    <3>5. WorkIsSound(u)'
      BY <1>4, <3>3, <3>4 DEF WorkIsSound
    <3>6. LeftOf(u)
      BY <2>1, <3>3, <3>4 DEF WorkIsSound
    <3> QED
      BY <3>5, <3>6
  <2> DEFINE rest == [u \in DOMAIN work[s].rows \ {t} |-> work[s].rows[u]]
  <2>2. ASSUME DOMAIN work[s].rows = {t}
        PROVE  WorkIsSound(s)' /\ LeftOf(s) /\ work'[s].op = "none"
    <3>1. work'[s] = Task!Idle
      BY <1>1, <2>2
    <3>2. DOMAIN Task!Idle.rows = {} /\ Task!Idle.fresh = {} /\ Task!Idle.op = "none" /\ Task!Idle.name = "none"
          /\ Task!Idle = [op |-> Task!Idle.op, name |-> Task!Idle.name,
                          rows |-> Task!Idle.rows, fresh |-> Task!Idle.fresh]
      BY DEF Task!Idle, Task!None
    <3>3. WorkIsSound(s)'
      BY <3>1, <3>2 DEF WorkIsSound
    <3>4. LeftOf(s) /\ work'[s].op = "none"
      BY <3>1, <3>2
    <3> QED
      BY <3>3, <3>4
  <2>3. ASSUME DOMAIN work[s].rows # {t}
        PROVE  WorkIsSound(s)' /\ LeftOf(s)
    <3>1. work[s] = [op |-> work[s].op, name |-> work[s].name,
                     rows |-> work[s].rows, fresh |-> work[s].fresh]
      BY <1>2 DEF WorkIsSound
    <3>2. work'[s] = [work[s] EXCEPT !.rows = rest]
      BY <1>1, <2>3
    <3>3. DOMAIN rest = DOMAIN work[s].rows \ {t} /\ \A x \in DOMAIN rest : rest[x] = work[s].rows[x]
      OBVIOUS
    <3> HIDE DEF rest
    <3>4. /\ work'[s] = [op |-> work'[s].op, name |-> work'[s].name,
                         rows |-> work'[s].rows, fresh |-> work'[s].fresh]
          /\ work'[s].op = work[s].op /\ work'[s].name = work[s].name
          /\ work'[s].rows = rest /\ work'[s].fresh = work[s].fresh
      BY <3>1, <3>2
    <3>5. work[s].op # "none" /\ WorkIsSound(s)
      BY <1>2 DEF Ops
    <3>6. WorkIsSound(s)'
      BY <1>4, <3>3, <3>4, <3>5 DEF WorkIsSound
    <3>7. LeftOf(s)
      BY <3>3, <3>4, <3>5
    <3> QED
      BY <2>3, <3>6, <3>7
  <2>4. DOMAIN work' = Task!Stores
    BY <1>1
  <2> HIDE DEF LeftOf
  <2> QED
    BY <2>1, <2>2, <2>3, <2>4
<1>6. \A r \in BindingRuns : BindingIsSound(r)' /\ binding'[r].task = binding[r].task
  <2>1. \A r \in BindingRuns : BindingIsSound(r)
    BY DEF TaskInv, TaskTypes
  <2>2. s \in BindingRuns => op \in {"bound", "sync", "waiting", "over"} /\ binding[s].task \in Task!Known
    BY <1>2, NamesDiffer DEF Ops, TaskInv, RowsAreOfTheOp
  <2>3. DOMAIN binding = BindingRuns
    BY DEF TaskInv, TaskTypes
  <2> QED
    BY <1>1, <1>4, <2>1, <2>2, <2>3 DEF BindingIsSound
<1>7. TaskTypes'
  <2>1. binding' = [r \in BindingRuns |-> binding'[r]]
    <3>1. CASE binding' = [binding EXCEPT ![s].stage = work[s].op]
      <4>1. DOMAIN binding = BindingRuns
        BY DEF TaskInv, TaskTypes
      <4> QED
        BY <3>1, <4>1
    <3>2. CASE binding' = binding
      BY <3>2 DEF TaskInv, TaskTypes
    <3> QED
      BY <1>1, <3>1, <3>2
  <2>2. \A x \in TaskIds : files'[x] = Task!NoFile \/ RowIsSound(files'[x])
    BY <1>2, <1>3 DEF TaskInv, TaskTypes
  <2> QED
    BY <1>3, <1>5, <1>6, <2>1, <2>2 DEF TaskInv, TaskTypes
<1> HIDE DEF row, op
<1>8. /\ s = Task!Tools =>
            /\ op \in {"update", "claim", "complete"} /\ DOMAIN work[s].rows = {t}
            /\ op = "update" => row.owner = "none"
            /\ op = "complete" => row.status = "completed"
            /\ op = "claim" => row.status = "in_progress"
      /\ s = Task!Trees =>
            /\ row.owner = "none" \/ row.status = "completed"
            /\ row.worktree \in git \cup {"none"}
      /\ s \notin {Task!Tools, Task!Trees} => row.owner # "agent"
  <2>1. CASE s = Task!Tools
    BY <1>2, <2>1, NamesDiffer DEF Ops, TaskInv, RowsAreOfTheOp, row, op
  <2>2. CASE s = Task!Trees
    BY <1>2, <2>2, NamesDiffer DEF Ops, TaskInv, RowsAreOfTheOp, row, op
  <2>3. CASE s \notin {Task!Tools, Task!Trees}
    <3>1. s \in BindingRuns /\ row.run = s
      BY <2>3, NamesDiffer DEF TaskInv, RowsAreOfTheOp, row
    <3> QED
      BY <1>2, <2>3, <3>1, NamesDiffer DEF RowIsSound, row
  <2> QED
    BY <2>1, <2>2, <2>3
<1>9. t \in work[s].fresh => Keeps(s, op, row, files[t])
  BY DEF TaskInv, FreshIsKept, row, op
<1>10. RowsAreOfTheOp'
  BY <1>3, <1>4, <1>5, <1>6, NamesDiffer DEF TaskInv, RowsAreOfTheOp
<1>11. FreshIsKept'
  <2> SUFFICES ASSUME NEW u \in Task!Stores, NEW x \in DOMAIN work'[u].rows \cap work'[u].fresh
               PROVE  Keeps(u, work'[u].op, work'[u].rows[x], files'[x])
    BY DEF FreshIsKept
  <2>1. x # t /\ x \in DOMAIN work[u].rows \cap work[u].fresh /\ x \in TaskIds
    BY <1>2, <1>5 DEF WorkIsSound
  <2>2. files'[x] = files[x] /\ work'[u].rows[x] = work[u].rows[x] /\ work'[u].op = work[u].op
    BY <1>3, <1>5, <2>1
  <2>3. Keeps(u, work[u].op, work[u].rows[x], files[x])
    BY <2>1 DEF TaskInv, FreshIsKept
  <2> QED
    BY <2>2, <2>3
<1>12. OwnedIsStarted'
  <2> SUFFICES ASSUME NEW x \in Task!Known, x \notin stale', files'[x].owner = "agent"
               PROVE  files'[x].status # "pending"
    BY <1>4 DEF OwnedIsStarted
  <2>1. CASE x # t
    BY <1>3, <2>1 DEF TaskInv, OwnedIsStarted, Task!Known
  <2>2. CASE x = t
    BY <1>2, <1>3, <1>8, <1>9, <2>2, NamesDiffer DEF TaskInv, OwnedIsStarted, Keeps
  <2> QED
    BY <2>1, <2>2
<1>13. (row.status = "in_progress" /\ row.owner = "agent") => s = Task!Tools /\ op = "claim"
  BY <1>8
<1>14. (s = Task!Tools /\ op = "claim") => Working = {}
  BY DEF TaskInv, ClaimIsFree, op
<1>15. Working' \subseteq Working \cup {t} /\ (s # Task!Tools => Working' \subseteq Working)
  BY <1>2, <1>3, <1>4, <1>13 DEF Working, Task!Known
<1>16. OneIsWorking'
  <2>1. CASE s = Task!Tools /\ op = "claim"
    BY <1>14, <1>15, <2>1 DEF OneIsWorking
  <2>2. CASE ~(s = Task!Tools /\ op = "claim")
    <3>1. Working' \subseteq Working
      BY <1>2, <1>3, <1>4, <1>13, <2>2 DEF Working, Task!Known
    <3> QED
      BY <3>1 DEF TaskInv, OneIsWorking
  <2> QED
    BY <2>1, <2>2
<1>17. \A x \in TaskIds : files[x].status = "completed" => files'[x].status = "completed" \/ x \in stale'
  BY <1>3, <1>9 DEF Keeps
<1>18. ClaimIsFree'
  <2> SUFFICES ASSUME work'[Task!Tools].op = "claim"
               PROVE  /\ Working' = {}
                      /\ \A x \in DOMAIN work'[Task!Tools].rows : \A d \in work'[Task!Tools].rows[x].blockedBy :
                            files'[d].status = "completed" \/ {d, x} \cap stale' # {}
    BY DEF ClaimIsFree
  <2>1. s # Task!Tools /\ work[Task!Tools].op = "claim"
    BY <1>5, <1>8, NamesDiffer
  <2>2. Working' = {}
    BY <1>15, <2>1 DEF TaskInv, ClaimIsFree
  <2>3. ASSUME NEW x \in DOMAIN work'[Task!Tools].rows, NEW d \in work'[Task!Tools].rows[x].blockedBy
        PROVE  files'[d].status = "completed" \/ {d, x} \cap stale' # {}
    <3>1. x \in DOMAIN work[Task!Tools].rows /\ d \in work[Task!Tools].rows[x].blockedBy /\ d \in TaskIds
      <4>1. x \in DOMAIN work[Task!Tools].rows /\ d \in work[Task!Tools].rows[x].blockedBy
        BY <1>5, <2>3, NamesDiffer
      <4> QED
        BY <1>2, <4>1, NamesDiffer DEF WorkIsSound, RowIsSound, Task!Row
    <3>2. files[d].status = "completed" \/ {d, x} \cap stale # {}
      BY <2>1, <3>1 DEF TaskInv, ClaimIsFree
    <3> QED
      BY <1>3, <1>17, <3>1, <3>2
  <2> QED
    BY <2>2, <2>3
<1>19. Task!StartedIsUnblocked'
  <2> SUFFICES ASSUME NEW x \in Task!Known, files'[x].status # "pending", files'[x].owner = "agent",
                      NEW d \in files'[x].blockedBy
               PROVE  files'[d].status = "completed" \/ {d, x} \cap stale' # {}
    BY <1>4 DEF Task!StartedIsUnblocked, Task!Agent
  <2>1. x \in TaskIds /\ d \in TaskIds
    BY <1>2, <1>3 DEF Task!Known, RowIsSound, Task!Row
  <2>2. files[d].status = "completed" \/ {d, x} \cap stale' # {}
    <3>1. CASE x # t
      <4>1. files'[x] = files[x]
        BY <1>3, <2>1, <3>1
      <4> QED
        BY <1>3, <4>1 DEF TaskInv, Task!StartedIsUnblocked, Task!Agent
    <3>2. CASE x = t /\ t \notin work[s].fresh
      BY <1>3, <3>2
    <3>3. CASE x = t /\ t \in work[s].fresh /\ s = Task!Tools /\ op = "claim"
      BY <1>3, <3>3 DEF TaskInv, ClaimIsFree, row, op
    <3>4. CASE x = t /\ t \in work[s].fresh /\ ~(s = Task!Tools /\ op = "claim")
      <4>1. files[t].owner = "agent"
        BY <1>3, <1>9, <3>4 DEF Keeps
      <4>2. d \in files[t].blockedBy
        BY <1>3, <1>8, <1>9, <3>4 DEF Keeps
      <4>3. files[t].status # "pending" \/ t \in stale
        BY <1>2, <4>1 DEF TaskInv, OwnedIsStarted
      <4> QED
        BY <1>2, <1>3, <3>4, <4>1, <4>2, <4>3 DEF TaskInv, Task!StartedIsUnblocked, Task!Agent
    <3> QED
      BY <3>1, <3>2, <3>3, <3>4
  <2> QED
    BY <1>17, <2>1, <2>2
<1>20. /\ Blocks \in Graph /\ Blocks' \in Graph
       /\ \A v \in TaskIds : v # t => Blocks'[v] = Blocks[v]
       /\ \A x \in TaskIds : Task!WaitsFor(x) = WaitsIn(Blocks, x)
       /\ \A x \in TaskIds : Task!WaitsFor(x)' = WaitsIn(Blocks', x)
       /\ NoCycle(Blocks, stale) /\ (Task!Acyclic' <=> NoCycle(Blocks', stale'))
       /\ Blocks[t] = files[t].blockedBy /\ Blocks'[t] = row.blockedBy
  <2>1. \A v \in TaskIds : v # t => Blocks'[v] = Blocks[v]
    BY <1>3 DEF Blocks
  <2>2. Blocks[t] = files[t].blockedBy /\ Blocks'[t] = row.blockedBy
    BY <1>2, <1>3 DEF Blocks
  <2> QED
    BY <1>7, <2>1, <2>2, GraphMeans, GraphMeansNext DEF TaskInv
<1>21. (t \in work[s].fresh /\ ~(s = Task!Tools /\ op = "update")) => Blocks' = Blocks
  <2> SUFFICES ASSUME t \in work[s].fresh, ~(s = Task!Tools /\ op = "update")
               PROVE  Blocks' = Blocks
    OBVIOUS
  <2>1. Blocks'[t] = Blocks[t]
    BY <1>9, <1>20 DEF Keeps
  <2> QED
    BY <1>20, <2>1 DEF Graph
<1>22. Task!Acyclic'
  <2>1. CASE t \notin work[s].fresh
    <3>1. stale \in SUBSET TaskIds
      BY DEF TaskInv, TaskTypes
    <3> QED
      BY <1>2, <1>3, <1>20, <2>1, <3>1, BlindlyWritten
  <2>2. CASE t \in work[s].fresh /\ ~(s = Task!Tools /\ op = "update")
    BY <1>3, <1>20, <1>21, <2>2
  <2>3. CASE t \in work[s].fresh /\ s = Task!Tools /\ op = "update"
    <3>1. stale \in SUBSET TaskIds
      BY DEF TaskInv, TaskTypes
    <3>2. Blocks[t] \subseteq Blocks'[t]
      BY <1>9, <1>20, <2>3 DEF Keeps
    <3>3. \A d \in Blocks'[t] : t \notin WaitsIn(Blocks, d) \/ WaitsIn(Blocks, d) \cap stale # {}
      <4>1. \A d \in row.blockedBy : t \notin Task!WaitsFor(d) \/ Task!WaitsFor(d) \cap stale # {}
        BY <2>3 DEF TaskInv, UpdateIsAcyclic, row, op
      <4>2. row.blockedBy \subseteq TaskIds
        BY <1>2, <1>20 DEF Graph
      <4> QED
        BY <1>20, <4>1, <4>2
    <3> QED
      BY <1>2, <1>3, <1>20, <2>3, <3>1, <3>2, <3>3, AddsNoCycle
  <2> QED
    BY <2>1, <2>2, <2>3
<1>23. UpdateIsAcyclic'
  <2> SUFFICES ASSUME work'[Task!Tools].op = "update",
                      NEW x \in DOMAIN work'[Task!Tools].rows, NEW d \in work'[Task!Tools].rows[x].blockedBy
               PROVE  x \notin Task!WaitsFor(d)' \/ Task!WaitsFor(d)' \cap stale' # {}
    BY DEF UpdateIsAcyclic
  <2>1. s # Task!Tools /\ work[Task!Tools].op = "update"
    BY <1>5, <1>8, NamesDiffer
  <2>2. x \in DOMAIN work[Task!Tools].rows /\ d \in work[Task!Tools].rows[x].blockedBy
    BY <1>5, NamesDiffer
  <2>3. d \in TaskIds
    BY <1>2, <2>2, NamesDiffer DEF WorkIsSound, RowIsSound, Task!Row
  <2>4. x \notin WaitsIn(Blocks, d) \/ WaitsIn(Blocks, d) \cap stale # {}
    BY <1>20, <2>1, <2>2, <2>3 DEF TaskInv, UpdateIsAcyclic
  <2>5. x \notin WaitsIn(Blocks', d) \/ WaitsIn(Blocks', d) \cap stale' # {}
    <3>1. CASE t \in work[s].fresh
      BY <1>3, <1>21, <2>1, <2>4, <3>1
    <3>2. CASE t \notin work[s].fresh /\ t \notin WaitsIn(Blocks, d)
      <4>1. WaitsIn(Blocks', d) = WaitsIn(Blocks, d)
        BY <1>2, <1>20, <2>3, <3>2, ElsewhereAlike
      <4> QED
        BY <1>3, <2>4, <4>1
    <3>3. CASE t \notin work[s].fresh /\ t \in WaitsIn(Blocks, d)
      <4>1. t \in WaitsIn(Blocks', d)
        BY <1>2, <1>20, <2>3, <3>3, StillThere
      <4> QED
        BY <1>3, <3>3, <4>1
    <3> QED
      BY <3>1, <3>2, <3>3
  <2> QED
    BY <1>20, <2>3, <2>5
<1>24. RemovedIsCompleted'
  <2> SUFFICES ASSUME work'[Task!Trees].op = "remove_worktree", NEW x \in Task!Known, x \notin stale',
                      files'[x].worktree = work'[Task!Trees].name
               PROVE  files'[x].status = "completed"
    BY <1>4 DEF RemovedIsCompleted
  <2>1. work[Task!Trees].op = "remove_worktree" /\ work'[Task!Trees].name = work[Task!Trees].name
    BY <1>5, NamesDiffer
  <2>2. s # Task!Trees
    BY <1>2, <2>1 DEF op
  <2>3. CASE x # t
    BY <1>3, <2>1, <2>3 DEF TaskInv, RemovedIsCompleted, Task!Known
  <2>4. CASE x = t
    BY <1>3, <1>9, <2>1, <2>2, <2>4 DEF TaskInv, RemovedIsCompleted, Keeps
  <2> QED
    BY <2>3, <2>4
<1>25. Task!ActiveHasItsWorktree'
  <2> SUFFICES ASSUME NEW x \in Task!Known, x \notin stale',
                      files'[x].worktree # "none", files'[x].status # "completed"
               PROVE  files'[x].worktree \in git
    BY <1>3, <1>4 DEF Task!ActiveHasItsWorktree, Task!None
  <2>1. CASE x # t
    BY <1>3, <2>1 DEF TaskInv, Task!ActiveHasItsWorktree, Task!Known, Task!None
  <2>2. CASE x = t
    BY <1>3, <1>8, <1>9, <2>2 DEF TaskInv, Task!ActiveHasItsWorktree, Keeps, Task!None
  <2> QED
    BY <2>1, <2>2
<1> QED
  BY <1>7, <1>10, <1>11, <1>12, <1>16, <1>18, <1>19, <1>22, <1>23, <1>24, <1>25 DEF TaskInv

\* Every step of the stores, and what the invariant says.
LEMMA TaskStep == ASSUME TaskInv, Task!Next PROVE TaskInv'
<1>1. CASE \E s \in Task!Stores : Task!Save(s)
  BY <1>1, SaveStep
<1>2. CASE \E t \in TaskIds : Task!CreateTask(t) \/ Task!Claim(t) \/ Task!Complete(t)
  BY <1>2, CreateStep, ClaimStep, CompleteStep
<1>3. CASE \E t \in TaskIds, deps \in SUBSET TaskIds : Task!UpdateTask(t, deps)
  BY <1>3, UpdateStep
<1>4. CASE \E n \in TreeNames, t \in TaskIds : Task!AddWorktree(n, t)
  BY <1>4, AddWorktreeStep
<1>5. CASE \E n \in TreeNames : Task!RemoveWorktree(n)
  BY <1>5, RemoveWorktreeStep
<1>6. CASE (\E ok \in BOOLEAN : Task!GitRuns(ok)) \/ Task!SaveFails
  BY <1>6, GitStep
<1>7. CASE \E r \in BindingRuns, t \in TaskIds : Task!CreateForRun(r, t)
  BY <1>7, CreateStep
<1>8. CASE \E r \in BindingRuns : Task!BindExecution(r) \/ Task!Sync(r)
  BY <1>8, BindStep, SyncStep
<1>9. CASE \E r \in BindingRuns, end \in {"waiting_approval", "failed", "completed"} :
              Task!FinalizeExecution(r, end)
  BY <1>9, FinalizeStep
<1> QED
  BY <1>1, <1>2, <1>3, <1>4, <1>5, <1>6, <1>7, <1>8, <1>9 DEF Task!Next

LEMMA TaskStays == ASSUME TaskInv, UNCHANGED taskVars PROVE TaskInv'
<1>1. UNCHANGED <<files, git, branches, work, binding, stale>>
  BY DEF taskVars
<1>2. \A r \in BindingRuns : BindingIsSound(r)' /\ binding'[r].task = binding[r].task
  BY <1>1 DEF TaskInv, TaskTypes, BindingIsSound, Task!Known
<1> QED
  BY <1>1, <1>2, BindingKeeps DEF TaskInv, TaskTypes

LEMMA TaskMeans ==
  ASSUME TaskInv
  PROVE  Task!TypeOK /\ Task!OneAtATime
<1>1. Task!TypeOK
  <2>1. \A s \in Task!Stores : DOMAIN work[s].rows \subseteq TaskIds /\ work[s].fresh \subseteq TaskIds
                               /\ work[s].name \in TreeNames \cup {Task!None}
    BY DEF TaskInv, TaskTypes, WorkIsSound, Task!Known, Task!None
  <2>2. binding \in [BindingRuns -> [task : TaskIds \cup {Task!None},
                             stage : {"none", "made", "bound", "waiting", "over", "unbound"}]]
    <3>1. \A r \in BindingRuns : binding[r] \in [task : TaskIds \cup {Task!None},
                             stage : {"none", "made", "bound", "waiting", "over", "unbound"}]
      BY DEF TaskInv, TaskTypes, BindingIsSound, Task!None
    <3>2. binding = [r \in BindingRuns |-> binding[r]]
      BY DEF TaskInv, TaskTypes
    <3> QED
      BY <3>1, <3>2
  <2>3. \A t \in TaskIds : files[t] \in Task!Row \cup {Task!NoFile}
    BY DEF TaskInv, TaskTypes, RowIsSound
  <2> QED
    BY <2>1, <2>2, <2>3 DEF TaskInv, TaskTypes, Task!TypeOK
<1>2. Task!OneAtATime
  BY DEF TaskInv, OneIsWorking, Working, Task!OneAtATime, Task!Agent
<1> QED
  BY <1>1, <1>2

-----------------------------------------------------------------------------
(* The parts side by side: the inductive invariant of the behaviour's own.   *)

PartsInv ==
    /\ part = "command" => CommandInv
    /\ part = "background" => BackgroundInv
    /\ part = "case" => CaseInv
    /\ part = "batch" => BatchInv
    /\ part = "plugin" => PluginInv
    /\ part = "hook" => HookInv
    /\ part = "task" => TaskInv

\* A step that leaves the variables of a part alone leaves its invariant alone.
LEMMA CommandStays == ASSUME CommandInv, UNCHANGED commandVars PROVE CommandInv'
BY ZenonT(30) DEF commandVars, CommandInv, Command!TypeOK, Command!KeptIsBounded, Command!Collected,
       Command!Pipes, Command!EndedIsOver, NothingYet, DoneIsDrained, EndedForAReason,
       BackAfterReaders, Command!ReaderBroke

LEMMA BackgroundStays == ASSUME BackgroundInv, UNCHANGED backgroundVars PROVE BackgroundInv'
BY DEF backgroundVars, BackgroundInv, Background!TypeOK, Background!ReleasedIsOver,
       Background!Live, CanceledAreAwaited, ClosedIsSettled

LEMMA CaseStays == ASSUME CaseInv, UNCHANGED caseVars PROVE CaseInv'
BY DEF caseVars, CaseInv, Case!TypeOK, Case!PassedIsEarned, Case!Gates, NothingBegun,
       TurnsInOrder, OwnSummary, NotYetPassed, BoundIsFinalized, SkippedByTheBare

LEMMA BatchStays == ASSUME BatchInv, UNCHANGED batchVars PROVE BatchInv'
<1>1. UNCHANGED <<batches, memory, tasks, file, performance, deleted>>
  BY DEF batchVars
<1>2. Batch!TypeOK' /\ Batch!PerformanceIsWhole'
  BY <1>1 DEF BatchInv, Batch!TypeOK, Batch!PerformanceIsWhole
<1>3. \A b \in Batches : BatchIsSound(b, batches'[b]) /\ BatchIsSound(b, file'[b])
  BY <1>1 DEF BatchInv
<1>4. \A b \in Batches : BatchIsSound(b, batches[b])' /\ BatchIsSound(b, file[b])'
  BY <1>3 DEF BatchIsSound, Batch!ResultOf, Batch!NoBatch
<1> QED
  BY <1>1, <1>2, <1>4 DEF BatchInv

LEMMA PluginStays ==
  ASSUME PluginInv, UNCHANGED pluginVars
  PROVE  PluginInv' /\ Plugin!Adds
BY DEF pluginVars, PluginInv, Plugin!TypeOK, Plugin!ActiveIsWhatRuns, Plugin!ActiveIsArchived,
       Plugin!Adds, LocksAreHeld, BaselineIsImported, ImportIsSound, PlanIsImported, PlanAdds,
       WrittenIsArchived, WaitingIsIdle

LEMMA HookStays == ASSUME HookInv, UNCHANGED hookVars PROVE HookInv'
<1>1. UNCHANGED <<stage, hooks, observersOnly, next, ran, results, ended>>
  BY DEF hookVars
<1>2. Hook!Declared(stage)' = Hook!Declared(stage) /\ Hook!TypeOK'
  BY <1>1 DEF Hook!Declared, HookInv, Hook!TypeOK
<1>3. \A i \in DOMAIN hooks : Hook!Called(i)' = Hook!Called(i)
      /\ Hook!Validated(hooks[i])' = Hook!Validated(hooks[i])
  BY <1>1 DEF Hook!Called, Hook!Validated
<1>4. Hook!Given("finalize")' = Hook!Given("finalize")
  BY <1>1 DEF Hook!Given
<1> QED
  BY <1>1, <1>2, <1>3, <1>4 DEF HookInv, CalledInOrder, ObserversSoFar, DecisionsSoFar

LEMMA PartsInit == ASSUME Init PROVE PartsInv
<1>1. part = "command" => CommandInv
  BY CommandInit DEF Init
<1>2. part = "background" => BackgroundInv
  BY BackgroundInit DEF Init
<1>3. part = "case" => CaseInv
  BY CaseInit DEF Init
<1>4. part = "batch" => BatchInv
  BY BatchInit DEF Init
<1>5. part = "plugin" => PluginInv
  BY PluginInit DEF Init
<1>6. part = "hook" => HookInv
  BY HookInit DEF Init
<1>7. part = "task" => TaskInv
  BY TaskInit DEF Init
<1> QED
  BY <1>1, <1>2, <1>3, <1>4, <1>5, <1>6, <1>7 DEF PartsInv

LEMMA PartsStep ==
  ASSUME PartsInv, [Next]_vars
  PROVE  PartsInv' /\ (part = "plugin" => Plugin!Adds)
<1>1. CASE UNCHANGED vars
  BY <1>1, CommandStays, BackgroundStays, CaseStays, BatchStays, PluginStays, HookStays, TaskStays
  DEF PartsInv, vars
<1>2. CASE Next
  <2>1. part' = part
    BY <1>2 DEF Next, Is
  <2>2. part = "command" => CommandInv'
    BY <1>2, CommandStep DEF PartsInv, Next, Is
  <2>3. part = "background" => BackgroundInv'
    BY <1>2, BackgroundStep DEF PartsInv, Next, Is
  <2>4. part = "case" => CaseInv'
    BY <1>2, CaseStep DEF PartsInv, Next, Is
  <2>5. part = "batch" => BatchInv'
    BY <1>2, BatchStep DEF PartsInv, Next, Is
  <2>6. part = "plugin" => PluginInv' /\ Plugin!Adds
    BY <1>2, PluginStep DEF PartsInv, Next, Is
  <2>7. part = "hook" => HookInv'
    BY <1>2, HookStep DEF PartsInv, Next, Is
  <2>8. part = "task" => TaskInv'
    BY <1>2, TaskStep DEF PartsInv, Next, Is
  <2> QED
    BY <2>1, <2>2, <2>3, <2>4, <2>5, <2>6, <2>7, <2>8 DEF PartsInv
<1> QED
  BY <1>1, <1>2

\* The inductive invariant holds in every behaviour.
THEOREM PartsInvariance == Spec => []PartsInv
<1>1. Init => PartsInv
  BY PartsInit
<1>2. PartsInv /\ [Next]_vars => PartsInv'
  BY PartsStep
<1> QED
  BY <1>1, <1>2, PTL DEF Spec

(* Of a command's output no more than the limit is kept, what is passed off *)
(* as complete is, and of a command that is reported as ended nothing still *)
(* writes, unless it wrote more than the limit or could not be read; what    *)
(* stopped it stopped its descendants.  In whatever order its pipes, its     *)
(* process, a reader's error, its deadline and its cancelation come          *)
(* (runtime/process_output.py).                                              *)
THEOREM CommandsReported == Spec => []CommandsAreReported
<1>1. PartsInv => CommandsAreReported
  BY CommandMeans DEF PartsInv, CommandInv, CommandsAreReported
<1> QED
  BY <1>1, PartsInvariance, PTL

(* When the owner of background tasks goes on no job is left, however often *)
(* it was canceled while it waited, and the cancelation is not lost          *)
(* (core/background_tasks.py).                                               *)
THEOREM OwnersOutlive == Spec => []OwnersOutliveJobs
<1>1. PartsInv => OwnersOutliveJobs
  BY BackgroundMeans DEF PartsInv, BackgroundInv, OwnersOutliveJobs
<1> QED
  BY <1>1, PartsInvariance, PTL

(* A case recorded as passed had every hard checker pass, those of its      *)
(* turns unless the agent is a bare one, whose turns are not checked, and    *)
(* those of the reviews and of the case whatever the agent is; each turn is  *)
(* summed up and its task settled wherever it failed or was canceled.  What  *)
(* is merged of batches, deleted since or not, has the baseline once in one  *)
(* version; what the command line registers, one version, each case once     *)
(* (evals/runner.py, evals/batches.py).                                      *)
THEOREM EvaluationsHonest == Spec => []EvaluationsAreHonest
<1>1. PartsInv => EvaluationsAreHonest
  BY CaseMeans, BatchMeans DEF PartsInv, CaseInv, BatchInv, EvaluationsAreHonest
<1> QED
  BY <1>1, PartsInvariance, PTL

(* The agent works on one task at a time.  Every task store reads a file,   *)
(* decides and writes it whole, with others writing in between; unless a     *)
(* file was overwritten by a store that did not know it, no task waits for   *)
(* itself, what the agent began waited for nothing unfinished, and an        *)
(* unfinished task's worktree is there (tools/task_system.py).               *)
THEOREM TasksOrdered == Spec => []TasksAreInOrder
<1>1. PartsInv => TasksAreInOrder
  BY TaskMeans DEF PartsInv, TaskInv, TasksAreInOrder
<1> QED
  BY <1>1, PartsInvariance, PTL

(* The plan in force is the code that was imported and is in the archive,   *)
(* through refreshes that are canceled or fail, and a refresh only adds;     *)
(* every observer of an event is called, a guard that fails blocks and the   *)
(* strongest decision wins (core/plugin_runtime.py, core/hooks.py).          *)
THEOREM PluginsEffect == Spec => PluginsTakeEffect
<1>1. PartsInv => (part = "plugin" =>
        Plugin!TypeOK /\ Plugin!ActiveIsWhatRuns /\ Plugin!ActiveIsArchived)
  BY DEF PartsInv, PluginInv
<1>2. PartsInv => (part = "hook" =>
        Hook!TypeOK /\ Hook!ObserversSee /\ Hook!FailedGuardBlocks /\ Hook!FinalizeWins)
  BY HookMeans DEF PartsInv, HookInv
<1>3. PartsInv /\ [Next]_vars => [part = "plugin" => Plugin!Adds]_vars
  BY PartsStep
<1> QED
  BY <1>1, <1>2, <1>3, PartsInvariance, PTL DEF Spec, PluginsTakeEffect

=============================================================================
