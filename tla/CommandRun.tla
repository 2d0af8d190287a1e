----------------------------- MODULE CommandRun -----------------------------
(***************************************************************************)
(* One command of the agent: what the execution broker lets start          *)
(* (runtime/execution_broker.py), and the capture of its output            *)
(* (runtime/process_output.py): two threads drain the pipes up to one      *)
(* limit, one waits for the process, a coroutine looks at the stop button, *)
(* the limit and the deadline, terminates and waits for the three.         *)
(*                                                                         *)
(* A pipe counts its unread blocks; a thread inside read() comes back with *)
(* a full chunk or at the end of the pipe, which comes when every process  *)
(* that holds it is gone, or fails with an error of the system, and then   *)
(* nobody waits for the others any more.  A process may leave descendants: *)
(* kin that hold its pipes, and strays whose output goes elsewhere, which  *)
(* nobody waits for.  terminate() reaches both only while the process      *)
(* itself lives.                                                           *)
(* What the output says is left out, and the probe of the toolchain.       *)
(***************************************************************************)
EXTENDS Naturals, FiniteSets

CONSTANTS
    Limit,      \* output_limit, in blocks
    Chunk,      \* what one read() asks for
    Pipe        \* what a pipe and the buffer of its reader hold

VARIABLES
    task,       \* what the broker looks at
    stage,      \* of the coroutine
    process,    \* the process and its exit code
    kin,        \* its descendants that hold its pipes
    stray,      \* its descendants that do not
    pipe,       \* unread blocks
    reader,     \* the threads of the pipes
    kept,       \* blocks kept, by pipe: the buffers; their sum is "collected"
    lost,       \* observer: blocks were read that were not kept
    exceeded,   \* the event
    pressed,    \* stop_check() and the deadline
    reason,     \* why the loop ended
    status      \* of the evidence

commandVars ==
    <<task, stage, process, kin, stray, pipe, reader, kept, lost, exceeded, pressed, reason, status>>

Pipes == {"stdout", "stderr"}
Reasons == {"completed", "canceled", "output_limit", "timeout"}
Ended == {"returned", "cancelled"}

Tasks == [approval : {"auto", "user", "deny"}, inside : BOOLEAN, network : BOOLEAN,
          worker : {"local", "ready", "unready", "unfit"}]

TypeOK ==
    /\ task \in Tasks
    /\ stage \in {"admit", "starting", "loop", "join", "cancelled join"} \cup Ended
    /\ process \in [is : {"none", "running", "signalled", "exited"}, code : 0..2]
    /\ {kin, stray} \subseteq {"none", "running", "signalled"}
    /\ pipe \in [Pipes -> 0..Pipe] /\ kept \in [Pipes -> Nat]
    /\ reader \in [Pipes -> {"idle", "top", "read", "done", "failed"}]
    /\ exceeded \in BOOLEAN /\ lost \in BOOLEAN
    /\ pressed \subseteq {"stop", "deadline"}
    /\ reason \in Reasons
    /\ status \in {"none", "blocked", "success", "failed"} \cup Reasons

Init ==
    /\ task \in Tasks /\ stage = "admit" /\ status = "none" /\ reason = "completed"
    /\ process = [is |-> "none", code |-> 0] /\ kin = "none" /\ stray = "none"
    /\ pipe = [p \in Pipes |-> 0] /\ kept = [p \in Pipes |-> 0]
    /\ reader = [p \in Pipes |-> "idle"]
    /\ exceeded = FALSE /\ lost = FALSE /\ pressed = {}

-----------------------------------------------------------------------------
(* The broker.                                                               *)

\* WorkerExecutionBroker.execute(), then LocalExecutionBroker.execute().
Admitted ==
    /\ task.worker \in {"local", "ready"}
    /\ task.approval = "auto" /\ ~task.network /\ task.inside

Admit ==
    /\ stage = "admit"
    /\ IF Admitted THEN stage' = "starting" /\ UNCHANGED status
       ELSE stage' = "returned" /\ status' = "blocked"
    /\ UNCHANGED <<task, process, kin, stray, pipe, reader, kept, lost, exceeded, pressed, reason>>

\* start_program() in a thread, and the jobs of collect_process_output().
Started ==
    /\ stage = "starting"
    /\ \/ /\ stage' = "loop"
          /\ process' = [process EXCEPT !.is = "running"]
          /\ reader' = [p \in Pipes |-> "top"]
          /\ UNCHANGED status
       \/ /\ stage' = "returned" /\ status' = "failed"
          /\ UNCHANGED <<process, reader>>
    /\ UNCHANGED <<task, kin, stray, pipe, kept, lost, exceeded, pressed, reason>>

-----------------------------------------------------------------------------
(* The process.                                                              *)

Writes(p) ==
    /\ process.is \in {"running", "signalled"} \/ kin # "none"
    /\ pipe[p] < Pipe
    /\ pipe' = [pipe EXCEPT ![p] = @ + 1]
    /\ UNCHANGED <<task, stage, process, kin, stray, reader, kept, lost, exceeded, pressed, reason, status>>

Exits(code) ==
    /\ process.is = "running"
    /\ process' = [is |-> "exited", code |-> code]
    /\ UNCHANGED <<task, stage, kin, stray, pipe, reader, kept, lost, exceeded, pressed, reason, status>>

\* One descendant at a time stands for all of its kind.
Forks ==
    /\ process.is = "running" /\ kin = "none" /\ stray = "none"
    /\ \/ kin' = "running" /\ UNCHANGED stray
       \/ stray' = "running" /\ UNCHANGED kin
    /\ UNCHANGED <<task, stage, process, pipe, reader, kept, lost, exceeded, pressed, reason, status>>

\* SIGTERM does its work.
Dies ==
    /\ \/ /\ process.is = "signalled" /\ process' = [is |-> "exited", code |-> 2]
          /\ UNCHANGED <<kin, stray>>
       \/ kin = "signalled" /\ kin' = "none" /\ UNCHANGED <<process, stray>>
       \/ stray = "signalled" /\ stray' = "none" /\ UNCHANGED <<process, kin>>
    /\ UNCHANGED <<task, stage, pipe, reader, kept, lost, exceeded, pressed, reason, status>>

KinEnds ==
    /\ \/ kin = "running" /\ kin' = "none" /\ UNCHANGED stray
       \/ stray = "running" /\ stray' = "none" /\ UNCHANGED kin
    /\ UNCHANGED <<task, stage, process, pipe, reader, kept, lost, exceeded, pressed, reason, status>>

-----------------------------------------------------------------------------
(* read_pipe().                                                              *)

Collected == kept["stdout"] + kept["stderr"]
AtEnd == process.is = "exited" /\ kin = "none"
Least(a, b) == IF a < b THEN a ELSE b

\* What is kept of a chunk.
Kept(n) == Least(n, Limit - Collected)

Looks(p) ==
    /\ reader[p] = "top"
    /\ reader' = [reader EXCEPT ![p] = IF exceeded THEN "done" ELSE "read"]
    /\ UNCHANGED <<task, stage, process, kin, stray, pipe, kept, lost, exceeded, pressed, reason, status>>

Reads(p) ==
    LET n == Least(Chunk, pipe[p])
    IN  /\ reader[p] = "read" /\ (n = Chunk \/ AtEnd)
        /\ IF n = 0 THEN reader' = [reader EXCEPT ![p] = "done"] /\ UNCHANGED <<pipe, kept, lost, exceeded>>
           ELSE /\ pipe' = [pipe EXCEPT ![p] = @ - n]
                /\ kept' = [kept EXCEPT ![p] = @ + Kept(n)]
                /\ lost' = (lost \/ Kept(n) < n)
                /\ exceeded' = IF n > Limit - Collected THEN TRUE ELSE exceeded
                /\ reader' = [reader EXCEPT ![p] = "top"]
        /\ UNCHANGED <<task, stage, process, kin, stray, pressed, reason, status>>

\* read() raises an OSError, and with it the gathered future.
ReadFails(p) ==
    /\ reader[p] = "read"
    /\ reader' = [reader EXCEPT ![p] = "failed"]
    /\ UNCHANGED <<task, stage, process, kin, stray, pipe, kept, lost, exceeded, pressed, reason, status>>

ReaderBroke == \E p \in Pipes : reader[p] = "failed"
Joined == process.is = "exited" /\ \A p \in Pipes : reader[p] = "done"

-----------------------------------------------------------------------------
(* collect_process_output().                                                 *)

Press(what) ==
    /\ stage = "loop" /\ what \notin pressed
    /\ pressed' = pressed \cup {what}
    /\ UNCHANGED <<task, stage, process, kin, stray, pipe, reader, kept, lost, exceeded, reason, status>>

\* terminate(): the group, if its leader is there.
Reached(k) == IF process.is \in {"running", "signalled"} /\ k # "none" THEN "signalled" ELSE k
Terminate ==
    /\ process' = IF process.is = "running" THEN [process EXCEPT !.is = "signalled"] ELSE process
    /\ kin' = Reached(kin) /\ stray' = Reached(stray)

\* One turn of the loop.
\* A bug: a full buffer is not looked at.
FoundUnlessFull ==
    IF "stop" \in pressed THEN "canceled"
    ELSE IF "deadline" \in pressed THEN "timeout" ELSE "completed"
Found ==
    IF "stop" \in pressed THEN "canceled" ELSE IF exceeded THEN "output_limit"
    ELSE IF "deadline" \in pressed THEN "timeout" ELSE "completed"

Poll ==
    /\ stage = "loop"
    /\ IF Joined \/ ReaderBroke THEN stage' = "join" /\ UNCHANGED <<process, kin, stray, reason>>
       ELSE /\ Found # "completed"
            /\ reason' = Found /\ stage' = "join"
            /\ Terminate
    /\ UNCHANGED <<task, pipe, reader, kept, lost, exceeded, pressed, status>>

\* A bug: the limit is not looked at again.
FinalAsFound == reason
Final == IF reason = "completed" /\ exceeded THEN "output_limit" ELSE reason

Evidence(final) ==
    IF final # "completed" THEN final ELSE IF process.code = 0 THEN "success" ELSE "failed"

Join ==
    /\ stage = "join" /\ Joined
    /\ stage' = "returned" /\ reason' = Final /\ status' = Evidence(Final)
    /\ UNCHANGED <<task, process, kin, stray, pipe, reader, kept, lost, exceeded, pressed>>

\* What a reader raised ends the wait for the others; the broker reports it as failed.
JoinFails ==
    /\ stage = "join" /\ ReaderBroke
    /\ Terminate
    /\ stage' = "returned" /\ status' = "failed"
    /\ UNCHANGED <<task, pipe, reader, kept, lost, exceeded, pressed, reason>>

\* The run is canceled: while the process starts nobody learns of it, later it is
\* terminated and waited for, unless the cancellation comes again.
EndsIt == Terminate
Cancelled ==
    /\ \/ stage = "starting" /\ stage' = "cancelled"
          /\ process' \in {process, [process EXCEPT !.is = "running"]} /\ UNCHANGED <<kin, stray>>
       \/ stage \in {"loop", "join"} /\ stage' = "cancelled join" /\ EndsIt
       \/ stage = "cancelled join" /\ stage' = "cancelled" /\ UNCHANGED <<process, kin, stray>>
    /\ UNCHANGED <<task, pipe, reader, kept, lost, exceeded, pressed, reason, status>>

\* A reader's error takes the place of the cancellation, which is lost.
CancelledJoin ==
    /\ stage = "cancelled join"
    /\ \/ Joined /\ stage' = "cancelled" /\ UNCHANGED status
       \/ ReaderBroke /\ stage' = "returned" /\ status' = "failed"
    /\ UNCHANGED <<task, process, kin, stray, pipe, reader, kept, lost, exceeded, pressed, reason>>

Works == Started \/ Poll \/ Join \/ JoinFails \/ CancelledJoin \/ Dies
Next ==
    \/ Admit \/ Works \/ Forks \/ KinEnds \/ Cancelled
    \/ \E p \in Pipes : Writes(p) \/ Looks(p) \/ Reads(p) \/ ReadFails(p)
    \/ \E code \in 0..1 : Exits(code)
    \/ \E what \in {"stop", "deadline"} : Press(what)

\* Threads and the loop run, and what was sent SIGTERM ends; other processes need not.
Spec == /\ Init /\ [][Next]_commandVars
        /\ WF_commandVars(Poll) /\ WF_commandVars(Join) /\ WF_commandVars(JoinFails)
        /\ WF_commandVars(CancelledJoin) /\ WF_commandVars(Dies)
        /\ \A p \in Pipes : WF_commandVars(Looks(p)) /\ WF_commandVars(Reads(p))

-----------------------------------------------------------------------------
(* The two threads together keep no more than the limit.                     *)
KeptIsBounded == Collected <= Limit

(* Output that is passed off as complete is: nothing the command wrote was   *)
(* dropped or left in a pipe, and the command came to its end by itself.     *)
CompleteIsComplete ==
    status = "success" \/ (status = "failed" /\ process.is # "none" /\ ~ReaderBroke) =>
        /\ ~lost /\ \A p \in Pipes : pipe[p] = 0
        /\ process.code # 2 /\ reason = "completed"

(* When a command is reported, it has exited, or was sent SIGTERM when its   *)
(* output could not be read; what still can write to its output is there     *)
(* only after that, or after output over the limit.  Of a canceled command   *)
(* nothing runs on untold, unless it was canceled before the broker knew the *)
(* process.  And what ended a command ended its descendants, whether they    *)
(* hold its pipes or not: the others a command leaves behind run on.         *)
EndedIsOver ==
    /\ stage = "returned" =>
        /\ process.is \in {"none", "exited"} \/ (process.is = "signalled" /\ ReaderBroke)
        /\ kin = "none" \/ exceeded \/ ReaderBroke
    /\ stage = "cancelled" /\ (\E p \in Pipes : reader[p] # "idle") => process.is # "running"
    /\ process.is = "signalled" \/ process.code = 2 => "running" \notin {kin, stray}

Due == stage = "loop" /\ (pressed # {} \/ exceeded)
Back == stage \in Ended \/ kin = "running"
(* A command that writes too much, overstays its time or is stopped comes   *)
(* back, unless descendants outlive it and keep its pipes open.              *)
ComesBack == Due ~> Back

=============================================================================
