------------------------------ MODULE RunTenure ------------------------------
(***************************************************************************)
(* What the run store promises to the workers that share it, without its   *)
(* statuses, leases and versions: a run is a lock that is granted in       *)
(* numbered terms.  A new term starts only while nobody holds the run, a   *)
(* term never has two holders, and a closed run is never granted again.    *)
(* RunStore is shown to implement this specification.                      *)
(***************************************************************************)
EXTENDS Naturals

CONSTANTS
    Runs,       \* run identifiers
    Workers,    \* whoever may hold a run
    NoWorker    \* nobody

VARIABLES
    holder,     \* who holds each run
    term,       \* how many times each run has been granted
    closed      \* runs that reached their end

vars == <<holder, term, closed>>

Init ==
    /\ holder = [r \in Runs |-> NoWorker]
    /\ term = [r \in Runs |-> 0]
    /\ closed = {}

Grant(r, w) ==
    /\ holder[r] = NoWorker
    /\ r \notin closed
    /\ holder' = [holder EXCEPT ![r] = w]
    /\ term' = [term EXCEPT ![r] = @ + 1]
    /\ UNCHANGED closed

Release(r) ==
    /\ r \notin closed
    /\ holder' = [holder EXCEPT ![r] = NoWorker]
    /\ UNCHANGED <<term, closed>>

Close(r) ==
    /\ holder' = [holder EXCEPT ![r] = NoWorker]
    /\ closed' = closed \cup {r}
    /\ UNCHANGED term

Next == \E r \in Runs : Release(r) \/ Close(r) \/ \E w \in Workers : Grant(r, w)

Spec == Init /\ [][Next]_vars

=============================================================================
