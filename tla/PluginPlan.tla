----------------------------- MODULE PluginPlan -----------------------------
(***************************************************************************)
(* How the execution plan of the plugins comes about (discover_plan() and  *)
(* _ordered() in core/lifecycle.py, dependency_errors() in                 *)
(* core/plugins.py): plugins that cannot be had are put out, then those    *)
(* that depend on them, then those whose place in the order cannot be      *)
(* found, and again, until what is left can be put in order.               *)
(*                                                                         *)
(* Plugins are numbered in the order of their declaration; 0 stands for    *)
(* the core, and None for a name nobody has.  Each has one contribution,   *)
(* all at one stage, and the priorities that break ties are left out.      *)
(***************************************************************************)
EXTENDS Naturals, Sequences, FiniteSets, FiniteSetsExt, SequencesExt

CONSTANTS
    N,              \* the number of plugins
    Declarations    \* what they declare, to be tried

Plugins == 1..N
Core == 0
None == N + 1
Names == 0..None

VARIABLES
    declared,   \* dependencies, after, before, broken
    step,       \* of the loop
    status,     \* of the rows
    order       \* the contributions placed so far

planVars == <<declared, step, status, order>>

TypeOK ==
    /\ declared \in [dependencies : [Plugins -> SUBSET Names], after : [Plugins -> SUBSET Names],
                     before : [Plugins -> SUBSET Names], broken : SUBSET Plugins]
    /\ step \in {"read", "dependents", "check", "place", "done"}
    /\ status \in [Plugins -> {"discovered", "unavailable"}]
    /\ order \in Seq(Plugins \cup {Core})

Init ==
    /\ declared \in Declarations
    /\ step = "read" /\ order = <<>>
    /\ status = [p \in Plugins |-> "discovered"]

Active == {p \in Plugins : status[p] = "discovered"}

\* dependency_errors(): what is left has its dependencies, and theirs, without a cycle.
Available ==
    LET upto[n \in 0..N] == IF n = 0 THEN {}
                            ELSE LET have == upto[n - 1]
                                 IN  {p \in Plugins : declared.dependencies[p] \subseteq have}
    IN  upto[N]

Reject(ps) == status' = [p \in Plugins |-> IF p \in ps THEN "unavailable" ELSE status[p]]

\* The rows as they are read.
Read ==
    /\ step = "read" /\ step' = "dependents"
    /\ Reject((Plugins \ Available) \cup declared.broken)
    /\ UNCHANGED <<declared, order>>

Stranded == {p \in Active : declared.dependencies[p] \cap (Plugins \ Active) # {}}

Dependents ==
    /\ step = "dependents"
    /\ Reject(Stranded)
    /\ step' = IF Stranded = {} THEN "check" ELSE "dependents"
    /\ UNCHANGED <<declared, order>>

\* The first contribution that refers to none there is.
Items == Active \cup {Core}
Refers(p) == declared.after[p] \cup declared.before[p]
Lost == {p \in Active : ~Refers(p) \subseteq Items}
Unplaceable == {Min(Lost)}

Check ==
    /\ step = "check" /\ order' = <<>>
    /\ IF Lost = {} THEN step' = "place" /\ UNCHANGED status
       ELSE step' = "dependents" /\ Reject(Unplaceable)
    /\ UNCHANGED declared

\* What must come before an item.
\* A bug: "before" is forgotten.
EdgesAfter(i) == IF i = Core THEN {} ELSE declared.after[i]
Edges(i) ==
    (IF i = Core THEN {} ELSE declared.after[i]) \cup {p \in Active : i \in declared.before[p]}

Pending == Items \ Range(order)
Ready == {i \in Pending : Edges(i) \cap Pending = {}}

Rejected == Pending \ {Core}

Place ==
    /\ step = "place"
    /\ IF Pending = {} THEN step' = "done" /\ UNCHANGED <<order, status>>
       ELSE IF Ready # {} THEN order' = Append(order, Min(Ready)) /\ UNCHANGED <<step, status>>
       ELSE step' = "dependents" /\ Reject(Rejected) /\ UNCHANGED order
    /\ UNCHANGED declared

Next == Read \/ Dependents \/ Check \/ Place
Spec == Init /\ [][Next]_planVars /\ WF_planVars(Next)

-----------------------------------------------------------------------------
Placed(i, j) == \E k, l \in DOMAIN order : k < l /\ order[k] = i /\ order[l] = j

(* A plan that is made has everything its plugins depend on, and places     *)
(* every contribution after those it asks to follow and before those it     *)
(* asks to precede.                                                          *)
PlanIsConsistent == step = "done" =>
    /\ Range(order) = Items /\ Len(order) = Cardinality(Items)
    /\ \A p \in Active :
        /\ declared.dependencies[p] \subseteq Active
        /\ \A i \in declared.after[p] : Placed(i, p)
        /\ \A i \in declared.before[p] : Placed(p, i)

\* What a plugin has to do with, through dependencies and the order, both ways.
Related ==
    LET touches(p, q) == \/ q \in declared.dependencies[p] \cup Refers(p)
                         \/ p \in declared.dependencies[q] \cup Refers(q)
        near(S) == S \cup {q \in Plugins : \E p \in S \cap Plugins : touches(p, q)}
                     \cup (IF \E p \in S \cap Plugins : Core \in Refers(p) THEN {Core} ELSE {})
                     \cup (IF Core \in S THEN {p \in Plugins : Core \in Refers(p)} ELSE {})
        from[p \in Plugins] == LET go[n \in 0..N + 1] == IF n = 0 THEN {p} ELSE near(go[n - 1])
                               IN  go[N + 1]
    IN  from

\* Nothing is wrong there: it can be had and put in order as it is declared.
Sound(S) ==
    /\ S \cap (declared.broken \cup (Plugins \ Available)) = {}
    /\ \A p \in S \cap Plugins : Refers(p) \subseteq Plugins \cup {Core}
    /\ \E place \in [S -> 1..Cardinality(S)] : \A p \in S \cap Plugins :
        /\ \A i \in declared.after[p] : place[i] < place[p]
        /\ \A i \in declared.before[p] : place[p] < place[i]

(* A plugin is not put out for a fault of others it has nothing to do with. *)
OthersStay == step = "done" =>
    \A p \in Plugins : Sound(Related[p]) => p \in Active

(* A plan is made, whatever is declared.                                     *)
PlanIsMade == <>(step = "done")

=============================================================================
