---------------------------- MODULE DesignGraph ----------------------------
(***************************************************************************)
(* The design and code layers of the knowledge graph.                      *)
(*                                                                         *)
(* Every save of a project starts a daemon thread (file_service.py         *)
(* _rebuild_kg_async) that rebuilds the design layer from its own snapshot *)
(* (extensions/knowledge_graph/builder.py rebuild_project).  A rebuild is  *)
(* many transactions; two of them interleave, and a process that exits     *)
(* takes them along wherever they are.  compare_design_code (retriever.py  *)
(* diff) rebuilds the code layer when it looks out of date.                *)
(*                                                                         *)
(* Nodes are keyed by kind and name, so an element that two diagrams show  *)
(* is one node.  An element stands for its class or lifeline with the      *)
(* methods and attributes below it; a fragment hangs from its sequence     *)
(* diagram by an edge of its own kind, which no deletion follows.  The     *)
(* relations inside a diagram, component diagrams, fuzzy names and         *)
(* full-text search are left out.                                          *)
(***************************************************************************)
EXTENDS Naturals, Sequences, FiniteSets

CONSTANTS
    Classes,      \* names of classes; a lifeline refers to the class of its name
    Coded,        \* those somebody writes and deletes source files for
    Fragments,    \* names of the fragments of sequence diagrams
    ClassDiagrams, SequenceDiagrams,
    Projects,     \* what may be saved: functions from diagrams to sets of names
    Order,        \* the diagrams in the order projects list them
    Threads       \* how many rebuilds may run at a time

Diagrams == ClassDiagrams \cup SequenceDiagrams

VARIABLES
    project,   \* the project as last saved
    source,    \* the classes the source directory defines, one file each
    newer,     \* a source file is newer than every node of the code layer
    nodes, edges,   \* kg_nodes and kg_edges
    rebuild,   \* Threads -> the rebuild it runs
    compare,   \* the comparison in progress
    settled    \* rebuilds of this project since, each run alone

graphVars == <<project, source, newer, nodes, edges, rebuild, compare, settled>>

-----------------------------------------------------------------------------
DiagramNode(d) == <<"diagram", d>>
Element(d, n) ==
    <<CASE n \in Fragments -> "fragment"
        [] d \in ClassDiagrams -> "class"
        [] OTHER -> "lifeline", n>>
CodeNode(n) == <<"code", n>>

Shows(d, n) ==
    <<DiagramNode(d), IF n \in Fragments THEN "fragments" ELSE "contains", Element(d, n)>>
References(n) == <<Element(CHOOSE s \in SequenceDiagrams : TRUE, n), "references", <<"class", n>>>>
Implements(n) == <<CodeNode(n), "implements", <<"class", n>>>>

\* What a build of p from nothing makes (build_from_project).
NodesOf(p) == UNION {{DiagramNode(d)} \cup {Element(d, n) : n \in p[d]} : d \in DOMAIN p}
ShownIn(p) == UNION {{Shows(d, n) : n \in p[d]} : d \in DOMAIN p}

IsDesign(x) == x[1] # "code"

\* The nodes below a diagram; the diagram has to be there to be asked.
Descendants(d) == {x \in {e[3] : e \in edges} : <<DiagramNode(d), "contains", x>> \in edges}
\* A bug: the nodes below every diagram.
BelowProject(d) == {e[3] : e \in {f \in edges : f[2] = "contains"}}
Below(d) == IF DiagramNode(d) \in nodes THEN Descendants(d) ELSE {}

\* Nodes go with their edges.
Without(gone) == {e \in edges : e[1] \notin gone /\ e[3] \notin gone}

Drop(gone) == nodes' = nodes \ gone /\ edges' = Without(gone)

\* Lifelines that refer to a class both of which are in the graph.
CrossReferences(p) ==
    {References(n) : n \in {c \in Classes :
        /\ \E d \in DOMAIN p \cap SequenceDiagrams : c \in p[d]
        /\ <<"lifeline", c>> \in nodes
        /\ <<"class", c>> \in nodes}}

-----------------------------------------------------------------------------
Idle == [at |-> "idle", of |-> <<>>, todo |-> <<>>, alone |-> FALSE]
NoCompare == [at |-> "idle", todo |-> {}, alone |-> FALSE, rebuilt |-> FALSE]

Running == {t \in Threads : rebuild[t].at # "idle"}

\* The work of a rebuild: the project's diagrams in its order.
WorkOf(p) == SelectSeq(Order, LAMBDA d : d \in DOMAIN p)

Init ==
    /\ project = <<>>
    /\ source = {}
    /\ newer = FALSE
    /\ nodes = {}
    /\ edges = {}
    /\ rebuild = [t \in Threads |-> Idle]
    /\ compare = NoCompare
    /\ settled = 0

\* A save writes the file and starts a thread with the project it wrote.
Save(t, p) ==
    /\ rebuild[t].at = "idle"
    /\ project' = p
    /\ rebuild' = [r \in Threads |->
          IF r = t THEN [Idle EXCEPT !.at = "drop", !.of = p, !.todo = WorkOf(p),
                                     !.alone = Running = {}]
          ELSE [rebuild[r] EXCEPT !.alone = FALSE]]
    /\ settled' = IF p = project THEN settled ELSE 0
    /\ compare' = [compare EXCEPT !.alone = FALSE]
    /\ UNCHANGED <<source, newer, nodes, edges>>

Goes(t, changes) == rebuild' = [rebuild EXCEPT ![t] = changes]

\* Diagrams the project no longer has go with everything below them.
Removed(p) == {d \in Diagrams \ DOMAIN p : DiagramNode(d) \in nodes}
DropRemoved(t) ==
    /\ rebuild[t].at = "drop"
    /\ IF Removed(rebuild[t].of) = {}
       THEN /\ Goes(t, [rebuild[t] EXCEPT !.at = "delete"])
            /\ UNCHANGED <<nodes, edges>>
       ELSE \E d \in Removed(rebuild[t].of) :
              /\ Drop({DiagramNode(d)} \cup Descendants(d))
              /\ UNCHANGED rebuild
    /\ UNCHANGED <<project, source, newer, compare, settled>>

\* A diagram's old elements are deleted and built again: the node of the
\* diagram in one transaction, those of its elements in the next, its edges
\* in the third.
DeleteOld(t) ==
    /\ rebuild[t].at = "delete"
    /\ rebuild[t].todo # <<>>
    /\ Drop(Below(Head(rebuild[t].todo)))
    /\ Goes(t, [rebuild[t] EXCEPT !.at = "diagram"])
    /\ UNCHANGED <<project, source, newer, compare, settled>>

BuildDiagram(t) ==
    /\ rebuild[t].at = "diagram"
    /\ nodes' = nodes \cup {DiagramNode(Head(rebuild[t].todo))}
    /\ Goes(t, [rebuild[t] EXCEPT !.at = "nodes"])
    /\ UNCHANGED <<project, source, newer, edges, compare, settled>>

BuildNodes(t) ==
    /\ rebuild[t].at = "nodes"
    /\ LET d == Head(rebuild[t].todo) IN
       nodes' = nodes \cup {Element(d, n) : n \in rebuild[t].of[d]}
    /\ Goes(t, [rebuild[t] EXCEPT !.at = "edges"])
    /\ UNCHANGED <<project, source, newer, edges, compare, settled>>

BuildEdges(t) ==
    /\ rebuild[t].at = "edges"
    /\ LET d == Head(rebuild[t].todo) IN
       edges' = edges \cup {Shows(d, n) : n \in rebuild[t].of[d]}
    /\ Goes(t, [rebuild[t] EXCEPT !.at = "delete", !.todo = Tail(@)])
    /\ UNCHANGED <<project, source, newer, nodes, compare, settled>>

\* The references between diagrams come last, from the nodes found by then.
CrossRefer(t) ==
    /\ rebuild[t].at = "delete"
    /\ rebuild[t].todo = <<>>
    /\ edges' = edges \cup CrossReferences(rebuild[t].of)
    /\ Goes(t, Idle)
    /\ settled' = IF rebuild[t].alone /\ rebuild[t].of = project /\ settled < 2
                  THEN settled + 1 ELSE IF rebuild[t].alone THEN settled ELSE 0
    /\ UNCHANGED <<project, source, newer, nodes, compare>>

\* The process exits: threads and comparison stop where they are.
Exit ==
    /\ Running # {} \/ compare.at # "idle"
    /\ rebuild' = [t \in Threads |-> Idle]
    /\ compare' = NoCompare
    /\ settled' = IF Running = {} THEN settled ELSE 0
    /\ UNCHANGED <<project, source, newer, nodes, edges>>

-----------------------------------------------------------------------------
\* Somebody edits the sources: a new or changed file has a new time, a
\* deleted one has none.
EditSource(n) ==
    /\ source' = IF n \in source THEN source \ {n} ELSE source \cup {n}
    /\ newer' = (newer \/ n \notin source)
    /\ compare' = [compare EXCEPT !.alone = FALSE]
    /\ UNCHANGED <<project, nodes, edges, rebuild, settled>>

HasCode == \E n \in Classes : CodeNode(n) \in nodes
OutOfDate == ~HasCode \/ newer

\* The code layer is cleared and built again only when it looks out of date.
StartCompare(force) ==
    /\ compare.at = "idle"
    /\ compare' = [at |-> IF force \/ OutOfDate THEN "build" ELSE "report",
                   todo |-> source, alone |-> Running = {},
                   rebuilt |-> force \/ OutOfDate]
    /\ IF force \/ OutOfDate
       THEN Drop({x \in nodes : ~IsDesign(x)})
       ELSE UNCHANGED <<nodes, edges>>
    /\ UNCHANGED <<project, source, newer, rebuild, settled>>

\* One file: its node, and an edge to each design class it implements.
BuildFile(n) ==
    /\ compare.at = "build"
    /\ n \in compare.todo
    /\ compare' = [compare EXCEPT !.todo = @ \ {n}]
    /\ IF n \in source
       THEN /\ nodes' = nodes \cup {CodeNode(n)}
            /\ edges' = edges \cup {e \in {Implements(n)} : e[3] \in nodes}
            /\ newer' = FALSE
       ELSE UNCHANGED <<nodes, edges, newer>>
    /\ UNCHANGED <<project, source, rebuild, settled>>

Implemented == {n \in Classes : Implements(n) \in edges}

\* get_design_classes_without_implementation: no edge arrives at the class.
Missing == {n \in Classes \ Implemented : <<"class", n>> \in nodes}

\* The report is Missing, made from the graph as it stands.
Report ==
    /\ compare.at = "report" \/ (compare.at = "build" /\ compare.todo = {})
    /\ compare' = NoCompare
    /\ UNCHANGED <<project, source, newer, nodes, edges, rebuild, settled>>

Next ==
    \/ \E t \in Threads : (\E p \in Projects : Save(t, p)) \/ DropRemoved(t)
          \/ DeleteOld(t) \/ BuildDiagram(t) \/ BuildNodes(t) \/ BuildEdges(t)
          \/ CrossRefer(t)
    \/ Exit
    \/ \E n \in Coded : EditSource(n) \/ BuildFile(n)
    \/ \E force \in BOOLEAN : StartCompare(force)
    \/ Report

Spec == Init /\ [][Next]_graphVars

-----------------------------------------------------------------------------
NodeOf == {DiagramNode(d) : d \in Diagrams} \cup ({"class", "lifeline", "code"} \X Classes)
          \cup ({"fragment"} \X Fragments)

TypeOK ==
    /\ project \in Projects \cup {<<>>}
    /\ source \subseteq Coded /\ newer \in BOOLEAN
    /\ nodes \subseteq NodeOf
    /\ edges \subseteq NodeOf \X {"contains", "fragments", "references", "implements"} \X NodeOf
    /\ \A t \in Threads : rebuild[t] \in
          [at : {"idle", "drop", "delete", "diagram", "nodes", "edges"}, of : Projects \cup {<<>>},
           todo : Seq(Diagrams), alone : BOOLEAN]
    /\ compare \in [at : {"idle", "build", "report"}, todo : SUBSET Coded,
                    alone : BOOLEAN, rebuilt : BOOLEAN]
    /\ settled \in 0..2

\* Whatever overlapping or interrupted rebuilds left behind, two further
\* rebuilds of the project as saved, each run alone, bring back everything it
\* shows.  One is not enough: it may delete what an earlier diagram of the
\* same rebuild added.
SettledHoldsAll ==
    Running = {} /\ settled >= 2 => NodesOf(project) \subseteq nodes

\* By then no deleted diagram is left and none contains a class or lifeline
\* it no longer shows: a removal is not lost to an older rebuild.  It says
\* nothing of fragments, which stay once they were built, their diagram's
\* edge included while the diagram is there, nor of elements an interrupted
\* rebuild left without an edge.
SettledShowsNoMore ==
    Running = {} /\ settled >= 2 =>
        /\ {d \in Diagrams : DiagramNode(d) \in nodes} \subseteq DOMAIN project
        /\ {e \in edges : e[2] = "contains" /\ e[1] \in nodes} \subseteq ShownIn(project)

\* Rebuilding a class diagram deletes the references to its classes; after a
\* rebuild that ran alone each lifeline refers to its class again.
ReferencesFollow ==
    Running = {} /\ settled >= 1 =>
        \A n \in Classes :
            /\ <<"class", n>> \in nodes
            /\ \E d \in DOMAIN project \cap SequenceDiagrams : n \in project[d]
            => References(n) \in edges

ReportsTruth ==
    Report /\ compare.alone /\ compare.rebuilt =>
        Missing = {n \in Classes \ source : <<"class", n>> \in nodes}

\* A comparison that rebuilt the code layer while nothing else happened names
\* exactly the design classes no file implements, whatever was left of files
\* deleted before.
ReportIsTrue == [][ReportsTruth]_graphVars

=============================================================================
