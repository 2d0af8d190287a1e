--------------------------- MODULE DesignContract ---------------------------
(***************************************************************************)
(* The design contract extension: the gate that judges a change before it  *)
(* is committed (extensions/design_contract gate.py, contract_harness.py), *)
(* and the projection of the accepted facts into the knowledge graph after *)
(* it (contract_pipeline.py, knowledge_graph/builder.py sync_facts), with  *)
(* the manifest of artifacts that says what has been projected.            *)
(*                                                                         *)
(* Facts are collected twice, before the decision and after the commit;    *)
(* artifacts are parsed first and fingerprinted afterwards, and people     *)
(* edit them all the while.  An artifact is its set of class names, or it  *)
(* does not parse, or it is not there.  Methods, tests, mappings by the    *)
(* graph, and the UML rules are the rest the gate may find, good or bad.   *)
(***************************************************************************)
EXTENDS Naturals, Sequences

CONSTANTS
    Names,
    Sources,      \* the source files; "design" is the project file
    Contents,     \* what each artifact may hold
    Changes,      \* what a run may have changed: sets of artifacts
    Order         \* the artifacts in the order they are projected

Artifacts == {"design"} \cup Sources

\* Contents are records [is, names]: "ready", "broken" or "absent".
Nothing == [is |-> "absent", names |-> {}]

VARIABLES
    disk,          \* the artifacts as they are
    gate,          \* the run's check and what it has read
    manifest,      \* kg_artifacts
    nodes,         \* nodes of the facts projection: layer, name, artifact tagged
    sync,          \* the projection in progress
    unprojected,   \* artifacts recorded at a content that was not projected
    interrupted    \* a projection has stopped half way and no full one followed

contractVars == <<disk, gate, manifest, nodes, sync, unprojected, interrupted>>

-----------------------------------------------------------------------------
Unread == [a \in Artifacts |-> Nothing]
NoGate == [at |-> "idle", changed |-> {}, read |-> Unread, verdict |-> "", page |-> FALSE,
           sent |-> FALSE, answer |-> ""]
NoSync == [at |-> "idle", read |-> Unread, prints |-> Unread, gone |-> {}, again |-> FALSE, todo |-> <<>>]

Init ==
    /\ disk \in [Artifacts -> UNION {Contents[a] : a \in Artifacts}]
    /\ \A a \in Artifacts : disk[a] \in Contents[a]
    /\ gate = NoGate
    /\ manifest = Unread
    /\ nodes = {}
    /\ sync = NoSync
    /\ unprojected = {}
    /\ interrupted = FALSE

\* People edit, and so does the run until it is checked.
Edit(a, content) ==
    /\ content \in Contents[a] \ {disk[a]}
    /\ disk' = [disk EXCEPT ![a] = content]
    /\ UNCHANGED <<gate, manifest, nodes, sync, unprojected, interrupted>>

-----------------------------------------------------------------------------
(* The gate. *)

\* A run comes to its end having changed some artifacts.
StartCheck(changed) ==
    /\ gate.at = "idle" /\ sync.at = "idle"
    /\ gate' = [NoGate EXCEPT !.at = "design", !.changed = changed]
    /\ UNCHANGED <<disk, manifest, nodes, sync, unprojected, interrupted>>

\* The project file is parsed first, then the sources.
ReadDesign ==
    /\ gate.at = "design"
    /\ gate' = [gate EXCEPT !.at = "sources", !.read["design"] = disk["design"]]
    /\ UNCHANGED <<disk, manifest, nodes, sync, unprojected, interrupted>>

SourceNames(read) == UNION {read[s].names : s \in Sources}

\* A missing project file is an error; a missing source is just not listed.
Unparsed(read) == {s \in Sources : read[s].is = "broken"}
                  \cup {a \in {"design"} : read[a].is # "ready"}

\* Implementation is only compared when a source changed and both sides have
\* classes.  A parse error blocks in an artifact the run changed.
Unimplemented(read, changed) ==
    IF changed \cap Sources # {} /\ SourceNames(read) # {}
    THEN read["design"].names \ SourceNames(read) ELSE {}
Blocks(read, changed) ==
    Unimplemented(read, changed) # {} \/ Unparsed(read) \cap changed # {}

Verdict(read, changed, rest) ==
    CASE Blocks(read, changed) \/ rest = "error" -> "block"
      [] OTHER -> IF rest = "warning" \/ Unparsed(read) # {} THEN "warn" ELSE "pass"

\* What the rules left out find is any of: nothing, a warning, an error, or a
\* failure to collect.
Judge(rest) ==
    /\ gate.at = "sources"
    /\ LET read == [a \in Artifacts |-> IF a \in Sources THEN disk[a] ELSE gate.read[a]] IN
       gate' = [gate EXCEPT !.at = "judged", !.read = read,
                            !.verdict = IF rest = "failure" THEN "inconclusive"
                                        ELSE Verdict(read, gate.changed, rest)]
    /\ UNCHANGED <<disk, manifest, nodes, sync, unprojected, interrupted>>

Refuse == gate' = NoGate
Allowed == [gate EXCEPT !.at = "allowed"]

\* The verdict goes to the page first; a verdict nobody received refuses.
\* Warnings are put to the page, if it is one that can review them, and
\* observed otherwise.
Decide(delivered, page) ==
    /\ gate.at = "judged"
    /\ CASE ~delivered \/ gate.verdict \in {"block", "inconclusive"} -> Refuse
         [] delivered /\ gate.verdict = "warn" /\ page ->
                gate' = [gate EXCEPT !.at = "review", !.sent = TRUE, !.page = page]
         [] OTHER -> gate' = [Allowed EXCEPT !.sent = delivered, !.page = page]
    /\ UNCHANGED <<disk, manifest, nodes, sync, unprojected, interrupted>>

\* Only "accept" accepts; another answer, nonsense and the timeout do not.
Answer(decision) ==
    /\ gate.at = "review"
    /\ IF decision = "accept" THEN gate' = [Allowed EXCEPT !.answer = decision] ELSE Refuse
    /\ UNCHANGED <<disk, manifest, nodes, sync, unprojected, interrupted>>

\* The change is committed; then the facts are collected again for the graph.
Commit ==
    /\ gate.at = "allowed"
    /\ gate' = NoGate
    /\ sync' = [NoSync EXCEPT !.at = "parse"]
    /\ UNCHANGED <<disk, manifest, nodes, unprojected, interrupted>>

-----------------------------------------------------------------------------
(* The projection. *)

Parse ==
    /\ sync.at = "parse"
    /\ sync' = [sync EXCEPT !.at = "print", !.read = disk]
    /\ UNCHANGED <<disk, gate, manifest, nodes, unprojected, interrupted>>

\* The status of an artifact is that of the parse, its fingerprint is taken
\* from the file as it is by then.
Fingerprints(read) == [a \in Artifacts |->
    IF a \in Sources /\ disk[a].is = "absent" THEN Nothing
    ELSE [disk[a] EXCEPT !.is = IF a \in Unparsed(read) THEN "broken" ELSE "ready"]]

Changed(prints) == {a \in Artifacts : prints[a].is = "ready" /\ prints[a] # manifest[a]}
Errors(prints) == \E a \in Artifacts : prints[a].is = "broken"

\* What is gone is removed; what changed is removed to be added again, unless
\* something did not parse.
Replaced(prints) ==
    IF Errors(prints) THEN {} ELSE Changed(prints)
Gone(prints) == {a \in Artifacts : manifest[a].is # "absent" /\ prints[a].is = "absent"}

\* Nothing is added when nothing was deleted, changed or ever recorded.
Again(prints, gone) ==
    ~Errors(prints) /\ (gone # {} \/ \A a \in Artifacts : manifest[a] = Nothing)

Fingerprint ==
    /\ sync.at = "print"
    /\ LET prints == Fingerprints(sync.read)
           gone == Gone(prints) \cup Replaced(prints) IN
       /\ sync' = [sync EXCEPT !.at = "remove", !.prints = prints, !.gone = gone,
              !.again = Again(prints, gone)]
       /\ unprojected' = IF Errors(prints) THEN unprojected
              ELSE unprojected \cup {a \in Artifacts : prints[a].names # sync.read[a].names}
    /\ UNCHANGED <<disk, gate, manifest, nodes, interrupted>>

\* One artifact: its nodes in one transaction, its row in the next.
\* A bug: what changed is only added to.
UntaggedIfDeleted(a) ==
    {n \in nodes : n.by # a \/ sync.prints[a].is # "absent"}
Untagged(a) == {n \in nodes : n.by # a}

RemoveNodes(a) ==
    /\ sync.at = "remove" /\ a \in sync.gone
    /\ nodes' = Untagged(a)
    /\ sync' = [sync EXCEPT !.at = "row", !.todo = <<a>>]
    /\ UNCHANGED <<disk, gate, manifest, unprojected, interrupted>>

RemoveRow ==
    /\ sync.at = "row"
    /\ manifest' = [manifest EXCEPT ![Head(sync.todo)] = Nothing]
    /\ sync' = [sync EXCEPT !.at = "remove", !.gone = @ \ {Head(sync.todo)}, !.todo = <<>>]
    /\ UNCHANGED <<disk, gate, nodes, unprojected, interrupted>>

Removed ==
    /\ sync.at = "remove" /\ sync.gone = {}
    /\ sync' = [sync EXCEPT !.at = "add",
                            !.todo = IF sync.again THEN Order ELSE <<>>]
    /\ UNCHANGED <<disk, gate, manifest, nodes, unprojected, interrupted>>

Layer(a) == IF a = "design" THEN "design" ELSE "code"
NodesFrom(a, read) == {[layer |-> Layer(a), name |-> n, by |-> a] : n \in read[a].names}

\* index_facts: a node that is there keeps its place and is tagged anew.
Tagged(a, read) ==
    {n \in nodes : ~(n.layer = Layer(a) /\ n.name \in read[a].names)} \cup NodesFrom(a, read)

Add ==
    /\ sync.at = "add" /\ sync.todo # <<>>
    /\ nodes' = Tagged(Head(sync.todo), sync.read)
    /\ sync' = [sync EXCEPT !.todo = Tail(@)]
    /\ UNCHANGED <<disk, gate, manifest, unprojected, interrupted>>

\* Every artifact's row is written, in whatever state the artifact was found.
Recorded(prints) == [a \in Artifacts |->
    IF prints[a].is = "absent" THEN manifest[a] ELSE prints[a]]

Record ==
    /\ sync.at = "add" /\ sync.todo = <<>>
    /\ manifest' = Recorded(sync.prints)
    /\ unprojected' =
          IF Errors(sync.prints) THEN unprojected \cup Changed(sync.prints)
          ELSE unprojected \ {a \in Changed(sync.prints) : sync.prints[a].names = sync.read[a].names}
    /\ interrupted' = (interrupted /\ ~sync.again)
    /\ sync' = NoSync
    /\ UNCHANGED <<disk, gate, nodes>>

\* The process stops; the check and the projection stop where they are.
Exit ==
    /\ gate.at # "idle" \/ sync.at # "idle"
    /\ gate' = NoGate
    /\ sync' = NoSync
    /\ interrupted' = (interrupted \/ sync.at \in {"remove", "row", "add"})
    /\ UNCHANGED <<disk, manifest, nodes, unprojected>>

Next ==
    \/ \E a \in Artifacts : (\E content \in Contents[a] : Edit(a, content)) \/ RemoveNodes(a)
    \/ \E changed \in Changes : StartCheck(changed)
    \/ ReadDesign
    \/ \E rest \in {"nothing", "warning", "error", "failure"} : Judge(rest)
    \/ \E delivered, page \in BOOLEAN : Decide(delivered, page)
    \/ \E decision \in {"accept", "reject", "timeout"} : Answer(decision)
    \/ Commit \/ Parse \/ Fingerprint \/ RemoveRow \/ Removed \/ Add \/ Record \/ Exit

Spec == Init /\ [][Next]_contractVars
-----------------------------------------------------------------------------
NodesOk == nodes \subseteq [layer : {"design", "code"}, name : Names, by : Artifacts]
Held == [is : {"ready", "broken", "absent"}, names : SUBSET Names]

TypeOK ==
    /\ \A a \in Artifacts : disk[a] \in Contents[a]
    /\ gate \in [at : {"idle", "design", "sources", "judged", "review", "allowed"},
                 changed : SUBSET Artifacts, read : [Artifacts -> Held],
                 verdict : {"", "block", "inconclusive", "warn", "pass"},
                 page : BOOLEAN, sent : BOOLEAN,
                 answer : {"", "accept", "reject", "timeout"}]
    /\ manifest \in [Artifacts -> Held]
    /\ NodesOk
    /\ sync.at \in {"idle", "parse", "print", "remove", "row", "add"}
    /\ sync.gone \subseteq Artifacts /\ unprojected \subseteq Artifacts

\* A change is allowed in only by a verdict that reached the page: with no
\* reservation, or with a warning the user accepted where there was somebody
\* to ask.  Nothing the run changed was broken and no design class without
\* implementation, as the check read them; that may be a design and sources
\* of two moments, and an artifact the run did not touch may be broken.
CommitIsEarned ==
    gate.at = "allowed" =>
        /\ gate.sent
        /\ gate.verdict \in {"pass", "warn"}
        /\ gate.verdict = "warn" /\ gate.page => gate.answer = "accept"
        /\ gate.verdict = "pass" => Unparsed(gate.read) = {}
        /\ Unparsed(gate.read) \cap gate.changed = {}
        /\ Unimplemented(gate.read, gate.changed) = {}

\* The manifest may say an artifact is up to date although the graph never
\* saw that content: its change was recorded under another one's parse error,
\* or it was edited between its parse and its fingerprint.  In no other way,
\* a projection that stopped at any point included, does a node outlive the
\* content it was made from.
NothingStale ==
    sync.at = "idle" =>
        \A a \in Artifacts \ unprojected :
            manifest[a].is = "ready" =>
                {n.name : n \in {m \in nodes : m.by = a}} \subseteq manifest[a].names

ProjectsAll ==
    Record /\ ~Errors(sync.prints) /\ ~interrupted' =>
        \A a \in Artifacts \ unprojected' : \A n \in manifest'[a].names :
            \E m \in nodes' : m.layer = Layer(a) /\ m.name = n

\* Names that several artifacts share are one node, and removing an artifact
\* removes it for the others; unless one was interrupted, the projection that
\* next finds no error has them all again.
ProjectionIsComplete == [][ProjectsAll]_contractVars

KeepsTheGraph ==
    sync.at = "remove" /\ nodes' # nodes /\ Errors(sync.prints) =>
        \A n \in nodes \ nodes' : sync.prints[n.by].is = "absent"

\* builder.py:276-277: a parse error keeps the previous projection, but for
\* artifacts that no longer exist.
ErrorsKeepTheGraph == [][KeepsTheGraph]_contractVars
=============================================================================
