-------------------------- MODULE DiagramElements --------------------------
(* What refers to what in the diagram on the canvas: relations to classes,  *)
(* messages to lifelines and to the message they answer, fragments to       *)
(* messages, lifelines and the fragment around them, components to the      *)
(* component they are in.  The operations are those of                      *)
(* stores/diagramStore.ts as the editors call them, with the selection, the *)
(* open context menu and the clipboard, which outlive undo and redo and may *)
(* name what is gone.  Nodes are classes, lifelines or components, links    *)
(* relations or messages, frames the fragments; positions, texts, the order *)
(* of messages, and the merging of snapshots (DiagramHistory) are left out.  *)
EXTENDS Naturals, FiniteSets, Sequences, SequencesExt

CONSTANTS
    Nodes, Frames,  \* ids; a new one is never in use anywhere
    Links,      \* those of each kind of diagram
    Opened,     \* diagrams of each kind a project is opened with
    MaxHistory  \* bound: snapshots kept

Kinds == {"class", "sequence", "component"}
None == "none"
\* What an element refers to that was gone when the reference was made: ids do
\* not come back to later versions of the diagram.
Gone == "gone"

VARIABLES
    kind,       \* which editor shows the diagram
    diagram,    \* [nodes, parent, links, frames]
    undone, redone,     \* the history, without the other diagrams
    node,       \* selectedClassId, selectedLifelineId or selectedComponentId
    link,       \* selectedRelationId, selectedMessageId, selectedCompRelationId
    menu,       \* the lifeline whose context menu is open
    clipboard   \* what was copied, as a diagram

vars == <<kind, diagram, undone, redone, node, link, menu, clipboard>>

Empty == [nodes |-> {}, parent |-> <<>>, links |-> {}, frames |-> {}]

LinkRecords ==
    [id: Links[kind], from: Nodes \cup {Gone}, to: Nodes \cup {Gone},
     reply: Links[kind] \cup {None}]
FrameRecords ==
    [id: Frames, within: Frames \cup {None}, members: SUBSET Links[kind], covers: SUBSET Nodes]

WellTyped(d) ==
    /\ d.nodes \subseteq Nodes /\ DOMAIN d.parent = d.nodes
    /\ \A n \in d.nodes: d.parent[n] \in Nodes \cup {None, Gone}
    /\ d.links \subseteq LinkRecords /\ d.frames \subseteq FrameRecords

TypeOK ==
    /\ kind \in Kinds
    /\ \A d \in {diagram, clipboard} \cup Range(undone) \cup Range(redone): WellTyped(d)
    /\ node \in Nodes \cup {None} /\ link \in Links[kind] \cup {None}
    /\ menu \in Nodes \cup {None}

Init ==
    /\ kind \in Kinds
    /\ diagram \in Opened[kind]
    /\ undone = <<>> /\ redone = <<>>
    /\ node = None /\ link = None /\ menu = None
    /\ clipboard = Empty

Ids(records) == {r.id: r \in records}
Shown(n) == n \in diagram.nodes

InUse ==
    LET all == {diagram} \cup Range(undone) \cup Range(redone) IN
    UNION {d.nodes \cup Ids(d.links) \cup {l.reply: l \in d.links} \cup Ids(d.frames):
            d \in all}
        \cup {node, link, menu}
\* Which of the unused ids is taken makes no difference.
New(ids) == LET free == ids \ InUse IN IF free = {} THEN {} ELSE {CHOOSE id \in free: TRUE}
NewFor(records, ids) ==
    LET maps == {f \in [records -> ids \ InUse]: IsInjective(f)} IN
    IF maps = {} THEN {} ELSE {CHOOSE f \in maps: TRUE}

\* The diagrams ds were shown one after the other before d.
Record(ds, d) ==
    /\ diagram' = d
    /\ undone' = LET all == undone \o ds IN
                 SubSeq(all, Len(all) - (IF Len(all) > MaxHistory THEN MaxHistory
                                         ELSE Len(all)) + 1, Len(all))
    /\ redone' = <<>>
Change(d) == Record(<<diagram>>, d)

AddTo(d, n, parent) ==
    [d EXCEPT !.nodes = @ \cup {n},
              !.parent = [m \in d.nodes \cup {n} |-> IF m = n THEN parent ELSE d.parent[m]]]
LinkUp(d, l, from, to) ==
    [d EXCEPT !.links = @ \cup {[id |-> l, from |-> from, to |-> to, reply |-> None]}]
RefTo(n) == IF n \in diagram.nodes \cup {None} THEN n ELSE Gone

Drop(d, gone) ==
    LET left == d.nodes \ gone IN
    [d EXCEPT !.nodes = left, !.parent = [n \in left |-> d.parent[n]],
              !.links = {l \in @: l.from \notin gone /\ l.to \notin gone}]

\* A bug: of the references of fragments only the messages are pruned.
PrunedOfLinks(d) ==
    [d EXCEPT !.frames = {[f EXCEPT !.members = @ \cap Ids(d.links)]: f \in @}]
\* pruneFragmentReferences
Pruned(d) ==
    [d EXCEPT !.frames = {[f EXCEPT !.members = @ \cap Ids(d.links),
                                    !.covers = @ \cap d.nodes]: f \in @}]

\* The ids below those of `roots', which themselves need not be there.
Under(up, roots) ==
    LET grown[k \in 0..Cardinality(DOMAIN up)] ==
            IF k = 0 THEN roots
            ELSE grown[k - 1] \cup {n \in DOMAIN up: up[n] # None /\ up[n] \in grown[k - 1]}
    IN grown[Cardinality(DOMAIN up)]

----------------------------------------------------------------------------
\* addClass, addLifeline: the new one is selected.
Add ==
    /\ kind # "component"
    /\ \E n \in New(Nodes):
        /\ Change(AddTo(diagram, n, None))
        /\ node' = n
    /\ link' = (IF kind = "class" THEN None ELSE link)
    /\ UNCHANGED <<kind, menu, clipboard>>

\* handleAddComponent: a child of the selected component.
AddComponent ==
    /\ kind = "component"
    /\ \E n \in New(Nodes):
        /\ Change(AddTo(diagram, n, RefTo(node)))
        /\ node' = n
    /\ UNCHANGED <<kind, link, menu, clipboard>>

RemovedClass(d, n) == Drop(d, {n})
RemovedLifeline(d, n) == Pruned(Drop(d, {n}))
RemovedComponent(d, n) == Drop(d, Under(d.parent, {n}))
Removed(d, n) ==
    CASE kind = "class" -> RemovedClass(d, n)
      [] kind = "sequence" -> RemovedLifeline(d, n)
      [] OTHER -> RemovedComponent(d, n)

\* removeRelation, removeMessage, removeCompRelation
RemovedLink(d, l) ==
    LET left == [d EXCEPT !.links = {k \in @: k.id # l}] IN
    IF kind = "sequence" THEN Pruned(left) ELSE left

RemovedFrame(d, f) ==
    LET within == [id \in Ids(d.frames) |-> (CHOOSE g \in d.frames: g.id = id).within] IN
    [d EXCEPT !.frames = {g \in @: g.id \notin Under(within, {f})}]

\* The panel's delete buttons, which act on what is selected and there.
DeleteSelected ==
    /\ \/ Shown(node) /\ Change(Removed(diagram, node))
       \/ link \in Ids(diagram.links) /\ Change(RemovedLink(diagram, link))
    /\ node' = (IF node \in diagram'.nodes THEN node ELSE None)
    /\ link' = (IF link \in Ids(diagram'.links) THEN link ELSE None)
    /\ UNCHANGED <<kind, menu, clipboard>>

\* The Delete key of the class and component editors: what is selected on the
\* canvas, or else in the store.  Only the component editor makes it one step.
DeletePicked(ns, ls) ==
    /\ kind # "sequence" /\ ns \cup ls # {}
    /\ LET nseq == SetToSeq(ns)
           lseq == SetToSeq(ls)
           part[i \in 0..Len(nseq) + Len(lseq)] ==
               IF i = 0 THEN diagram
               ELSE IF i <= Len(nseq) THEN Removed(part[i - 1], nseq[i])
               ELSE RemovedLink(part[i - 1], lseq[i - Len(nseq)])
           last == Len(nseq) + Len(lseq)
       IN IF kind = "class" THEN Record([i \in 1..last |-> part[i - 1]], part[last])
          ELSE IF part[last] = diagram THEN UNCHANGED <<diagram, undone, redone>>
          ELSE Change(part[last])
    /\ node' = None /\ link' = None
    /\ UNCHANGED <<kind, menu, clipboard>>

\* The Delete key of the sequence editor: a frame, else a message, else a
\* lifeline.
DeleteInSequence(frame) ==
    /\ kind = "sequence"
    /\ LET d == IF frame # None THEN RemovedFrame(diagram, frame)
                ELSE IF link # None THEN RemovedLink(diagram, link)
                ELSE RemovedLifeline(diagram, node)
       IN IF d = diagram THEN UNCHANGED <<diagram, undone, redone>> ELSE Change(d)
    /\ node' = None /\ link' = None
    /\ UNCHANGED <<kind, menu, clipboard>>

----------------------------------------------------------------------------
Select(n) ==
    /\ Shown(n) /\ node' = n
    /\ kind = "sequence" => node \in {None, n}
    /\ link' = None
    /\ UNCHANGED <<kind, diagram, undone, redone, menu, clipboard>>

SelectLink(l) ==
    /\ l \in Ids(diagram.links) /\ link' = l /\ node' = None
    /\ UNCHANGED <<kind, diagram, undone, redone, menu, clipboard>>

Deselect ==
    /\ node' = None /\ link' = None
    /\ UNCHANGED <<kind, diagram, undone, redone, menu, clipboard>>

\* onNewEdge: two different nodes on the canvas are connected.
Connect(from, to) ==
    /\ kind # "sequence" /\ from # to
    /\ \E l \in New(Links[kind]):
        /\ Change(LinkUp(diagram, l, from, to))
        /\ link' = l
    /\ node' = (IF kind = "class" THEN None ELSE node)
    /\ UNCHANGED <<kind, menu, clipboard>>

\* onEdgeEndpointChanged
Reconnect(l, from, to) ==
    /\ kind # "sequence" /\ from # to
    /\ Change([diagram EXCEPT !.links =
                  {IF k.id = l THEN [k EXCEPT !.from = from, !.to = to] ELSE k: k \in @}])
    /\ UNCHANGED <<kind, node, link, menu, clipboard>>

AddMessage(from, to) ==
    \E l \in New(Links[kind]):
        /\ Change(LinkUp(diagram, l, RefTo(from), RefTo(to)))
        /\ link' = l /\ node' = None

\* A click on a lifeline while another one is selected.
DrawMessage(to) ==
    /\ kind = "sequence" /\ node \notin {None, to}
    /\ AddMessage(node, to)
    /\ UNCHANGED <<kind, menu, clipboard>>

\* The entries of a frame's menu only restack it.
OpenMenu(n) ==
    /\ kind = "sequence" /\ menu' = n
    /\ UNCHANGED <<kind, diagram, undone, redone, node, link, clipboard>>

\* The menu's entry for a lifeline, and any click that closes the menu.
MenuSelfMessage ==
    /\ menu # None /\ menu' = None
    /\ AddMessage(menu, menu)
    /\ UNCHANGED <<kind, clipboard>>

CloseMenu ==
    /\ menu # None /\ menu' = None
    /\ UNCHANGED <<kind, diagram, undone, redone, node, link, clipboard>>

\* handleAddFragment: editors make frames without members.
AddFragment ==
    /\ kind = "sequence"
    /\ \E f \in New(Frames):
        Change([diagram EXCEPT !.frames = @ \cup
            {[id |-> f, within |-> None, members |-> {}, covers |-> {}]}])
    /\ UNCHANGED <<kind, node, link, menu, clipboard>>

----------------------------------------------------------------------------
\* A component is copied with what is in it.  Classes and lifelines are copied
\* alone, and pasting one adds one.
Copy ==
    /\ kind = "component" /\ Shown(node)
    /\ LET all == Under(diagram.parent, {node}) IN
       clipboard' =
        [nodes |-> all, parent |-> [n \in all |-> diagram.parent[n]],
         links |-> {l \in diagram.links: l.from \in all /\ l.to \in all},
         frames |-> {}]
    /\ UNCHANGED <<kind, diagram, undone, redone, node, link, menu>>

\* One step of the history; what was copied out of a parent becomes a root.
Paste ==
    /\ clipboard.nodes # {}
    /\ \E f \in NewFor(clipboard.nodes, Nodes), g \in NewFor(clipboard.links, Links[kind]):
        /\ LET made == Range(f)
               old(n) == CHOOSE m \in clipboard.nodes: f[m] = n
               up(n) == clipboard.parent[old(n)]
           IN Change(
               [diagram EXCEPT
                   !.nodes = @ \cup made,
                   !.parent = [n \in diagram.nodes \cup made |->
                       IF n \in diagram.nodes THEN diagram.parent[n]
                       ELSE IF up(n) \in clipboard.nodes THEN f[up(n)] ELSE None],
                   !.links = @ \cup {[l EXCEPT !.id = g[l], !.from = f[l.from], !.to = f[l.to]]:
                                        l \in clipboard.links}])
        /\ node' \in Range(f)
        /\ link' = (IF clipboard.links = {} THEN link ELSE CHOOSE l \in Range(g): TRUE)
    /\ UNCHANGED <<kind, menu, clipboard>>

Undo ==
    /\ undone # <<>>
    /\ diagram' = Last(undone) /\ undone' = Front(undone)
    /\ redone' = Append(redone, diagram)
    /\ UNCHANGED <<kind, node, link, menu, clipboard>>

Redo ==
    /\ redone # <<>>
    /\ diagram' = Last(redone) /\ redone' = Front(redone)
    /\ undone' = Append(undone, diagram)
    /\ UNCHANGED <<kind, node, link, menu, clipboard>>

\* setProject, addDiagramsFromSpec: another diagram of this kind is shown, and
\* of the selection only classes and relations are let go of, by the latter.
Replace(d) ==
    /\ diagram' = d /\ undone' = <<>> /\ redone' = <<>>
    /\ UNCHANGED <<kind, menu, clipboard>>
    /\ \/ UNCHANGED <<node, link>>
       \/ node' = None /\ link' = None
       \/ kind # "class" /\ UNCHANGED node /\ link' = link

Next ==
    \/ Add \/ AddComponent \/ DeleteSelected \/ Deselect \/ MenuSelfMessage \/ CloseMenu
    \/ AddFragment \/ Copy \/ Paste \/ Undo \/ Redo
    \/ \E ns \in SUBSET (diagram.nodes \cup ({node} \ {None})),
          ls \in SUBSET (Ids(diagram.links) \cup ({link} \ {None})): DeletePicked(ns, ls)
    \/ \E f \in Ids(diagram.frames) \cup {None}: DeleteInSequence(f)
    \/ \E n \in diagram.nodes: Select(n) \/ DrawMessage(n) \/ OpenMenu(n)
    \/ \E l \in Ids(diagram.links): SelectLink(l)
    \/ \E m, n \in diagram.nodes:
        Connect(m, n) \/ \E l \in Ids(diagram.links): Reconnect(l, m, n)
    \/ \E d \in Opened[kind]: Replace(d)

Spec == Init /\ [][Next]_vars

----------------------------------------------------------------------------
(* A relation or message ends in elements of the diagram and a component is *)
(* in one of them, after every mixture of removals, undo, redo, copies and  *)
(* replaced diagrams: no removal leaves an end behind.  What is drawn from  *)
(* a selection or a menu that outlived its element is born without that end *)
(* (Gone), and no editor looks at it again.  Of the message that a message  *)
(* answers nothing is claimed: a removal leaves its id in the answer        *)
(* (diagramStore.ts:773-788, 839-852).                                       *)
EndsAreThere ==
    \A d \in {diagram} \cup Range(undone) \cup Range(redone):
        /\ \A l \in d.links: {l.from, l.to} \subseteq d.nodes \cup {Gone}
        /\ \A n \in d.nodes: d.parent[n] \in d.nodes \cup {None, Gone}

(* A fragment names messages, lifelines and fragments of its own diagram    *)
(* whatever was deleted, and no component is inside itself.                  *)
FramesAreWhole ==
    \A d \in {diagram} \cup Range(undone) \cup Range(redone):
        /\ \A f \in d.frames:
            /\ f.members \subseteq Ids(d.links) /\ f.covers \subseteq d.nodes
            /\ f.within \in Ids(d.frames) \cup {None}
        /\ \A n \in d.nodes: n \notin Under(d.parent, {m \in d.nodes: d.parent[m] = n})

=============================================================================
