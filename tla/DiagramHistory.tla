--------------------------- MODULE DiagramHistory ---------------------------
(* The undo history of the editor (stores/diagramHistory.ts and the actions *)
(* of stores/diagramStore.ts that use it).  The page keeps one pair of      *)
(* stacks, meant for the active diagram; a snapshot is the whole diagram.   *)
(* Edits of one element within the merge window share a snapshot, and while *)
(* a task of the agent runs all edits are to become one step: the page      *)
(* opens a batch when it sends a message and closes it when the task ends.  *)
(* A diagram is its name and its content.  The viewport, selections and     *)
(* what the forty kinds of edit do, which all go through pushSnapshot, are  *)
(* left out.                                                                 *)
EXTENDS Naturals, FiniteSets, Sequences, SequencesExt

CONSTANTS
    Names,      \* diagram names the project may hold
    Elements,   \* merge keys: the elements whose edits are merged
    Contents,   \* contents a diagram may have
    Empty,      \* that of a new diagram
    MaxHistory  \* maxHistorySteps

NoKey == "no key"
NoBatch == [name |-> "", content |-> Empty]

VARIABLES
    project,    \* the tabs: sequence of [name, content]
    active,     \* active_diagram_index
    undone,     \* undoStack
    redone,     \* redoStack
    lastKey,    \* lastMergeKey
    recent,     \* the operation lastKey is of is less than mergeWindowMs old
    batch,      \* batchSnapshot while isBatching
    busy,       \* the chat panel shows a task at work
    stepped,    \* ghost: after the last recorded edit the history was moved in
                \* or cleared, and lastMergeKey kept
    strayed     \* ghost: a batch was closed on another diagram than it was
                \* opened on, or was left open by a task that is gone

vars == <<project, active, undone, redone, lastKey, recent, batch, busy,
          stepped, strayed>>

Diagrams == [name: Names, content: Contents]

TypeOK ==
    /\ project \in Seq(Diagrams) /\ project # <<>>
    /\ active \in DOMAIN project
    /\ undone \in Seq(Diagrams) /\ Len(undone) <= MaxHistory
    /\ redone \in Seq(Diagrams)
    /\ lastKey \in Elements \cup {NoKey}
    /\ batch \in Diagrams \cup {NoBatch}
    /\ {recent, busy, stepped} \subseteq BOOLEAN
    /\ strayed \subseteq {"crossed", "lost"}

Init ==
    /\ \E n \in Names: project = <<[name |-> n, content |-> Empty]>>
    /\ active = 1
    /\ undone = <<>> /\ redone = <<>>
    /\ lastKey = NoKey /\ recent = FALSE
    /\ batch = NoBatch /\ busy = FALSE
    /\ stepped = FALSE /\ strayed = {}

Current == project[active]
Capped(stack) == IF Len(stack) > MaxHistory THEN Tail(stack) ELSE stack

\* The content of tab i becomes another one.
Rewrite(i) ==
    \E c \in Contents \ {project[i].content}:
        project' = [project EXCEPT ![i].content = c]

ClearHistory ==
    /\ undone' = <<>> /\ redone' = <<>>
    /\ stepped' = TRUE
    /\ strayed' = strayed \ {"crossed"}

Merges(key) == key # NoKey /\ lastKey = key /\ recent

\* A bug: every edit within the window continues the last one.
PushSnapshotMerged(key) ==
    IF batch # NoBatch \/ recent
    THEN UNCHANGED <<undone, redone, lastKey, recent, stepped>>
    ELSE /\ undone' = Capped(Append(undone, Current))
         /\ redone' = <<>>
         /\ lastKey' = key /\ recent' = (key # NoKey)
         /\ stepped' = FALSE

\* pushHistorySnapshot
PushSnapshot(key) ==
    IF batch # NoBatch
    THEN UNCHANGED <<undone, redone, lastKey, recent, stepped>>
    ELSE IF Merges(key)
    THEN recent' = TRUE /\ UNCHANGED <<undone, redone, lastKey, stepped>>
    ELSE /\ undone' = Capped(Append(undone, Current))
         /\ redone' = <<>>
         /\ lastKey' = key /\ recent' = (key # NoKey)
         /\ stepped' = FALSE

\* endHistoryBatch of a batch that was opened on `base', with the active
\* diagram as the step leaves it; neither changes the tab.
EndBatch(base) ==
    LET now == project'[active] IN
    /\ batch' = NoBatch
    /\ IF base = NoBatch
       THEN UNCHANGED <<undone, redone, lastKey, recent, stepped, strayed>>
       ELSE /\ lastKey' = NoKey /\ recent' = FALSE
            /\ IF base = now
               THEN UNCHANGED <<undone, redone, stepped>>
               ELSE /\ undone' = Capped(Append(undone, base))
                    /\ redone' = <<>> /\ stepped' = FALSE
            /\ strayed' = IF base.name = now.name THEN strayed \ {"lost"}
                          ELSE (strayed \ {"lost"}) \cup {"crossed"}

----------------------------------------------------------------------------
\* An operation of the store on the active diagram: add, remove, move,
\* update, align, lay out.  Each records the diagram before it.
Edit(key) ==
    /\ PushSnapshot(key)
    /\ Rewrite(active)
    /\ UNCHANGED <<active, batch, busy, strayed>>

\* The editors' paste and delete: a batch of their own around several edits.
\* beginBatch does nothing when a batch is open, so endBatch closes that one.
EditGroup ==
    /\ Rewrite(active)
    /\ UNCHANGED <<active, busy>>
    /\ EndBatch(IF batch = NoBatch THEN Current ELSE batch)

\* More than mergeWindowMs pass.
Pause ==
    /\ recent /\ recent' = FALSE
    /\ UNCHANGED <<project, active, undone, redone, lastKey, batch, busy, stepped,
                   strayed>>

Undo ==
    /\ undone # <<>>
    /\ project' = [project EXCEPT ![active] = Last(undone)]
    /\ undone' = Front(undone)
    /\ redone' = Append(redone, Current)
    /\ stepped' = TRUE
    /\ UNCHANGED <<active, lastKey, recent, batch, busy, strayed>>

Redo ==
    /\ redone # <<>>
    /\ project' = [project EXCEPT ![active] = Last(redone)]
    /\ redone' = Front(redone)
    /\ undone' = Append(undone, Current)
    /\ stepped' = TRUE
    /\ UNCHANGED <<active, lastKey, recent, batch, busy, strayed>>

\* setActiveDiagram: another tab is shown; the history starts anew.
SetActiveDiagram(i) ==
    /\ active' = i
    /\ ClearHistory
    /\ UNCHANGED <<project, lastKey, recent, batch, busy>>

\* Bound: no more tabs than names.
AddDiagram(name) ==
    /\ name \notin {project[i].name: i \in DOMAIN project}
    /\ Len(project) < Cardinality(Names)
    /\ project' = Append(project, [name |-> name, content |-> Empty])
    /\ active' = Len(project')
    /\ ClearHistory
    /\ UNCHANGED <<lastKey, recent, batch, busy>>

\* removeDiagram; a project without diagrams, which shows a placeholder that
\* cannot be edited, is left out.
RemoveDiagram(i) ==
    /\ Len(project) > 1
    /\ project' = RemoveAt(project, i)
    /\ active' = IF i > Len(project') THEN Len(project') ELSE i
    /\ ClearHistory
    /\ UNCHANGED <<lastKey, recent, batch, busy>>

\* setProject, newProject: a project is opened in place of this one.
SetProject ==
    /\ \E n \in Names: project' = <<[name |-> n, content |-> Empty]>>
    /\ active' = 1
    /\ ClearHistory
    /\ UNCHANGED <<lastKey, recent, batch, busy>>

\* processDesignUpdated: a proposal is put on the canvas and the first
\* diagram it changes is shown (addDiagramsFromSpec, setActiveDiagram).
ShowProposal(i) ==
    /\ busy
    /\ Rewrite(i)
    /\ active' = i
    /\ ClearHistory
    /\ UNCHANGED <<lastKey, recent, batch, busy>>

\* setDiagram and applyProjectUpdate: a version of the comparison is shown,
\* the originals are restored.  Neither touches the history.
Overwrite(i) ==
    /\ Rewrite(i)
    /\ UNCHANGED <<active, undone, redone, lastKey, recent, batch, busy, stepped, strayed>>

\* handleSend, handleMessageAction: the task's edits are to be one step.
Send ==
    /\ ~busy /\ busy' = TRUE
    /\ batch' = IF batch = NoBatch THEN Current ELSE batch
    /\ UNCHANGED <<project, active, undone, redone, lastKey, recent, stepped, strayed>>

\* done, stopped, error or review_expired arrives.
TaskEnds ==
    /\ busy' = FALSE
    /\ UNCHANGED <<project, active>>
    /\ EndBatch(batch)

\* session_sync says that nothing runs: the server forgot the task.
TaskIsGone ==
    /\ busy /\ busy' = FALSE
    /\ strayed' = IF batch = NoBatch THEN strayed ELSE strayed \cup {"lost"}
    /\ UNCHANGED <<project, active, undone, redone, lastKey, recent, batch, stepped>>

Next ==
    \/ \E key \in Elements \cup {NoKey}: Edit(key)
    \/ EditGroup \/ Pause \/ Undo \/ Redo \/ SetProject
    \/ \E i \in DOMAIN project:
        SetActiveDiagram(i) \/ RemoveDiagram(i) \/ ShowProposal(i) \/ Overwrite(i)
    \/ \E name \in Names: AddDiagram(name)
    \/ Send \/ TaskEnds \/ TaskIsGone

Spec == Init /\ [][Next]_vars

----------------------------------------------------------------------------
(* The stacks hold versions of the diagram on the screen ("History (per     *)
(* active diagram)"), through switches of the tab, proposals and projects,  *)
(* except after a batch was closed while another diagram was shown than     *)
(* the one it was opened on: endBatch compares the two.                      *)
HistoryIsOfTheDiagram ==
    "crossed" \notin strayed =>
        \A s \in Range(undone) \cup Range(redone): s.name = Current.name

(* An edit the user makes while no task runs can be undone: what undo would *)
(* show next is the diagram before it, or before the edits of the same      *)
(* element it continues, and nothing is left to redo.  Two exceptions: a    *)
(* task that vanished left its batch open; and neither an undo nor a switch *)
(* ends the merging, so an edit of the same element right after one is      *)
(* recorded nowhere.                                                         *)
EditsCanBeUndone ==
    \A key \in Elements \cup {NoKey}:
        Edit(key) /\ ~busy /\ "lost" \notin strayed /\ ~(Merges(key) /\ stepped) =>
            /\ redone' = <<>> /\ undone' # <<>>
            /\ IF Merges(key) THEN undone' = undone ELSE Last(undone') = Current

=============================================================================
