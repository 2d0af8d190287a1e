--------------------------- MODULE ChangeSetProofs ---------------------------
(***************************************************************************)
(* Proofs about ChangeSet, for any sets of files, projects and edits.      *)
(* IInv is the inductive invariant.  Texts are told apart by the edits     *)
(* they contain, so it says above all where an edit can be that was not    *)
(* made yet, or that was made after the agent's last write.                *)
(***************************************************************************)
EXTENDS ChangeSet, TLAPS

\* No text anywhere contains an edit that was not made yet.
TextsAreMade ==
    /\ \A f \in Files : disk[f].body \cup newer[f] \subseteq used
    /\ \A p \in Projects : page[p].body \subseteq used
    /\ \A f \in DOMAIN before : before[f].body \subseteq used
    /\ \A f \in DOMAIN after : after[f].body \subseteq used
    /\ \A f \in DOMAIN candidate : candidate[f].before.body \cup candidate[f].after.body \subseteq used

\* A file that is missing has no text, and projects are not missing: neither on the
\* disk nor in what a rollback or an acceptance would put there.
Sound(f, file) == /\ ~ file.exists => file = Missing
                  /\ f \in Projects => file.exists
FilesAreSound ==
    /\ \A f \in Files : Sound(f, disk[f])
    /\ \A f \in DOMAIN before : Sound(f, before[f])
    /\ \A f \in DOMAIN candidate : Sound(f, candidate[f].before) /\ Sound(f, candidate[f].after)

\* While a run works, it is known of every file that nobody else wrote how the run
\* found it: the first snapshot has that text, or else the disk.
FirstIsKept ==
    /\ DOMAIN after \subseteq DOMAIN before
    /\ DOMAIN after \cap Projects \subseteq DOMAIN revisions
    /\ phase = "working" => \A f \in Files \ touched :
          /\ f \in DOMAIN before => Text(before[f]) = Text(start[f])
          /\ f \notin DOMAIN after => Text(disk[f]) = Text(start[f])

\* What the user wrote after the agent's last write is not in the agent's text, and
\* if there is any of it some is on the disk, so that the two texts differ.
NewerIsApart ==
    phase = "working" =>
        /\ \A f \in DOMAIN after : after[f].body \cap newer[f] = {}
        /\ \A f \in Files : newer[f] # {} => newer[f] \cap disk[f].body # {}

\* The candidate that waits is the proposal, and the files it does not name are as
\* proposed until the user writes them.
CandidateIsProposal ==
    phase = "waiting" =>
        /\ \A f \in DOMAIN candidate : /\ candidate[f].before.body \cap newer[f] = {}
                                       /\ candidate[f].after = proposed[f]
        /\ \A f \in Files \ DOMAIN candidate : newer[f] = {} => disk[f] = proposed[f]

IInv ==
    /\ TypeOK
    /\ TextsAreMade
    /\ FilesAreSound
    /\ FirstIsKept
    /\ NewerIsApart
    /\ CandidateIsProposal
    /\ RestoredWhileWaiting

-----------------------------------------------------------------------------
(* The operators. *)

\* No key has a value in None.
LEMMA NoneIsEmpty == DOMAIN None = {}
BY DEF None

\* Texts are equal when bodies and revisions are.
LEMMA TextFacts ==
    ASSUME NEW a, NEW b
    PROVE  /\ Text(a).body = a.body /\ Text(a).revision = a.revision
           /\ Text(a) = Text(b) <=> a.body = b.body /\ a.revision = b.revision
BY DEF Text

\* The constant files are files without text.
LEMMA BlankFiles ==
    /\ Missing \in File /\ Missing.exists = FALSE /\ Missing.body = {} /\ Missing.revision = 0
    /\ Empty \in File /\ Empty.exists = TRUE /\ Empty.body = {} /\ Empty.revision = 0
    /\ NewProject \in File /\ NewProject.exists = TRUE /\ NewProject.body = {}
BY DEF Missing, Empty, NewProject, File

LEMMA InitIInv == Init => IInv
<1> SUFFICES ASSUME Init PROVE IInv
  OBVIOUS
<1>1. disk \in [Files -> File] /\ \A f \in Files : disk[f].body = {} /\ Sound(f, disk[f])
  BY BlankFiles DEF Init, Sound
<1>2. TypeOK
  BY <1>1, BlankFiles, NoneIsEmpty, ProjectsAreFiles DEF Init, TypeOK, IsPartial
<1>3. TextsAreMade
  BY <1>1, BlankFiles, NoneIsEmpty DEF Init, TextsAreMade
<1>4. FilesAreSound /\ FirstIsKept
  BY <1>1, NoneIsEmpty DEF Init, FilesAreSound, FirstIsKept
<1>5. NewerIsApart /\ CandidateIsProposal /\ RestoredWhileWaiting
  BY DEF Init, NewerIsApart, CandidateIsProposal, RestoredWhileWaiting
<1> QED
  BY <1>2, <1>3, <1>4, <1>5 DEF IInv

-----------------------------------------------------------------------------
(* The user.                                                                *)

\* A write by the user, of whatever text, that contains the new edit.
LEMMA UserStep ==
    ASSUME IInv, NEW f \in Files, NEW e \in UserEdits \ used, NEW new \in File,
           new.exists, e \in new.body, new.body \subseteq used \cup {e},
           disk' = [disk EXCEPT ![f] = new],
           page' \in [Projects -> File],
           \A p \in Projects : page'[p].body \subseteq used \cup {e},
           committed' \in [Projects -> SUBSET Edits], mistaken' \subseteq Projects,
           UserWrote(f, e), UNCHANGED <<told, phase, tracked, candidate>>
    PROVE  IInv'
<1> USE DEF UserWrote, tracked, IInv
<1>1. /\ disk' \in [Files -> File] /\ disk'[f] = new
      /\ \A g \in Files : g # f => disk'[g] = disk[g]
  BY DEF TypeOK
<1>2. /\ newer' \in [Files -> SUBSET UserEdits] /\ newer'[f] = newer[f] \cup {e}
      /\ \A g \in Files : g # f => newer'[g] = newer[g]
  BY DEF TypeOK
<1>3. TypeOK'
  BY <1>1, <1>2 DEF TypeOK, Edits
<1>4. TextsAreMade'
  BY <1>1, <1>2 DEF TextsAreMade
<1>5. FilesAreSound'
  BY <1>1 DEF FilesAreSound, Sound
<1>6. FirstIsKept'
  BY <1>1 DEF FirstIsKept
<1>7. NewerIsApart'
  <2>1. \A g \in DOMAIN after : g \in Files /\ e \notin after[g].body
    BY DEF TypeOK, IsPartial, TextsAreMade
  <2>2. e \in newer'[f] \cap disk'[f].body
    BY <1>1, <1>2
  <2>3. ASSUME phase = "working", NEW g \in DOMAIN after PROVE after[g].body \cap newer'[g] = {}
    BY <1>2, <2>1, <2>3 DEF NewerIsApart
  <2>4. ASSUME phase = "working", NEW g \in Files, newer'[g] # {}
        PROVE  newer'[g] \cap disk'[g].body # {}
    BY <1>1, <1>2, <2>2, <2>4 DEF NewerIsApart
  <2> QED
    BY <2>3, <2>4 DEF NewerIsApart
<1>8. CandidateIsProposal'
  <2>1. \A g \in DOMAIN candidate : g \in Files /\ e \notin candidate[g].before.body
    BY DEF TypeOK, IsPartial, TextsAreMade
  <2>2. ASSUME phase = "waiting", NEW g \in DOMAIN candidate
        PROVE  candidate[g].before.body \cap newer'[g] = {} /\ candidate[g].after = proposed[g]
    BY <1>2, <2>1, <2>2 DEF CandidateIsProposal
  <2>3. ASSUME phase = "waiting", NEW g \in Files \ DOMAIN candidate, newer'[g] = {}
        PROVE  disk'[g] = proposed[g]
    BY <1>1, <1>2, <2>3 DEF CandidateIsProposal
  <2> QED
    BY <2>2, <2>3 DEF CandidateIsProposal
<1>9. RestoredWhileWaiting'
  BY <1>1 DEF RestoredWhileWaiting
<1> QED
  BY <1>3, <1>4, <1>5, <1>6, <1>7, <1>8, <1>9

LEMMA PageSavesStep ==
    ASSUME IInv, NEW p \in Projects, NEW e \in UserEdits \ used, PageSaves(p, e)
    PROVE  IInv'
<1> DEFINE new == [page[p] EXCEPT !.body = @ \cup {e}, !.revision = @ + 1]
<1>1. p \in Files /\ page[p] \in File /\ page[p].body \subseteq used /\ page[p].exists
  BY ProjectsAreFiles DEF IInv, TypeOK, TextsAreMade, PageSaves
<1>2. new \in File /\ new.exists = page[p].exists /\ new.body = page[p].body \cup {e}
  <2> DEFINE b == page[p].body \cup {e}
             r == page[p].revision + 1
  <2>1. b \in SUBSET Edits /\ r \in Nat /\ new = [page[p] EXCEPT !.body = b, !.revision = r]
    BY <1>1 DEF File, Edits
  <2> HIDE DEF b, r, new
  <2>2. new \in File /\ new.exists = page[p].exists /\ new.body = b
    BY <1>1, <2>1 DEF File
  <2> QED
    BY <2>2 DEF b
<1>3. disk' = [disk EXCEPT ![p] = new] /\ UserWrote(p, e)
      /\ UNCHANGED <<told, phase, tracked, candidate>>
  BY DEF PageSaves
<1> HIDE DEF new
<1>4. page' \in [Projects -> File] /\ \A q \in Projects : page'[q].body \subseteq used \cup {e}
  BY <1>1, <1>2, <1>3 DEF PageSaves, IInv, TypeOK, TextsAreMade
<1>5. committed' \in [Projects -> SUBSET Edits] /\ mistaken' \subseteq Projects
  BY DEF PageSaves, IInv, TypeOK
<1> QED
  BY <1>1, <1>2, <1>3, <1>4, <1>5, UserStep

LEMMA UserEditsFileStep ==
    ASSUME IInv, NEW f \in Files, NEW e \in UserEdits \ used, UserEditsFile(f, e)
    PROVE  IInv'
<1> DEFINE new == [disk[f] EXCEPT !.exists = TRUE, !.body = @ \cup {e}]
<1>1. disk[f] \in File /\ disk[f].body \subseteq used
  BY DEF IInv, TypeOK, TextsAreMade
<1>2. new \in File /\ new.exists /\ new.body = disk[f].body \cup {e}
  BY <1>1 DEF File, Edits
<1>3. disk' = [disk EXCEPT ![f] = new] /\ UserWrote(f, e)
      /\ UNCHANGED <<page, told, phase, tracked, candidate>>
  BY DEF UserEditsFile, IInv, TypeOK
<1> HIDE DEF new
<1>4. page' \in [Projects -> File] /\ \A q \in Projects : page'[q].body \subseteq used \cup {e}
  BY <1>3 DEF IInv, TypeOK, TextsAreMade
<1>5. committed' \in [Projects -> SUBSET Edits] /\ mistaken' \subseteq Projects
  BY DEF UserEditsFile, IInv, TypeOK
<1> QED
  BY <1>1, <1>2, <1>3, <1>4, <1>5, UserStep

\* The page's own copy and what it is told are in no other part of the invariant.
LEMMA PageStep ==
    ASSUME IInv, NEW p \in Projects, PageOpens(p) \/ PageHears(p)
    PROVE  IInv'
<1> USE DEF tracked, history
<1>1. p \in Files
  BY ProjectsAreFiles
<1>2. page' \in [Projects -> File] /\ \A q \in Projects : page'[q].body \subseteq used
  <2>1. CASE PageOpens(p)
    BY <1>1, <2>1 DEF PageOpens, IInv, TypeOK, TextsAreMade
  <2>2. CASE PageHears(p)
    <3> DEFINE r == IF Hears(p) THEN told[p] ELSE page[p].revision
    <3>1. r \in Nat /\ page' = [page EXCEPT ![p].revision = r]
      BY <2>2 DEF PageHears, IInv, TypeOK, File
    <3> HIDE DEF r
    <3> QED
      BY <3>1 DEF IInv, TypeOK, TextsAreMade, File
  <2> QED
    BY <2>1, <2>2
<1>3. told' \in [Projects -> Nat]
  BY DEF PageOpens, PageHears, IInv, TypeOK
<1>4. UNCHANGED <<disk, used, phase, before, after, revisions, candidate, start, proposed,
                  touched, newer, committed, answer>>
  BY DEF PageOpens, PageHears
<1>5. TypeOK'
  <2>1. mistaken' \subseteq Projects
    BY DEF PageOpens, PageHears, IInv, TypeOK
  <2> QED
    BY <1>2, <1>3, <1>4, <2>1 DEF IInv, TypeOK
<1>6. TextsAreMade'
  BY <1>2, <1>4 DEF IInv, TextsAreMade
<1>7. FilesAreSound' /\ FirstIsKept' /\ NewerIsApart'
  BY <1>4 DEF IInv, FilesAreSound, FirstIsKept, NewerIsApart
<1>8. CandidateIsProposal' /\ RestoredWhileWaiting'
  BY <1>4 DEF IInv, CandidateIsProposal, RestoredWhileWaiting
<1> QED
  BY <1>5, <1>6, <1>7, <1>8 DEF IInv

-----------------------------------------------------------------------------
(* The agent's run.                                                         *)

LEMMA BeginStep == ASSUME IInv, Begin PROVE IInv'
<1> USE DEF IInv, Begin
<1>1. /\ disk[ProjectFile].revision \in Nat
      /\ DOMAIN Put(None, ProjectFile, disk[ProjectFile].revision) = {ProjectFile}
      /\ Put(None, ProjectFile, disk[ProjectFile].revision)[ProjectFile] = disk[ProjectFile].revision
  BY NoneIsEmpty, ProjectsAreFiles DEF TypeOK, File, Put
<1>2. TypeOK'
  <2>1. DOMAIN revisions' = {ProjectFile} /\ revisions'[ProjectFile] \in Nat
    BY <1>1
  <2> QED
    BY <2>1, NoneIsEmpty, ProjectsAreFiles DEF TypeOK, IsPartial
<1>3. TextsAreMade' /\ FilesAreSound'
  BY NoneIsEmpty DEF TextsAreMade, FilesAreSound
<1>4. FirstIsKept' /\ NewerIsApart'
  BY NoneIsEmpty DEF FirstIsKept, NewerIsApart
<1>5. CandidateIsProposal' /\ RestoredWhileWaiting'
  BY DEF CandidateIsProposal, RestoredWhileWaiting
<1> QED
  BY <1>2, <1>3, <1>4, <1>5

\* A write by the agent, of whatever text, made of edits already counted as made.
LEMMA AgentStep ==
    ASSUME IInv, NEW f \in Files, NEW new \in File, Sound(f, new),
           used \subseteq used', used' \subseteq Edits, new.body \subseteq used',
           AgentWrites(f, new)
    PROVE  IInv'
<1> DEFINE old == disk[f]
           unchanged == IF before'[f].exists THEN Text(before'[f]) = Text(new)
                        ELSE Text(new) = Text(Missing)
<1> USE DEF IInv
<1>1. /\ disk' \in [Files -> File] /\ disk'[f] = new /\ old \in File
      /\ \A g \in Files : g # f => disk'[g] = disk[g]
  BY DEF AgentWrites, TypeOK
<1>2. /\ phase = "working" /\ phase' = "working"
      /\ UNCHANGED <<page, told, candidate, start, proposed, touched, committed, mistaken, answer>>
      /\ newer' = [newer EXCEPT ![f] = {}]
  BY DEF AgentWrites
<1>3. /\ DOMAIN before' = DOMAIN before \cup {f}
      /\ \A g \in DOMAIN before : before'[g] = before[g]
      /\ f \notin DOMAIN before => before'[f] = old
  <2>1. before' = PutNew(before, f, old)
    BY DEF AgentWrites, Record
  <2> QED
    BY <2>1 DEF PutNew, Put
<1>4. /\ DOMAIN revisions' \subseteq Projects
      /\ \A p \in DOMAIN revisions' : revisions'[p] \in Nat
      /\ DOMAIN revisions \subseteq DOMAIN revisions'
      /\ f \in Projects => f \in DOMAIN revisions'
  <2>1. revisions' = IF f \in Projects THEN PutNew(revisions, f, new.revision) ELSE revisions
    BY DEF AgentWrites, Record
  <2>2. new.revision \in Nat
    BY DEF File
  <2> QED
    BY <2>1, <2>2 DEF TypeOK, IsPartial, PutNew, Put
<1>5. /\ DOMAIN after' \subseteq DOMAIN before'
      /\ f \in DOMAIN after' => after'[f] = Text(new)
      /\ f \notin DOMAIN after' => unchanged
      /\ \A g \in DOMAIN after' : g # f => g \in DOMAIN after /\ after'[g] = after[g]
      /\ \A g \in DOMAIN after : g # f => g \in DOMAIN after'
  <2>1. after' = IF unchanged THEN Restrict(after, DOMAIN after \ {f}) ELSE Put(after, f, Text(new))
    BY DEF AgentWrites, Record
  <2>2. DOMAIN after \subseteq DOMAIN before
    BY DEF FirstIsKept
  <2> HIDE DEF unchanged, IInv
  <2>3. CASE unchanged
    BY <1>3, <2>1, <2>2, <2>3 DEF Restrict
  <2>4. CASE ~ unchanged
    BY <1>3, <2>1, <2>2, <2>4 DEF Put
  <2> QED
    BY <2>3, <2>4
<1>6. Text(new).body = new.body /\ new.body \subseteq Edits /\ old.body \subseteq used
  BY DEF Text, File, TextsAreMade
<1>7. Sound(f, old) /\ \A g \in DOMAIN before' : Sound(g, before'[g])
  BY <1>3 DEF FilesAreSound
<1> HIDE DEF unchanged
<1>8. TypeOK'
  <2>1. DOMAIN before' \subseteq Files /\ \A g \in DOMAIN before' : before'[g] \in File
    BY <1>1, <1>3 DEF TypeOK, IsPartial
  <2>2. DOMAIN after' \subseteq Files /\ \A g \in DOMAIN after' : after'[g].body \subseteq Edits
    BY <1>5, <1>6, <2>1 DEF TypeOK, IsPartial
  <2>3. newer' \in [Files -> SUBSET UserEdits]
    BY <1>2 DEF TypeOK
  <2> QED
    BY <1>1, <1>2, <1>4, <2>1, <2>2, <2>3 DEF TypeOK, IsPartial
<1>9. TextsAreMade'
  <2>1. \A g \in Files : disk'[g].body \cup newer'[g] \subseteq used'
    BY <1>1, <1>2 DEF TextsAreMade, TypeOK
  <2>2. \A g \in DOMAIN before' : before'[g].body \subseteq used'
    BY <1>3, <1>6 DEF TextsAreMade
  <2>3. \A g \in DOMAIN after' : after'[g].body \subseteq used'
    BY <1>5, <1>6 DEF TextsAreMade
  <2> QED
    BY <1>2, <2>1, <2>2, <2>3 DEF TextsAreMade
<1>10. FilesAreSound'
  BY <1>1, <1>2, <1>7 DEF FilesAreSound
<1>11. FirstIsKept'
  <2> SUFFICES ASSUME NEW g \in Files \ touched
               PROVE  /\ g \in DOMAIN before' => Text(before'[g]) = Text(start[g])
                      /\ g \notin DOMAIN after' => Text(disk'[g]) = Text(start[g])
    <3>1. DOMAIN after' \cap Projects \subseteq DOMAIN revisions'
      BY <1>4, <1>5 DEF FirstIsKept
    <3> QED
      BY <1>2, <1>5, <3>1 DEF FirstIsKept
  <2>1. CASE g # f
    BY <1>1, <1>2, <1>3, <1>5, <2>1 DEF FirstIsKept
  <2>2. CASE g = f
    <3>1. Text(before'[f]) = Text(start[f])
      BY <1>2, <1>3, <2>2 DEF FirstIsKept
    <3>2. unchanged => Text(new) = Text(before'[f])
      BY <1>3, <1>7 DEF unchanged, Sound
    <3> QED
      BY <1>1, <1>5, <2>2, <3>1, <3>2
  <2> QED
    BY <2>1, <2>2
<1>12. NewerIsApart'
  BY <1>1, <1>2, <1>5 DEF NewerIsApart, TypeOK
<1>13. CandidateIsProposal' /\ RestoredWhileWaiting'
  BY <1>2 DEF CandidateIsProposal, RestoredWhileWaiting
<1> QED
  BY <1>8, <1>9, <1>10, <1>11, <1>12, <1>13

LEMMA AgentActions ==
    ASSUME IInv, NEW f \in Files,
           \/ \E e \in AgentEdits \ used : AgentEditsFile(f, e) \/ AgentCreates(f, {e})
           \/ AgentCreates(f, {})
           \/ AgentDeletes(f)
    PROVE  IInv'
<1>1. disk[f] \in File /\ disk[f].body \subseteq used /\ used \subseteq Edits /\ Sound(f, disk[f])
  BY DEF IInv, TypeOK, TextsAreMade, FilesAreSound
<1>2. ASSUME NEW e \in AgentEdits \ used, AgentEditsFile(f, e) PROVE IInv'
  <2>1. PICK raise \in {0, 1} :
            AgentWrites(f, [disk[f] EXCEPT !.body = @ \cup {e}, !.revision = @ + raise])
    BY <1>2 DEF AgentEditsFile
  <2> DEFINE b == disk[f].body \cup {e}
             r == disk[f].revision + raise
             new == [disk[f] EXCEPT !.body = b, !.revision = r]
  <2>2. b \subseteq used \cup {e} /\ b \in SUBSET Edits /\ r \in Nat
    BY <1>1 DEF File, Edits
  <2>3. AgentWrites(f, new)
    BY <2>1
  <2>4. disk[f].exists /\ used' = used \cup {e}
    BY <1>2 DEF AgentEditsFile
  <2> HIDE DEF b, r
  <2>5. new \in File /\ new.exists = disk[f].exists /\ new.body = b
    BY <1>1, <2>2 DEF File
  <2> HIDE DEF new
  <2>6. Sound(f, new)
    BY <2>4, <2>5 DEF Sound
  <2> QED
    BY <1>1, <2>2, <2>3, <2>4, <2>5, <2>6, AgentStep DEF Edits
<1>3. ASSUME NEW body \in SUBSET (AgentEdits \ used), AgentCreates(f, body) PROVE IInv'
  <2> DEFINE new == [Empty EXCEPT !.body = body]
  <2>1. new \in File /\ new.exists = TRUE /\ new.body = body
    BY BlankFiles DEF File, Edits
  <2>2. AgentWrites(f, new) /\ used' = used \cup body
    BY <1>3 DEF AgentCreates
  <2> HIDE DEF new
  <2>3. Sound(f, new)
    BY <2>1 DEF Sound
  <2> QED
    BY <1>1, <2>1, <2>2, <2>3, AgentStep DEF Edits
<1>4. ASSUME AgentDeletes(f) PROVE IInv'
  <2>1. AgentWrites(f, Missing) /\ used' = used /\ f \notin Projects
    BY <1>4 DEF AgentDeletes
  <2>2. Sound(f, Missing)
    BY <2>1 DEF Sound
  <2> QED
    BY <1>1, <2>1, <2>2, BlankFiles, AgentStep
<1> QED
  BY <1>2, <1>3, <1>4

-----------------------------------------------------------------------------
(* How a run ends.                                                          *)

\* A rollback gives every file the text it has or the one first captured, and takes
\* away nothing the user wrote after the agent's last write.
LEMMA RollbackFacts ==
    ASSUME IInv, phase = "working"
    PROVE  /\ RolledBack \in [Files -> File]
           /\ \A f \in Files : /\ RolledBack[f].body \subseteq used
                               /\ Sound(f, RolledBack[f])
                               /\ newer[f] \cap disk[f].body \subseteq RolledBack[f].body
<1> USE DEF IInv
<1>1. SUFFICES ASSUME NEW f \in Files
               PROVE  /\ RolledBack[f] \in File
                      /\ RolledBack[f].body \subseteq used
                      /\ Sound(f, RolledBack[f])
                      /\ newer[f] \cap disk[f].body \subseteq RolledBack[f].body
  BY DEF RolledBack
<1>2. CASE f \in DOMAIN after /\ (disk[f].exists => Untouched(f))
  <2>1. RolledBack[f] = before[f] /\ f \in DOMAIN before
    BY <1>2 DEF RolledBack, FirstIsKept
  <2>2. before[f] \in File /\ before[f].body \subseteq used /\ Sound(f, before[f])
    BY <2>1 DEF TypeOK, TextsAreMade, FilesAreSound
  <2>3. newer[f] \cap disk[f].body = {}
    <3>1. CASE disk[f].exists
      BY <1>2, <3>1 DEF Untouched, Text, NewerIsApart
    <3>2. CASE ~ disk[f].exists
      BY <3>2, BlankFiles DEF FilesAreSound, Sound
    <3> QED
      BY <3>1, <3>2
  <2> QED
    BY <2>1, <2>2, <2>3
<1>3. CASE ~ (f \in DOMAIN after /\ (disk[f].exists => Untouched(f)))
  <2>1. RolledBack[f] = disk[f]
    BY <1>3 DEF RolledBack
  <2> QED
    BY <2>1 DEF TypeOK, TextsAreMade, FilesAreSound
<1> QED
  BY <1>2, <1>3

\* A step after which nothing runs and nothing waits.
LEMMA IdleStep ==
    ASSUME IInv, phase' = "idle", candidate' = None,
           disk' \in [Files -> File],
           \A f \in Files : disk'[f].body \subseteq used /\ Sound(f, disk'[f]),
           told' \in [Projects -> Nat], committed' \in [Projects -> SUBSET Edits],
           mistaken' \subseteq Projects, answer' \in {"none", "accepted", "rejected"},
           UNCHANGED <<page, used, tracked, start, proposed, touched, newer>>
    PROVE  IInv'
<1> USE DEF IInv, tracked
<1>1. TypeOK'
  BY NoneIsEmpty DEF TypeOK, IsPartial
<1>2. TextsAreMade'
  BY NoneIsEmpty DEF TextsAreMade
<1>3. FilesAreSound' /\ FirstIsKept'
  BY NoneIsEmpty DEF FilesAreSound, FirstIsKept
<1>4. NewerIsApart' /\ CandidateIsProposal' /\ RestoredWhileWaiting'
  BY DEF NewerIsApart, CandidateIsProposal, RestoredWhileWaiting
<1> QED
  BY <1>1, <1>2, <1>3, <1>4

\* Nothing waits while a run works.
LEMMA NoCandidate == ASSUME IInv, phase = "working" PROVE candidate = None
BY DEF IInv, TypeOK

LEMMA SuspendStep == ASSUME IInv, Suspend PROVE IInv'
<1> USE DEF IInv, Suspend, tracked
<1>1. RolledBack \in [Files -> File] /\ \A f \in Files : RolledBack[f].body \subseteq used
                                                    /\ Sound(f, RolledBack[f])
  BY RollbackFacts
<1>2. /\ DOMAIN candidate' = DOMAIN after
      /\ \A f \in DOMAIN after : candidate'[f].before = before[f] /\ candidate'[f].after = disk[f]
  BY DEF Captured
<1>3. DOMAIN after \subseteq DOMAIN before /\ DOMAIN after \subseteq Files
  BY DEF FirstIsKept, TypeOK, IsPartial
<1>4. \A f \in Files : disk'[f] = IF f \in DOMAIN after THEN before[f] ELSE disk[f]
  BY DEF RolledBack
<1>5. TypeOK'
  <2>1. /\ DOMAIN candidate' \subseteq Files
        /\ \A f \in DOMAIN candidate' : candidate'[f].before \in File /\ candidate'[f].after \in File
    BY <1>2, <1>3 DEF TypeOK
  <2> QED
    BY <1>1, <2>1 DEF TypeOK, IsPartial
<1>6. TextsAreMade'
  <2>1. \A f \in DOMAIN candidate' :
            candidate'[f].before.body \cup candidate'[f].after.body \subseteq used
    BY <1>2, <1>3 DEF TextsAreMade
  <2> QED
    BY <1>1, <2>1 DEF TextsAreMade
<1>7. FilesAreSound'
  <2>1. \A f \in DOMAIN candidate' : Sound(f, candidate'[f].before) /\ Sound(f, candidate'[f].after)
    BY <1>2, <1>3 DEF FilesAreSound
  <2> QED
    BY <1>1, <2>1 DEF FilesAreSound
<1>8. FirstIsKept' /\ NewerIsApart'
  BY DEF FirstIsKept, NewerIsApart
<1>9. CandidateIsProposal'
  <2>1. \A f \in Files : newer'[f] = {}
    OBVIOUS
  <2> QED
    BY <1>2, <1>3, <1>4, <2>1 DEF CandidateIsProposal
<1>10. RestoredWhileWaiting'
  BY <1>3, <1>4 DEF RestoredWhileWaiting, FirstIsKept
<1> QED
  BY <1>5, <1>6, <1>7, <1>8, <1>9, <1>10

LEMMA StopStep == ASSUME IInv, Stop \/ IsRejected PROVE IInv'
<1>1. /\ phase = "working" /\ phase' = "idle" /\ UNCHANGED <<page, told, used, tracked, candidate, history>>
      /\ disk' = disk \/ disk' = RolledBack
  BY DEF Stop, IsRejected
<1>2. disk' \in [Files -> File] /\ \A f \in Files : disk'[f].body \subseteq used /\ Sound(f, disk'[f])
  BY <1>1, RollbackFacts DEF IInv, TypeOK, TextsAreMade, FilesAreSound
<1>3. /\ told' \in [Projects -> Nat] /\ committed' \in [Projects -> SUBSET Edits]
      /\ mistaken' \subseteq Projects /\ answer' \in {"none", "accepted", "rejected"}
  BY <1>1 DEF history, IInv, TypeOK
<1> QED
  BY <1>1, <1>2, <1>3, NoCandidate, IdleStep DEF history

\* A file that is committed keeps its text and existence.
LEMMA CommittedFacts ==
    ASSUME NEW file \in File, NEW expected \in Nat
    PROVE  /\ CommittedTo(file, expected) \in File
           /\ CommittedTo(file, expected).body = file.body
           /\ CommittedTo(file, expected).exists = file.exists
BY DEF CommittedTo, File

\* What a commit writes, whatever it commits.
LEMMA NowCommittedType ==
    ASSUME IInv, NEW done \in SUBSET Projects, NowCommitted(done), disk' \in [Files -> File]
    PROVE  committed' \in [Projects -> SUBSET Edits] /\ mistaken' \subseteq Projects
<1>1. \A p \in Projects : disk'[p].body \in SUBSET Edits
  BY ProjectsAreFiles DEF File
<1> QED
  BY <1>1 DEF NowCommitted, IInv, TypeOK

LEMMA CommitStep == ASSUME IInv, Commit PROVE IInv'
<1> DEFINE mine == DOMAIN after \cap Projects
<1>1. PICK done \in SUBSET mine :
          /\ disk' = [f \in Files |-> IF f \in done THEN CommittedTo(disk[f], revisions[f])
                                      ELSE disk[f]]
          /\ NowCommitted(done)
  BY DEF Commit
<1>2. \A p \in mine : revisions[p] \in Nat /\ p \in Files
  BY ProjectsAreFiles DEF IInv, TypeOK, FirstIsKept
<1>3. \A f \in Files : /\ disk'[f] \in File /\ disk'[f].body = disk[f].body
                       /\ disk'[f].exists = disk[f].exists
                       /\ f \notin done => disk'[f] = disk[f]
  BY <1>1, <1>2, CommittedFacts DEF IInv, TypeOK
<1>4. disk' \in [Files -> File]
  BY <1>1, <1>3
<1>5. \A f \in Files : disk'[f].body \subseteq used /\ Sound(f, disk'[f])
  <2> TAKE f \in Files
  <2>1. disk'[f].body \subseteq used
    BY <1>3 DEF IInv, TextsAreMade
  <2>2. f \in done => disk[f].exists
    BY DEF IInv, FilesAreSound, Sound
  <2>3. Sound(f, disk[f])
    BY DEF IInv, FilesAreSound
  <2> QED
    BY <1>3, <2>1, <2>2, <2>3 DEF Sound
<1>6. told' \in [Projects -> Nat]
  BY <1>4, ProjectsAreFiles DEF Commit, IInv, TypeOK, File
<1>7. /\ committed' \in [Projects -> SUBSET Edits] /\ mistaken' \subseteq Projects
      /\ answer' \in {"none", "accepted", "rejected"}
  BY <1>1, <1>4, NowCommittedType DEF Commit, IInv, TypeOK
<1>8. phase = "working" /\ phase' = "idle"
      /\ UNCHANGED <<page, used, tracked, candidate, start, proposed, touched, newer>>
  BY DEF Commit
<1> QED
  BY <1>4, <1>5, <1>6, <1>7, <1>8, NoCandidate, IdleStep

-----------------------------------------------------------------------------
(* The user's decision.                                                     *)

\* What an acceptance writes to a file of the candidate, or finds there.
LEMMA AcceptedFacts ==
    ASSUME IInv, NEW f \in DOMAIN candidate
    PROVE  /\ f \in Files
           /\ candidate[f].after \in File /\ candidate[f].after.body \subseteq used
           /\ Sound(f, candidate[f].after)
           /\ Accepted(f) \in File /\ Accepted(f).body = candidate[f].after.body
           /\ Accepted(f).exists = candidate[f].after.exists
           /\ Sound(f, Accepted(f))
<1>1. f \in Files /\ disk[f] \in File /\ candidate[f].after \in File
      /\ candidate[f].after.body \subseteq used /\ Sound(f, candidate[f].after)
  BY DEF IInv, TypeOK, IsPartial, TextsAreMade, FilesAreSound
<1>2. Accepted(f) \in File /\ Accepted(f).body = candidate[f].after.body
      /\ Accepted(f).exists = candidate[f].after.exists
  <2>1. CASE f \in Projects
    <3>1. Accepted(f) = CommittedTo(candidate[f].after, disk[f].revision) /\ disk[f].revision \in Nat
      BY <1>1, <2>1 DEF Accepted, File
    <3> QED
      BY <1>1, <3>1, CommittedFacts
  <2>2. CASE f \notin Projects
    BY <1>1, <2>2 DEF Accepted
  <2> QED
    BY <2>1, <2>2
<1>3. Sound(f, Accepted(f))
  BY <1>1, <1>2 DEF Accepted, Sound
<1> QED
  BY <1>1, <1>2, <1>3

\* A step that writes files of the candidate, which still waits.
LEMMA WaitStep ==
    ASSUME IInv, phase = "waiting", disk' \in [Files -> File],
           \A f \in Files : disk'[f].body \subseteq used /\ Sound(f, disk'[f]),
           \A f \in Files : f \notin DOMAIN candidate => disk'[f] = disk[f],
           \A f \in Files : f \notin touched' => disk'[f] = disk[f],
           touched \subseteq touched', touched' \subseteq Files,
           committed' \in [Projects -> SUBSET Edits], mistaken' \subseteq Projects,
           UNCHANGED <<page, told, used, phase, tracked, candidate, start, proposed, newer, answer>>
    PROVE  IInv'
<1> USE DEF IInv, tracked
<1>1. TypeOK'
  BY DEF TypeOK
<1>2. TextsAreMade' /\ FilesAreSound'
  BY DEF TextsAreMade, FilesAreSound
<1>3. FirstIsKept' /\ NewerIsApart'
  BY DEF FirstIsKept, NewerIsApart
<1>4. CandidateIsProposal'
  BY DEF CandidateIsProposal
<1>5. RestoredWhileWaiting'
  BY DEF RestoredWhileWaiting
<1> QED
  BY <1>1, <1>2, <1>3, <1>4, <1>5

\* The files after some of the candidate's were written.
LEMMA WithFacts ==
    ASSUME IInv, NEW files \in SUBSET DOMAIN candidate
    PROVE  /\ With(files) \in [Files -> File]
           /\ \A f \in Files : With(files)[f].body \subseteq used /\ Sound(f, With(files)[f])
           /\ \A f \in Files \ files : With(files)[f] = disk[f]
           /\ \A f \in files : With(files)[f] = Accepted(f)
<1>1. \A f \in Files : disk[f] \in File /\ disk[f].body \subseteq used /\ Sound(f, disk[f])
  BY DEF IInv, TypeOK, TextsAreMade, FilesAreSound
<1>2. \A f \in files : f \in Files /\ Accepted(f) \in File /\ Accepted(f).body \subseteq used
                       /\ Sound(f, Accepted(f))
  BY AcceptedFacts
<1> QED
  BY <1>1, <1>2 DEF With

LEMMA AcceptStep == ASSUME IInv, Accept PROVE IInv'
<1>1. CASE Acceptable = AcceptedProjects
  <2>1. /\ disk' = With(DOMAIN candidate) /\ phase' = "idle" /\ candidate' = None
        /\ NowCommitted(AcceptedProjects)
        /\ UNCHANGED <<page, told, used, tracked, start, proposed, touched, newer>>
    BY <1>1 DEF Accept, Decided
  <2>2. disk' \in [Files -> File] /\ \A f \in Files : disk'[f].body \subseteq used /\ Sound(f, disk'[f])
    BY <2>1, WithFacts
  <2>3. /\ committed' \in [Projects -> SUBSET Edits] /\ mistaken' \subseteq Projects
        /\ answer' \in {"none", "accepted", "rejected"}
    BY <1>1, <2>1, <2>2, NowCommittedType DEF Accept, AcceptedProjects
  <2>4. told' \in [Projects -> Nat]
    BY <2>1 DEF IInv, TypeOK
  <2> QED
    BY <2>1, <2>2, <2>3, <2>4, IdleStep
<1>2. CASE Acceptable # AcceptedProjects
  <2>1. PICK done \in SUBSET Acceptable :
            /\ disk' = With(Kept(done))
            /\ touched' = touched \cup (Kept(done) \cap Projects)
            /\ NowCommitted(Kept(done) \cap Projects)
    BY <1>2 DEF Accept
  <2>2. UNCHANGED <<phase, candidate, page, told, used, tracked, start, proposed, newer, answer>>
    BY <1>2 DEF Accept
  <2>3. Kept(done) \subseteq DOMAIN candidate /\ Kept(done) \subseteq Projects
    BY DEF Kept, Acceptable, AcceptedProjects
  <2>4. disk' \in [Files -> File] /\ \A f \in Files : disk'[f].body \subseteq used /\ Sound(f, disk'[f])
    BY <2>1, <2>3, WithFacts
  <2>5. \A f \in Files \ Kept(done) : disk'[f] = disk[f]
    BY <2>1, <2>3, WithFacts
  <2>6. committed' \in [Projects -> SUBSET Edits] /\ mistaken' \subseteq Projects
    BY <2>1, <2>3, <2>4, NowCommittedType
  <2>7. touched' \subseteq Files /\ phase = "waiting"
    BY <2>1, ProjectsAreFiles DEF IInv, TypeOK, Accept
  <2> QED
    BY <2>1, <2>2, <2>3, <2>4, <2>5, <2>6, <2>7, WaitStep
<1> QED
  BY <1>1, <1>2

LEMMA CrashStep == ASSUME IInv, CrashInAccept PROVE IInv'
<1>1. \A f \in Files : disk[f] \in File /\ disk[f].body \subseteq used /\ Sound(f, disk[f])
  BY DEF IInv, TypeOK, TextsAreMade, FilesAreSound
<1>2. phase = "waiting"
      /\ UNCHANGED <<page, told, used, phase, tracked, candidate, start, proposed, newer, answer>>
  BY DEF CrashInAccept
<1>3. DOMAIN candidate \subseteq Files /\ touched \subseteq Files
  BY DEF IInv, TypeOK, IsPartial
<1>4. /\ disk' \in [Files -> File]
      /\ \A f \in Files : disk'[f].body \subseteq used /\ Sound(f, disk'[f])
      /\ \A f \in Files : f \notin DOMAIN candidate => disk'[f] = disk[f]
      /\ \A f \in Files : f \notin touched' => disk'[f] = disk[f]
      /\ touched \subseteq touched' /\ touched' \subseteq Files
      /\ committed' \in [Projects -> SUBSET Edits] /\ mistaken' \subseteq Projects
  <2>1. CASE /\ \E written \in SUBSET DOMAIN candidate :
                   /\ disk' = [f \in Files |-> IF f \in written THEN candidate[f].after ELSE disk[f]]
                   /\ touched' = touched \cup written
             /\ UNCHANGED <<committed, mistaken>>
    <3>1. PICK written \in SUBSET DOMAIN candidate :
                   /\ disk' = [f \in Files |-> IF f \in written THEN candidate[f].after ELSE disk[f]]
                   /\ touched' = touched \cup written
      BY <2>1
    <3>2. \A f \in written : candidate[f].after \in File /\ candidate[f].after.body \subseteq used
                             /\ Sound(f, candidate[f].after)
      BY AcceptedFacts
    <3>3. committed' \in [Projects -> SUBSET Edits] /\ mistaken' \subseteq Projects
      BY <2>1 DEF IInv, TypeOK
    <3> QED
      BY <1>1, <1>3, <3>1, <3>2, <3>3
  <2>2. CASE \E done \in SUBSET Acceptable :
             /\ disk' = [f \in Files |-> CASE f \in done -> Accepted(f)
                                            [] f \in DOMAIN candidate \ done -> candidate[f].after
                                            [] OTHER -> disk[f]]
             /\ touched' = touched \cup DOMAIN candidate
             /\ NowCommitted(done)
    <3>1. PICK done \in SUBSET Acceptable :
             /\ disk' = [f \in Files |-> CASE f \in done -> Accepted(f)
                                            [] f \in DOMAIN candidate \ done -> candidate[f].after
                                            [] OTHER -> disk[f]]
             /\ touched' = touched \cup DOMAIN candidate
             /\ NowCommitted(done)
      BY <2>2
    <3>2. done \subseteq DOMAIN candidate /\ done \subseteq Projects
      BY DEF Acceptable, AcceptedProjects
    <3>3. \A f \in Files : /\ f \in done => disk'[f] = Accepted(f)
                           /\ f \in DOMAIN candidate \ done => disk'[f] = candidate[f].after
                           /\ f \notin DOMAIN candidate => disk'[f] = disk[f]
      BY <3>1, <3>2
    <3>4. \A f \in Files : disk'[f] \in File /\ disk'[f].body \subseteq used /\ Sound(f, disk'[f])
      BY <1>1, <3>2, <3>3, AcceptedFacts
    <3>5. disk' \in [Files -> File]
      BY <3>1, <3>4
    <3>6. committed' \in [Projects -> SUBSET Edits] /\ mistaken' \subseteq Projects
      BY <3>1, <3>2, <3>5, NowCommittedType
    <3> QED
      BY <1>3, <3>1, <3>3, <3>4, <3>5, <3>6
  <2> QED
    BY <2>1, <2>2 DEF CrashInAccept
<1> QED
  BY <1>2, <1>4, WaitStep

LEMMA RejectStep == ASSUME IInv, Reject PROVE IInv'
<1>1. /\ phase' = "idle" /\ candidate' = None
      /\ answer' = "rejected"
      /\ UNCHANGED <<disk, page, told, used, tracked, start, proposed, touched, newer, committed,
                     mistaken>>
  BY DEF Reject, Decided
<1> QED
  BY <1>1, IdleStep DEF IInv, TypeOK, TextsAreMade, FilesAreSound

LEMMA Inductive == IInv /\ [Next]_vars => IInv'
<1> SUFFICES ASSUME IInv, [Next]_vars PROVE IInv'
  OBVIOUS
<1>1. CASE UNCHANGED vars
  <2>1. UNCHANGED <<disk, page, told, used, phase, before, after, revisions, candidate, start,
                    proposed, touched, newer, committed, mistaken, answer>>
    BY <1>1 DEF vars, tracked, history
  <2>2. TypeOK' /\ TextsAreMade' /\ FilesAreSound' /\ FirstIsKept'
    BY <2>1 DEF IInv, TypeOK, TextsAreMade, FilesAreSound, FirstIsKept
  <2>3. NewerIsApart' /\ CandidateIsProposal' /\ RestoredWhileWaiting'
    BY <2>1 DEF IInv, NewerIsApart, CandidateIsProposal, RestoredWhileWaiting
  <2> QED
    BY <2>2, <2>3 DEF IInv
<1>2. ASSUME NEW e \in UserEdits \ used,
             \/ \E p \in Projects : PageSaves(p, e)
             \/ \E f \in Files : UserEditsFile(f, e)
      PROVE  IInv'
  BY <1>2, PageSavesStep, UserEditsFileStep
<1>3. ASSUME NEW p \in Projects, PageOpens(p) \/ PageHears(p) PROVE IInv'
  BY <1>3, PageStep
<1>4. ASSUME NEW f \in Files,
             \/ \E e \in AgentEdits \ used : AgentEditsFile(f, e) \/ AgentCreates(f, {e})
             \/ AgentCreates(f, {})
             \/ AgentDeletes(f)
      PROVE  IInv'
  BY <1>4, AgentActions
<1>5. CASE Begin
  BY <1>5, BeginStep
<1>6. CASE Suspend \/ Stop \/ IsRejected \/ Commit
  BY <1>6, SuspendStep, StopStep, CommitStep
<1>7. CASE Accept \/ CrashInAccept \/ Reject
  BY <1>7, AcceptStep, CrashStep, RejectStep
<1> QED
  BY <1>1, <1>2, <1>3, <1>4, <1>5, <1>6, <1>7 DEF Next

LEMMA Invariance == Spec => []IInv
BY InitIInv, Inductive, PTL DEF Spec

-----------------------------------------------------------------------------
(* The theorems.                                                            *)

\* The state is of the declared types: revisions are numbers, every text consists of
\* edits somebody made, and only a waiting review has a candidate.
THEOREM TypeCorrect == Spec => []TypeOK
BY Invariance, PTL DEF IInv

\* While a review waits, the files that nobody else wrote have the text with which the
\* run found them, in however many patches it edited, created and deleted them.
THEOREM Restored == Spec => []RestoredWhileWaiting
BY Invariance, PTL DEF IInv

\* A file that an acceptance may write has no text the user wrote after the suspension.
LEMMA RestorableIsOld ==
    ASSUME IInv, phase = "waiting", Restorable, NEW f \in DOMAIN candidate
    PROVE  newer[f] \cap disk[f].body = {}
<1>1. f \in Files /\ candidate[f].before.body \cap newer[f] = {}
  BY DEF IInv, TypeOK, IsPartial, CandidateIsProposal
<1>2. CASE disk[f].exists
  BY <1>1, <1>2 DEF Restorable, Text
<1>3. CASE ~ disk[f].exists
  BY <1>1, <1>3, BlankFiles DEF IInv, FilesAreSound, Sound
<1> QED
  BY <1>2, <1>3

\* A project whose text is still the one the agent left has nothing newer.
LEMMA OwnTextIsNewest ==
    ASSUME IInv, phase = "working", NEW p \in Projects, p \in DOMAIN after, Untouched(p)
    PROVE  newer[p] = {}
BY ProjectsAreFiles DEF IInv, NewerIsApart, Untouched, Text

\* A run's end and the decision about it take from no file what the user wrote to it
\* since the agent's last write.
THEOREM NewerSurvives == Spec => NewerUserEditsSurvive
<1>1. ASSUME IInv, [Next]_vars, used' = used, ~ (phase = "working" /\ phase' = "working"),
             NEW f \in Files
      PROVE  newer[f] \cap disk[f].body \subseteq disk'[f].body
  <2>1. CASE UNCHANGED disk
    BY <2>1
  <2>2. CASE Suspend \/ IsRejected
    BY <1>1, <2>2, RollbackFacts DEF Suspend, IsRejected
  <2>3. CASE Commit
    <3>1. PICK done \in SUBSET (DOMAIN after \cap Projects) :
              disk' = [g \in Files |-> IF g \in done THEN CommittedTo(disk[g], revisions[g])
                                       ELSE disk[g]]
      BY <2>3 DEF Commit
    <3>2. disk[f] \in File /\ (f \in done => revisions[f] \in Nat)
      BY <1>1, <3>1 DEF IInv, TypeOK, FirstIsKept
    <3>3. disk'[f].body = disk[f].body
      BY <3>1, <3>2, CommittedFacts
    <3> QED
      BY <3>3
  <2>4. CASE Accept \/ CrashInAccept
    <3>1. f \in DOMAIN candidate \/ disk'[f] = disk[f]
      <4>1. ASSUME NEW files \in SUBSET DOMAIN candidate, disk' = With(files), f \notin DOMAIN candidate
            PROVE  disk'[f] = disk[f]
        BY <4>1 DEF With
      <4>2. \A done \in SUBSET Acceptable : /\ Kept(done) \subseteq DOMAIN candidate
                                            /\ done \subseteq DOMAIN candidate
        BY DEF Kept, Acceptable, AcceptedProjects
      <4>3. CASE Accept
        BY <4>1, <4>2, <4>3 DEF Accept
      <4>4. CASE CrashInAccept
        BY <4>2, <4>4 DEF CrashInAccept
      <4> QED
        BY <2>4, <4>3, <4>4
    <3>2. phase = "waiting" /\ Restorable
      BY <2>4 DEF Accept, CrashInAccept
    <3> QED
      BY <1>1, <3>1, <3>2, RestorableIsOld
  <2>5. ASSUME NEW e \in UserEdits \ used, NEW g \in Files, UserWrote(g, e) PROVE FALSE
    BY <1>1, <2>5 DEF UserWrote
  <2>6. ASSUME NEW g \in Files, NEW new, AgentWrites(g, new) PROVE FALSE
    BY <1>1, <2>6 DEF AgentWrites
  <2>7. ASSUME NEW e \in UserEdits \ used,
               \/ \E p \in Projects : PageSaves(p, e)
               \/ \E g \in Files : UserEditsFile(g, e)
        PROVE  FALSE
    BY <2>5, <2>7, ProjectsAreFiles DEF PageSaves, UserEditsFile
  <2>8. ASSUME NEW g \in Files,
               \/ \E e \in AgentEdits \ used : AgentEditsFile(g, e) \/ AgentCreates(g, {e})
               \/ AgentCreates(g, {})
               \/ AgentDeletes(g)
        PROVE  FALSE
    BY <2>6, <2>8 DEF AgentEditsFile, AgentCreates, AgentDeletes
  <2>9. CASE Begin \/ Stop \/ Reject \/ \E p \in Projects : PageOpens(p) \/ PageHears(p)
    BY <2>1, <2>9 DEF Begin, Stop, Reject, PageOpens, PageHears
  <2>10. CASE UNCHANGED vars
    BY <2>1, <2>10 DEF vars
  <2> QED
    BY <1>1, <2>2, <2>3, <2>4, <2>7, <2>8, <2>9, <2>10 DEF Next
<1>2. IInv /\ [Next]_vars =>
          [used' = used /\ ~ (phase = "working" /\ phase' = "working") =>
              \A f \in Files : newer[f] \cap disk[f].body \subseteq disk'[f].body]_vars
  BY <1>1
<1> QED
  BY <1>2, Invariance, PTL DEF Spec, NewerUserEditsSurvive

\* Which steps end a run or a review.
LEMMA WhatEnds ==
    ASSUME [Next]_vars, phase # "idle", phase' = "idle"
    PROVE  \/ phase = "working" /\ (Stop \/ IsRejected \/ Commit)
           \/ phase = "waiting" /\ (Accept \/ Reject)
<1>1. ~ UNCHANGED phase
  OBVIOUS
<1>2. ASSUME UNCHANGED vars PROVE FALSE
  BY <1>1, <1>2 DEF vars
<1>3. ASSUME NEW e, NEW f, PageSaves(f, e) \/ UserEditsFile(f, e) \/ PageOpens(f) \/ PageHears(f)
      PROVE  FALSE
  BY <1>1, <1>3 DEF PageSaves, UserEditsFile, PageOpens, PageHears
<1>4. ASSUME NEW f, NEW e, NEW body,
             AgentEditsFile(f, e) \/ AgentCreates(f, body) \/ AgentDeletes(f)
      PROVE  FALSE
  BY <1>1, <1>4 DEF AgentEditsFile, AgentCreates, AgentDeletes, AgentWrites
<1>5. ~ (Begin \/ Suspend \/ CrashInAccept)
  BY <1>1 DEF Begin, Suspend, CrashInAccept
<1>6. Stop \/ IsRejected \/ Commit \/ Accept \/ Reject
  BY <1>2, <1>3, <1>4, <1>5 DEF Next
<1> QED
  BY <1>6 DEF Stop, IsRejected, Commit, Accept, Reject

-----------------------------------------------------------------------------
(* The work that was committed.                                             *)

\* While p's copy on the page has not got all of the work committed, its revision is less
\* than n, unless that revision was given to another text.
Behind(p, n) ==
    p \notin mistaken /\ page[p].exists /\ ~ committed[p] \subseteq page[p].body
        => page[p].revision < n

\* What was committed is in the project, in what a rollback gives back and in what an
\* acceptance would write; and a page without it is behind all these.
WorkIsKept(p) ==
    /\ committed[p] \subseteq disk[p].body
    /\ Behind(p, disk[p].revision)
    /\ phase = "working" /\ p \in DOMAIN before =>
          /\ committed[p] \subseteq before[p].body
          /\ before[p].revision <= disk[p].revision
          /\ Behind(p, before[p].revision)
    /\ phase = "waiting" /\ p \in DOMAIN candidate =>
          /\ candidate[p].before.revision <= candidate[p].after.revision
          /\ candidate[p].before.revision <= disk[p].revision
          /\ disk[p].revision = candidate[p].before.revision =>
                committed[p] \subseteq candidate[p].after.body

KInv == IInv /\ \A p \in Projects : WorkIsKept(p)

\* What a step has to show of a project.
StaysKept(p) == WorkIsKept(p)' /\ (committed[p] \subseteq disk'[p].body \/ p \in mistaken)

LEMMA InitKInv == Init => KInv
<1> SUFFICES ASSUME Init, NEW p \in Projects PROVE WorkIsKept(p)
  BY InitIInv DEF KInv
<1> QED
  BY NoneIsEmpty DEF Init, WorkIsKept, Behind

\* Revisions are numbers.
LEMMA RevisionFacts ==
    ASSUME IInv, NEW p \in Projects
    PROVE  /\ p \in Files
           /\ disk[p] \in File /\ disk[p].revision \in Nat /\ disk[p].exists
           /\ page[p] \in File /\ page[p].revision \in Nat
           /\ p \in DOMAIN before => before[p] \in File /\ before[p].revision \in Nat
           /\ p \in DOMAIN candidate => /\ candidate[p].before.revision \in Nat
                                        /\ candidate[p].after.revision \in Nat
BY ProjectsAreFiles DEF IInv, TypeOK, File, FilesAreSound, Sound

LEMMA PageSavesKeeps ==
    ASSUME KInv, NEW q \in Projects, NEW e \in UserEdits \ used, PageSaves(q, e),
           NEW p \in Projects
    PROVE  StaysKept(p)
<1>1. /\ p \in Files /\ q \in Files /\ disk[p].revision \in Nat /\ disk[q].revision \in Nat
      /\ page[q] \in File /\ page[q].revision \in Nat
      /\ p \in DOMAIN before => before[p].revision \in Nat
      /\ p \in DOMAIN candidate => /\ candidate[p].before.revision \in Nat
                                   /\ candidate[p].after.revision \in Nat
  BY RevisionFacts DEF KInv
<1>2. WorkIsKept(p)
  BY DEF KInv
<1>3. /\ page[q].exists /\ page[q].revision = disk[q].revision
      /\ UNCHANGED <<phase, before, candidate>>
  BY DEF PageSaves, tracked
<1>4. CASE p # q
  <2>1. disk'[p] = disk[p] /\ page'[p] = page[p] /\ committed'[p] = committed[p]
        /\ (p \in mistaken' <=> p \in mistaken)
    BY <1>1, <1>4 DEF PageSaves, KInv, IInv, TypeOK
  <2> QED
    BY <1>2, <1>3, <2>1 DEF StaysKept, WorkIsKept, Behind
<1>5. CASE p = q
  <2> DEFINE b == page[p].body \cup {e}
             r == page[p].revision + 1
  <2>1. disk'[p] = [page[p] EXCEPT !.body = b, !.revision = r]
        /\ page'[p] = disk'[p] /\ committed'[p] = committed[p] \cap disk'[p].body
    BY <1>1, <1>5 DEF PageSaves, KInv, IInv, TypeOK
  <2> HIDE DEF b, r
  <2>2. disk'[p].body = b /\ disk'[p].revision = r
    BY <1>1, <1>5, <2>1 DEF File
  <2>3. r = disk[p].revision + 1
    BY <1>3, <1>5 DEF r
  <2>4. committed[p] \subseteq b \/ p \in mistaken
    BY <1>1, <1>2, <1>3, <1>5 DEF b, WorkIsKept, Behind
  <2>5. WorkIsKept(p)'
    <3>1. committed'[p] \subseteq committed[p] /\ committed'[p] \subseteq disk'[p].body
      BY <2>1
    <3>2. Behind(p, disk[p].revision)' /\ committed'[p] \subseteq page'[p].body
      BY <2>1 DEF Behind
    <3>3. phase' = "working" /\ p \in DOMAIN before' =>
              /\ committed'[p] \subseteq before'[p].body
              /\ before'[p].revision <= disk'[p].revision
              /\ Behind(p, before[p].revision)'
      BY <1>1, <1>2, <1>3, <2>2, <2>3, <3>1, <3>2 DEF WorkIsKept, Behind
    <3>4. phase' = "waiting" /\ p \in DOMAIN candidate' =>
              /\ candidate'[p].before.revision <= candidate'[p].after.revision
              /\ candidate'[p].before.revision < disk'[p].revision
      BY <1>1, <1>2, <1>3, <2>2, <2>3 DEF WorkIsKept
    <3>5. phase' = "waiting" /\ p \in DOMAIN candidate' => disk'[p].revision # candidate'[p].before.revision
                /\ candidate'[p].before.revision <= disk'[p].revision
      BY <1>1, <1>3, <2>2, <2>3, <3>4
    <3> QED
      BY <3>1, <3>2, <3>3, <3>4, <3>5 DEF WorkIsKept
  <2> QED
    BY <2>2, <2>4, <2>5 DEF StaysKept
<1> QED
  BY <1>4, <1>5

\* The user's own programs only add to a file.
LEMMA UserEditsFileKeeps ==
    ASSUME KInv, NEW f \in Files, NEW e \in UserEdits \ used, UserEditsFile(f, e),
           NEW p \in Projects
    PROVE  StaysKept(p)
<1>1. p \in Files /\ disk[p] \in File /\ WorkIsKept(p)
  BY RevisionFacts DEF KInv
<1>2. UNCHANGED <<phase, before, candidate, page, committed, mistaken>>
  BY DEF UserEditsFile, tracked
<1>3. disk'[p].revision = disk[p].revision /\ disk[p].body \subseteq disk'[p].body
  <2>1. CASE p # f
    BY <1>1, <2>1 DEF UserEditsFile, KInv, IInv, TypeOK
  <2>2. CASE p = f
    <3> DEFINE b == disk[p].body \cup {e}
    <3>1. disk'[p] = [disk[p] EXCEPT !.exists = TRUE, !.body = b]
      BY <1>1, <2>2 DEF UserEditsFile, KInv, IInv, TypeOK
    <3> HIDE DEF b
    <3>2. disk'[p].revision = disk[p].revision /\ disk'[p].body = b
      BY <1>1, <3>1 DEF File
    <3> QED
      BY <3>2 DEF b
  <2> QED
    BY <2>1, <2>2
<1> QED
  BY <1>1, <1>2, <1>3 DEF StaysKept, WorkIsKept, Behind

\* A page that opens the project has all of it; one that hears of a commit and has not got
\* the work is marked.
LEMMA PageKeeps ==
    ASSUME KInv, NEW q \in Projects, PageOpens(q) \/ PageHears(q), NEW p \in Projects
    PROVE  StaysKept(p)
<1>1. WorkIsKept(p) /\ page \in [Projects -> File]
  BY DEF KInv, IInv, TypeOK
<1>2. UNCHANGED <<phase, before, candidate, disk, committed>>
  BY DEF PageOpens, PageHears, tracked
<1>3. \/ page'[p] = page[p] /\ (p \in mistaken => p \in mistaken')
      \/ page'[p] = disk[p]
      \/ page'[p].body = page[p].body /\ (committed[p] \subseteq page[p].body \/ p \in mistaken')
  <2>1. CASE PageOpens(q)
    BY <1>1, <2>1 DEF PageOpens
  <2>2. CASE PageHears(q)
    <3> DEFINE r == IF Hears(q) THEN told[q] ELSE page[q].revision
    <3>1. page' = [page EXCEPT ![q].revision = r]
      BY <2>2 DEF PageHears
    <3> HIDE DEF r
    <3>2. CASE p # q
      BY <1>1, <2>2, <3>1, <3>2 DEF PageHears
    <3>3. CASE p = q
      <4>1. CASE Hears(q)
        <5>1. page'[p].body = page[p].body
          BY <1>1, <3>1, <3>3 DEF File
        <5> QED
          BY <2>2, <3>3, <4>1, <5>1 DEF PageHears
      <4>2. CASE ~ Hears(q)
        <5>1. page'[p] = page[p]
          BY <1>1, <3>1, <3>3, <4>2 DEF r, File
        <5> QED
          BY <2>2, <4>2, <5>1 DEF PageHears
      <4> QED
        BY <4>1, <4>2
    <3> QED
      BY <3>2, <3>3
  <2> QED
    BY <2>1, <2>2
<1> QED
  BY <1>1, <1>2, <1>3 DEF StaysKept, WorkIsKept, Behind

\* The first snapshot has what the disk has, and the agent only adds.
LEMMA AgentKeeps ==
    ASSUME KInv, NEW f \in Files,
           \/ \E e \in AgentEdits \ used : AgentEditsFile(f, e) \/ AgentCreates(f, {e})
           \/ AgentCreates(f, {})
           \/ AgentDeletes(f),
           NEW p \in Projects
    PROVE  StaysKept(p)
<1>1. /\ p \in Files /\ disk[p] \in File /\ disk[p].revision \in Nat /\ WorkIsKept(p)
      /\ p \in DOMAIN before => before[p].revision \in Nat
  BY RevisionFacts DEF KInv
<1>2. PICK new : AgentWrites(f, new) /\ (p = f =>
          \E e \in AgentEdits : \E raise \in {0, 1} :
              new = [disk[f] EXCEPT !.body = @ \cup {e}, !.revision = @ + raise])
  BY DEF AgentEditsFile, AgentCreates, AgentDeletes
<1>3. /\ phase = "working" /\ phase' = "working"
      /\ UNCHANGED <<page, candidate, committed, mistaken>>
      /\ disk' = [disk EXCEPT ![f] = new] /\ before' = PutNew(before, f, disk[f])
  BY <1>2 DEF AgentWrites, Record
<1>4. /\ p \in DOMAIN before => p \in DOMAIN before' /\ before'[p] = before[p]
      /\ p \in DOMAIN before' => p \in DOMAIN before \/ before'[p] = disk[p]
  BY <1>3 DEF PutNew, Put
<1>5. /\ disk'[p].revision \in Nat /\ disk[p].revision <= disk'[p].revision
      /\ disk[p].body \subseteq disk'[p].body
  <2>1. CASE p # f
    BY <1>1, <1>3, <2>1 DEF KInv, IInv, TypeOK
  <2>2. CASE p = f
    <3>1. PICK e \in AgentEdits, raise \in {0, 1} :
              new = [disk[f] EXCEPT !.body = @ \cup {e}, !.revision = @ + raise]
      BY <1>2, <2>2
    <3> DEFINE b == disk[p].body \cup {e}
               r == disk[p].revision + raise
    <3>2. disk'[p] = [disk[p] EXCEPT !.body = b, !.revision = r]
      BY <1>1, <1>3, <2>2, <3>1 DEF KInv, IInv, TypeOK
    <3>3. r \in Nat /\ disk[p].revision <= r
      BY <1>1
    <3> HIDE DEF b, r
    <3>4. disk'[p].body = b /\ disk'[p].revision = r
      BY <1>1, <3>2 DEF File
    <3> QED
      BY <3>3, <3>4 DEF b
  <2> QED
    BY <2>1, <2>2
<1>6. Behind(p, disk[p].revision)'
  <2> SUFFICES ASSUME ~ (Behind(p, disk[p].revision))' PROVE FALSE
    OBVIOUS
  <2>1. page[p].revision \in Nat
    BY RevisionFacts DEF KInv
  <2> QED
    BY <1>1, <1>3, <1>5, <2>1 DEF WorkIsKept, Behind
<1>7. p \in DOMAIN before' =>
          /\ committed'[p] \subseteq before'[p].body
          /\ before'[p].revision <= disk'[p].revision
          /\ Behind(p, before[p].revision)'
  <2>1. CASE p \in DOMAIN before
    BY <1>1, <1>3, <1>4, <1>5, <2>1 DEF WorkIsKept, Behind
  <2>2. CASE p \notin DOMAIN before
    BY <1>1, <1>3, <1>4, <1>5, <2>2 DEF WorkIsKept, Behind
  <2> QED
    BY <2>1, <2>2
<1> QED
  BY <1>1, <1>3, <1>5, <1>6, <1>7 DEF StaysKept, WorkIsKept

LEMMA BeginKeeps == ASSUME KInv, Begin, NEW p \in Projects PROVE StaysKept(p)
<1>1. WorkIsKept(p) /\ UNCHANGED <<disk, page, committed, mistaken>> /\ before' = None
      /\ phase' = "working"
  BY DEF KInv, Begin
<1> QED
  BY <1>1, NoneIsEmpty DEF StaysKept, WorkIsKept, Behind

\* A rollback gives the project the text it has, or that of the first snapshot.
LEMMA RollbackKeeps ==
    ASSUME KInv, phase = "working", NEW p \in Projects
    PROVE  committed[p] \subseteq RolledBack[p].body /\ Behind(p, RolledBack[p].revision)
<1>1. p \in Files /\ WorkIsKept(p) /\ DOMAIN after \subseteq DOMAIN before
  BY RevisionFacts DEF KInv, IInv, FirstIsKept
<1>2. RolledBack[p] = disk[p] \/ (RolledBack[p] = before[p] /\ p \in DOMAIN before)
  <2>1. RolledBack[p] = IF p \in DOMAIN after /\ (disk[p].exists => Untouched(p)) THEN before[p]
                        ELSE disk[p]
    BY <1>1 DEF RolledBack
  <2> QED
    BY <1>1, <2>1
<1> QED
  BY <1>1, <1>2 DEF WorkIsKept

LEMMA StopKeeps ==
    ASSUME KInv, Stop \/ IsRejected, NEW p \in Projects PROVE StaysKept(p)
<1>1. /\ phase = "working" /\ phase' = "idle" /\ UNCHANGED <<page, committed, mistaken>>
      /\ disk' = disk \/ disk' = RolledBack
  BY DEF Stop, IsRejected, history
<1>2. committed[p] \subseteq disk'[p].body /\ Behind(p, disk'[p].revision)
  BY <1>1, RollbackKeeps DEF KInv, WorkIsKept
<1>3. Behind(p, disk[p].revision)'
  BY <1>1, <1>2 DEF Behind
<1> QED
  BY <1>1, <1>2, <1>3 DEF StaysKept, WorkIsKept

LEMMA SuspendKeeps == ASSUME KInv, Suspend, NEW p \in Projects PROVE StaysKept(p)
<1>1. /\ phase = "working" /\ phase' = "waiting" /\ UNCHANGED <<page, committed, mistaken>>
      /\ disk' = RolledBack /\ candidate' = Captured
      /\ \A f \in DOMAIN after : Untouched(f)
  BY DEF Suspend
<1>2. committed[p] \subseteq disk'[p].body /\ Behind(p, disk'[p].revision)
  BY <1>1, RollbackKeeps
<1>3. Behind(p, disk[p].revision)'
  BY <1>1, <1>2 DEF Behind
<1>4. ASSUME p \in DOMAIN candidate'
      PROVE  /\ candidate'[p].before.revision <= candidate'[p].after.revision
             /\ candidate'[p].before.revision <= disk'[p].revision
             /\ committed'[p] \subseteq candidate'[p].after.body
  <2>1. p \in DOMAIN after /\ p \in DOMAIN before /\ p \in Files
        /\ candidate'[p].before = before[p] /\ candidate'[p].after = disk[p]
    BY <1>1, <1>4, ProjectsAreFiles DEF Captured, KInv, IInv, FirstIsKept
  <2>2. disk'[p] = before[p] /\ before[p].revision \in Nat
    BY <1>1, <2>1, RevisionFacts DEF RolledBack, KInv
  <2> QED
    BY <1>1, <2>1, <2>2 DEF KInv, WorkIsKept
<1> QED
  BY <1>1, <1>2, <1>3, <1>4 DEF StaysKept, WorkIsKept

\* What the history says of a project that is committed, and of another.
LEMMA NowCommittedFacts ==
    ASSUME KInv, NEW done \in SUBSET Projects, NowCommitted(done),
           page' = page, disk' \in [Files -> File], NEW p \in Projects
    PROVE  /\ p \in done => committed'[p] = disk'[p].body /\ Behind(p, disk[p].revision)'
           /\ p \notin done => /\ committed'[p] = committed[p]
                               /\ p \in mistaken => p \in mistaken'
<1>1. page[p].revision \in Nat /\ disk'[p].revision \in Nat
  BY RevisionFacts, ProjectsAreFiles DEF KInv, File
<1>2. committed'[p] = IF p \in done THEN disk'[p].body ELSE committed[p]
  BY DEF NowCommitted
<1>3. /\ p \in mistaken => p \in mistaken'
      /\ p \in done /\ page[p].revision >= disk'[p].revision
            /\ ~ disk'[p].body \subseteq page[p].body => p \in mistaken'
  BY DEF NowCommitted
<1> QED
  BY <1>1, <1>2, <1>3 DEF Behind

LEMMA CommitKeeps == ASSUME KInv, Commit, NEW p \in Projects PROVE StaysKept(p)
<1> DEFINE mine == DOMAIN after \cap Projects
           fine == {q \in mine : Committable(Text(disk[q]), after[q], revisions[q])}
<1>1. PICK done \in SUBSET fine :
          /\ disk' = [f \in Files |-> IF f \in done THEN CommittedTo(disk[f], revisions[f])
                                      ELSE disk[f]]
          /\ NowCommitted(done)
  BY DEF Commit
<1>2. phase' = "idle" /\ page' = page
  BY DEF Commit
<1>3. done \subseteq Projects /\ WorkIsKept(p) /\ p \in Files /\ disk[p] \in File
  BY RevisionFacts DEF KInv
<1>4. disk' \in [Files -> File]
  BY CommitStep DEF KInv, IInv, TypeOK
<1>5. disk'[p].body = disk[p].body
  <2>1. p \in done => revisions[p] \in Nat
    BY DEF KInv, IInv, TypeOK, FirstIsKept
  <2> QED
    BY <1>1, <1>3, <2>1, CommittedFacts
<1>6. CASE p \in done
  BY <1>1, <1>2, <1>3, <1>4, <1>5, <1>6, NowCommittedFacts DEF StaysKept, WorkIsKept
<1>7. CASE p \notin done
  <2>1. disk'[p] = disk[p] /\ committed'[p] = committed[p] /\ (p \in mistaken => p \in mistaken')
    BY <1>1, <1>2, <1>3, <1>4, <1>7, NowCommittedFacts
  <2> QED
    BY <1>2, <1>3, <2>1 DEF StaysKept, WorkIsKept, Behind
<1> QED
  BY <1>6, <1>7

\* What restoring finds, and what it would give the project.
LEMMA RestorableFacts ==
    ASSUME KInv, phase = "waiting", Restorable, NEW p \in Projects, p \in DOMAIN candidate
    PROVE  /\ committed[p] \subseteq candidate[p].after.body
           /\ disk[p].revision = candidate[p].before.revision
           /\ disk[p].revision <= candidate[p].after.revision
<1>1. disk[p].exists /\ WorkIsKept(p)
  BY RevisionFacts DEF KInv
<1>2. disk[p].revision = candidate[p].before.revision
  BY <1>1 DEF Restorable, Text
<1> QED
  BY <1>1, <1>2 DEF WorkIsKept

\* A project to which an acceptance, that succeeds, fails or dies, gives the proposal, with
\* the revision it had or more.
LEMMA WrittenIsKept ==
    ASSUME KInv, phase = "waiting", Restorable, NEW p \in Projects, p \in DOMAIN candidate,
           disk'[p].body = candidate[p].after.body,
           disk'[p].revision \in Nat, disk[p].revision <= disk'[p].revision,
           phase' = "idle" \/ (phase' = "waiting" /\ candidate' = candidate),
           page' = page,
           \/ committed'[p] = disk'[p].body /\ Behind(p, disk[p].revision)'
           \/ committed'[p] = committed[p] /\ (p \in mistaken => p \in mistaken')
    PROVE  StaysKept(p)
<1>1. /\ committed[p] \subseteq candidate[p].after.body
      /\ disk[p].revision = candidate[p].before.revision
      /\ candidate[p].before.revision <= candidate[p].after.revision
      /\ disk[p].revision \in Nat /\ page[p].revision \in Nat
      /\ Behind(p, disk[p].revision)
  BY RestorableFacts, RevisionFacts DEF KInv, WorkIsKept
<1>2. committed[p] \subseteq disk'[p].body /\ committed'[p] \subseteq disk'[p].body
  BY <1>1
<1>3. Behind(p, disk[p].revision)'
  BY <1>1 DEF Behind
<1>4. phase' # "working" /\ (phase' = "waiting" => candidate' = candidate)
  OBVIOUS
<1> QED
  BY <1>1, <1>2, <1>3, <1>4 DEF StaysKept, WorkIsKept

\* A project that a step of a waiting review leaves as it is.
LEMMA OtherIsKept ==
    ASSUME KInv, phase = "waiting", NEW p \in Projects,
           disk'[p] = disk[p],
           phase' = "idle" \/ (phase' = "waiting" /\ candidate' = candidate),
           page' = page, committed'[p] = committed[p], p \in mistaken => p \in mistaken'
    PROVE  StaysKept(p)
<1>1. WorkIsKept(p) /\ phase' # "working" /\ (phase' = "waiting" => candidate' = candidate)
  BY DEF KInv
<1> QED
  BY <1>1 DEF StaysKept, WorkIsKept, Behind

\* A committed project has the proposal, with a revision more than it had.
LEMMA AcceptedRevision ==
    ASSUME KInv, NEW p \in Projects, p \in DOMAIN candidate
    PROVE  /\ Accepted(p).body = candidate[p].after.body
           /\ Accepted(p).revision = disk[p].revision + 1
<1>1. candidate[p].after \in File
  BY DEF KInv, IInv, TypeOK
<1>2. Accepted(p) = [candidate[p].after EXCEPT !.revision = disk[p].revision + 1]
  BY DEF Accepted, CommittedTo
<1> QED
  BY <1>1, <1>2 DEF File

LEMMA AcceptKeeps == ASSUME KInv, Accept, NEW p \in Projects PROVE StaysKept(p)
<1>1. phase = "waiting" /\ Restorable /\ page' = page
  BY DEF Accept
<1>2. p \in Files /\ disk[p].revision \in Nat
  BY RevisionFacts DEF KInv
<1>3. disk' \in [Files -> File]
  BY AcceptStep DEF KInv, IInv, TypeOK
<1>4. ASSUME NEW done \in SUBSET Projects, NEW files \in SUBSET DOMAIN candidate,
             done = files \cap Projects, disk' = With(files), NowCommitted(done),
             phase' = "idle" \/ (phase' = "waiting" /\ candidate' = candidate)
      PROVE  StaysKept(p)
  <2>1. CASE p \in done
    <3>1. p \in DOMAIN candidate /\ disk'[p] = Accepted(p)
      BY <1>2, <1>4, <2>1 DEF With
    <3>2. disk'[p].body = candidate[p].after.body /\ disk'[p].revision = disk[p].revision + 1
      BY <3>1, AcceptedRevision
    <3>3. committed'[p] = disk'[p].body /\ Behind(p, disk[p].revision)'
      BY <1>1, <1>3, <1>4, <2>1, NowCommittedFacts
    <3>4. disk'[p].revision \in Nat /\ disk[p].revision <= disk'[p].revision
      BY <1>2, <3>2
    <3> QED
      BY <1>1, <1>4, <3>1, <3>2, <3>3, <3>4, WrittenIsKept
  <2>2. CASE p \notin done
    <3>1. disk'[p] = disk[p]
      BY <1>2, <1>4, <2>2 DEF With
    <3>2. committed'[p] = committed[p] /\ (p \in mistaken => p \in mistaken')
      BY <1>1, <1>3, <1>4, <2>2, NowCommittedFacts
    <3> QED
      BY <1>1, <1>4, <3>1, <3>2, OtherIsKept
  <2> QED
    BY <2>1, <2>2
<1>5. CASE Acceptable = AcceptedProjects
  <2>1. disk' = With(DOMAIN candidate) /\ NowCommitted(AcceptedProjects) /\ phase' = "idle"
    BY <1>5 DEF Accept, Decided
  <2> QED
    BY <1>4, <2>1 DEF AcceptedProjects
<1>6. CASE Acceptable # AcceptedProjects
  <2>1. PICK done \in SUBSET Acceptable :
            disk' = With(Kept(done)) /\ NowCommitted(Kept(done) \cap Projects)
    BY <1>6 DEF Accept
  <2>2. Kept(done) \subseteq DOMAIN candidate /\ Kept(done) \cap Projects \subseteq Projects
    BY DEF Kept, Acceptable, AcceptedProjects
  <2>3. phase' = "waiting" /\ candidate' = candidate
    BY <1>1, <1>6 DEF Accept
  <2> QED
    BY <1>4, <2>1, <2>2, <2>3
<1> QED
  BY <1>5, <1>6

LEMMA CrashKeeps == ASSUME KInv, CrashInAccept, NEW p \in Projects PROVE StaysKept(p)
<1>1. phase = "waiting" /\ Restorable /\ page' = page /\ phase' = "waiting" /\ candidate' = candidate
  BY DEF CrashInAccept
<1>2. /\ p \in Files /\ disk[p].revision \in Nat
      /\ p \in DOMAIN candidate => /\ candidate[p].after.revision \in Nat
                                   /\ disk[p].revision <= candidate[p].after.revision
  BY <1>1, RevisionFacts, RestorableFacts DEF KInv
<1>3. disk' \in [Files -> File]
  BY CrashStep DEF KInv, IInv, TypeOK
<1>4. ASSUME p \in DOMAIN candidate, disk'[p] = candidate[p].after,
             committed'[p] = committed[p], p \in mistaken => p \in mistaken'
      PROVE  StaysKept(p)
  BY <1>1, <1>2, <1>4, WrittenIsKept
<1>5. CASE /\ \E written \in SUBSET DOMAIN candidate :
                 disk' = [f \in Files |-> IF f \in written THEN candidate[f].after ELSE disk[f]]
           /\ UNCHANGED <<committed, mistaken>>
  <2>1. (p \in DOMAIN candidate /\ disk'[p] = candidate[p].after) \/ disk'[p] = disk[p]
    BY <1>2, <1>5
  <2> QED
    BY <1>1, <1>4, <1>5, <2>1, OtherIsKept
<1>6. CASE \E done \in SUBSET Acceptable :
             /\ disk' = [f \in Files |-> CASE f \in done -> Accepted(f)
                                            [] f \in DOMAIN candidate \ done -> candidate[f].after
                                            [] OTHER -> disk[f]]
             /\ NowCommitted(done)
  <2>1. PICK done \in SUBSET Acceptable :
             /\ disk' = [f \in Files |-> CASE f \in done -> Accepted(f)
                                            [] f \in DOMAIN candidate \ done -> candidate[f].after
                                            [] OTHER -> disk[f]]
             /\ NowCommitted(done)
    BY <1>6
  <2>2. done \subseteq DOMAIN candidate /\ done \in SUBSET Projects
    BY DEF Acceptable, AcceptedProjects
  <2>3. /\ p \in done => disk'[p] = Accepted(p)
        /\ p \in DOMAIN candidate \ done => disk'[p] = candidate[p].after
        /\ p \notin DOMAIN candidate => disk'[p] = disk[p]
    BY <1>2, <2>1, <2>2
  <2>4. CASE p \in done
    <3>1. disk'[p].body = candidate[p].after.body /\ disk'[p].revision = disk[p].revision + 1
      BY <2>2, <2>3, <2>4, AcceptedRevision
    <3>2. committed'[p] = disk'[p].body /\ Behind(p, disk[p].revision)'
      BY <1>1, <1>3, <2>1, <2>2, <2>4, NowCommittedFacts
    <3>3. disk'[p].revision \in Nat /\ disk[p].revision <= disk'[p].revision /\ p \in DOMAIN candidate
      BY <1>2, <2>2, <2>4, <3>1
    <3> QED
      BY <1>1, <3>1, <3>2, <3>3, WrittenIsKept
  <2>5. CASE p \notin done
    <3>1. committed'[p] = committed[p] /\ (p \in mistaken => p \in mistaken')
      BY <1>1, <1>3, <2>1, <2>2, <2>5, NowCommittedFacts
    <3> QED
      BY <1>1, <1>4, <2>3, <2>5, <3>1, OtherIsKept
  <2> QED
    BY <2>4, <2>5
<1> QED
  BY <1>5, <1>6 DEF CrashInAccept

LEMMA RejectKeeps == ASSUME KInv, Reject, NEW p \in Projects PROVE StaysKept(p)
<1>1. phase = "waiting" /\ phase' = "idle" /\ UNCHANGED <<disk, page, committed, mistaken>>
  BY DEF Reject, Decided
<1> QED
  BY <1>1, OtherIsKept

LEMMA StepsKeep == ASSUME KInv, [Next]_vars, NEW p \in Projects PROVE StaysKept(p)
<1>1. CASE UNCHANGED vars
  <2>1. WorkIsKept(p) /\ UNCHANGED <<disk, page, phase, before, candidate, committed, mistaken>>
    BY <1>1 DEF KInv, vars, tracked, history
  <2> QED
    BY <2>1 DEF StaysKept, WorkIsKept, Behind
<1>2. ASSUME NEW e \in UserEdits \ used,
             \/ \E q \in Projects : PageSaves(q, e)
             \/ \E f \in Files : UserEditsFile(f, e)
      PROVE  StaysKept(p)
  BY <1>2, PageSavesKeeps, UserEditsFileKeeps
<1>3. ASSUME NEW q \in Projects, PageOpens(q) \/ PageHears(q) PROVE StaysKept(p)
  BY <1>3, PageKeeps
<1>4. ASSUME NEW f \in Files,
             \/ \E e \in AgentEdits \ used : AgentEditsFile(f, e) \/ AgentCreates(f, {e})
             \/ AgentCreates(f, {})
             \/ AgentDeletes(f)
      PROVE  StaysKept(p)
  BY <1>4, AgentKeeps
<1>5. CASE Begin \/ Suspend \/ Stop \/ IsRejected \/ Commit
  BY <1>5, BeginKeeps, SuspendKeeps, StopKeeps, CommitKeeps
<1>6. CASE Accept \/ CrashInAccept \/ Reject
  BY <1>6, AcceptKeeps, CrashKeeps, RejectKeeps
<1> QED
  BY <1>1, <1>2, <1>3, <1>4, <1>5, <1>6 DEF Next

LEMMA KeptInvariance == Spec => []KInv
<1>1. KInv /\ [Next]_vars => KInv'
  <2> SUFFICES ASSUME KInv, [Next]_vars PROVE KInv'
    OBVIOUS
  <2>1. IInv'
    BY Inductive DEF KInv
  <2>2. \A p \in Projects : WorkIsKept(p)'
    BY StepsKeep DEF StaysKept
  <2> QED
    BY <2>1, <2>2 DEF KInv
<1> QED
  BY <1>1, InitKInv, PTL DEF Spec

\* A decision takes effect as the user made it: an acceptance gives each file the user has
\* not written since the suspension what the agent proposed for it, and a rejection writes
\* nothing; a run's end raises no revision of a text that the agent was not the last to
\* write; and the work committed stays in its project, through whatever later runs, reviews,
\* crashes and the user do, unless a page has a revision given to another text.
THEOREM DecidedAsIs == Spec => DecisionsTakeEffect
<1>1. ASSUME IInv, [Next]_vars, phase = "waiting", phase' = "idle"
      PROVE  IF answer' = "rejected" THEN disk' = disk
             ELSE \A f \in Files : newer[f] = {} =>
                     /\ disk'[f].exists = proposed[f].exists
                     /\ disk'[f].body = proposed[f].body
  <2>1. Accept \/ Reject
    BY <1>1, WhatEnds
  <2>2. CASE Reject
    BY <2>2 DEF Reject
  <2>3. CASE Accept
    <3>1. disk' = With(DOMAIN candidate) /\ answer' = "accepted"
      BY <1>1, <2>3 DEF Accept
    <3>2. ASSUME NEW f \in Files, newer[f] = {}
          PROVE  disk'[f].exists = proposed[f].exists /\ disk'[f].body = proposed[f].body
      <4>1. CASE f \in DOMAIN candidate
        <5>1. disk'[f] = Accepted(f) /\ candidate[f].after = proposed[f]
          BY <1>1, <3>1, <4>1 DEF With, IInv, CandidateIsProposal
        <5> QED
          BY <1>1, <4>1, <5>1, AcceptedFacts
      <4>2. CASE f \notin DOMAIN candidate
        BY <1>1, <3>1, <3>2, <4>2 DEF With, IInv, CandidateIsProposal
      <4> QED
        BY <4>1, <4>2
    <3> QED
      BY <3>1, <3>2
  <2> QED
    BY <2>1, <2>2, <2>3
<1>2. ASSUME IInv, [Next]_vars, phase = "working", phase' = "idle", NEW p \in Projects,
             disk'[p].revision # disk[p].revision
      PROVE  newer[p] = {}
  <2>1. p \in Files /\ disk[p].exists
    BY <1>2, ProjectsAreFiles DEF IInv, FilesAreSound, Sound
  <2>2. p \in DOMAIN after /\ Untouched(p)
    <3>1. CASE Stop
      BY <1>2, <3>1 DEF Stop
    <3>2. CASE IsRejected
      BY <1>2, <2>1, <3>2 DEF IsRejected, RolledBack
    <3>3. CASE Commit
      BY <1>2, <2>1, <3>3 DEF Commit, Committable, Untouched
    <3> QED
      BY <1>2, <3>1, <3>2, <3>3, WhatEnds
  <2> QED
    BY <1>2, <2>2, OwnTextIsNewest
<1>3. IInv /\ [Next]_vars =>
          [phase = "waiting" /\ phase' = "idle" =>
              IF answer' = "rejected" THEN disk' = disk
              ELSE \A f \in Files : newer[f] = {} =>
                      /\ disk'[f].exists = proposed[f].exists
                      /\ disk'[f].body = proposed[f].body]_vars
  BY <1>1
<1>4. IInv /\ [Next]_vars =>
          [phase = "working" /\ phase' = "idle" =>
              \A p \in Projects : disk'[p].revision # disk[p].revision => newer[p] = {}]_vars
  BY <1>2
<1>5. KInv /\ [Next]_vars =>
          [\A p \in Projects : committed[p] \subseteq disk'[p].body \/ p \in mistaken]_vars
  BY StepsKeep DEF StaysKept
<1>6. Spec => DecisionsAreDone
  BY <1>3, Invariance, PTL DEF Spec, DecisionsAreDone
<1>7. Spec => CommitsItsOwnText
  BY <1>4, Invariance, PTL DEF Spec, CommitsItsOwnText
<1>8. Spec => CommittedWorkIsKept
  BY <1>5, KeptInvariance, PTL DEF Spec, CommittedWorkIsKept
<1> QED
  BY <1>6, <1>7, <1>8 DEF DecisionsTakeEffect

=============================================================================
