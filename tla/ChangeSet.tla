------------------------------ MODULE ChangeSet ------------------------------
(***************************************************************************)
(* The files of a workspace while one agent run after another edits them:  *)
(* the run's change set (change_set.py), the candidate saved when a review *)
(* suspends it and restored when the review is accepted                    *)
(* (candidate_artifact.py, pending_review.py), the optimistic revisions of *)
(* project files (project_repository.py), and the user, who saves projects *)
(* from the page and edits files with other programs.                      *)
(*                                                                         *)
(* The agent's patches, commit, rollback, suspension and acceptance run on *)
(* the server's event loop without an await, as do the page's saves, so    *)
(* each is one step; what can split an acceptance is a crash.  A file's    *)
(* text is the set of edits it contains, and the revision a project's JSON *)
(* names; two texts are equal when their hashes are.                       *)
(*                                                                         *)
(* Left out: directories, binary files and what shell commands write       *)
(* (none of it is recorded); agents that create, delete or empty project   *)
(* files; restore_path_for_review (runs with durable reviews suspend       *)
(* before they could get there); the knowledge-graph refresh.              *)
(***************************************************************************)
EXTENDS Naturals, Functions

CONSTANTS
    Files,          \* paths
    Projects,       \* those that are .umlproj files
    ProjectFile,    \* the project the chat works on
    AgentEdits,     \* edits the agent may make, each once
    UserEdits,      \* edits the user may make, each once
    PageListens     \* whether the page is connected to the chat

ASSUME ProjectsAreFiles == Projects \subseteq Files /\ ProjectFile \in Projects
ASSUME AuthorsDiffer == AgentEdits \cap UserEdits = {}
ASSUME ListensOrNot == PageListens \in BOOLEAN

Edits == AgentEdits \cup UserEdits

\* Every step that raises a revision by one is of an edit, so they stay small.
File == [exists : BOOLEAN, body : SUBSET Edits, revision : Nat]
Missing == [exists |-> FALSE, body |-> {}, revision |-> 0]
Empty == [Missing EXCEPT !.exists = TRUE]
NewProject == [Empty EXCEPT !.revision = 1]

VARIABLES
    disk,           \* the files
    page,           \* the copy of each project that the page has open
    told,           \* the revision in a project_committed event on its way, or 0
    used,           \* the edits made so far
    phase,          \* of the current run
    before,         \* ChangeSet._before
    after,          \* ChangeSet._records: the text last written
    revisions,      \* ChangeSet._project_revisions
    candidate,      \* the artifact the waiting checkpoint refers to
    \* history, for the properties
    start,          \* the files as the run found them
    proposed,       \* the files as the run left them when it was suspended
    touched,        \* files that, since the run began, the user wrote, or an
                    \* acceptance that crashed or failed left written
    newer,          \* user edits to each file since the agent last wrote it
    committed,      \* edits in each project as last committed for the agent, less those lost
    mistaken,       \* projects whose copy on the page has a revision given to another text
    answer          \* the user's last decision

tracked == <<before, after, revisions>>
history == <<start, proposed, touched, newer, committed, mistaken, answer>>
vars == <<disk, page, told, used, phase, tracked, candidate, history>>

\* What is read of a file that may not exist, and hashed.
Text(f) == [body |-> f.body, revision |-> f.revision]

None == <<>>

\* d[k] = v, and d.setdefault(k, v).
Put(d, k, v) == [x \in DOMAIN d \cup {k} |-> IF x = k THEN v ELSE d[x]]
PutNew(d, k, v) == IF k \in DOMAIN d THEN d ELSE Put(d, k, v)

IsPartial(f, S) == DOMAIN f \subseteq S

TypeOK ==
    /\ disk \in [Files -> File]
    /\ page \in [Projects -> File]
    /\ told \in [Projects -> Nat]
    /\ used \subseteq Edits
    /\ phase \in {"idle", "working", "waiting"}
    /\ IsPartial(before, Files) /\ \A f \in DOMAIN before : before[f] \in File
    /\ IsPartial(after, Files) /\ \A f \in DOMAIN after : after[f].body \subseteq Edits
    /\ IsPartial(revisions, Projects) /\ \A p \in DOMAIN revisions : revisions[p] \in Nat
    /\ IsPartial(candidate, Files) /\ (candidate # None => phase = "waiting")
    /\ \A f \in DOMAIN candidate : candidate[f].before \in File /\ candidate[f].after \in File
    /\ start \in [Files -> File] /\ proposed \in [Files -> File]
    /\ touched \subseteq Files
    /\ newer \in [Files -> SUBSET UserEdits]
    /\ committed \in [Projects -> SUBSET Edits]
    /\ mistaken \subseteq Projects
    /\ answer \in {"none", "accepted", "rejected"}

\* One project per path, and other files that exist, empty, or not.
Init ==
    /\ disk \in {d \in [Files -> {Missing, Empty, NewProject}] :
                    \A f \in Files : d[f] = NewProject <=> f \in Projects}
    /\ page = [p \in Projects |-> Missing]
    /\ told = [p \in Projects |-> 0]
    /\ used = {}
    /\ phase = "idle"
    /\ before = None /\ after = None /\ revisions = None
    /\ candidate = None
    /\ start = disk /\ proposed = disk
    /\ touched = {}
    /\ newer = [f \in Files |-> {}]
    /\ committed = [p \in Projects |-> {}]
    /\ mistaken = {}
    /\ answer = "none"

-----------------------------------------------------------------------------
(* The user.                                                                *)

UserWrote(f, e) ==
    /\ used' = used \cup {e}
    /\ touched' = touched \cup {f}
    /\ newer' = [newer EXCEPT ![f] = @ \cup {e}]
    /\ UNCHANGED <<start, proposed, answer>>

PageOpens(p) ==
    /\ page[p] # disk[p]
    /\ page' = [page EXCEPT ![p] = disk[p]]
    /\ mistaken' = mistaken \ {p}
    /\ UNCHANGED <<told, disk, used, phase, tracked, candidate, start, proposed, touched, newer,
                   committed, answer>>

\* What the page makes of project_committed while it shows no review: it takes the
\* revision for its own copy. (That a review puts the candidate's diagrams on the
\* page, under the revision it has, is left out.)
Hears(p) == page[p].exists /\ phase # "waiting"

PageHears(p) ==
    /\ told[p] # 0
    /\ told' = [told EXCEPT ![p] = 0]
    /\ page' = [page EXCEPT ![p].revision = IF Hears(p) THEN told[p] ELSE @]
    /\ mistaken' = IF Hears(p) /\ ~ committed[p] \subseteq page[p].body THEN mistaken \cup {p}
                   ELSE mistaken
    /\ UNCHANGED <<disk, used, phase, tracked, candidate, start, proposed, touched, newer,
                   committed, answer>>

\* ProjectRepository.save with the revision the page has; a stale one is refused.
PageSaves(p, e) ==
    /\ page[p].exists
    /\ page[p].revision = disk[p].revision
    /\ disk' = [disk EXCEPT ![p] = [page[p] EXCEPT !.body = @ \cup {e}, !.revision = @ + 1]]
    /\ page' = [page EXCEPT ![p] = disk'[p]]
    /\ committed' = [committed EXCEPT ![p] = @ \cap disk'[p].body]
    /\ mistaken' = mistaken \ {p}
    /\ UserWrote(p, e)
    /\ UNCHANGED <<told, phase, tracked, candidate>>

\* With another program, which knows nothing of revisions.
UserEditsFile(f, e) ==
    /\ disk' = [disk EXCEPT ![f].exists = TRUE, ![f].body = @ \cup {e}]
    /\ UserWrote(f, e)
    /\ UNCHANGED <<page, told, phase, tracked, candidate, committed, mistaken>>

-----------------------------------------------------------------------------
(* The agent's run.                                                         *)

\* ChangeSet.begin
Begin ==
    /\ phase = "idle"
    /\ phase' = "working"
    /\ before' = None /\ after' = None
    /\ revisions' = Put(None, ProjectFile, disk[ProjectFile].revision)
    /\ start' = disk
    /\ touched' = {}
    /\ newer' = [f \in Files |-> {}]
    /\ UNCHANGED <<disk, page, told, used, candidate, proposed, committed, mistaken, answer>>

\* A bug: the snapshot follows every write.
Record_LastBefore(f, old, new) ==
    /\ before' = Put(before, f, old)
    /\ after' = Put(after, f, Text(new))
    /\ revisions' = IF f \in Projects THEN PutNew(revisions, f, new.revision) ELSE revisions

\* ChangeSet.record, after the tool has written. The first snapshot is kept. A
\* file that is back to its first text, or new and empty, is not a change.
Record(f, old, new) ==
    /\ before' = PutNew(before, f, old)
    /\ LET first == before'[f]
           unchanged == IF first.exists THEN Text(first) = Text(new)
                        ELSE Text(new) = Text(Missing)
       IN  after' = IF unchanged THEN Restrict(after, DOMAIN after \ {f})
                    ELSE Put(after, f, Text(new))
    /\ revisions' = IF f \in Projects THEN PutNew(revisions, f, new.revision) ELSE revisions

AgentWrites(f, new) ==
    /\ phase = "working"
    /\ disk' = [disk EXCEPT ![f] = new]
    /\ Record(f, disk[f], new)
    /\ newer' = [newer EXCEPT ![f] = {}]
    /\ UNCHANGED <<page, told, phase, candidate, start, proposed, touched, committed,
                   mistaken, answer>>

\* A patch to a file as it is now; of a project, it may raise the revision too.
AgentEditsFile(f, e) ==
    /\ disk[f].exists
    /\ \E raise \in IF f \in Projects THEN {0, 1} ELSE {0} :
          AgentWrites(f, [disk[f] EXCEPT !.body = @ \cup {e}, !.revision = @ + raise])
    /\ used' = used \cup {e}

AgentCreates(f, body) ==
    /\ f \notin Projects /\ ~ disk[f].exists
    /\ AgentWrites(f, [Empty EXCEPT !.body = body])
    /\ used' = used \cup body

AgentDeletes(f) ==
    /\ f \notin Projects /\ disk[f].exists
    /\ AgentWrites(f, Missing)
    /\ UNCHANGED used

-----------------------------------------------------------------------------
(* How a run ends.                                                          *)

Untouched(f) == Text(disk[f]) = after[f]

\* A bug: what the user wrote over the agent's text is overwritten.
RolledBack_Always == [f \in Files |-> IF f \in DOMAIN after THEN before[f] ELSE disk[f]]

\* ChangeSet.rollback: a file that exists with another text is skipped.
RolledBack == [f \in Files |->
    IF f \in DOMAIN after /\ (disk[f].exists => Untouched(f)) THEN before[f] ELSE disk[f]]

\* CandidateArtifactStore.capture
Captured == [f \in DOMAIN after |-> [before |-> before[f], after |-> disk[f]]]

\* suspend_review: the candidate is saved, then rolled back.
Suspend ==
    /\ phase = "working"
    /\ after # None
    /\ \A f \in DOMAIN after : Untouched(f)
    /\ candidate' = Captured
    /\ disk' = RolledBack
    /\ phase' = "waiting"
    /\ proposed' = disk
    /\ newer' = [f \in Files |-> {}]
    /\ UNCHANGED <<page, told, used, tracked, start, touched, committed, mistaken, answer>>

\* The run stops, or fails, in suspend_review or anywhere: its edits stay.
Stop ==
    /\ phase = "working"
    /\ phase' = "idle"
    /\ UNCHANGED <<disk, page, told, used, tracked, candidate, history>>

\* The check after the last step refuses the result.
IsRejected ==
    /\ phase = "working"
    /\ phase' = "idle"
    /\ disk' = RolledBack
    /\ UNCHANGED <<page, told, used, tracked, candidate, history>>

\* A bug: a file that is not as the agent left it is committed as its own.
Committable_AnyText(text, recorded, expected) == text.revision \in {expected, expected + 1}

\* What commit() asks of a project: that it has the text recorded, and, when the
\* one revision the agent may have added is taken back, the revision captured.
Committable(text, recorded, expected) ==
    /\ text = recorded
    /\ text.revision \in {expected, expected + 1}

CommittedTo(file, expected) == [file EXCEPT !.revision = expected + 1]

\* The page may already have the revision that a commit gives to another text, from the
\* user's save that the commit forgave, or from a text of the agent that was rolled back.
NowCommitted(done) ==
    /\ committed' = [p \in Projects |-> IF p \in done THEN disk'[p].body ELSE committed[p]]
    /\ mistaken' = mistaken \cup {p \in done : /\ page[p].revision >= disk'[p].revision
                                              /\ ~ disk'[p].body \subseteq page[p].body}

Commit ==
    LET mine == DOMAIN after \cap Projects
        fine == {p \in mine : Committable(Text(disk[p]), after[p], revisions[p])}
    IN  /\ phase = "working"
        /\ phase' = "idle"
        \* Up to the first conflict, in the order the files were first changed.
        /\ \E done \in IF fine = mine THEN {mine} ELSE SUBSET fine :
              /\ disk' = [f \in Files |-> IF f \in done THEN CommittedTo(disk[f], revisions[f])
                                          ELSE disk[f]]
              /\ NowCommitted(done)
        \* Nothing is sent of a commit that failed.
        /\ told' = [p \in Projects |-> IF PageListens /\ fine = mine /\ p \in mine
                                       THEN disk'[p].revision ELSE told[p]]
        /\ UNCHANGED <<page, used, tracked, candidate, start, proposed, touched, newer, answer>>

-----------------------------------------------------------------------------
(* The user's decision.                                                     *)

\* CandidateArtifactStore.restore, the check before anything is written.
Restorable == \A f \in DOMAIN candidate :
    /\ disk[f].exists = candidate[f].before.exists
    /\ disk[f].exists => Text(disk[f]) = Text(candidate[f].before)

\* A bug: the checkpoint goes on referring to the candidate.
Decided_KeepsCandidate == phase' = "idle" /\ UNCHANGED candidate

Decided == phase' = "idle" /\ candidate' = None

\* The change set of apply_review_candidate captures the revisions first.
AcceptedProjects == DOMAIN candidate \cap Projects
Acceptable == {p \in AcceptedProjects :
    candidate[p].after.revision \in {disk[p].revision, disk[p].revision + 1}}
Accepted(f) == IF f \in Projects THEN CommittedTo(candidate[f].after, disk[f].revision)
               ELSE candidate[f].after
With(files) == [f \in Files |-> IF f \in files THEN Accepted(f) ELSE disk[f]]

\* What the rollback skips: projects that their commit gave another text.
Kept(done) == {p \in done : Accepted(p) # candidate[p].after}

\* apply_review_candidate: the files are written, and the projects committed, up to
\* the first whose revision is not that found or one more; then all is rolled back.
Accept ==
    /\ phase = "waiting"
    /\ Restorable
    /\ IF Acceptable = AcceptedProjects
       THEN /\ disk' = With(DOMAIN candidate)
            /\ Decided
            /\ answer' = "accepted"
            /\ NowCommitted(AcceptedProjects)
            /\ UNCHANGED touched
       ELSE \E done \in SUBSET Acceptable :
            /\ disk' = With(Kept(done))
            /\ touched' = touched \cup (Kept(done) \cap Projects)
            /\ NowCommitted(Kept(done) \cap Projects)
            /\ UNCHANGED <<phase, candidate, answer>>
    /\ UNCHANGED <<page, told, used, tracked, start, proposed, newer>>

\* The process dies when some of the files are written, or all, and some committed
\* (between one's normalisation and its save is left out). The review still waits.
CrashInAccept ==
    /\ phase = "waiting"
    /\ Restorable
    /\ \/ /\ \E written \in SUBSET DOMAIN candidate :
                /\ disk' = [f \in Files |-> IF f \in written THEN candidate[f].after ELSE disk[f]]
                /\ touched' = touched \cup written
          /\ UNCHANGED <<committed, mistaken>>
       \/ \E done \in SUBSET Acceptable :
             /\ disk' = [f \in Files |-> CASE f \in done -> Accepted(f)
                                            [] f \in DOMAIN candidate \ done -> candidate[f].after
                                            [] OTHER -> disk[f]]
             /\ touched' = touched \cup DOMAIN candidate
             /\ NowCommitted(done)
    /\ UNCHANGED <<page, told, used, phase, tracked, candidate, start, proposed, newer, answer>>

Reject ==
    /\ phase = "waiting"
    /\ Decided
    /\ answer' = "rejected"
    /\ UNCHANGED <<disk, page, told, used, tracked, start, proposed, touched, newer, committed,
                   mistaken>>

-----------------------------------------------------------------------------
Next ==
    \/ \E e \in UserEdits \ used :
          \/ \E p \in Projects : PageSaves(p, e)
          \/ \E f \in Files : UserEditsFile(f, e)
    \/ \E p \in Projects : PageOpens(p) \/ PageHears(p)
    \/ Begin
    \/ \E f \in Files :
          \/ \E e \in AgentEdits \ used : AgentEditsFile(f, e) \/ AgentCreates(f, {e})
          \/ AgentCreates(f, {}) \/ AgentDeletes(f)
    \/ Suspend \/ Stop \/ IsRejected \/ Commit
    \/ Accept \/ CrashInAccept \/ Reject

Spec == Init /\ [][Next]_vars

-----------------------------------------------------------------------------
(* Properties.                                                              *)

\* While a review waits, every file that nobody else wrote has the text the run
\* found: whatever it edited, created and deleted, in how many patches, is undone
\* (docs/chat-task-lifecycle.md:29, candidate saved and project restored).
RestoredWhileWaiting ==
    phase = "waiting" => \A f \in Files \ touched : Text(disk[f]) = Text(start[f])

\* Rollback, suspension, commit and acceptance never remove from a file what the
\* user wrote to it after the agent's last write (change_set.py:277, the skip).
NewerUserEditsSurvive == [][
    used' = used /\ ~ (phase = "working" /\ phase' = "working") =>
        \A f \in Files : newer[f] \cap disk[f].body \subseteq disk'[f].body]_vars

\* An acceptance gives every file the user has not written since the suspension
\* what the agent proposed for it, deletions included, however the files came to be as
\* they are; a rejection writes nothing (candidate_artifact.py:57 and :133, one the
\* inverse of the other).
DecisionsAreDone == [][
    phase = "waiting" /\ phase' = "idle" =>
        IF answer' = "rejected" THEN disk' = disk
        ELSE \A f \in Files : newer[f] = {} =>
                /\ disk'[f].exists = proposed[f].exists
                /\ disk'[f].body = proposed[f].body]_vars

\* What is committed as the agent's is no text that anybody else wrote last
\* (change_set.py:189): a commit that raises a revision follows the agent's write.
CommitsItsOwnText == [][
    phase = "working" /\ phase' = "idle" =>
        \A p \in Projects : disk'[p].revision # disk[p].revision => newer[p] = {}]_vars

\* What was committed for the agent stays in the project, through rollbacks, suspensions
\* and acceptances of later runs and whatever the user writes: a page that has not got it is
\* refused its save (project_repository.py:26), unless its copy has, by mistake, a revision
\* that the code gave to another text.
CommittedWorkIsKept == [][
    \A p \in Projects : committed[p] \subseteq disk'[p].body \/ p \in mistaken]_vars

\* What was decided takes effect as decided, and stays: the proposal on acceptance, the
\* agent's own text on a commit.
DecisionsTakeEffect == DecisionsAreDone /\ CommitsItsOwnText /\ CommittedWorkIsKept

=============================================================================
