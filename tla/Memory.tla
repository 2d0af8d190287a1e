------------------------------- MODULE Memory -------------------------------
(***************************************************************************)
(* The memory extension (extensions/memory): what past tasks taught about  *)
(* a project, each memory bound to the versions of the files it was drawn  *)
(* from.  A run recalls memories into its prompt, observes what its tools  *)
(* read and change, and drops from the prompt what no longer holds; when   *)
(* it has ended its memories are extracted in the background, while the    *)
(* next run is already changing the files.                                 *)
(*                                                                         *)
(* One project.  A version stands for the hash of a file, for "missing" or *)
(* "unavailable".  The relevance of a memory is an arbitrary choice; scopes *)
(* and dates of validity are left out, importance, decay and pins with what *)
(* they protect, and the table of past versions, which nothing here reads.  *)
(***************************************************************************)
EXTENDS Naturals, FiniteSets

CONSTANTS
    Files,      \* resources: files, and the environment the program runs in
    Observed,   \* those looked at each time: the project file, the environment
    Versions, Ids, Archives, MaxEntries

VARIABLES
    disk,       \* the version of each file
    ledger,     \* memory_resources: the version last observed
    memories,   \* the table
    run,        \* MemoryRunState and the prompt of the run under way
    archives    \* the background archives

memoryVars == <<disk, ledger, memories, run, archives>>

Unknown == 0
Refs == [Files -> Versions \cup {Unknown}]      \* sources; Unknown: not a source
NoRefs == [f \in Files |-> Unknown]
Sources(refs) == {f \in Files : refs[f] # Unknown}

Kinds == {"insight", "durable"}
NoMemory == [kind |-> "none", status |-> "none", refs |-> NoRefs, confirmed |-> FALSE, legacy |-> FALSE]
Memories == [kind : Kinds, status : {"active", "needs_review"}, refs : Refs, confirmed : BOOLEAN, legacy : BOOLEAN]
NoArchive == [stage |-> "none", catalog |-> NoRefs]
IdleRun == [stage |-> "idle", resources |-> NoRefs, dirty |-> FALSE, prompt |-> {},
            tool |-> {}, changed |-> FALSE, edited |-> {}]

TypeOK ==
    /\ disk \in [Files -> Versions] /\ ledger \in Refs
    /\ memories \in [Ids -> Memories \cup {NoMemory}]
    /\ archives \in [Archives -> [stage : {"none", "scheduled", "extracting"}, catalog : Refs]]
    /\ run.stage \in {"idle", "working", "tool", "asked"}
    /\ run.resources \in Refs /\ run.dirty \in BOOLEAN /\ run.prompt \subseteq Refs
    /\ run.tool \subseteq Files /\ run.changed \in BOOLEAN /\ run.edited \subseteq Files

\* A database from before the ledger may hold an insight without sources.
Init ==
    /\ disk \in [Files -> Versions] /\ ledger = NoRefs
    /\ \E old \in {{}} \cup {{i} : i \in Ids} :
        memories = [i \in Ids |-> IF i \in old
            THEN [NoMemory EXCEPT !.kind = "insight", !.status = "active", !.legacy = TRUE]
            ELSE NoMemory]
    /\ run = IdleRun
    /\ archives = [a \in Archives |-> NoArchive]

Least(a, b) == IF a < b THEN a ELSE b
Stored == {i \in Ids : memories[i] # NoMemory}

-----------------------------------------------------------------------------
(* KnowledgeLedger.                                                          *)

Mismatched(m, incoming) ==
    \E f \in Sources(incoming) : m.refs[f] \notin {Unknown, incoming[f]}
Unbound(m, incoming, known, isChange) ==
    /\ isChange /\ m.kind = "insight" /\ Sources(m.refs) = {}
    /\ \E f \in Sources(incoming) : incoming[f] # known[f]

\* What observe() makes of the memories.
Doubted(m, incoming, known, isChange) ==
    Mismatched(m, incoming) \/ Unbound(m, incoming, known, isChange)

AfterObserve(table, incoming, isChange) ==
    [i \in Ids |->
        IF table[i] # NoMemory /\ Doubted(table[i], incoming, ledger, isChange)
        THEN [table[i] EXCEPT !.status = "needs_review", !.legacy = FALSE] ELSE table[i]]
LedgerAfter(incoming) ==
    [f \in Files |-> IF incoming[f] = Unknown THEN ledger[f] ELSE incoming[f]]

\* _current_resources(): what is always observed and the files some memory is
\* drawn from, as they are.
Current ==
    [f \in Files |-> IF f \in Observed \/ \E i \in Stored : f \in Sources(memories[i].refs)
                     THEN disk[f] ELSE Unknown]

\* migrate_legacy().
Migrated(table) ==
    [i \in Ids |-> IF table[i].legacy /\ table[i].kind = "insight"
                   THEN [table[i] EXCEPT !.status = "needs_review", !.legacy = FALSE] ELSE table[i]]

\* select_current().
Agrees(m, known) == \A f \in Sources(m.refs) : m.refs[f] = known[f]
Recallable(table, known) == {i \in Ids : table[i].status = "active" /\ Agrees(table[i], known)}

\* SQLiteMemoryProvider.recall(): what is found of it goes into the prompt.
Recall(next) ==
    LET table == AfterObserve(Migrated(memories), Current, FALSE)
        known == LedgerAfter(Current)
    IN  /\ memories' = table /\ ledger' = known
        /\ \E found \in SUBSET Recallable(table, known) :
            run' = [next EXCEPT !.prompt = {table[i].refs : i \in found}]

-----------------------------------------------------------------------------
(* The run: prepare(), run_start(), tool_after(), model_before(),            *)
(* task_after().                                                             *)

Prepare ==
    /\ run.stage = "idle"
    /\ \/ Recall([IdleRun EXCEPT !.stage = "working"])
       \/ run' = [IdleRun EXCEPT !.stage = "working"] /\ UNCHANGED <<memories, ledger>>   \* it failed
    /\ UNCHANGED <<disk, archives>>

\* A tool reads a file, or changes it and reports the change, whether or not it
\* also reports success.  A change it does not report is as one of an editor's
\* (EditedOutside).
Tool(f) ==
    /\ run.stage \in {"working", "asked"}
    /\ \/ disk' = disk /\ run' = [run EXCEPT !.stage = "tool", !.tool = {f}]
       \/ \E v \in Versions \ {disk[f]} :
            /\ disk' = [disk EXCEPT ![f] = v]
            /\ run' = [run EXCEPT !.stage = "tool", !.tool = {f}, !.changed = TRUE,
                                  !.edited = IF run.prompt = {} THEN {} ELSE @ \cup {f}]
    /\ UNCHANGED <<ledger, memories, archives>>

\* The hash is taken now.  An observation that fails leaves only the dirty mark.
Dirty(observed, affected) == run.dirty \/ run.changed \/ (observed /\ affected)

ToolAfter ==
    LET incoming == [f \in Files |-> IF f \in run.tool THEN disk[f] ELSE Unknown]
        table == AfterObserve(memories, incoming, run.changed)
        affected == \E i \in Ids : table[i].status # memories[i].status
        back == [run EXCEPT !.stage = "working", !.tool = {}, !.changed = FALSE]
    IN  /\ run.stage = "tool"
        /\ \/ /\ memories' = table /\ ledger' = LedgerAfter(incoming)
              /\ run' = [back EXCEPT
                    !.resources = [f \in Files |-> IF incoming[f] = Unknown THEN @[f] ELSE incoming[f]],
                    !.dirty = Dirty(TRUE, affected)]
           \/ run' = [back EXCEPT !.dirty = Dirty(FALSE, FALSE)] /\ UNCHANGED <<memories, ledger>>
        /\ UNCHANGED <<disk, archives>>

\* The memories are looked up again, and when that fails they go.
ModelBefore ==
    LET asked == [run EXCEPT !.stage = "asked", !.dirty = FALSE, !.edited = {}]
    IN  /\ run.stage = "working"
        /\ IF ~run.dirty \/ run.prompt = {}
           THEN run' = [run EXCEPT !.stage = "asked", !.dirty = FALSE] /\ UNCHANGED <<memories, ledger>>
           ELSE \/ Recall(asked)
                \/ run' = [asked EXCEPT !.prompt = {}] /\ UNCHANGED <<memories, ledger>>
        /\ UNCHANGED <<disk, archives>>

\* What has been learnt is archived with what was observed until now.
TaskAfter ==
    /\ run.stage = "asked"
    /\ run' = IdleRun
    /\ \/ \E a \in Archives :
            /\ archives[a] = NoArchive
            /\ archives' = [archives EXCEPT ![a] = [stage |-> "scheduled", catalog |-> run.resources]]
       \/ UNCHANGED archives
    /\ UNCHANGED <<disk, ledger, memories>>

-----------------------------------------------------------------------------
(* SQLiteMemoryProvider.archive().                                           *)

\* maintenance(): of more than MaxEntries memories some of the excess may go.
Pruned(table) ==
    LET there == {i \in Ids : table[i] # NoMemory}
    IN  {[i \in Ids |-> IF i \in gone THEN NoMemory ELSE table[i]] :
            gone \in {some \in SUBSET there : Cardinality(there \ some) >= Least(MaxEntries, Cardinality(there))}}

ArchiveStarts(a) ==
    LET table == AfterObserve(memories, Current, FALSE)
    IN  /\ archives[a].stage = "scheduled"
        /\ memories' \in Pruned(table)
        /\ ledger' = LedgerAfter(Current)
        /\ archives' = [archives EXCEPT ![a].stage = "extracting"]
        /\ UNCHANGED <<disk, run>>

Candidate(kind, refs) ==
    [NoMemory EXCEPT !.kind = kind, !.refs = refs,
        !.status = IF \E f \in Sources(refs) : ledger[f] # refs[f] THEN "needs_review" ELSE "active"]

\* Which existing memory a new one may take the place of.
\* A bug: a late archive replaces whatever is there.
ReplaceableByStale(old, new) == ~(old.confirmed /\ (old.kind = "durable" \/ old.status = "active"))
Replaceable(old, new) ==
    /\ ~(old.status = "active" /\ new.status = "needs_review")
    /\ ~(old.confirmed /\ (old.kind = "durable" \/ old.status = "active"))

\* remember(), one memory extracted.  An insight replaces that of its subject and
\* begins anew; a durable memory is merged into a similar one.
Remember(kind, refs) ==
    LET new == Candidate(kind, refs)
        same == {i \in Ids : memories[i].kind = kind}
    IN  \/ \E i \in same :
            memories' = IF Replaceable(memories[i], new) THEN [memories EXCEPT ![i] = new] ELSE memories
        \/ /\ kind = "durable" \/ same = {}
           /\ \E i \in Ids \ Stored : memories' = [memories EXCEPT ![i] = new]

ArchiveStores(a) ==
    /\ archives[a].stage = "extracting"
    /\ \/ \E kind \in Kinds, refs \in Refs :
            /\ \A f \in Files : refs[f] \in {Unknown, archives[a].catalog[f]}
            /\ Remember(kind, refs)
       \/ UNCHANGED memories                    \* nothing extracted, or rejected
    /\ archives' = [archives EXCEPT ![a] = NoArchive]
    /\ UNCHANGED <<disk, ledger, run>>

-----------------------------------------------------------------------------
(* The user and the world.                                                   *)

EditedOutside(f) ==
    /\ \E v \in Versions \ {disk[f]} : disk' = [disk EXCEPT ![f] = v]
    /\ UNCHANGED <<ledger, memories, run, archives>>

\* observe(memory_validated) of files as the host says they are.
Validate(i, stated) ==
    LET incoming == [f \in Files |-> IF stated[f] = Unknown THEN Unknown ELSE disk[f]]
        table == AfterObserve(memories, incoming, FALSE)
        known == LedgerAfter(incoming)
        sources == Sources(table[i].refs)
    IN  /\ i \in Stored
        /\ ledger' = known
        /\ memories' =
            IF stated # incoming \/ ~(sources \subseteq Sources(incoming)) THEN table
            ELSE [table EXCEPT ![i] = [@ EXCEPT !.status = "active", !.confirmed = TRUE, !.legacy = FALSE,
                    !.refs = [f \in Files |-> IF f \in sources THEN known[f] ELSE Unknown]]]
        /\ UNCHANGED <<disk, run, archives>>

\* reinforce().
Confirm(i) ==
    /\ memories[i].status = "active" /\ Agrees(memories[i], ledger)
    /\ memories' = [memories EXCEPT ![i].confirmed = TRUE, ![i].legacy = FALSE]
    /\ UNCHANGED <<disk, ledger, run, archives>>

Forget(i) ==
    /\ i \in Stored /\ memories' = [memories EXCEPT ![i] = NoMemory]
    /\ UNCHANGED <<disk, ledger, run, archives>>

Next ==
    \/ Prepare \/ ToolAfter \/ ModelBefore \/ TaskAfter
    \/ \E f \in Files : Tool(f) \/ EditedOutside(f)
    \/ \E a \in Archives : ArchiveStarts(a) \/ ArchiveStores(a)
    \/ \E i \in Ids : Confirm(i) \/ Forget(i)
    \/ \E i \in Ids, stated \in Refs : Validate(i, stated)

Spec == Init /\ [][Next]_memoryVars

-----------------------------------------------------------------------------
(* A memory in force was drawn from the files as they were last observed,   *)
(* however late its archive came and whoever observed the change.            *)
ActiveMatchesLedger == \A i \in Ids : memories[i].status = "active" => Agrees(memories[i], ledger)

(* The model is not told what a file said before a tool of the run reported *)
(* that it changed it.                                                       *)
PromptFollowsEdits == run.stage = "asked" =>
    \A refs \in run.prompt : Sources(refs) \cap run.edited = {}

RecallsCurrent == run'.prompt # run.prompt =>
    \A refs \in run'.prompt : Agrees([refs |-> refs], disk)

(* What is recalled holds of the files as they are at that moment.          *)
RecallIsCurrent == [][RecallsCurrent]_memoryVars

Holds == ledger' = ledger => \A i \in Ids :
    LET old == memories[i]
        new == memories'[i]
    IN  old.status = "active" /\ ~old.legacy /\ new # NoMemory
            => new.status = "active" /\ (old.confirmed => new.confirmed)

(* A memory in force stays so until one of its files is seen to change: an  *)
(* archive that comes late puts nothing outdated in its place, and nothing   *)
(* unconfirmed in the place of what was confirmed.                           *)
HoldsUntilContradicted == [][Holds]_memoryVars

=============================================================================
