---------------------------- MODULE PluginRuntime ----------------------------
(***************************************************************************)
(* The controlled refresh of plugins (core/plugin_runtime.py): plugins     *)
(* found in a directory are added to the running server, those it has keep *)
(* the code it imported.  A refresh scans and imports in a thread, under a *)
(* lock of threads, writes the plan to the archive in another and then     *)
(* publishes; the request that asked may be canceled meanwhile, and then   *)
(* its thread goes on by itself while the next refresh begins.             *)
(*                                                                         *)
(* A plugin is the version of its code: 0 is none, and some versions fail  *)
(* to import.  Python imports a module once.  Plugins compiled into the    *)
(* server, settings, routers and the contributions' order (HookDispatch    *)
(* has what is made of them) are left out.                                 *)
(***************************************************************************)
EXTENDS Naturals, FiniteSets

CONSTANTS Plugins, Versions, Broken, Requests

Code == Versions \cup {0}
Catalogs == [Plugins -> Code]

VARIABLES
    disk,       \* the plugin directories
    imported,   \* the code in sys.modules
    baseline,   \* _code_baseline: the code it has tried
    active,     \* the plan in force
    archive,    \* plans in the history directory
    asked,      \* the refresh requests
    turn,       \* who has the service's lock
    thread,     \* the threads they started
    importing,  \* who has _candidate_lock
    torn        \* observer: code that changed between its scan and its import

pluginVars == <<disk, imported, baseline, active, archive, asked, turn, thread, importing, torn>>

Nobody == "nobody"
Empty == [p \in Plugins |-> 0]
NoThread == [does |-> "nothing", plan |-> Empty]

TypeOK ==
    /\ disk \in Catalogs /\ imported \in Catalogs /\ baseline \in Catalogs
    /\ active \in Catalogs /\ archive \subseteq Catalogs
    /\ asked \in [Requests -> {"no", "queued", "building", "writing", "published", "unchanged",
                               "rejected", "cancelled"}]
    /\ turn \in Requests \cup {Nobody} /\ importing \in Requests \cup {Nobody}
    /\ \A r \in Requests :
        /\ thread[r].does \in {"nothing", "queue", "import", "imported", "failed", "write", "written"}
        /\ thread[r].plan \in Catalogs
    /\ torn \subseteq Plugins

Init ==
    /\ disk = Empty /\ imported = Empty /\ baseline = Empty /\ torn = {}
    /\ active = Empty /\ archive = {Empty}
    /\ asked = [r \in Requests |-> "no"] /\ thread = [r \in Requests |-> NoThread]
    /\ turn = Nobody /\ importing = Nobody

-----------------------------------------------------------------------------
\* Somebody installs, updates or removes a plugin.
Install(p, v) ==
    /\ disk[p] # v
    /\ disk' = [disk EXCEPT ![p] = v]
    /\ torn' = IF importing # Nobody /\ thread[importing].plan[p] # imported[p]
               THEN torn \cup {p} ELSE torn
    /\ UNCHANGED <<imported, baseline, active, archive, asked, turn, thread, importing>>

-----------------------------------------------------------------------------
(* refresh()                                                                 *)

Ask(r) ==
    /\ asked[r] = "no"
    /\ asked' = [asked EXCEPT ![r] = "queued"]
    /\ UNCHANGED <<disk, imported, baseline, active, archive, turn, thread, importing, torn>>

TakesTurn(r) ==
    /\ asked[r] = "queued" /\ turn = Nobody
    /\ turn' = r
    /\ asked' = [asked EXCEPT ![r] = "building"]
    /\ thread' = [thread EXCEPT ![r].does = "queue"]
    /\ UNCHANGED <<disk, imported, baseline, active, archive, importing, torn>>

\* The request is canceled; async with gives the lock back, the thread goes on.
Cancel(r) ==
    /\ asked[r] \in {"queued", "building", "writing"}
    /\ asked' = [asked EXCEPT ![r] = "cancelled"]
    /\ turn' = IF turn = r THEN Nobody ELSE turn
    /\ UNCHANGED <<disk, imported, baseline, active, archive, thread, importing, torn>>

Answers(r, result) ==
    /\ asked' = [asked EXCEPT ![r] = result]
    /\ turn' = Nobody
    /\ thread' = [thread EXCEPT ![r] = NoThread]

\* _candidate() has returned, or raised.
Built(r) ==
    /\ asked[r] = "building" /\ thread[r].does \in {"imported", "failed"}
    /\ IF thread[r].does = "failed" THEN Answers(r, "rejected")
       ELSE IF thread[r].plan = active THEN Answers(r, "unchanged")
       ELSE /\ asked' = [asked EXCEPT ![r] = "writing"]
            /\ thread' = [thread EXCEPT ![r].does = "write"]
            /\ UNCHANGED turn
    /\ UNCHANGED <<disk, imported, baseline, active, archive, importing, torn>>

\* The plan is in the archive: it becomes the active one.
Written(r) == thread[r].does = "written"
Publish(r) ==
    /\ asked[r] = "writing" /\ Written(r)
    /\ active' = thread[r].plan
    /\ Answers(r, "published")
    /\ UNCHANGED <<disk, imported, baseline, archive, importing, torn>>

-----------------------------------------------------------------------------
(* The threads.                                                              *)

\* What makes _build_candidate() refuse before it imports anything.
\* A bug: code is compared with the active plan only.
ChangedSincePlan(p) == active[p] # 0 /\ disk[p] # active[p]
Changed(p) ==
    \/ active[p] # 0 /\ disk[p] # active[p]
    \/ disk[p] # 0 /\ baseline[p] # 0 /\ disk[p] # baseline[p]

Scan(r) ==
    /\ thread[r].does = "queue" /\ importing = Nobody
    /\ IF \E p \in Plugins : Changed(p)
       THEN /\ thread' = [thread EXCEPT ![r].does = "failed"]
            /\ UNCHANGED <<importing, baseline>>
       ELSE /\ thread' = [thread EXCEPT ![r] = [does |-> "import", plan |-> disk]]
            /\ baseline' = [p \in Plugins |-> IF disk[p] = 0 THEN baseline[p] ELSE disk[p]]
            /\ importing' = r
    /\ UNCHANGED <<disk, imported, active, archive, asked, turn, torn>>

\* build_plan(): a module that is there is not read again, one that fails leaves nothing.
Import(r) ==
    LET wanted == {p \in Plugins : thread[r].plan[p] # 0}
        fails == {p \in wanted : imported[p] = 0 /\ <<p, disk[p]>> \in Broken \cup {<<p, 0>>}}
    IN  /\ importing = r
        /\ imported' = [p \in Plugins |->
                            IF p \in wanted \ fails /\ imported[p] = 0 THEN disk[p] ELSE imported[p]]
        /\ thread' = [thread EXCEPT ![r].does = IF fails = {} THEN "imported" ELSE "failed"]
        /\ importing' = Nobody
        /\ UNCHANGED <<disk, baseline, active, archive, asked, turn, torn>>

\* ExecutionPlan.write(); it may fail.
Write(r) ==
    /\ thread[r].does = "write"
    /\ archive' = archive \cup {thread[r].plan}
    /\ thread' = [thread EXCEPT ![r].does = "written"]
    /\ UNCHANGED <<disk, imported, baseline, active, asked, turn, importing, torn>>
WriteFails(r) ==
    /\ asked[r] = "writing" /\ thread[r].does = "write"
    /\ Answers(r, "rejected")
    /\ UNCHANGED <<disk, imported, baseline, active, archive, importing, torn>>

Next ==
    \/ \E p \in Plugins, v \in Code : Install(p, v)
    \/ \E r \in Requests :
        \/ Ask(r) \/ TakesTurn(r) \/ Cancel(r) \/ Built(r) \/ Publish(r)
        \/ Scan(r) \/ Import(r) \/ Write(r) \/ WriteFails(r)

Spec == Init /\ [][Next]_pluginVars

-----------------------------------------------------------------------------
(* The plan in force names the code that runs: no refresh, canceled and     *)
(* refused ones included, leaves modules behind that a later one takes for  *)
(* the code it scanned.  Code that changes under an import is excepted.      *)
ActiveIsWhatRuns == \A p \in Plugins \ torn : active[p] # 0 => imported[p] = active[p]

(* Every plan that was ever in force can be found in the archive.            *)
ActiveIsArchived == active \in archive

Adds == \A p \in Plugins : active[p] # 0 => active'[p] = active[p]

(* A refresh adds; what a running task may use keeps its version.            *)
AddsOnly == [][Adds]_active

=============================================================================
