---------------------------- MODULE MCExtensions ----------------------------
(* Small instances of what the extensions keep beside the project, side by  *)
(* side: the memories, the knowledge graph of the saved project and the     *)
(* facts of the design contract.  "part" says which of them a behaviour is  *)
(* about; the variables of the others stay at 0.                             *)
EXTENDS Naturals, Sequences, TLC

CONSTANTS x, m1, m2, t1, t2, v1, v2
Symmetry == Permutations({m1, m2}) \cup Permutations({t1, t2}) \cup Permutations({v1, v2})

VARIABLES
    part,
    disk, ledger, memories, run, archives,
    project, source, newer, nodes, edges, rebuild, compare, settled,
    artifacts, gate, manifest, facts, sync, unprojected, interrupted

Mem == INSTANCE Memory
    WITH Files <- {"f"}, Observed <- {}, Versions <- {v1, v2}, Ids <- {m1, m2}, Archives <- {"a"}, MaxEntries
         <- 1

(* Two class diagrams, of which one or the other shows a class, and a       *)
(* sequence diagram with a fragment; each save takes one of them away.       *)
Saved == {"a" :> {x} @@ "b" :> {}, "b" :> {x} @@ "s" :> {x, "frame"}}

Graph == INSTANCE DesignGraph
    WITH Classes <- {x}, Coded <- {x}, Fragments <- {"frame"}, ClassDiagrams <- {"a",
         "b"}, SequenceDiagrams <- {"s"}, Projects <- Saved, Order <- <<"a", "b", "s">>, Threads <- {t1, t2}

(* A class that two sources may define, in a design that may not parse.      *)
Parsed(names) == [is |-> "ready", names |-> names]
Artifacts ==
    "design" :> {[is |-> "broken", names |-> {}], Parsed({"A"})}
    @@ "s1" :> {Parsed({"A"})}
    @@ "s2" :> {[is |-> "absent", names |-> {}], Parsed({"A"}), Parsed({"A", "B"})}

Contract == INSTANCE DesignContract
    WITH Names <- {"A", "B"}, Sources <- {"s1", "s2"}, Contents <- Artifacts, Changes <-
         {{"design", "s2"}}, Order <- <<"design", "s1", "s2">>, disk <- artifacts,
         nodes <- facts

memoryVars == <<disk, ledger, memories, run, archives>>
graphVars == <<project, source, newer, nodes, edges, rebuild, compare, settled>>
contractVars == <<artifacts, gate, manifest, facts, sync, unprojected, interrupted>>
vars == <<part, memoryVars, graphVars, contractVars>>

Init ==
    /\ part \in {"memory", "graph", "contract"}
    /\ IF part = "memory" THEN Mem!Init
       ELSE disk = 0 /\ ledger = 0 /\ memories = 0 /\ run = 0 /\ archives = 0
    /\ IF part = "graph" THEN Graph!Init
       ELSE project = 0 /\ source = 0 /\ newer = 0 /\ nodes = 0 /\ edges = 0 /\ rebuild = 0
            /\ compare = 0 /\ settled = 0
    /\ IF part = "contract" THEN Contract!Init
       ELSE artifacts = 0 /\ gate = 0 /\ manifest = 0 /\ facts = 0 /\ sync = 0
            /\ unprojected = 0 /\ interrupted = 0

Is(p) == part = p /\ UNCHANGED part

Rest(p) ==
    /\ IF p = "memory" THEN TRUE ELSE UNCHANGED memoryVars
    /\ IF p = "graph" THEN TRUE ELSE UNCHANGED graphVars
    /\ IF p = "contract" THEN TRUE ELSE UNCHANGED contractVars

Next ==
    \/ Is("memory") /\ Mem!Next /\ Rest("memory")
    \/ Is("graph") /\ Graph!Next /\ Rest("graph")
    \/ Is("contract") /\ Contract!Next /\ Rest("contract")

Spec == Init /\ [][Next]_vars

-----------------------------------------------------------------------------
(* What is recalled holds of the files as they are at that moment and is    *)
(* recalled anew after the run edits them; a memory in force agrees with    *)
(* what was last seen of its files, and stays in force until one of them is *)
(* seen to change, however late an archive comes.                            *)
MemoriesAreCurrent ==
    /\ [](part = "memory" =>
           /\ Mem!TypeOK /\ Mem!ActiveMatchesLedger
           /\ Mem!PromptFollowsEdits)
    /\ [][part = "memory" =>
           /\ Mem!RecallsCurrent /\ Mem!Holds]_vars

(* Whatever overlapping and interrupted rebuilds did, after two further     *)
(* rebuilds of the saved project, each alone, the graph holds everything    *)
(* the project shows, no diagram it has lost and no class or lifeline below *)
(* one that no longer shows it (one such rebuild brings the references of   *)
(* lifelines to classes); and a comparison that ran alone names the classes *)
(* without implementation.                                                   *)
GraphFollowsTheProject ==
    /\ [](part = "graph" =>
           /\ Graph!TypeOK /\ Graph!SettledHoldsAll
           /\ Graph!SettledShowsNoMore /\ Graph!ReferencesFollow)
    /\ [][part = "graph" => Graph!ReportsTruth]_vars

(* A change is committed only on a verdict that was delivered and, where a  *)
(* warning can be put to the user, with the user's acceptance of it; what   *)
(* the manifest calls up to date is what the graph was made from, an        *)
(* uninterrupted projection is complete, and a parse error removes nothing  *)
(* but what no longer exists.                                                *)
ContractIsKept ==
    /\ [](part = "contract" =>
           /\ Contract!TypeOK /\ Contract!CommitIsEarned
           /\ Contract!NothingStale)
    /\ [][part = "contract" =>
           /\ Contract!ProjectsAll /\ Contract!KeepsTheGraph]_vars

=============================================================================
