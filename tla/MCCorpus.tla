------------------------------ MODULE MCCorpus -------------------------------
(***************************************************************************)
(* The ends of the way documents take: the runs that bring them from their *)
(* sources, the graph that is built of them, and the exports.  They are    *)
(* checked one at a time: the state space is the sum of theirs, for what   *)
(* is not in focus stays in one of its initial states.                     *)
(***************************************************************************)
EXTENDS SourceSync, KnowledgeGraph, Exports, TLC

VARIABLE focus  \* the component that moves

\* The graph is checked twice: with every chunk and nobody who saves settings,
\* and with one who does and fewer chunks.
MaxChunksBesideSaves == 2

CorpusInit ==
  /\ focus \in {"sync", "graph", "settings", "exports"}
  /\ Init /\ (focus # "sync" => source = Local /\ \A k \in Key : object[k].kind = "gone")
  /\ GraphInit
  /\ ExportInit /\ (focus # "exports" => perRun)

CorpusNext ==
  \/ focus = "sync" /\ Next /\ UNCHANGED <<focus, graphVars, exportVars>>
  \/ focus = "graph" /\ GraphNext /\ saves' = 0 /\ UNCHANGED <<focus, vars, exportVars>>
  \/ focus = "settings" /\ GraphNext /\ made' <= MaxChunksBesideSaves
     /\ UNCHANGED <<focus, vars, exportVars>>
  \/ focus = "exports" /\ ExportNext /\ UNCHANGED <<focus, vars, graphVars>>

CorpusSpec == CorpusInit /\ [][CorpusNext]_<<focus, vars, graphVars, exportVars>>

\* Threads and documents differ in nothing but their name; the
\* components share the threads.
Ids == Permutations(Runner) \cup Permutations(Document)
=============================================================================
