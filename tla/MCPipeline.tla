----------------------------- MODULE MCPipeline ------------------------------
(***************************************************************************)
(* What operators do about a pipeline run that failed: the DAG of a run,   *)
(* resumed, and the retry of a run's items.  They share nothing and are    *)
(* checked one at a time: the state space is the sum of theirs, for the    *)
(* one that is not in focus stays in its initial state.                    *)
(***************************************************************************)
EXTENDS IngestionDag, ItemRetry, TLC

VARIABLE focus  \* the component that moves

DagAtRest == Init /\ ~ overlap /\ row = NewRow(0)
ItemRetryAtRest ==
  /\ ItemRetryInit
  /\ Succeeded = {} /\ runType = CHOOSE t \in RunType : TRUE

PipelineInit ==
  /\ focus \in {"dag", "items"}
  /\ IF focus = "dag" THEN Init ELSE DagAtRest
  /\ IF focus = "items" THEN ItemRetryInit ELSE ItemRetryAtRest

PipelineNext ==
  \/ focus = "dag" /\ Next /\ UNCHANGED <<focus, itemRetryVars>>
  \/ focus = "items" /\ ItemRetryNext /\ UNCHANGED <<focus, vars>>

PipelineSpec == PipelineInit /\ [][PipelineNext]_<<focus, vars, itemRetryVars>>

\* Executors, and requests, differ in nothing but their name.
Ids == Permutations(Exec) \cup Permutations(Requester)
=============================================================================
