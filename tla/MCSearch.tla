------------------------------ MODULE MCSearch -------------------------------
(***************************************************************************)
(* Searches, and the baselines that evaluations of searches are compared   *)
(* with.  They are checked one at a time: the state space is the sum of    *)
(* theirs, for the one that is not in focus stays in one initial state.    *)
(***************************************************************************)
EXTENDS MCRetrieval, Baselines

VARIABLE focus  \* the component that moves

RetrievalAtRest ==
  /\ latest = [d \in Document |-> Versions]
  /\ indexed = [d \in Document |-> [version |-> Versions, profile |-> 1]]
  /\ \A d, e \in Document : acl[d] = acl[e] /\ acl[d].visibility = "absent"
  /\ search = CHOOSE s \in Search : TRUE

SearchInit ==
  /\ focus \in {"search", "baselines"}
  /\ RetrievalInit /\ (focus # "search" => RetrievalAtRest)
  /\ BaselinesInit /\ (focus # "baselines" => evaluated = 0)

SearchNext ==
  \/ focus = "search" /\ RetrievalNext /\ UNCHANGED <<focus, baselineVars>>
  \/ focus = "baselines" /\ BaselinesNext /\ UNCHANGED <<focus, retrievalVars>>

SearchSpec == SearchInit /\ [][SearchNext]_<<focus, retrievalVars, baselineVars>>

\* Documents, processes and baselines differ in nothing but their name.
Alike == Documents \cup Permutations(Promoter) \cup Permutations(Baseline)
=============================================================================
