----------------------------- MODULE MCRetrieval -----------------------------
(***************************************************************************)
(* Retrieval with a choice of searches.                                    *)
(***************************************************************************)
EXTENDS Retrieval, FiniteSets, TLC

Plain ==
  [modes |-> {}, topK |-> 1, candidateK |-> 2, backend |-> "python", enforce |-> TRUE,
   principals |-> TRUE, profile |-> 0, queries |-> 1, decay |-> FALSE, summaries |-> FALSE,
   reranker |-> "fake"]

Searches ==
  {[Plain EXCEPT !.backend = b, !.topK = 2, !.principals = p] :
     b \in {"python", "sql", "vector"}, p \in BOOLEAN}
  \cup {[Plain EXCEPT !.modes = m, !.reranker = r] :
     m \in SUBSET {"graph", "hybrid", "rerank"}, r \in {"none", "fake", "provider"}}
  \cup {[Plain EXCEPT !.queries = 2, !.backend = b] : b \in {"python", "sql"}}
  \cup {[Plain EXCEPT !.topK = 2, !.decay = TRUE, !.summaries = s, !.enforce = FALSE, !.profile = p] :
     s \in BOOLEAN, p \in {0, 2}}

Protected(allowed, denied) ==
  [visibility |-> "protected", allowed |-> allowed, denied |-> denied]
Acls ==
  {[visibility |-> "absent", allowed |-> FALSE, denied |-> FALSE],
   [visibility |-> "unknown", allowed |-> TRUE, denied |-> FALSE],
   Protected(TRUE, FALSE), Protected(TRUE, TRUE), Protected(FALSE, FALSE)}

Documents == Permutations(Document)
=============================================================================
