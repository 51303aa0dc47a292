------------------------------ MODULE Retrieval ------------------------------
(***************************************************************************)
(* A search of a knowledge base: the phases of search_knowledge_base, each *)
(* of which reads what is committed by then or calls a model, while        *)
(* documents are ingested and indexed.                                     *)
(*                                                                         *)
(* A version of a document is one chunk, and its access list that of the   *)
(* document.  What the scores are is left open wherever a vector, a text   *)
(* or a model gives them; how they are combined is not.  The age of a      *)
(* chunk is the number of its version.                                     *)
(***************************************************************************)
EXTENDS Naturals, FiniteSets, Sequences, SequencesExt

CONSTANTS
  Document,   \* documents of the knowledge base
  Versions,   \* bound on the versions of a document
  Profiles,   \* embedding profiles are 1..Profiles, in the order of their names
  Score,      \* the scores that are told apart
  Acl,        \* the access lists a document may have
  Search,     \* the searches that may be asked for
  MaxEvents   \* bound on what is ingested or indexed during the search

\* metadata_json["acl"], as it looks to the principals of the search.
AclRecord ==
  [visibility: {"absent", "public", "protected", "unknown"}, allowed: BOOLEAN, denied: BOOLEAN]

\* The parameters of a search; modes: what the mode adds to dense retrieval;
\* profile: 0 where none is asked for; queries: what the rewriter makes of it.
Parameters ==
  [modes: SUBSET {"graph", "hybrid", "rerank"}, topK: Nat \ {0}, candidateK: Nat \ {0},
   backend: {"python", "sql", "vector"}, enforce: BOOLEAN, principals: BOOLEAN,
   profile: Nat, queries: Nat \ {0}, decay: BOOLEAN, summaries: BOOLEAN,
   reranker: {"none", "fake", "provider"}]

ASSUME RetrievalAssumption ==
  /\ IsFiniteSet(Document)
  /\ Versions \in Nat \ {0} /\ Profiles \in Nat \ {0} /\ MaxEvents \in Nat
  /\ Score \subseteq Nat /\ Score # {}
  /\ Search \subseteq Parameters /\ Search # {} /\ Acl \subseteq AclRecord /\ Acl # {}

VARIABLES
  latest,    \* document_versions: the latest of each document
  indexed,   \* [version, profile]: the last indexing of each document
  acl,       \* the access list of each document
  search,    \* the search asked for
  pc,        \* its phase
  profile,   \* the profile it resolved
  results,   \* dense_results
  pool,      \* the results of its other queries
  asked,     \* how many of them have been asked
  degraded,
  base,      \* history: latest when the search began
  offered,   \* history: how many chunks the first phase could have returned
  candidate, \* whether there was any, permitted or not
  audit,     \* the audit event of the search
  events

retrievalVars ==
  <<latest, indexed, acl, search, pc, profile, results, pool, asked, degraded, base, offered,
    candidate, audit, events>>

content == <<latest, indexed, acl, events>>    \* what is not the search's

RetrievalInit ==
  /\ latest \in [Document -> 1..Versions]
  /\ indexed \in [Document -> {[version |-> Versions, profile |-> p] : p \in 1..Profiles}
                                \cup {[version |-> 1, profile |-> 1]}]
  /\ \A d \in Document : indexed[d].version <= latest[d]
  /\ acl \in [Document -> Acl]
  /\ search \in Search
  /\ pc = "resolve" /\ profile = 0
  /\ results = <<>> /\ pool = <<>> /\ asked = 1
  /\ degraded = FALSE
  /\ base = latest /\ offered = 0 /\ candidate = FALSE /\ audit = "none" /\ events = 0

-----------------------------------------------------------------------------
(* Helpers.                                                                *)

Least(m, n) == IF m <= n THEN m ELSE n
Cut(s, n) == SubSeq(s, 1, Least(n, Len(s)))

\* The entries of s at some of its places, in an order of these: upTo[i] are the
\* places that come no later than i.
Arranged(s, places, upTo) ==
  [n \in 1..Cardinality(places) |-> s[CHOOSE i \in places : Cardinality(upTo[i]) = n]]

Picked(s, places) == Arranged(s, places, [i \in places |-> {j \in places : j <= i}])

\* sort(key=-score): a stable sort.
Ranked(s) ==
  LET UpTo(i) == {j \in DOMAIN s : s[j].score > s[i].score \/ (s[j].score = s[i].score /\ j <= i)}
  IN  Arranged(s, DOMAIN s, [i \in DOMAIN s |-> UpTo(i)])

Chunk(d, v) == [kind |-> "chunk", doc |-> d, version |-> v]
Summary(d, v) == [kind |-> "summary", doc |-> d, version |-> v]

\* RetrievalResult; dated: it has the time the chunk was created; explained:
\* its acl_explain; sim: the score its final score was made of.
Found(id, score) ==
  [id |-> id, score |-> score, dated |-> TRUE, explained |-> "no", source |-> "chunk",
   sim |-> score]

Undated(s) == [i \in DOMAIN s |-> [s[i] EXCEPT !.dated = FALSE]]

-----------------------------------------------------------------------------
(* Plausible slips in the definitions below, used to see that the          *)
(* properties notice them; no specification refers to one.                 *)

PermitsAllowedOnly(a) == a.visibility \in {"absent", "public"} \/ (search.principals /\ a.allowed)
RowsOfIndexed(p) == {Chunk(d, indexed[d].version) : d \in {e \in Document : indexed[e].profile = p}}
CutThenFilter(order, k) ==
  LET Open(r) == ~ search.enforce \/ acl[r.id.doc].visibility = "absent"
      cut == Cut(Ranked(order), k)
  IN  Picked(cut, {i \in DOMAIN cut : Open(cut[i])})

-----------------------------------------------------------------------------
(* What the code computes.                                                 *)

\* AclMetadata.permits.  No access list counts as public.
Permits(a) ==
  \/ a.visibility \in {"absent", "public"}
  \/ a.visibility = "protected" /\ search.principals /\ ~ a.denied /\ a.allowed

\* acl_explain_reason, which decides once more.
Explanation(a) ==
  IF a.visibility \in {"absent", "public"} THEN "permitted"
  ELSE IF a.visibility = "unknown" THEN "unknown_visibility"
  ELSE IF ~ search.principals THEN "missing_principal"
  ELSE IF a.denied THEN "explicit_deny"
  ELSE IF a.allowed THEN "permitted" ELSE "no_matching_principal"

\* The WHERE clause PostgreSQL filters with: lists of unknown visibility are
\* read like protected ones.
Admits(a) ==
  \/ a.visibility \in {"absent", "public"}
  \/ search.principals /\ a.visibility \in {"protected", "unknown"} /\ a.allowed /\ ~ a.denied

\* build_embedding_base_statement: chunks of the latest versions that have an
\* embedding of the profile.
Rows(p) ==
  {Chunk(d, latest[d]) :
     d \in {e \in Document : indexed[e] = [version |-> latest[e], profile |-> p]}}

Passes(r) == search.enforce => Permits(acl[r.id.doc])

\* What a query of the database lets through: the clause in PostgreSQL, the
\* filter elsewhere.
Readable(r) ==
  IF search.backend = "sql" THEN search.enforce => Admits(acl[r.id.doc]) ELSE Passes(r)

\* The k nearest of the rows that may be read.
Offers(order) == Picked(order, {i \in DOMAIN order : Readable(order[i])})
Nearest(order, k) == Cut(Ranked(Offers(order)), k)
Passing(s) == Picked(s, {i \in DOMAIN s : Passes(s[i])})

\* _merge_graph_results: a boost never lowers a score; the blend of two scores
\* is never above both.
MergeGraph(rs, gs) ==
  LET Graph(r) == {j \in DOMAIN gs : gs[j].id = r.id /\ gs[j].score > r.score}
      boosted == [i \in DOMAIN rs |->
                    IF Graph(rs[i]) = {} THEN rs[i]
                    ELSE [rs[i] EXCEPT !.score = gs[CHOOSE j \in Graph(rs[i]) : TRUE].score]]
      new == {j \in DOMAIN gs : \A i \in DOMAIN rs : rs[i].id # gs[j].id}
  IN  IF gs = <<>> THEN rs ELSE Ranked(boosted \o Picked(gs, new))

\* merge_retrieval_results: the best result of each chunk, where the chunk was
\* first seen.
MergeQueries(s) ==
  LET firsts == {i \in DOMAIN s : \A j \in 1..(i - 1) : s[j].id # s[i].id}
      Same(i) == {j \in DOMAIN s : s[j].id = s[i].id}
      best == [i \in DOMAIN s |-> Ranked(Picked(s, Same(i)))[1]]
  IN  Ranked(Picked(best, firsts))

Explained(s) ==
  [i \in DOMAIN s |-> [s[i] EXCEPT !.explained = Explanation(acl[s[i].id.doc]), !.dated = FALSE]]

\* Summaries of versions that are not among the results already.
MergeSummaries(rs, ss) ==
  LET all == rs \o ss
      Same(i, j) == all[i].id.doc = all[j].id.doc /\ all[i].id.version = all[j].id.version
      new == {i \in DOMAIN all : i > Len(rs) => \A j \in 1..(i - 1) : ~ Same(i, j)}
  IN  Ranked(Picked(all, new))

\* A list of results for ids with scores, equals in any order.
Lists(ids, scores) ==
  {[i \in DOMAIN order |-> Found(order[i], scores[order[i].doc])] : order \in SetToSeqs(ids)}

-----------------------------------------------------------------------------
(* The phases.                                                             *)

Phases ==
  <<"resolve", "embed", "dense", "graph", "fuse", "rerank", "explain", "queries", "merge",
    "decay", "summaries", "finish">>

Applies(phase) ==
  CASE phase = "graph" -> "graph" \in search.modes
    [] phase = "fuse" -> "hybrid" \in search.modes
    [] phase = "rerank" -> "rerank" \in search.modes
    [] phase = "queries" -> search.queries > 1 /\ search.backend # "vector"
    [] phase = "merge" -> search.queries > 1 /\ search.backend # "vector"
    [] phase = "decay" -> search.decay
    [] phase = "summaries" -> search.summaries
    [] OTHER -> TRUE

\* The phase after this one.
After(phase) ==
  LET i == CHOOSE n \in DOMAIN Phases : Phases[n] = phase
      later == {n \in DOMAIN Phases : n > i /\ Applies(Phases[n])}
  IN  Phases[CHOOSE n \in later : \A m \in later : n <= m]

Go(phase, rs) ==
  /\ pc = phase
  /\ pc' = After(phase)
  /\ results' = rs

\* What a phase leaves alone that changes results only.
Kept == <<search, profile, pool, asked, base, offered, candidate, audit>>

\* _resolve_profile: the profile asked for must be one the base is indexed
\* with; where none is asked for it is the first of them.
Resolve ==
  LET available == {indexed[d].profile : d \in {e \in Document : indexed[e].version = latest[e]}}
      first == IF available = {} THEN 1 ELSE CHOOSE p \in available : \A q \in available : p <= q
      wanted == IF search.profile = 0 THEN first ELSE search.profile
  IN  /\ pc = "resolve"
      /\ profile' = wanted
      /\ pc' = IF available # {} /\ wanted \notin available THEN "failed" ELSE After("resolve")
      /\ UNCHANGED <<content, search, results, pool, asked, degraded, base, offered, candidate, audit>>

\* The query is embedded, and blended with a hypothetical answer if there is
\* one; only the first can fail the search.
Embed ==
  /\ pc = "embed"
  /\ pc' \in {After("embed"), "failed"}
  /\ UNCHANGED <<content, degraded, results, Kept>>

DenseK == IF search.modes = {} THEN search.topK ELSE search.candidateK

DenseDatabase ==
  /\ search.backend # "vector"
  /\ \E scores \in [Document -> Score] : \E order \in Lists(Rows(profile), scores) :
       /\ Go("dense", Nearest(order, DenseK))
       /\ offered' = Len(Offers(order))
       \* the clause hides what it refuses, the filter counts it
       /\ candidate' = IF search.backend = "sql" THEN results' # <<>> ELSE order # <<>>
  /\ UNCHANGED <<content, search, profile, pool, asked, degraded, base, audit>>

\* Nothing takes a point out of the vector store when a version is superseded;
\* how much of what was indexed it holds is not decided here.  More is fetched
\* than is asked for where the filter may refuse some.
DenseVector ==
  LET points == {Chunk(d, v) : d \in Document, v \in 1..Versions}
      k == IF search.enforce /\ search.principals THEN 3 * DenseK ELSE DenseK
  IN  /\ search.backend = "vector"
      /\ \E stored \in SUBSET {c \in points : c.version <= indexed[c.doc].version} :
           \E scores \in [Document -> Score] : \E order \in Lists(stored, scores) :
             /\ Go("dense", Undated(Cut(Passing(Cut(Ranked(order), k)), search.candidateK)))
             /\ candidate' = (stored # {})
      /\ UNCHANGED <<content, search, profile, pool, asked, degraded, base, offered, audit>>

\* The chunks the graph proposes are read again, so that those which are not
\* rows any more fall away.
GraphExpand ==
  \/ /\ \E proposed \in SUBSET Document, scores \in [Document -> Score] :
          \E order \in Lists({c \in Rows(profile) : c.doc \in proposed}, scores) :
            /\ Go("graph", MergeGraph(results, Ranked(Passing(order))))
            /\ candidate' = (candidate \/ order # <<>>)
     /\ degraded' \in {degraded, TRUE}
     /\ UNCHANGED <<content, search, profile, pool, asked, base, offered, audit>>
  \/ /\ Go("graph", results)
     /\ degraded' = TRUE
     /\ UNCHANGED <<content, Kept>>

Rescored(s, f) == Ranked([i \in DOMAIN s |-> [s[i] EXCEPT !.score = f[i], !.dated = FALSE]])

\* _apply_hybrid_fusion.
Fuse ==
  /\ \E f \in [DOMAIN results -> Score] : Go("fuse", Rescored(results, f))
  /\ UNCHANGED <<content, degraded, Kept>>

\* The fake reranker scores every candidate.
RerankFake ==
  /\ search.reranker = "fake" \/ results = <<>>
  /\ \E f \in [DOMAIN results -> Score] : Go("rerank", Rescored(results, f))
  /\ UNCHANGED <<content, degraded, Kept>>

\* A reranker may leave candidates out, but not all of them.
RerankProvider ==
  /\ search.reranker = "provider" /\ results # <<>>
  /\ \E chosen \in (SUBSET DOMAIN results) \ {{}}, f \in [DOMAIN results -> Score] :
       \E order \in SetToSeqs(chosen) :
         LET picked == [i \in DOMAIN order |-> results[order[i]]]
         IN  Go("rerank", Rescored(picked, [i \in DOMAIN order |-> f[order[i]]]))
  /\ UNCHANGED <<content, degraded, Kept>>

RerankUnavailable ==
  /\ search.reranker = "provider" /\ results # <<>>
  /\ Go("rerank", Undated(results))
  /\ degraded' = TRUE
  /\ UNCHANGED <<content, Kept>>

\* Where the fake one is not allowed, or with an error that is no ProviderError.
RerankFails ==
  /\ pc = "rerank" /\ search.reranker # "fake" /\ results # <<>>
  /\ pc' = "failed"
  /\ UNCHANGED <<content, degraded, results, Kept>>

Explain ==
  /\ Go("explain", Explained(results))
  /\ UNCHANGED <<content, degraded, Kept>>

\* The other queries of a decomposed one; one that fails is left out.
AskQuery ==
  /\ pc = "queries"
  /\ asked' = asked + 1
  /\ pc' = IF asked' = search.queries THEN After("queries") ELSE "queries"
  /\ \/ pool' = pool
     \/ \E scores \in [Document -> Score] : \E order \in Lists(Rows(profile), scores) :
          pool' = pool \o Explained(Nearest(order, search.candidateK))
  /\ UNCHANGED <<content, search, profile, results, degraded, base, offered, candidate, audit>>

Merge ==
  /\ Go("merge", Cut(MergeQueries(results \o pool), search.candidateK))
  /\ pool' = <<>>
  /\ UNCHANGED <<content, search, profile, asked, degraded, base, offered, candidate, audit>>

\* _apply_time_decay: the newer a chunk, the more it gains, if its time is known.
Decay ==
  /\ Go("decay",
        Ranked([i \in DOMAIN results |->
                  [results[i] EXCEPT !.sim = results[i].score,
                                     !.score = @ + IF results[i].dated
                                                     THEN results[i].id.version ELSE 0]]))
  /\ UNCHANGED <<content, degraded, Kept>>

\* Summaries are kept for the versions of documents, the latest or not.
Summaries ==
  /\ \E of \in SUBSET Document, v \in 1..Versions, scores \in [Document -> Score] :
       \E order \in Lists({Summary(d, v) : d \in {e \in of : v <= latest[e]}}, scores) :
         LET nearest == Nearest(order, search.topK)
             marked == [i \in DOMAIN nearest |->
                          [nearest[i] EXCEPT !.source = "summary", !.dated = FALSE]]
         IN  Go("summaries", MergeSummaries(results, marked))
  /\ UNCHANGED <<content, degraded, Kept>>

\* Where chunks have parents their texts are filled in, which forgets that a
\* result is a summary; then the page is cut.
Finish ==
  LET hydrated == [i \in DOMAIN results |-> [results[i] EXCEPT !.source = "chunk"]]
  IN  /\ pc = "finish"
      /\ pc' = "done"
      /\ \/ results' = Cut(results, search.topK)
         \/ /\ \E i \in DOMAIN results : results[i].id.kind = "chunk"
            /\ results' = Cut(hydrated, search.topK)
      /\ audit' = CASE ~ search.enforce -> "none"
                    [] search.enforce /\ candidate /\ results' = <<>> -> "access_denied"
                    [] OTHER -> "retrieval_filter"
      /\ UNCHANGED <<content, degraded, search, profile, pool, asked, base, offered, candidate>>

-----------------------------------------------------------------------------
(* What goes on meanwhile.                                                 *)

Others ==
  <<acl, search, pc, profile, results, pool, asked, degraded, base, offered, candidate, audit>>

Searching == pc \notin {"done", "failed"}

Ingest(d) ==
  /\ Searching
  /\ events < MaxEvents /\ latest[d] < Versions
  /\ latest' = [latest EXCEPT ![d] = @ + 1]
  /\ events' = events + 1
  /\ UNCHANGED <<indexed, Others>>

Index(d, p) ==
  /\ Searching
  /\ events < MaxEvents /\ indexed[d] # [version |-> latest[d], profile |-> p]
  /\ indexed' = [indexed EXCEPT ![d] = [version |-> latest[d], profile |-> p]]
  /\ events' = events + 1
  /\ UNCHANGED <<latest, Others>>

RetrievalNext ==
  \/ Resolve \/ Embed \/ DenseDatabase \/ DenseVector \/ GraphExpand \/ Fuse
  \/ RerankFake \/ RerankProvider \/ RerankUnavailable \/ RerankFails
  \/ Explain \/ AskQuery \/ Merge \/ Decay \/ Summaries \/ Finish
  \/ \E d \in Document : Ingest(d) \/ \E p \in 1..Profiles : Index(d, p)

RetrievalSpec == RetrievalInit /\ [][RetrievalNext]_retrievalVars

-----------------------------------------------------------------------------
(* Properties.                                                             *)

ChunkResults == {i \in DOMAIN results : results[i].id.kind = "chunk"}

\* retrieval.py:1679: "only authorized candidates reach here".  Whatever phases
\* a chunk came through, and whichever of them was left out, what is returned
\* was permitted by the list that acl_explain reads; but for lists of unknown
\* visibility, which the WHERE clause of PostgreSQL reads as protected.
OnlyPermitted ==
  (pc = "done" /\ search.enforce) =>
    \A i \in ChunkResults :
      \/ results[i].explained = "permitted"
      \/ search.backend = "sql" /\ acl[results[i].id.doc].visibility = "unknown"

\* retrieval.py:834: "stale or unindexed chunks cannot enter the final context".
\* Of a database, what a search returns was the latest version at some moment
\* of it, however ingestion and indexing fall between its phases.
NoStaleChunk ==
  (pc = "done" /\ search.backend # "vector") =>
    \A i \in ChunkResults : results[i].id.version \in base[results[i].id.doc]..latest[results[i].id.doc]

\* The page is as full as the first phase could have made it: the filter comes
\* before the cut, and no later phase but a reranker loses a result.
PageIsFull ==
  (/\ pc = "done" /\ search.backend # "vector" /\ search.candidateK >= search.topK
   /\ ~ ("rerank" \in search.modes /\ search.reranker = "provider"))
    => Len(results) >= Least(search.topK, offered)

\* retrieval.py:994-996 gives the final score a part that falls with the age of
\* the chunk: of two results alike in everything else the newer comes first.
FresherFirst ==
  (pc = "done" /\ search.decay /\ ~ search.summaries) =>
    \A i, j \in DOMAIN results :
      (i < j /\ results[i].sim = results[j].sim) =>
        results[i].id.version >= results[j].id.version
=============================================================================
