------------------------------ MODULE WebImport ------------------------------
(***************************************************************************)
(* The import of pages of a web site into a knowledge base: the pages are  *)
(* fetched first, then recorded one after the other in one transaction     *)
(* (READ COMMITTED), each with its document, a new version and an item of  *)
(* the run.  A page that cannot be fetched or parsed costs its item; an    *)
(* error of the database costs the import, for nothing rolls back to       *)
(* before the page.                                                        *)
(***************************************************************************)
EXTENDS Naturals, Sequences, FiniteSets

CONSTANTS
  Importer,  \* requests, one import each
  Page,      \* URLs
  MaxUrls    \* MAX_WEBSITE_IMPORT_URLS

ASSUME WebImportAssumption == MaxUrls \in Nat /\ "sitemap" \notin Page

VARIABLES
  sources,   \* the configurations of the known sources, as committed
  pages,     \* the documents, as committed: source and content_hash
  numbers,   \* how many versions each document has, as committed
  imported,  \* the rows of the imports' runs, as committed
  import     \* what each request is doing

webVars == <<sources, pages, numbers, imported, import>>

Unset == "none"
NoPage == [source |-> Unset, hash |-> Unset]

\* The lists a run may be over.
ListsUpTo(n) == UNION {[1..k -> Page] : k \in 0..n}

\* The source is named for the sitemap, for the first URL, or "website-import".
SourceOf(urls, listed) ==
  IF listed # << >> THEN "sitemap" ELSE IF urls # << >> THEN Head(urls) ELSE Unset
SourceName == Page \cup {"sitemap", Unset}
Config(urls, listed) == [urls |-> urls, sitemap |-> listed # << >>]
NoConfig == [urls |-> << >>, sitemap |-> FALSE, absent |-> TRUE]

\* `overlapped' is history: another import was under way at the same time.
Unasked ==
  [pc |-> "idle", list |-> << >>, source |-> Unset, config |-> NoConfig, seen |-> NoConfig,
   todo |-> {}, number |-> 0, named |-> FALSE,
   wrote |-> [p \in Page |-> NoPage], added |-> [p \in Page |-> 0],
   items |-> [p \in Page |-> Unset], success |-> 0, failure |-> 0, overlapped |-> FALSE]
NoImport == [items |-> [p \in Page |-> Unset], success |-> 0, failure |-> 0, status |-> Unset]

WebInit ==
  /\ sources = [s \in SourceName |-> NoConfig]
  /\ pages = [p \in Page |-> NoPage]
  /\ numbers = [p \in Page |-> 0]
  /\ imported = [i \in Importer |-> NoImport]
  /\ import = [i \in Importer |-> Unasked]

-----------------------------------------------------------------------------
(* What the code computes.                                                 *)

\* A page of the list, by its place, and what its fetch came to.
Fetched(k, outcome) == [place |-> k, outcome |-> outcome]

\* A slip: _collect_page goes on after it has recorded an empty body.
TodoWithoutReturn(list, outcome) ==
  {Fetched(k, "page") : k \in DOMAIN list} \cup {Fetched(k, outcome[k]) : k \in DOMAIN list}
Todo(list, outcome) == {Fetched(k, outcome[k]) : k \in DOMAIN list}

\* The accepted pages in their order, then the failures in theirs.
Before(a, b) == IF a.outcome = b.outcome THEN a.place < b.place ELSE a.outcome = "page"
First(todo) == CHOOSE a \in todo : \A b \in todo \ {a} : Before(a, b)

Repeats(list) == \E j, k \in DOMAIN list : j < k /\ list[j] = list[k]

InTransaction == {"source", "document", "version", "commit"}
UnderWay(i) == import[i].pc \in InTransaction \cup {"fetch"}
Others(i) == Importer \ {i}

\* The next version of the page, as the transaction sees it.
NextNumber(i, p) == numbers[p] + import[i].added[p] + 1

\* The document's row as the transaction sees it.
Sees(i, p) == IF import[i].wrote[p] # NoPage THEN import[i].wrote[p] ELSE pages[p]

-----------------------------------------------------------------------------
(* Who waits for whom.                                                     *)

\* A row of the sources that is to be inserted, or whose config_json differs.
WritesSource(i) == import[i].seen # import[i].config
HeldSource(i, j) ==
  import[j].pc \in InTransaction \ {"source"} /\ import[j].named /\ import[j].source = import[i].source

\* What is to be written of the page that is next.
PageRow(i, hash) == [source |-> import[i].source, hash |-> hash]
Due(i) == First(import[i].todo)
NextPage(i) == import[i].list[Due(i).place]
HeldPage(i, j) == import[j].pc \in InTransaction /\ import[j].wrote[NextPage(i)] # NoPage

\* The number that is to be inserted has been inserted and not committed.
HeldNumber(i, j) == import[j].pc \in InTransaction /\ import[j].added[NextPage(i)] > 0

WaitsFor(i, j) ==
  \/ import[i].pc = "source" /\ WritesSource(i) /\ HeldSource(i, j)
  \/ import[i].pc = "document" /\ HeldPage(i, j)
  \/ import[i].pc = "version" /\ HeldNumber(i, j)

-----------------------------------------------------------------------------
(* A request.                                                              *)

\* A malformed or private URL, a sitemap that cannot be read, too many pages.
Refuse(i) ==
  /\ import[i].pc = "idle"
  /\ import' = [import EXCEPT ![i].pc = "refused"]
  /\ UNCHANGED <<sources, pages, numbers, imported>>

\* collect_website_imports: the URLs and those of the sitemap.
CollectImports(i, urls, listed) ==
  /\ import[i].pc = "idle"
  /\ Len(urls \o listed) <= MaxUrls
  /\ import' = [j \in Importer |->
       IF j = i
       THEN [import[i] EXCEPT !.pc = "fetch", !.list = urls \o listed,
                              !.source = SourceOf(urls, listed), !.config = Config(urls, listed),
                              !.overlapped = \E k \in Others(i) : UnderWay(k)]
       ELSE [import[j] EXCEPT !.overlapped = @ \/ UnderWay(j)]]
  /\ UNCHANGED <<sources, pages, numbers, imported>>

\* Every page has been fetched, or has failed; the source is looked up.
Fetch(i, outcome) ==
  /\ import[i].pc = "fetch"
  /\ import' = [import EXCEPT ![i] = [@ EXCEPT !.pc = "source", !.seen = sources[import[i].source],
                                               !.todo = Todo(import[i].list, outcome)]]
  /\ UNCHANGED <<sources, pages, numbers, imported>>

Step(todo) == IF todo = {} THEN "commit" ELSE "document"

\* The whole import is rolled back and answered by an error of the server.
LoseImport(i) == import' = [import EXCEPT ![i] = [Unasked EXCEPT
                        !.pc = "lost", !.list = import[i].list, !.overlapped = import[i].overlapped]]

\* get_or_create_source, which does not expect to be beaten, and the run's row.
WriteSource(i) ==
  /\ import[i].pc = "source"
  /\ \A j \in Others(i) : ~ WaitsFor(i, j)
  /\ IF import[i].seen = NoConfig /\ sources[import[i].source] # NoConfig
     THEN LoseImport(i)
     ELSE import' = [import EXCEPT ![i] = [@ EXCEPT !.pc = Step(import[i].todo),
                                                    !.named = WritesSource(i)]]
  /\ UNCHANGED <<sources, pages, numbers, imported>>

\* An item of the run, which has one for each document.
Left(r) == r.todo \ {First(r.todo)}
Recorded(r, p, outcome) ==
  [r EXCEPT !.items[p] = outcome, !.todo = Left(r), !.pc = Step(Left(r)),
            !.success = IF outcome = "success" THEN @ + 1 ELSE @,
            !.failure = IF outcome = "failed" THEN @ + 1 ELSE @]

\* get_or_create_document writes what differs from the row; an insertion that
\* was beaten becomes an update.
Written(i, p, hash) ==
  IF Sees(i, p) = PageRow(i, hash) THEN import[i] ELSE [import[i] EXCEPT !.wrote[p] = PageRow(i, hash)]
MayWritePage(i, p, hash) == Sees(i, p) # PageRow(i, hash) => \A j \in Others(i) : ~ HeldPage(i, j)

\* The page has been parsed.
WriteDocument(i) ==
  /\ import[i].pc = "document" /\ Due(i).outcome = "page"
  /\ LET p == NextPage(i)
     IN  /\ MayWritePage(i, p, "page")
         /\ import' = [import EXCEPT ![i] = [Written(i, p, "page") EXCEPT
                         !.pc = "version", !.number = NextNumber(i, p)]]
  /\ UNCHANGED <<sources, pages, numbers, imported>>

\* The page was not fetched or cannot be parsed: the document says so, and any
\* version it has stays.
WriteFailure(i) ==
  /\ import[i].pc = "document"
  /\ LET p == NextPage(i)
     IN  /\ MayWritePage(i, p, "failed")
         /\ IF import[i].items[p] # Unset
            THEN LoseImport(i)
            ELSE import' = [import EXCEPT ![i] = Recorded(Written(i, p, "failed"), p, "failed")]
  /\ UNCHANGED <<sources, pages, numbers, imported>>

\* The version and the item.  The handler of what fails here writes an item
\* too, in a transaction that has been aborted.
WriteVersion(i) ==
  /\ import[i].pc = "version"
  /\ \A j \in Others(i) : ~ WaitsFor(i, j)
  /\ LET p == NextPage(i)
     IN  IF import[i].number # NextNumber(i, p) \/ import[i].items[p] # Unset
         THEN LoseImport(i)
         ELSE import' = [import EXCEPT
                ![i] = [Recorded(import[i], p, "success") EXCEPT !.added[p] = @ + 1]]
  /\ UNCHANGED <<sources, pages, numbers, imported>>

\* The database ends one of two transactions that wait for each other.
DeadlockVictim(i) ==
  /\ \E j \in Others(i) : WaitsFor(i, j) /\ WaitsFor(j, i)
  /\ LoseImport(i)
  /\ UNCHANGED <<sources, pages, numbers, imported>>

CommitImport(i) ==
  /\ import[i].pc = "commit"
  /\ sources' = IF import[i].named THEN [sources EXCEPT ![import[i].source] = import[i].config]
                ELSE sources
  /\ pages' = [p \in Page |-> Sees(i, p)]
  /\ numbers' = [p \in Page |-> numbers[p] + import[i].added[p]]
  /\ imported' = [imported EXCEPT ![i] =
       [items |-> import[i].items, success |-> import[i].success, failure |-> import[i].failure,
        status |-> IF import[i].failure > 0 THEN "completed_with_failures" ELSE "completed"]]
  /\ import' = [import EXCEPT ![i] = [Unasked EXCEPT
       !.pc = "done", !.list = import[i].list, !.overlapped = import[i].overlapped]]

WebNext ==
  \E i \in Importer :
    \/ Refuse(i)
    \/ \E list \in ListsUpTo(MaxUrls + 1), k \in 0..(MaxUrls + 1) :
         k <= Len(list) /\ CollectImports(i, SubSeq(list, 1, k), SubSeq(list, k + 1, Len(list)))
    \/ \E outcome \in [DOMAIN import[i].list -> {"page", "failed"}] : Fetch(i, outcome)
    \/ WriteSource(i) \/ WriteDocument(i) \/ WriteFailure(i) \/ WriteVersion(i)
    \/ DeadlockVictim(i) \/ CommitImport(i)

WebSpec == WebInit /\ [][WebNext]_webVars

-----------------------------------------------------------------------------
(* What must hold.                                                         *)

\* A run that was committed has one item for every page of its list and counts
\* them, whatever failed; and only a list that names a page twice, or another
\* import under way at the same time, can cost an import all it fetched.
\* (local_pilot/service.py import_website_pages, db/models/pipeline.py
\* uq_pipeline_run_items_run_document)
ImportAccounted ==
  \A i \in Importer :
    /\ import[i].pc = "done" =>
         LET Of(o) == {p \in Page : imported[i].items[p] = o}
         IN  /\ Of("success") \cup Of("failed") = {import[i].list[k] : k \in DOMAIN import[i].list}
             /\ imported[i].success = Cardinality(Of("success"))
             /\ imported[i].failure = Cardinality(Of("failed"))
             /\ imported[i].success + imported[i].failure = Len(import[i].list)
             /\ \A p \in Of("success") : numbers[p] > 0
    /\ import[i].pc = "lost" => Repeats(import[i].list) \/ import[i].overlapped
=============================================================================
