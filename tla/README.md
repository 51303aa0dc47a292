# Formal model of ragrig

TLA+ modules, TLC configurations and TLAPS proofs about the parts of ragrig
whose state is shared or whose steps can be interleaved: background tasks,
pipeline runs, synchronisation with sources, the chunk index, the knowledge
graph, search, conversations, accounts, budgets, exports and more. Paths below
are relative to `src/ragrig/` unless they begin with `docs/` or `tests/`;
`PROJECT.json` maps every definition to the lines it stands for.

1. [The system](#1-the-system)
2. [The plan](#2-the-plan)
3. [Modules and code](#3-modules-and-code)
4. [The runs](#4-the-runs)
5. [Fairness](#5-fairness)
6. [The proofs](#6-the-proofs)
7. [Where the code and its documents disagree](#7-where-the-code-and-its-documents-disagree)
8. [What is not modelled](#8-what-is-not-modelled)

To repeat the checks, in this directory: `tlc -config <run>.cfg <module>.tla`
with the modules and configurations of section 4, and
`tlapm <module>Proofs.tla`.

## 1. The system

ragrig is a retrieval-augmented-generation server: a FastAPI application whose
handlers run in a pool of threads (some in the event loop), a relational
database (PostgreSQL, READ COMMITTED, one SQLAlchemy session per request or
task), a directory for uploaded files, background tasks in a thread pool or in
ARQ workers over Redis, files that operators' commands write, and external
services: object stores, language models, mail and webhooks. There may be
several processes; what they share is the database, the staging directory and
Redis. A session keeps the rows it has loaded, flushes and commits at named
points, and writes back only the columns whose values it changed. Nearly every
difficulty below follows from that: rows read in one transaction are written in
a later one, with minutes between.

| Component | State | Operations | Interacts with | What is hard | What makes it correct |
| --- | --- | --- | --- | --- | --- |
| Background tasks (`tasks.py`, `worker.py`, `repositories/task_record.py`) | `task_records`, `pipeline_runs.status`, staging directories, queues, per-process locks | upload, DAG, source ingest, retry; take, execute, report | executors call the ingestion, DAG and indexing code; requests hand tasks over | crashes between commits, two processes retrying one task, re-delivery by ARQ, cleanup against retry | a retry history without forks, one report per task, runs and files that agree with tasks, every submitted task ends |
| Ingestion DAG (`workflows/ingestion_dag.py`) | the snapshot in `pipeline_runs.config_snapshot_json` | execute, resume | executed by tasks and by resume requests | concurrent executors overwrite the whole snapshot; broken-off executions | nodes complete in order, failures are on record, the status says what the nodes say |
| Item retry (`web_console.py`) | `pipeline_run_items`, run counters, versions, audit events | retry one item, retry a run | competes with itself | stale counters, stale item status, equal version numbers | no success is lost, failures are not hidden |
| Sources (`plugins/sources`, `ingestion/`, `repositories/document.py`) | documents, versions, items | list, skip, download, store, fail | writers of the source, other runs | objects that change between listing and download, overlapping runs | what would be skipped as unchanged is served as it is |
| Chunk index (`indexing/pipeline.py`, `services/chunking.py`, `chunking_overrides.py`) | `document_versions.metadata_json`, `chunks`, `embeddings` | index, save, reset and reindex an override | uploads, DAGs, workflow steps, reviewers | long transactions, row locks in an order, stale metadata written back, a lock only some callers take | an index marked current is the one its metadata calls for; no deadlock |
| Chunkers (`chunkers/`, `chunking_overrides.py`) | none | six strategies, parents, review | indexing, citations | offsets added up over text that was stripped and joined; windows and their ends | no text is lost, a range is where its text is |
| Knowledge graph and retention (`knowledge_graph/service.py`, `retention.py`) | entities, mentions, evidence, claims, the trace in `knowledge_bases.metadata_json` | build, fall back, reset; purge old versions; save settings beside | indexing, providers, the console's settings in the same column | rows read minutes before they are written about; a column written back whole | a graph not reported degraded is made of the latest chunks; settings are not lost to builds that fail |
| Retrieval (`retrieval.py`) | reads versions, chunks, the graph, access lists | eleven phases of one search | indexing, ingestion, models | each phase reads what is committed by then; filters before and after cuts; fields lost on the way | nothing unpermitted, nothing stale, as much as was asked for |
| Conversations (`routers/conversations.py`) | conversations, turns, feedback | create, delete, answer, feedback | retrieval, models, usage | a turn's number and history are read before a model is called | the turns read as one thread |
| Usage and budgets (`usage.py`, `services/common.py`, `routers/usage.py`) | `usage_events`, `budgets` | record, evaluate, alert, change, delete | every metered call | test and set of the alert latch around an external call | the alert is sent, once per month |
| Workflow engine (`workflows/engine.py`) | steps, results | validate, order, run with retries | calls ingestion and indexing | mixed failure modes, cycles | no step before its dependencies have succeeded |
| Document understanding (`understanding/service.py`) | `document_understandings`, `understanding_runs` | one version, a whole knowledge base | a language model called under a row lock | reads before the lock, column-wise updates, inserts that collide | fresh records are kept |
| Processing profiles (`repositories/processing_profile.py`) | overrides, audit log | create, change, delete, roll back | administrators | soft deletion, an index against a check, rollback to redacted values | one override applies, the log is a true account |
| Accounts (`auth.py`, `auth_mfa.py`, `services/auth.py`, LDAP, OIDC) | users, memberships, invitations, sessions, keys, second factors | register, log in, challenge, set up, invite, revoke, erase | itself | rows as loaded, written after a password was hashed | an erased account has nothing left, an invitation and a backup code serve once |
| Limiters (`ratelimit.py`, `auth_throttle.py`) | windows of one process | allow, check, record | every request | the clock is read before the lock is taken | rates hold, guesses are bounded |
| Exports (`plugins/sinks/object_storage`, `azure_blob`) | objects in a bucket, the row of the export's run | export | an object store with transient errors | the run's own record is put before the run has ended | the row and the record tell what is in the bucket |
| Web import (`ingestion/web_import.py`, `local_pilot/service.py`) | sources, documents, versions, the run's items, in one transaction | import | other imports, the site | errors inside a transaction; a page listed twice; two imports of one page | a failed page costs its item, not the import |
| Web site scanner (`plugins/sources/web/scanner.py`) | the cursor, kept by the caller | scan a portion | the site | queue and visited pages cut anywhere | every page within reach once |
| Paged sources (Slack, Discord, GitHub, Confluence, Notion, Feishu, Google Workspace, Microsoft 365) | a cursor, a temporary directory | read a page, stage a file | a service whose lists change; local ingestion reads the directory | pages by offset, by entry, by index of a drive; files named by channel | what is there throughout is gathered once |
| Evaluation baselines (`evaluation/`: `baseline.py`, `baseline_manifest.py`, `retention.py`) | files: runs, copies, manifests, registry | promote, list, backfill, validate, compare, clean | operators' processes | files written one after the other, processes killed | a registry entry has its files, a valid baseline is what it says |
| Advanced parsers (`parsers/advanced`) | none | bridge of the ingestion, runner of the corpus check | libraries, services, OCR, the basic parsers | each of a chain may be missing, raise, time out or come out empty | a text that one of them finds is not lost |
| Operators' scripts (`scripts/ops_*.py`) | backup directories, reports | deploy check, backup, restore, upgrade | the database, pg_dump, pg_restore, alembic | they go on after steps that failed | a success that is reported is one |
| Answers, basic parsers, providers, observability, front end and others | none of their own, or none shared | see section 8 | | | not modelled |

`PROJECT.json` lists all components and, under `hazards`, what in them is hard
to test, at its line; every one has a property.

## 2. The plan

Components in the order of what would hurt most if it were wrong. They share
outcomes (an ingestion that succeeds or fails) and not state, except where the
table says so: then they are one module.

| Module | Composes or implements | Theorems |
| --- | --- | --- |
| `TaskQueue` | implements `RetryChain` | types, linear history; with the pool: one delivery, runs match tasks, staged files accounted for, implements `RetryChain` |
| `IngestionDag` | implements `DagRun` | types, order of nodes, failures on record, implements `DagRun` |
| `ChunkIndex` | indexing runs and reviewers | types, what is marked current is truthful, some run can always go on |
| `Conversations` | | types, one thread, feedback has its turn, answers kept when alone |
| `ProfileOverrides` | | types, one override applies, the log is true, rollbacks restore |
| `ItemRetry` | | types, counters hide no failure, the newest version is named, a success stays |
| `Accounts` | | types, erasure revokes all, what is for one use serves one |
| `Workflow` | | types, definitions are followed |
| `UsageBudget` | | types, alerts not missed and not sent twice |
| `SourceSync` | five kinds of source as one module with traits | types, what is taken for unchanged is served, versions follow changes, clean runs are complete |
| `KnowledgeGraph` | builds, indexing, retention and settings, which share a column | undegraded graphs are current, settings are only overtaken |
| `Retrieval` | a search beside ingestion and indexing | results are permitted, results are current, pages are full |
| `WebImport` | imports that overlap in the database | imports are accounted for |
| `Gathering` | eight paged sources as one module with traits | scans gather all |
| `Understanding` | | fresh records are kept |
| `AdvancedParsing` | | no text is lost |
| `Exports` | | types, the row and the record in the store tell what is there |
| `Baselines` | processes that share files | what was promoted is kept |
| `Operations` | the four scripts over one database and one directory | what is called a success is one |
| `Throttle` | | limits are held |
| `Crawl` | | scans reach all |
| `Chunkers` | | |

All of these are done. `Chunkers` has no theorem; section 6 says why.

Where a promise is made only to requests that come one at a time, the module has
a variable chosen at the start or a history variable (`overlap`, `overlapped`,
`crossed`, `alone`, `met`) and the property is conditional on it, so that one
state space serves both. TLC checks components that share nothing in one run:
the `MC` modules for these have a variable `focus`, chosen in the initial state,
and only the component in focus moves while the others stay in one initial
state. So the state space is the sum of theirs and not the product. Names that
two of these components would both use carry the component's name
(`BudgetInit`, `exportVars`, `ItemRetryTypeOK`).

## 3. Modules and code

Common conventions. An action is what happens between two points at which
another actor can interfere: a commit, a call of a service, a hand-over. A
request is a thread with a `pc` and its own copies (`mem`) of the rows it
loaded. Contents are small identifiers: the number of the edit, the tag of a
version of an object, the choice of a model. "Slips" in a module are mutated
forms of definitions with which the properties were tried out; no specification
uses them. Unnamed in the code are the bounds: `Max...` constants in the guards
of actions that start something. Types are stated in a module's `TypeOK` (with
the component's name before it where modules are put side by side) and proved
in the proof modules; the runs spend their properties on more than types.

**TaskQueue** models the life of a task. `task`, `run`, `dir` are rows and
directories; `queue` is the queue of each process's thread pool or the one in
Redis (`Durable`); `req` and `exec` are request and worker threads, each in the
process `ProcOf` names. `Upload`, `IngestionDag`, `SourceIngest` and `Retry`
begin requests; `CreateRun`, `Enqueue`/`EnqueueRetry`, `Submit` are their
commits. `Take` to `Ack` are `run_task_payload` with the three runners; `Crash`,
`RequestFails`, `JobFails` and `Requeue` the faults. `RetryChain` is what all
this promises to an operator, in three actions.

**IngestionDag** models one run's row. `Begin`, `NodeSucceeds`, `NodeFails`,
`Finish` are the commits of `_execute_dag`; `Execute` is a delivery of the task
and `Resume` the operator. An executor stores its own copy of the whole
snapshot, over whatever is there. `DagRun` is the abstract run.

**ItemRetry** models one run with its items: `StartItem` and `StartRun` begin a
request, `RetryNext` takes the next item, `Read`, `Store`, `Fail`, `Conflict`,
`Answer` are the outcomes and commits. The azure and gcs branches, which always
fail and leave no closing event, are the run type "silent".

**SourceSync** models runs over a source whose objects change, disappear and
come back at any point (`Change`, `Go`, `ComeBack`). The sources are records of
traits: whether unchanged objects are recognised by a snapshot or by comparing
with the newest version, whether documents are locked, what is skipped at the
scan, how a failure is dealt with (`ObjectStore` for S3, R2, B2 and GCS,
`AzureBlob`, `Fileshare`, `Database`, `Local`). `Start` lists, `SkipAtScan`,
`Miss`, `SkipUnchanged` and `Look` decide, `Read` and `Load` take what is there
by then, `Store`, `SkipBinary`, `FailObject` write, `Commit` and `FailRun`
commit, `BreakOff` and `Deadlock` lose everything.

**WebImport** models requests that import a list of pages. `CollectImports` or
`Refuse`, `Fetch`, `WriteSource`, then for each page `WriteDocument` and
`WriteVersion` or `WriteFailure`, and `CommitImport`; guards over what the other
transaction has written are the row locks and unique indices, `DeadlockVictim` their
detection of circles, and `LoseImport` the end of an import whose transaction was
aborted. `todo` is the set of places of the list still to be written, of which `First`
takes the fetched ones in their order and then those that failed.

**Crawl** models a scan as calls of `scan_web_pages` (`CallScan`), the turns of its
loop (`PassOver`, `FetchPage`) and its portion and next cursor (`Return`). `LoseCall`
leaves the caller with the old cursor; `ChangePage` happens between and during calls.

**Gathering** models the reading of pages (`ReadPage`) of the places a source
lists. The sources are records of traits: how the next page is named, whether
what is gathered is staged in files, whether there are many places, one or
drives listed anew. Entries are numbered as they appear, so that newest first is an
order of numbers: what is listed is a set, and only what is gathered is a sequence.
`Appear`, `Disappear` and `Relist` are the service;
`RequestFails` costs a staging source everything.

**ChunkIndex** models one knowledge base. `Start` loads all versions (or the one
whose override is reindexed); `Skip`, `Delete`, `Insert`, `Fail` visit them in
order; `Commit` makes everything visible. Row locks and the unique constraint on
chunks are guards over what other runs have written and not committed. `Read`,
`SaveOverride`, `ResetOverride` are the reviewers. `locking` says whether the
runs are those of uploads, which take `knowledge_base_index_lock`.

**Chunkers** models the six strategies as operators on sequences of kinds of
characters, each of which knows its place in the text, so that what a chunk
claims (`start`, `end`) and where its characters come from can be compared.
`Chunk` cuts a text, `SaveAsShown` is the reviewer who saves what is displayed.

**KnowledgeGraph** models builds (`Builds`: read, extract with a provider or
without, fall back, write or fail, by request or by the last stage of indexing),
`IndexChunks`, `NewVersion`, `PurgeOldVersions` (retention) and requests that
save settings (`StartSave`, `FinishSave`) in the column the trace is in.

**Retrieval** models `search_knowledge_base` phase by phase, over every mode,
reranker and back end, with `Ingest` and `Index` between any two phases.
`results` are records with the fields the phases hand on or forget.

**Conversations** models `Ask` (the turns are loaded), `Generate`, `NoEvidence`
or `AnswerFails`, then `SaveTurn` or, if the number is taken or the conversation
gone, `LoseTurn`; `FindTurn` and `SaveFeedback` are one request for feedback.

**Accounts** gives every operation a start, in which rows are read, and an end
in which they are committed (`Register`, `External` for LDAP and OIDC, `Login`,
`Challenge`, `Setup`, `Confirm`, `Disable`, `CreateKey`, `Erase`); what is one
statement is one action (`Revoke`, `Invite`, `RevokeInvitation`, `ChangeRole`).

**Throttle** models both limiters: a thread reads the clock (`Ask`, `TryLogin`) and
later takes the lock (`Allow`, `Check`, `RecordFailure`).

**UsageBudget** separates recording (`Record`), loading the budget, measuring
the month, sending the alert and marking the latch, because they are separate
transactions; `StartEdit`, `Upsert`, `Delete` are the administrators and
`NextMonth` the clock.

**Workflow** models the depth-first search with its stack (`VisitStep`,
`VisitDependency`, `Leave`) and the run (`Succeed`, `Retry`, `Fail`, `Skip`,
`SkipDependent`, `Report`), for every list of dependencies.

**Understanding** models the record of a version through `Read`, `Save` (the row
lock), `Generated` or `ProviderFails`, singly or in a batch with its run record.
An UPDATE sets the columns that differ from the row as loaded (`Written`).

**ProfileOverrides** models the five operations on overrides, each a read and a
write with its entry of the log; the log redacts secrets, so a rollback restores
redacted ones.

**Exports** models one request per exporter: a look at each object unless it may
be overwritten, puts with their tries and lost answers, the last artifact
`pipeline_runs` that reports on the export itself, and the ends with and without
a row. `perRun` says whether the path template names the run.

**Baselines** models the files: `PromoteRun` to `RenameRegistry` are the writes
of a promotion, which may be killed after each; `ListBaselines` to `Backfill`
the service, `CompareWith` and `Validate` the checks, `StartCleaning` and
`DeleteRuns` the clean-up.

**AdvancedParsing** models one file in the hands of the bridge or the runner: the
members of the chain are asked in order (`PassOver`, `Raise`, `Answer`,
`KeepEmpty`, `Decline`) and return what `Parsed` says they can, which OCR may
improve (`WithOcr`); `FallBack`, `FallBackFails` and `GiveUp` are the ends.

**Operations** models the scripts as lists of steps (`StepsOf`) that are gone
through whatever has failed (`Done`), with actions for the steps that change
something (`OpenDump`, `Dump`, `Drop`, `LoadRows`, `Migrate`). pg_dump,
pg_restore and alembic are what the code takes them for: the first takes what is
committed, the second drops before it loads and can stop in between, the third
is one transaction. `Write`, `Release`, `Outage`, `Recover` and `Lose` happen
beside.

`MCTaskQueue` gives threads their processes; `MCPipeline`, `MCIndex`,
`MCCorpus`, `MCSearch`, `MCServices` and `MCTenancy` put components side by side
as section 2 says; `MCRetrieval` has the searches and access lists tried.

## 4. The runs

| Run | Configuration of | States | Asks |
| --- | --- | --- | --- |
| `task_pool` | `TaskQueuePool.cfg`, `MCTaskQueue` | 707 thousand | Thread pool, two processes, three requests: does retry history stay linear (`LinearHistory`), do runs tell what tasks tell and is none left over but those a race between processes leaves (`RunMatchesTask`), are staged files there when read and gone when not needed (`StagingAccounted`), does it all implement `RetryChain`? |
| `task_arq` | `TaskQueueArq.cfg`, `MCTaskQueue` | 210 thousand | ARQ with crash, failing request or re-delivery: does every submitted task end (`EverySubmittedTaskEnds`)? |
| `task_arq_upload` | `TaskQueueArqUpload.cfg`, `MCTaskQueue` | violation | Does every accepted task end with ARQ? An upload's does not. |
| `pipeline` | `Pipeline.cfg`, `MCPipeline` | 2.2 million | The DAG: `CompletedIsPrefix`, `FailureRecorded` with overlapping executors, `ImplementsDagRun` without. Item retry: `FailuresNotHidden`, `NewestVersionNamed`, `SuccessIsKept`. |
| `index` | `Index.cfg`, `MCIndex` | 620 thousand | The index: `CurrentIsTruthful`, and that runs end (`RunsEnd`). The chunkers: `ChunksAreTheText` (nothing lost, exact ranges). Limiters: `LimitsHold` (of rates, of guesses). |
| `index_lost_edit` | `ChunkIndexLostEdit.cfg`, `ChunkIndex` | violation | Is a saved override kept? Not if an indexing run is under way. |
| `chunk_ranges` | `ChunkRanges.cfg`, `MCIndex` | violation | Is the text of a chunk where its range says? Not for paragraphs, headings and sentences. |
| `search` | `Search.cfg`, `MCSearch` | 1.5 million | Search: `OnlyPermitted`, `NoStaleChunk`, `PageIsFull`. Baselines: `PromotionsKept`. |
| `search_decay` | `RetrievalDecay.cfg`, `MCRetrieval` | violation | Does a weight for age put the newer of two equal results first? No. |
| `corpus` | `Corpus.cfg`, `MCCorpus` | 2.2 million | Sources: `UnchangedIsCurrent`, `VersionsOnlyOnChange`, `RunBringsCurrent`. The graph: `GraphIsCurrent`, `SettingsKept`. Exports: `ExportAccounted`. |
| `services` | `Services.cfg`, `MCServices` | 2.1 million | Budgets: `AlertedOnce` (never missed, never sent twice). Workflows: `DefinitionFollowed` (cycles refused, dependencies first) for every dependency list of three steps. Understanding: `FreshKept`. Conversations: `HistoryIsWhole`, `AloneIsKept`. Advanced parsers: `ParsedIfReadable`. |
| `tenancy` | `Tenancy.cfg`, `MCTenancy` | 1.8 million | Profiles: `OneApplies`, `LogIsTrue`, `RollbackRestores`. Accounts: `ErasureIsComplete`, `SingleUse` (of an invitation, of a backup code). Web pages: `ImportAccounted`, `CrawlReaches`. Paged sources: `GatheredWhole`. Operators' scripts: `SuccessIsTrue`. |

**Bounds, and why they are enough.** Interference in this code is between two
actors, a third only ever repeating what the second does: every run has two
actors of each kind that competes, and three where a pair must race while a
third stands beside it (`task_pool`, where two requests share a process and the
third is in another; budgets, conversations and item retry: two requests must
hold rows from before a third has committed, or `NewestVersionNamed` could not
fail). Rows: a retry chain needs an original, a winner and a row a loser could
wrongly insert (three tasks), and four runs, for each of three requests prepares
one of its own; two tasks suffice where nothing races for a row. A
deadlock and an order need two versions or objects, a chain of nodes three. One
fault of each kind at any point finds what a fault can do between two steps;
more of them only repeat a state the bounds already reach by another way, since
a fault resets an actor. Changes of contents (`MaxEdits`, `MaxEvents`,
models) have two or three values, enough for "the old one", "the new one" and
"one in between". Texts are as long as windows, joints and boundaries need to
meet twice: nine characters for windows, five where the alphabet has four kinds.
A search has two documents, with two versions and profiles each, and one event
between its phases: the newest of two and the better of two is all that any
phase chooses. The clock of the limiters runs for two windows. An
import has two pages, so that one can fail and one be listed twice. A site has
four pages and a scan a depth of three, so that a page is reached by ways of
different length and one can lie too deep. A place of a paged source has two
entries at first and pages of one or two, with two changes meanwhile, one of
which may undo what the other does to an offset. Two artifacts are
one that reports on itself and one that does not; two tries one that fails and
one that ends it. In `corpus` the graph is explored twice, with three chunks and
no settings and with two chunks and a saver. Deadlock is checked in `task_pool`
and `task_arq`; the others end when the bounds are used up, which their
configurations say with `CHECK_DEADLOCK FALSE`. Symmetry is used only in runs
without liveness.

`Empty` (versions without text) is empty in `index`: skipping one does what
skipping an indexed version does.

## 5. Fairness

* `TaskQueue!FairSpec`: a request that has begun and a worker thread go on, and a
  queued task is taken by an idle worker: threads of a pool and ARQ's poll loop
  are not starved. That requests arrive or that anything fails is not assumed.
* `ChunkIndex!Fairness`: an indexing run that has begun goes on when the rows it
  waits for are free. That the provider fails is not assumed, so a circle of
  waiting runs would show.

The other modules state safety only: what they promise is about what has been
committed, and requests may end anywhere.

## 6. The proofs

TLAPS checks, for every value of the constants (any number of threads, tasks,
processes, nodes, conversations, profiles, requests and faults), from the
`ASSUME`s of the module alone:

| Theorem | Module | Says |
| --- | --- | --- |
| `TypeCorrect` | `TaskQueueProofs` | `Spec => []TypeOK` |
| `HistoryIsLinear` | `TaskQueueProofs` | `Spec => []LinearHistory`: on both backends, whatever crashes |
| `DeliveredOnce` | `TaskQueueProofs` | `~ Durable`: `Spec => []SingleDelivery` |
| `RunsMatchTasks` | `TaskQueueProofs` | `~ Durable`: `Spec => []RunMatchesTask` |
| `StagingIsAccounted` | `TaskQueueProofs` | `~ Durable`: `Spec => []StagingAccounted` |
| `PoolImplementsChain` | `TaskQueueProofs` | `~ Durable`: `Spec => ImplementsRetryChain`: a refinement |
| `DagTypeCorrect` | `IngestionDagProofs` | `Spec => []TypeOK` |
| `NodesCompleteInOrder` | `IngestionDagProofs` | `Spec => []CompletedIsPrefix` |
| `FailuresAreRecorded` | `IngestionDagProofs` | `Spec => []FailureRecorded` |
| `DagImplementsRun` | `IngestionDagProofs` | `Spec => ImplementsDagRun`: a refinement, for executions that do not overlap |
| `ConversationsTypeCorrect` | `ServicesProofs` | `ConversationsSpec => []ConversationsTypeOK` |
| `ConversationReadsAsOneThread` | `ServicesProofs` | `ConversationsSpec => []HistoryIsWhole` |
| `FeedbackHasItsTurn` | `ServicesProofs` | `ConversationsSpec => []FeedbackNamesTurn` |
| `AloneAnswersAreKept` | `ServicesProofs` | `ConversationsSpec => []AloneIsKept` |
| `WorkflowTypes` | `ServicesProofs` | `WorkflowSpec => []WorkflowTypeOK` |
| `RunsFollowDefinition` | `ServicesProofs` | `WorkflowSpec => []DefinitionFollowed` |
| `BudgetTypesHold` | `ServicesProofs` | `BudgetSpec => []BudgetTypeOK` |
| `AlertIsSentOnce` | `ServicesProofs` | `BudgetSpec => []AlertedOnce` |
| `FreshRecordsAreKept` | `ServicesProofs` | `UnderstandingSpec => FreshKept`, a property of steps |
| `NoTextIsLost` | `ServicesProofs` | `ParsingSpec => []ParsedIfReadable` |
| `ProfilesTypeCorrect` | `TenancyProofs` | `Spec => []TypeOK` |
| `OneOverrideApplies` | `TenancyProofs` | `Spec => []OneApplies` |
| `LogTellsTheTruth` | `TenancyProofs` | `Spec => []LogIsTrue` |
| `RollbacksRestore` | `TenancyProofs` | `Spec => RollbackRestores`, a property of steps |
| `IndexTypes` | `IndexProofs` | `Spec => []TypeOK` |
| `CurrentIndexIsTruthful` | `IndexProofs` | `Spec => []CurrentIsTruthful` |
| `SomeRunGoesOn` | `IndexProofs` | `Spec => []SomeGoesOn`: the runs never all wait |
| `LimitsAreHeld` | `IndexProofs` | `ThrottleSpec => []LimitsHold` |
| `ScansReachAll` | `IndexProofs` | `CrawlSpec => []CrawlReaches` |
| `ItemRetryTypes` | `RunCountersProofs` | `ItemRetrySpec => []ItemRetryTypeOK` |
| `FailuresAreNotHidden` | `RunCountersProofs` | `ItemRetrySpec => []FailuresNotHidden` |
| `RetriedNamesNewest` | `RunCountersProofs` | `ItemRetrySpec => []NewestVersionNamed` |
| `SuccessStays` | `RunCountersProofs` | `ItemRetrySpec => SuccessIsKept`, a property of steps |
| `ExportTypesHold` | `RunCountersProofs` | `ExportSpec => []ExportTypeOK` |
| `ExportsAreAccounted` | `RunCountersProofs` | `ExportSpec => []ExportAccounted` |
| `ImportsAreAccounted` | `RunCountersProofs` | `WebSpec => []ImportAccounted` |
| `ResultsArePermitted` | `SearchProofs` | `RetrievalSpec => []OnlyPermitted` |
| `ResultsAreCurrent` | `SearchProofs` | `RetrievalSpec => []NoStaleChunk` |
| `PagesAreFull` | `SearchProofs` | `RetrievalSpec => []PageIsFull` |
| `PromotionsAreKept` | `SearchProofs` | `BaselinesSpec => []PromotionsKept` |
| `AccountsTypes` | `TenancyProofs` | `AccountsSpec => []AccountsTypeOK` |
| `ErasureRevokesAll` | `TenancyProofs` | `AccountsSpec => []ErasureIsComplete` |
| `OneUseEach` | `TenancyProofs` | `AccountsSpec => []SingleUse` |
| `SuccessesAreTrue` | `TenancyProofs` | `OperationsSpec => []SuccessIsTrue` |
| `ScansGatherAll` | `TenancyProofs` | `GatheringSpec => []GatheredWhole` |
| `SyncInvariant` | `CorpusProofs` | `Spec => [](SyncInv /\ TypeOK)` |
| `UnchangedObjectsAreServed` | `CorpusProofs` | `Spec => []UnchangedIsCurrent` |
| `VersionsFollowChanges` | `CorpusProofs` | `Spec => []VersionsOnlyOnChange` |
| `CleanRunsAreComplete` | `CorpusProofs` | `Spec => RunBringsCurrent`, a property of steps |
| `UndegradedGraphsAreCurrent` | `CorpusProofs` | `GraphSpec => []GraphIsCurrent` |
| `SettingsAreOnlyOvertaken` | `CorpusProofs` | `GraphSpec => SettingsKept`, a property of steps |

*Tasks.* `LinearHistory` alone is not inductive: a step that links a task to a
new row needs the row to be blank, and a request that links needs its target to
exist. `LinkInv` adds `AbsentIsBlank` (unused rows have no content),
`HoldersHaveTask` (a request that submits and a busy worker hold a task; their
steps would otherwise write a row that does not exist) and `TargetExists`. The
proof separates the actions that write links (`Enqueue`, `EnqueueRetry`) from
those that write other fields (`WorkerWrites`) and carries the rest by a frame
lemma. The retry lock plays no part: what keeps the history linear is that the
check of `Linkable` and the insert are one transaction under unique indices.

*The pool.* What holds of a task besides its history depends on it being
delivered once, and so on the thread pool: ARQ delivers a job again after a crash,
which breaks all four (section 7), and the theorems assume `~ Durable`. `PoolInv`
is inductive whatever fails. `Placed` says that a task has one place (a request
about to submit it, a queue, a worker) and which status it can have there;
`RowsFit`, `RequestsFit`, `WorkersFit` what a row, a request and a worker know of
the run and the directory they name, by the place in their code; `RunsOwned` and
`DirsOwned` that these belong to one chain of retries. `MiddleFrame` and
`PoolSteps` separate the steps that move a task from those in the middle of a
runner. What is promised while nothing has failed (`faults = 0`) is a second
induction on top, `Story`: runs tell what their tasks do, a directory that is
present has an owner, and the runs without a task number no more than the
requests between `CreateRun` and a retry that lost (`OrphanBound`, which counts
with cardinalities and needs `FiniteAssumption`: finitely many tasks, runs and
requests, as there are at any time). For the refinement `PoolInv` is more than
enough: the steps of `RetryChain` are `Enqueue`, `EnqueueRetry` and `Report`, and
all others stutter.

*DAG.* The stored snapshot is overwritten by whichever executor commits, so the
invariant must hold of every copy: `SnapshotInv` states `PrefixCompleted` and
`Recorded` of the row and of every executor's memory, and that an executor in
its loop has no open failure. Then any copy may be stored over any other.
The lemmas `BegunWellFormed`, `CompletedAtWellFormed`, `FailedAtWellFormed` and
`EndedWellFormed` are about the operators on snapshots, `CommitKeeps` about
overwriting. The refinement needs more, since an overlapping executor may store
what the abstract run never was. `SerialInv` says that there is at most one busy
executor, that what it has in memory is what is stored, and that the run is
running while it is in its loop; `CommitAlone` then turns a commit into a plain
assignment. `StepRefines` maps `Begin` to `Reopen` or a stutter,
`NodeSucceeds` to `Advance` (`OneMoreDone` counts the nodes), `NodeFails` to a
stutter, and `Finish` to `Complete` or `Halt`.

*Conversations.* A request numbers its turn from a history that may be old.
`ThreadInv` says that turns of a conversation are numbered without a gap
(`Numbered`), that what a request holds of an open conversation is the whole of
the turns below the number it would insert (`Held`), that a turn belongs to one
request, which is done (`OneTurn`), and that feedback names a turn; all of it is
proved in one induction with `HistoryIsWhole`.
`LoadedIsWhole` establishes `Held` when the turns are loaded, `TurnsStay` keeps
it while turns are only added, `FreeIsNext` says that a free number is the next
one, and with it `SaveTurnKeeps` that the turn is generated from all before it.
`AloneIsKept` is about requests that no other overlapped: `Undisturbed` says of
these that the conversation is open and they hold all its turns, so that the
number they insert is free (`AloneInserts`); `OthersDisturbed` says that a step
of another request, or a deletion, is itself what ends being alone.

*Workflows.* A definition is refused for a cycle only if there is one: the calls of
`visit()` are a path along dependencies (`StackFits`), so the calls from the step
that is met again to the one on top are one (`BusyIsCyclic`). What is accepted has
none: in the order every step comes after all it depends on (`OrderFits`), so of the
steps of a cycle the first in the order would need none of them
(`OrderedIsAcyclic`, by a least number). While it runs, the steps before the present
place are those with a result (`PhaseFits`), so what a step depends on has one, and
if it is not blocked that is a success (`CurrentIsNext`). `ResultKeeps` is the one
lemma about giving a step its result.

*Budgets.* `AlertNotMissed` follows from `NotMissed`: until something is sent, all
requests hold the budget as it is and a spend above the threshold has a request
that will look at it. For `AlertOncePerPeriod` the invariant counts: what has been
sent of a month, what can still be sent without an edit or a request broken off
(`Spare`: one while the latch is open, one by a request that holds a row which is
gone, none while an alert waits to be marked) and the edits under way come to no
more than one, the edits and the requests broken off (`Paid`). `CallerStep` and
`EditStep` reduce this to what one request or one edit does; that a new row has a
number nobody holds is `IdsFit`.

*Understanding.* A request writes what it generates over the row without looking
again, so what matters is what it had seen. `KnowsRow` says of a request that none
has overlapped that the record it has in memory is the one in the row, and once it is
past the comparison that the row is not there with its input; `ThreadMoves` and
`ThreadRests` reduce the induction to the thread that moves, for one that begins
ends being alone with all others.

*Parsing.* `Unanswered` is about the attempts made so far, while nobody has
answered: whoever could read the file found no text in it, a scan OCR can read among
them came out blank, `best` is the last of these, and whoever declined has said why.
`AdaptersKeep` takes the chain one attempt at a time, with or without OCR;
`EndKeeps` says that what is chosen at the end is the best of what was tried, or
explains why there is nothing.

*Profiles.* `Inductive` is `TypeOK /\ Prepared /\ Recorded /\ OneApplies`:
`Prepared` says what a handler about to write has loaded (that what it inserts
is a creation, that what it changes exists), `Recorded` that the log only speaks
of overrides that have been. `OneApplies` follows from the index being tested in
the writing transaction and not from the earlier check.

`LogIsTrue` and `RollbackRestores` are for handlers that do not overlap.
`TrueAccount` says that then one handler at most is at work (`Serial`), that what it
loaded is the row as it is (`Fresh`), and that an entry of the log keeps what was
there before the change, redacted (`Kept`), which is what a rollback brings back.

*Chunk index.* A version is marked current and given its chunks in one commit, so
`RunFits` must say of every run under way that what it has written it built from the
metadata it holds; `CurrentIsTruthful` then only asks that a commit writes both.
All metadata anybody holds can be built from (`Sane`): no override is saved under a
template that produces none. For `SomeGoesOn` the runs' order matters: a run that has
visited a version has visited every one before it. Take the last version some run
works on: a run that has written it has only later ones to visit, on which nobody
works, and when nobody has, the run about to write it waits for nobody. `Least` gets
the version from well-foundedness of the naturals, without an induction by hand. The theorem is the safety half of `RunsEnd`, which stays with TLC.

*Retries of items.* Counters are overwritten by whichever request commits, so what
each holds must do as the run's counters: `Covers` says that it claims no fewer
failures than there are together with those the request may yet repair (`Ahead`).
Then a decrement by the request is covered by the item it repairs, and what others
have repaired is missing from its count and never counted twice. `AloneIsExact` is
the exact count while retries come one at a time. That a `retry_complete` has its
`retry_start` is a count of requests that still owe one (`Open`, `AnswersOwed`),
over any number of requests; `Whole`, the run itself as a subject of events, is
no item (`ItemRetrySubjects`). `SuccessStays` follows from the types of what
`Fail` and `Conflict` write.

*Exports.* An artifact is counted when the export leaves it, so `SumsFit` makes the
three counters one less than the artifact it is at, and, as long as nothing has
failed, everything behind it is in the store. `ObjectsFit` is for a directory of the
export's own: nothing is there but what it has put (so it skips nothing), it has
counted no less than what it knows to be there (`Sure`) and no more than is there; the
gap is `unsure`, puts answered by an error that took effect. `StatementFits`: what
`pipeline_runs` says holds when the run closes, since that artifact is the last and
nothing is counted after it. `OnwardKeeps` is the one lemma about leaving an artifact,
for the four ways of it (skipped, put, given up, not to be looked at); `EndsKeep` that
about ending without being complete; `OthersKeep` says that exports that overwrite each other's
objects leave what is said of each true.

*Web imports.* `PassedOver` follows an import through its list: the pages it has
passed have their items, and these, with the places still to come, make the list, so
that what is counted at the end is all of it. The database refuses a second item of a
page. In a list without repeats the page that is next cannot have one (`NothingYet`,
by the cardinalities of the places before and of their pages); the number of a version
cannot be taken while an import finds the tables as it read them, which one that no
other overlapped does (`ImportAlone`). So what aborts a transaction is a repeat or an
overlap, which is what `ImportEnded` says of an import that was lost.

*The limiters.* What has passed since some time in the window cannot be more than the
stamps since then (`Stamped`), and a stamp is forgotten only behind others that are out
of the window (`PrunedIs`, whose count of stamps is a bijection); this holds for
whatever order late threads have stamped in. A window that ends before now gains
nothing (`EarlierWithin`), and one that ends now or later is part of what has passed
since some time in it (`WindowFrom`). For logins the stamp comes later than the
attempt: between the two there is a thread that verifies (`Recorded`), and a lock that
outlasts the window ends when all of that is forgotten (`LockedOut`, `OpenWindow`).
The counts are cardinalities of sets of passes, one for each, rather than sums, which
the prover could not take apart; threads must be finitely many (`ThrottleAssumption`).

*Accounts.* `ErasureIsComplete` and `SingleUse` blame requests that overlapped, so
the invariant follows the blame. `Overlapping`: of two requests under way neither is
alone, and each has its number. `ErasureInv`: of an erased user there is a live
credential, or a request that can grant one, only if some credential of the user's is
from a request that overlapped (`Tainted`); and an erasure under way has seen all
there is to revoke, or the user is tainted by then. `InvitationInv`: an invitation
that let somebody in is not pending, and a registration with it that is still under
way overlapped with the one that ended. `CodeInv`: a backup code is one user's, what
was accepted is in no row, and whoever still holds it in memory overlapped;
`NewCode` keeps numbers that no set-up has given out yet unknown. The actions are
taken in three groups: those that begin (`BeginKeeps`), those that end without
erasing (`EndKeeps`), and one statement (`StatementKeeps`); the erasure has a proof
of its own.

*Runs over a source.* `UnchangedIsCurrent` speaks of what is stored, and a run holds
what it has made back until it commits, so the invariant must hold of both.
`ServedFits`: a document that is done has a newest version of its own snapshot, of a
body at least as new. `SnapshotFits`: what a run has made of an object (`MadeOf`) is
nothing, a note, or such a version, so that committing it over anything keeps
`ServedFits`; no order of commits needs to be known. `WorkFits` is what makes this
inductive: the object in hand has no item yet and no version. Versions follow changes
only while runs do not overlap: `AloneInv` says that one run at most is under way,
that no note is older than the newest version (`DocumentFits`), and that a run alone
looks at what is there and adds a version only of a later snapshot (`AloneFits`), or,
for local files, of another body (`BodyFits`). `CleanInv`: a run during which nothing
has happened lists what there is and has, for every text it has an item for, the
version that will be served. `IsDone` is what every step that finishes an object makes
of its run; the steps are proved by their kind and not one by one.

*The graph.* `Counted`, a number of a setting is at most that of the last save, is
there for the stored column and for every copy, as any copy may be written back.
`OneWriter` and `TraceFits` are for writers that have not overlapped: one at a time,
with a copy that is the column; and a trace that says "completed" names no chunk
nobody looked at and, unless rows were kept, all that anything refers to. Indexing,
new versions and retention only take away what refers to chunks (`CorpusKept`), and a
builder that does not write keeps everything (`Unwritten`). For `SettingsKept` no
invariant beyond `Counted` is needed: a setting's number falls only where a copy is
written back, and `FailBuildKeeps` says that a failing build writes back the settings
it finds.

*Searches.* A phase makes its list of the entries of earlier lists and of what it
reads itself, so it is enough to say of every entry of `results` and `pool` that the
principals may read it and that its version was the latest at some moment since the
search began (`Fits`), and of the list that it has what the page has room for
(`Full`) and no chunk twice (`Distinct`). Ingestion moves `latest` up and never
`base`, so `Fits` is kept by whatever happens between phases. `Told`, that an entry
carries the explanation of its own access list, holds from `Explain` on: what the
other queries and the summaries add later is explained where it is read
(`ExplainedAre`). That filters, sorting and cuts add nothing and lose nothing are
lemmas about the operators: `AlongOf` (a rearrangement has the entries of the list it
rearranges), `CutOf`, `MergeGraphOf`, `MergeQueriesOf`, `MergeSummariesOf`. They are
why the model sorts by counting, for every place, those that come no later, instead
of by recursion: `Counting` gets from an order of finitely many places that the
counts are 1 to their number, since no two of them count the same.

*Baselines.* Each part of `PromotionsKept` has a condition of its own on what has
met, and so has the invariant. `RegistryFits`, while promotions come one at a time:
the registry is what was promoted (`kept`), the temporary file is another one, and
whoever is about to fill it finds it empty, so what it renames is `kept` with its own
baseline. `StoreFits`, while no clean-up overlaps with a promotion: nothing that was
promoted, or is about to be, is to be deleted. `FilesFit`, while nothing does: the file
and the manifest of a baseline that no promoter is writing and none was killed over
(`Settled`) are those of its run, and what a list or a comparison holds is what it would
find again. Lists and clean-ups are reduced to `ListerMoves` and `CleanerMoves`; a kill
only takes a baseline out of what is settled.

*Operators' scripts.* A script goes on after a step that failed, so nothing follows
from where it is. `Knows` says what a script that no other has run beside has found or
done by its step as long as all its steps have passed: that the dump it wrote or
chose is whole, that what it restored is what that dump has, that the revision is the
one it asked for. `Right` is what is left of that at the end, where the word for the
script is found; `ScriptGoesOn` and `ScriptEnds` take one step of any script. An
upgrade compares numbers of rows: equal numbers are equal sets, since an upgrade only
loses rows and they are finite (`FS_Subset`). A report is gone when the next script
begins, so what it says of the directory stays true as long as it stands.

*Scans.* `CursorFits` says of what the caller keeps, and `CallFits` of what a call has
in memory, the same of the queue (`BreadthFirst`): nearer pages come first and the
depths in the queue are one number or two in a row (`Ordered`); each page in it is at
the end of a path of its depth (`FoundAlong`); whatever is as near as the next in the
queue has been visited or is in the queue at that depth, and what has been visited
had its links followed (`Covered`). A turn keeps all three (`TurnKeeps`), whether it
follows links or not. When the queue is empty, the least length of a path to a page
not visited would have a page before it that was, which is `NearWithin`. A page that
changes is only taken out of what is promised (`Monotone`); a lost call leaves the
cursor, of which the same is known.

*Paged sources.* `ReadTo` relates the cursor to what has been gathered and to what is
listed now: what is wanted and not gathered lies behind the cursor, and what is
gathered lies before it. Where the cursor is an entry, "behind" is by numbers, and no
entry that comes or goes can change it (`EntryAdds`); where it is an offset, it is by
how many entries are newer (`OffsetAdds`), which an addition or a removal does change,
and these are the exceptions the property names. `Neat` is the order and the age of
what has been gathered, `ReadWhole` what `ReadTo` becomes when there is no other page:
by the service's word, or, for Discord, after a short page, an old message or the cap
(`TakenByDiscord`). `StagedFits` says that a place that has been read has its file
or shares its name. That a set of k entries has one with n newer ones for every n
below k, and so a list of its entries newest first and first pages of any size, is
`Ranked`; this is why the model counts newer entries and does not filter sequences.
`Moved` is all the proof knows of the service.

What only TLC checks: liveness (outside the prover's reach, as is anything with
ENABLED), so that runs and tasks do end; and what the chunkers compute for every text
(`ChunksAreTheText`), which are folds of sequences, and so inductions over data.

## 7. Where the code and its documents disagree

Four disagreements are runs of their own.

* `task_arq_upload`: `ArqTaskExecutor.submit_task` (`worker.py:74`) drives an
  event loop to completion. The upload endpoint is async and calls it inside the
  server's running loop, where that raises after the run and the task were
  committed: both stay as they are for ever. The same model shows that a job
  ARQ delivers again sets a finished task to running, since
  `update_task_status` does not look at the status (`tasks.py:170`), against
  EVI-136:142-147.
* `index_lost_edit`: an indexing run writes back the metadata it loaded at its
  start (`indexing/pipeline.py:482`). An override saved meanwhile is lost, and the
  index marked current without it ever having been applied.
* `chunk_ranges`: the paragraph, heading and sentence chunkers add up the
  lengths of what they emit (`chunkers/__init__.py:386, 438, 492`), not of what
  they cut away in between, so their ranges do not say where the text is.
* `search_decay`: the time a chunk was created is lost before the phase that
  weighs age (`retrieval.py:486, 554, 725`), which then adds nothing.

Others met while modelling are conditions on properties, or lie just outside a
model; where there is a condition, TLC finds the behaviour without it.

* Indexing by DAGs, source ingests, workflow steps and override reindexes takes
  no index lock, against EVI-132:68; runs that overlap can fail an item on the
  unique constraint.
* Two overlapping item retries leave a failure in the run's counters that no
  item has (`FailuresNotHidden` is exact only without overlap; EVI-102:73), and
  both are let through, since nothing sets the mark the guardrail reads
  (`web_console.py:2883`, EVI-105:52). A retry of an azure or gcs item records
  no `retry_complete` (EVI-105:21).
* Two metered calls that overlap can both find the alert latch open
  (`usage.py:375`, its part of `AlertedOnce` is conditional on `overlap`); an alert
  of one month marked in the next (`usage.py:385`) suppresses the next one's, so
  the other part is about the first month; the hard cap is computed and read
  by no handler (`interaction.py:169-170`, `usage.py:371`).
* Overlapping synchronisations add a version twice (`VersionsOnlyOnChange`, s3
  specification line 140), and a parser that raises anything but
  `UnicodeDecodeError` rolls the whole run back (line 146). A local run that
  finds a document unchanged takes no lock: after another run's commit it may
  add the old body as the newest version, while `content_hash` keeps the newer
  one; the next run repairs it. Connectors that stage files do so in fresh
  temporary directories, so every run makes new documents although
  `plugins/official.py:1839` declares incremental synchronisation.
* Overlapping understanding requests replace a fresh record (`FreshKept`) and
  can mix the provider of one with the hash of another; a batch counts a record
  that failed for the same input as created and never retries it
  (`ReturnExisting`, against p2 specification line 144); a batch that loses the
  race to insert a record, or its process, leaves its run processing.
* A rollback of a profile restores redacted text in the place of secrets
  (`RollbackRestores` is stated apart from redaction). Creating an override
  under the id of a deleted one fails on the unique id.
* Two resumes of one failed DAG run are both accepted and both execute
  (`ingestion_dag.py:154`, EVI-106:34-35), and a run whose executor broke off
  stays running, which `resume` rejects.
* A save of settings that overlaps a build of the graph can be lost, or restore
  an older trace: `GraphIsCurrent` is conditional on `crossed`, `SettingsKept`
  says who can lose what. A rebuild with reset drops the feedback on relations.
* A search in SQL reads access lists of unknown visibility as protected, the
  filter in Python as denied; the points of superseded versions in a vector
  store are never removed, nor are documents' summaries filtered by access list
  or version; `candidate_k` may be less than `top_k`. The properties of
  `Retrieval` leave these cases out by name.
* Requests that overlap an erasure, a registration by invitation or a challenge
  are only bounded, not excluded: `ErasureIsComplete` and `SingleUse` hold of
  what ran by itself.
* What an advanced parser returns counts as empty if it is white space alone
  (`parsers/advanced/docling.py:121`), but OCR is only tried if it has no
  characters at all (`ocr.py:25`): a scan that comes out blank is not read.
  `ParsedIfReadable` leaves it out by name, as it does the corpus check when
  nobody could read a file, which has no last resort.
* A backup that is broken off leaves its dump file, and the newest dump file is
  what a restore takes (`scripts/ops_restore.py:125`), so that whole backups
  before it are out of the script's reach. The counts after a restore are
  compared with those before it and not with those of the backup (`:336`), or
  with nothing if they could not be read; an upgrade goes on when the check of
  health before it has failed; and one degraded step turns the word for a failed
  script into "degraded". `SuccessIsTrue` is about what is called a success, and
  of scripts beside which no other has run.
* The JSON backup of a workspace (`backup.py:66`) reads table after table without
  a lock or a snapshot, so feedback or a conversation can refer to a turn or a
  knowledge base added meanwhile that is not in it, and its rows name users, who
  are not dumped at all: a restore into another system then fails on a foreign
  key as a whole, against "self-contained" (README.md:256). No model settles this.
* A URL listed twice in one web import violates the unique index on the items of
  a run (`db/models/pipeline.py:69-76`), and the handler of the error
  (`local_pilot/service.py:146`) writes in the aborted transaction: the whole
  import is lost and answered by an error. So can two imports of one page lose
  one of them on the number of the version. `ImportAccounted` says that nothing
  else can.
* A page named by an offset (`confluence/scanner.py:146`) misses an entry when
  one before it is removed between two requests, and repeats one when one is
  added. A cursor of Microsoft 365 is an index into drives listed anew in every
  call (`microsoft_365/scanner.py:331`). Two channels whose names differ only in
  characters that are replaced share a file, and the later one is all that is
  ingested (`slack/connector.py:247`). `GatheredWhole` names these cases.
  Outside the model: GitHub's contents are read without the branch of the tree
  (`github/connector.py:122`, the default branch answers) and a truncated tree
  is taken for the whole; the console passes GitHub's and Slack's ingestion no
  workspace (`web_console.py:2560, 2567`), so their documents go to the default
  workspace while the indexing that follows looks in the caller's.
* "Repeat the heading in section chunks" is not done for sections that are cut
  again because they are too long.
* An export whose look for `pipeline_runs` fails, and a check of access that
  fails for good, escape `export_to_object_storage`
  (`plugins/sinks/object_storage/connector.py:223`): the row is rolled back
  though artifacts may be stored. A permanent failure of the last put leaves a
  failed row whose `success_count` is one too high. The client for Azure takes
  transient errors for "not there" and so overwrites despite `overwrite=false`,
  as may a concurrent export between look and put. The chunks artifact includes
  chunks of superseded versions.
* "Save the baseline registry atomically" (`evaluation/baseline.py:64`): the
  temporary name is the same for all, so two promotions that overlap can leave a
  torn registry, lose an entry or fail at the rename. A promotion killed between
  manifest and registry leaves a baseline that validates while the registry
  names the run before; a clean-up beside a promotion can delete the run just
  promoted; a backfill beside a promotion can overwrite its manifest. So the
  parts of `PromotionsKept` are conditional on what has `met`.

Not settled by a model: the ARQ worker registers `functions=[run_job]` while
tasks are enqueued under the name `ragrig.worker.run_job` (`worker.py:20, 74,
90`); whether the two meet depends on ARQ. The model takes it that they do.

## 8. What is not modelled

* *Pure, or calls of a service*: answer generation and faithfulness, basic parsers
  and sanitizers, embeddings, providers and their catalogue, vector backends,
  reports, metrics, MCP and OpenAI-compatible routers. Their results are values
  or outcomes here. They share nothing, and what can be wrong with them is the
  text they make.
* *Unreached*: the semantic cache, the Qdrant mirror and the summary and conflict
  stages of indexing, which no caller switches on (the graph's stage is switched
  on by a workflow step, `workflows/engine.py:298`, and modelled); the
  file-system, Elasticsearch and analytics sinks, which only tests reach. The web
  site scanner and all paged sources but GitHub and Slack are called by no
  handler either, but make a promise to whoever calls them, and are modelled.
* *One statement at a time*: permissions and configuration of knowledge bases,
  webhooks, e-mail, the audit log beyond what other operations write to it.
* *Operators' tools*: the JSON backup, scripts that gather evidence, migrations,
  local pilot; and the front end.
* Within modelled components: the texts that are parsed and generated,
  the formulas of scores, credentials, wording of errors, row serialisation; the
  expiry of sessions and the exchange with identity providers; the protocols of
  the sources' clients and the control document of a truncated database query;
  feedback on relations and graphs of entities without a mention; a
  local creation that another run was faster with; a provider's reranker that
  names an index twice.
* The database is taken to behave as READ COMMITTED with unique indices and row
  locks; disk failures and clock skew are left out.
