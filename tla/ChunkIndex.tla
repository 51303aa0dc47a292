----------------------------- MODULE ChunkIndex -----------------------------
(***************************************************************************)
(* The chunk index of one knowledge base: indexing runs that rebuild the   *)
(* chunks and embeddings of its latest document versions, and reviewers    *)
(* who override how a version is chunked.                                  *)
(*                                                                         *)
(* An indexing run is one transaction (READ COMMITTED): it loads every     *)
(* version, then visits them in the order of their uris, each in a         *)
(* savepoint, and commits once.  What it wrote is visible to others, and   *)
(* the rows it deleted or updated are free for others, after that commit.  *)
(* Chunks and their embeddings are replaced together and are one value.    *)
(***************************************************************************)
EXTENDS Naturals, FiniteSets

CONSTANTS
  Last,        \* the latest versions of the knowledge base are 1..Last, by uri
  Empty,       \* the versions whose extracted text is empty
  Indexer,     \* threads that run index_knowledge_base
  Editor,      \* requests that save or reset an override
  MaxEdits,    \* bound on saves and resets
  MaxRuns,     \* bound on indexing runs
  MaxFaults    \* bound on provider errors and broken-off runs

ASSUME LastAssumption == Last \in Nat \ {0}
ASSUME EmptyAssumption == Empty \subseteq 1..Last
ASSUME BoundsAssumption == MaxEdits \in Nat /\ MaxRuns \in Nat /\ MaxFaults \in Nat

Version == 1..Last

\* A template is flat or parent-child; "none" is a version without
\* chunk_template_config, chunked with the configuration of the run.
Template == {"none", "flat", "parent"}

\* The content of a save is identified by the edit that wrote it, 0 for none;
\* rev is the revision number the save gave it.
Override == [edit: 0..MaxEdits, rev: 0..MaxEdits]
NoOverride == [edit |-> 0, rev |-> 0]

\* document_versions.metadata_json: chunk_override, chunk_template_config and
\* chunk_index_status.
Meta == [override: Override, template: Template, status: {"unknown", "stale", "current"}]
NewMeta == [override |-> NoOverride, template |-> "none", status |-> "unknown"]

\* The rows of chunks and embeddings of a version.
Chunks == [built: BOOLEAN, override: Override, template: {"flat", "parent"}]
NoChunks == [built |-> FALSE, override |-> NoOverride, template |-> "flat"]

Outcome == {"none", "skipped", "success", "failed"}

VARIABLES
  meta,     \* committed metadata of each version
  chunks,   \* committed chunks of each version
  edited,   \* history: the edit whose result each version should show
  run,      \* indexing runs: where they are and what they have not committed
  edit,     \* override requests between reading the version and committing
  edits,    \* saves and resets so far
  runs,     \* indexing runs so far
  faults,   \* faults so far
  locking   \* whether the runs are those of uploads, which take
            \* knowledge_base_index_lock of one process; it does not change

vars == <<meta, chunks, edited, run, edit, edits, runs, faults, locking>>

RunState ==
  [pc: {"idle", "visit", "insert"}, scope: SUBSET Version, force: BOOLEAN,
   at: 1..Last + 1,                   \* the version being visited
   mem: [Version -> Meta],            \* the versions as loaded
   deleted: [Version -> Chunks],      \* what the visit's DELETE removed
   new: [Version -> Chunks],          \* inserted, not committed
   item: [Version -> Outcome]]
NoRun ==
  [pc |-> "idle", scope |-> {}, force |-> FALSE, at |-> 1,
   mem |-> [v \in Version |-> NewMeta],
   deleted |-> [v \in Version |-> NoChunks],
   new |-> [v \in Version |-> NoChunks],
   item |-> [v \in Version |-> "none"]]

EditState == [pc: {"idle", "save", "reset"}, version: Version, mem: Meta]
NoEdit == [pc |-> "idle", version |-> 1, mem |-> NewMeta]

Init ==
  /\ meta = [v \in Version |-> NewMeta]
  /\ chunks = [v \in Version |-> NoChunks]
  /\ edited = [v \in Version |-> 0]
  /\ run = [i \in Indexer |-> NoRun]
  /\ edit = [d \in Editor |-> NoEdit]
  /\ edits = 0 /\ runs = 0 /\ faults = 0 /\ locking \in BOOLEAN

-----------------------------------------------------------------------------
(* Plausible slips in the definitions below, used to see that the          *)
(* properties notice them; no specification refers to one.                 *)

MarkedFresh(i, v) == [meta[v] EXCEPT !.status = "current"]
VisitAnyOrder(i, v) == v \in run[i].scope /\ run[i].item[v] = "none"
SavedTemplateKept(m, t) ==
  [override |-> [edit |-> edits + 1, rev |-> m.override.rev + 1],
   template |-> m.template, status |-> "stale"]

-----------------------------------------------------------------------------
(* What the code computes.                                                 *)

\* configured_chunking: the version's template, else the run's configuration.
Configured(m) == IF m.template = "none" THEN "flat" ELSE m.template

\* override_drafts, else chunk_text or chunk_text_hierarchical.
Built(m) == [built |-> TRUE, override |-> m.override, template |-> Configured(m)]

\* A parent-child configuration cannot honour an override: the build raises,
\* which no metadata the program writes leads to; a run that met it would stop
\* here and RunsEnd notice.
Buildable(m) == Configured(m) = "parent" => m.override = NoOverride

\* mark_index_current, on the metadata the run loaded.
Marked(i, v) == [run[i].mem[v] EXCEPT !.status = "current"]

\* _version_already_indexed: the flag as loaded, the chunks as committed.
AlreadyIndexed(i, v) ==
  LET m == run[i].mem[v]
  IN  /\ m.status # "stale"
      /\ chunks[v].built
      /\ chunks[v].template = Configured(m)
      /\ m.override # NoOverride => chunks[v].override.rev = m.override.rev

\* knowledge_base_index_lock is taken by the upload runner alone.
LockFree(i) == locking => \A j \in Indexer : run[j].pc = "idle"

\* Versions are visited in the order of their uris.
VisitNext(i, v) ==
  v \in run[i].scope /\ run[i].item[v] = "none"
  /\ \A u \in run[i].scope : run[i].item[u] = "none" => v <= u

Wrote(i, v) == run[i].pc # "idle" /\ run[i].item[v] = "success"
Deleting(i, v) == Wrote(i, v) \/ (run[i].pc = "insert" /\ run[i].at = v)

-----------------------------------------------------------------------------
(* Indexing runs.                                                          *)

\* The run starts its transaction and loads the versions: all of them, or, to
\* rebuild it whatever its chunks say, the one whose override is reindexed.
Start(i, scope, force) ==
  /\ run[i].pc = "idle"
  /\ runs < MaxRuns
  /\ LockFree(i)
  /\ runs' = runs + 1
  /\ run' = [run EXCEPT ![i] = [NoRun EXCEPT !.pc = "visit", !.scope = scope,
                                             !.force = force, !.mem = meta]]
  /\ UNCHANGED <<meta, chunks, edited, edit, edits, faults, locking>>

Skip(i, v) ==
  /\ run[i].pc = "visit"
  /\ VisitNext(i, v)
  /\ v \in Empty \/ (~ run[i].force /\ AlreadyIndexed(i, v))
  /\ run' = [run EXCEPT ![i].item[v] = "skipped"]
  /\ UNCHANGED <<meta, chunks, edited, edit, edits, runs, faults, locking>>

\* The head of _replace_version_index.  DELETE waits for a run that deleted
\* the same rows; where there are no rows yet there is nothing to wait for.
Delete(i, v) ==
  /\ run[i].pc = "visit"
  /\ VisitNext(i, v)
  /\ v \notin Empty
  /\ run[i].force \/ ~ AlreadyIndexed(i, v)
  /\ chunks[v].built => \A j \in Indexer \ {i} : ~ Deleting(j, v)
  /\ run' = [run EXCEPT ![i].pc = "insert", ![i].at = v, ![i].deleted[v] = chunks[v]]
  /\ UNCHANGED <<meta, chunks, edited, edit, edits, runs, faults, locking>>

\* INSERT waits for a run that inserted the same chunk indices, and fails when
\* others than the deleted ones are there (uq_chunks_doc_version_index).
Conflict(i, v) == chunks[v].built /\ ~ run[i].deleted[v].built

Insert(i) ==
  LET v == run[i].at
  IN  /\ run[i].pc = "insert"
      /\ \A j \in Indexer \ {i} : ~ Wrote(j, v)
      /\ Buildable(run[i].mem[v])
      /\ ~ Conflict(i, v)
      /\ run' = [run EXCEPT ![i].pc = "visit", ![i].item[v] = "success",
                            ![i].new[v] = Built(run[i].mem[v])]
      /\ UNCHANGED <<meta, chunks, edited, edit, edits, runs, faults, locking>>

\* The savepoint is rolled back: the version keeps its index.
Failed(i) == [run EXCEPT ![i].pc = "visit", ![i].item[run[i].at] = "failed"]

Fail(i) ==
  LET v == run[i].at
  IN  /\ run[i].pc = "insert"
      /\ Conflict(i, v)
      /\ \A j \in Indexer \ {i} : ~ Wrote(j, v)
      /\ run' = Failed(i)
      /\ UNCHANGED <<meta, chunks, edited, edit, edits, runs, faults, locking>>

ProviderFails(i) ==
  /\ run[i].pc = "insert"
  /\ faults < MaxFaults
  /\ faults' = faults + 1
  /\ run' = Failed(i)
  /\ UNCHANGED <<meta, chunks, edited, edit, edits, runs, locking>>

Visited(i) == \A v \in run[i].scope : run[i].item[v] # "none"

\* The run's one commit; its own row and items are totals of the outcomes.
Commit(i) ==
  /\ run[i].pc = "visit"
  /\ Visited(i)
  /\ chunks' = [v \in Version |-> IF Wrote(i, v) THEN run[i].new[v] ELSE chunks[v]]
  /\ meta' = [v \in Version |-> IF Wrote(i, v) THEN Marked(i, v) ELSE meta[v]]
  /\ run' = [run EXCEPT ![i] = NoRun]
  /\ UNCHANGED <<edited, edit, edits, runs, faults, locking>>

\* An error outside the savepoints, or the end of the process.
BreakOff(i) ==
  /\ run[i].pc # "idle"
  /\ faults < MaxFaults
  /\ faults' = faults + 1
  /\ run' = [run EXCEPT ![i] = NoRun]
  /\ UNCHANGED <<meta, chunks, edited, edit, edits, runs, locking>>

-----------------------------------------------------------------------------
(* Reviewers.                                                              *)

\* The version is read.  An override is not saved where the index has parents.
Read(d, v, op) ==
  /\ edit[d].pc = "idle"
  /\ edits < MaxEdits
  /\ op = "save" => chunks[v].template # "parent"
  /\ edit' = [edit EXCEPT ![d] = [pc |-> op, version |-> v, mem |-> meta[v]]]
  /\ UNCHANGED <<meta, chunks, edited, run, edits, runs, faults, locking>>

\* UPDATE waits for a run that updated the version's row.
RowFree(v) == \A i \in Indexer : ~ Wrote(i, v)

Saved(m, t) ==
  [override |-> [edit |-> edits + 1, rev |-> m.override.rev + 1],
   template |-> t, status |-> "stale"]
Reset(m, t) ==
  [m EXCEPT !.override = NoOverride, !.template = t, !.status = "stale"]

\* The metadata as read is replaced as a whole; both commit with their audit
\* event.
Write(d, new, e) ==
  LET v == edit[d].version
  IN  /\ edits < MaxEdits
      /\ RowFree(v)
      /\ meta' = [meta EXCEPT ![v] = new]
      /\ edited' = [edited EXCEPT ![v] = e]
      /\ edits' = edits + 1
      /\ edit' = [edit EXCEPT ![d] = NoEdit]
      /\ UNCHANGED <<chunks, run, runs, faults, locking>>

\* save_override: a parent-child template is rejected.
SaveOverride(d) ==
  /\ edit[d].pc = "save"
  /\ Write(d, Saved(edit[d].mem, "flat"), edits + 1)

ResetOverride(d, t) ==
  /\ edit[d].pc = "reset"
  /\ Write(d, Reset(edit[d].mem, t), 0)

-----------------------------------------------------------------------------

Work(i) == (\E v \in Version : Skip(i, v) \/ Delete(i, v)) \/ Insert(i) \/ Fail(i) \/ Commit(i)

Index(i) ==
  \/ Start(i, Version, FALSE)
  \/ ~ locking /\ \E v \in Version : Start(i, {v}, TRUE)
  \/ Work(i)
  \/ ProviderFails(i) \/ BreakOff(i)

Review(d) ==
  \/ \E v \in Version, op \in {"save", "reset"} : Read(d, v, op)
  \/ SaveOverride(d)
  \/ \E t \in {"flat", "parent"} : ResetOverride(d, t)

Next == (\E i \in Indexer : Index(i)) \/ (\E d \in Editor : Review(d))

\* A run that started goes on; nobody has to start one.
Fairness == \A i \in Indexer : WF_vars(Work(i))

Spec == Init /\ [][Next]_vars /\ Fairness

-----------------------------------------------------------------------------
(* Properties.                                                             *)

\* Rows and runs keep their types.
TypeOK ==
  /\ meta \in [Version -> Meta]
  /\ chunks \in [Version -> Chunks]
  /\ edited \in [Version -> 0..MaxEdits]
  /\ run \in [Indexer -> RunState]
  /\ edit \in [Editor -> EditState]
  /\ edits \in 0..MaxEdits /\ runs \in 0..MaxRuns /\ faults \in 0..MaxFaults
  /\ locking \in BOOLEAN

\* A version that says its index is current is served the chunks its override
\* and template call for, whoever wrote what in which order
\* (chunking_overrides.py:112-135, indexing/pipeline.py:482-486).
CurrentIsTruthful ==
  \A v \in Version : meta[v].status = "current" => chunks[v] = Built(meta[v])

\* Every indexing run ends: waiting for each other's rows, in one order, no two
\* runs wait for each other; and no save, reset or reindex, in any order, asks
\* for parent-child chunks with an override (ragrig-explainable-chunking-p0:54-56).
RunsEnd == \A i \in Indexer : run[i].pc # "idle" ~> run[i].pc = "idle"

\* "A saved override marks reindex_required" (ragrig-explainable-chunking-p0:47):
\* the version shows the last override saved or reset, applied or pending.
EditNotLost == \A v \in Version : meta[v].override.edit = edited[v]
=============================================================================
