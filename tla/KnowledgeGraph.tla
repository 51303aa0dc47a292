--------------------------- MODULE KnowledgeGraph ---------------------------
(***************************************************************************)
(* The knowledge graph of a knowledge base: builds by requests and by the  *)
(* last stage of indexing, beside indexing itself and beside requests that *)
(* save settings in the same column, knowledge_bases.metadata_json, which  *)
(* every one of them loads whole and writes back whole.                    *)
(*                                                                         *)
(* A version has one chunk.  Mentions stand for every kind of row that     *)
(* refers to a chunk: mentions, evidence of relations, and claims; what an *)
(* extractor finds in a chunk is left open.                                *)
(***************************************************************************)
EXTENDS Naturals, FiniteSets

CONSTANTS
  Document, Name,    \* documents; canonical names of entities
  Builder, Saver,    \* threads that build, threads that save settings
  Setting,           \* the settings beside the graph's trace
  MaxMade,           \* bound on the chunks made
  MaxVersions,       \* bound on the versions of a document
  MaxBuilds, MaxSaves

VARIABLES
  version,   \* the latest version of each document
  chunk,     \* its chunk, 0 while it is not indexed
  stored,    \* the chunks there are, those of earlier versions among them
  made,      \* chunks made so far
  entity,    \* kg_entities: names
  mention,   \* kg_entity_mentions: names in chunks
  kb,        \* metadata_json: settings and the trace of the graph
  build,     \* what each builder is doing
  save,      \* what each saver is doing
  builds, saves,
  crossed,   \* history: two who write the column have overlapped
  appended,  \* history: a build has kept the rows of earlier ones
  seen       \* history: the chunks looked at by the builds whose rows are there

graphVars == <<version, chunk, stored, made, entity, mention, kb, build, save, builds, saves,
               crossed, appended, seen>>
corpus == <<version, chunk, stored, made>>

\* _latest_chunk_rows: a latest version without chunks does not show.
LatestChunks == {chunk[d] : d \in Document} \ {0}
LatestVersions == {<<d, version[d]>> : d \in {e \in Document : chunk[e] # 0}}

NoTrace == [status |-> "none", versions |-> {}, chunks |-> {}]
Free == [pc |-> "idle", kind |-> "plain", reset |-> TRUE, copy |-> {}, gone |-> {},
         chunks |-> {}, versions |-> {}]

GraphInit ==
  /\ version = [d \in Document |-> 1] /\ chunk = [d \in Document |-> 0]
  /\ stored = {} /\ made = 0
  /\ entity = {} /\ mention = {}
  /\ kb = [settings |-> [k \in Setting |-> 0], trace |-> NoTrace]
  /\ build = [b \in Builder |-> Free]
  /\ save = [w \in Saver |-> [pc |-> "idle", key |-> CHOOSE k \in Setting : TRUE, copy |-> {}]]
  /\ builds = 0 /\ saves = 0
  /\ crossed = FALSE /\ appended = FALSE /\ seen = {}

-----------------------------------------------------------------------------
(* Plausible slips in the definitions below, used to see that the          *)
(* properties notice them; no specification refers to one.                 *)

VersionsOnly(trace) == trace.status = "completed" /\ trace.versions # LatestVersions
FailedInCopy(b) ==
  [build[b].copy EXCEPT !.trace = [NoTrace EXCEPT !.status = "failed"]]

-----------------------------------------------------------------------------
(* The corpus, as indexing and retention leave it.                         *)

\* The rows a build has deleted and not committed are locked: what would
\* delete them too waits, in the end as the victim of a deadlock or after one.
RowsLocked(b) == build[b].gone # {}
Waits(cs) ==
  \E b \in Builder : \E m \in mention : m[1] \in build[b].gone /\ m[2] \in cs

\* Indexing replaces the chunk of the latest version; what refers to it goes
\* with it (ON DELETE CASCADE).
Replaced(d) ==
  /\ made < MaxMade /\ ~ Waits({chunk[d]})
  /\ made' = made + 1
  /\ stored' = (stored \ {chunk[d]}) \cup {made + 1}
  /\ chunk' = [chunk EXCEPT ![d] = made + 1]
  /\ mention' = {m \in mention : m[2] # chunk[d]}

IndexChunks(d) ==
  /\ Replaced(d)
  /\ UNCHANGED <<version, entity, kb, build, save, builds, saves, crossed, appended, seen>>

\* A new version is ingested; the chunk of the one before it stays.
NewVersion(d) ==
  /\ version[d] < MaxVersions
  /\ version' = [version EXCEPT ![d] = @ + 1]
  /\ chunk' = [chunk EXCEPT ![d] = 0]
  /\ UNCHANGED <<stored, made, entity, mention, kb, build, save, builds, saves, crossed,
                 appended, seen>>

\* Retention deletes those of the earlier versions that are old enough, with
\* their chunks and what refers to them.
PurgeOldVersions(old) ==
  /\ old # {} /\ ~ Waits(old)
  /\ stored' = stored \ old
  /\ mention' = {m \in mention : m[2] \notin old}
  /\ UNCHANGED <<version, chunk, made, entity, kb, build, save, builds, saves, crossed,
                 appended, seen>>

\* Someone has loaded metadata_json and not written it yet.
Writing ==
  (\E b \in Builder : build[b].pc # "idle") \/ (\E w \in Saver : save[w].pc # "idle")

-----------------------------------------------------------------------------
(* Builds.                                                                 *)

\* rebuild_knowledge_graph_payload, or index_knowledge_base with kg_extract,
\* loads the knowledge base.  kind: who builds, and for "provider" that what
\* fails is built again without the provider.
StartBuild(b, kind, reset) ==
  /\ build[b].pc = "idle" /\ builds < MaxBuilds
  /\ builds' = builds + 1
  /\ build' = [build EXCEPT ![b] = [Free EXCEPT !.pc = IF kind = "index" THEN "index" ELSE "loaded",
                                                !.kind = kind, !.reset = reset, !.copy = kb]]
  /\ crossed' = (crossed \/ Writing)
  /\ UNCHANGED <<corpus, entity, mention, kb, save, saves, appended, seen>>

\* The stage before the graph's: it commits, but the session does not expire
\* what it has loaded.
IndexStage(b, d) ==
  /\ build[b].pc = "index"
  /\ Replaced(d)
  /\ build' = [build EXCEPT ![b].pc = "loaded"]
  /\ UNCHANGED <<version, entity, kb, save, builds, saves, crossed, appended, seen>>

\* _delete_graph_rows, which waits for the rows another build has deleted, and
\* _latest_chunk_rows.
ReadChunks(b) ==
  LET r == build[b]
  IN  /\ r.pc = "loaded"
      /\ r.reset => \A c \in Builder : ~ RowsLocked(c)
      /\ build' = [build EXCEPT ![b] = [r EXCEPT !.pc = "read", !.chunks = LatestChunks,
                                          !.versions = LatestVersions,
                                          !.gone = IF r.reset THEN entity ELSE {}]]
      /\ UNCHANGED <<corpus, entity, mention, kb, save, builds, saves, crossed, appended, seen>>

\* Entities and what refers to chunks are inserted under a unique index over
\* the names and under foreign keys.
Kept(b) == entity \ build[b].gone
Insertable(b, found) ==
  /\ \A m \in found : m[1] \notin Kept(b)
  /\ \A m \in found : m[2] \in stored

\* What _finalize_graph_build makes of the metadata it has loaded.
BuiltTrace(b) ==
  [build[b].copy EXCEPT !.trace = [status |-> "completed", versions |-> build[b].versions,
                                   chunks |-> build[b].chunks]]

\* The extractor answers, its rows are inserted and the build is committed.
FinishBuild(b, found) ==
  /\ build[b].pc = "read" /\ Insertable(b, found)
  /\ entity' = Kept(b) \cup {m[1] : m \in found}
  /\ mention' = {m \in mention : m[1] \in Kept(b)} \cup found
  /\ kb' = BuiltTrace(b)
  /\ seen' = IF Kept(b) = {} THEN build[b].chunks ELSE seen \cup build[b].chunks
  /\ appended' = (Kept(b) # {})
  /\ build' = [build EXCEPT ![b] = Free]
  /\ UNCHANGED <<corpus, save, builds, saves, crossed>>

\* After a rollback everything is loaded again.
FailedTrace(b) == [kb EXCEPT !.trace = [NoTrace EXCEPT !.status = "failed"]]

\* The extractor or an insertion fails.  Failures of a provider leave an audit
\* event and no trace; those of the attempt without it leave nothing.
FailBuild(b) ==
  /\ build[b].pc \in {"loaded", "read"}
  /\ kb' = IF build[b].kind \in {"plain", "index"} THEN FailedTrace(b) ELSE kb
  /\ build' = [build EXCEPT ![b] = Free]
  /\ UNCHANGED <<corpus, entity, mention, save, builds, saves, crossed, appended, seen>>

\* fallback_to_deterministic: once more without the provider, in the same
\* session.
FallBack(b) ==
  /\ build[b].kind = "provider" /\ build[b].pc \in {"loaded", "read"}
  /\ build' = [build EXCEPT ![b] = [Free EXCEPT !.pc = "loaded", !.kind = "fallback",
                                                !.reset = build[b].reset, !.copy = kb]]
  /\ UNCHANGED <<corpus, entity, mention, kb, save, builds, saves, crossed, appended, seen>>

-----------------------------------------------------------------------------
(* Settings: put_retrieval_preferences, put_role_model_config and          *)
(* put_stage_model_policy.                                                 *)

StartSave(w, k) ==
  /\ save[w].pc = "idle" /\ saves < MaxSaves
  /\ saves' = saves + 1
  /\ save' = [save EXCEPT ![w] = [pc |-> "loaded", key |-> k, copy |-> kb]]
  /\ crossed' = (crossed \/ Writing)
  /\ UNCHANGED <<corpus, entity, mention, kb, build, builds, appended, seen>>

\* The numbers of the saves stand for what is saved.
Saved(w) == [save[w].copy EXCEPT !.settings[save[w].key] = saves]

FinishSave(w) ==
  /\ save[w].pc = "loaded"
  /\ kb' = Saved(w)
  /\ save' = [save EXCEPT ![w] = [@ EXCEPT !.pc = "idle", !.copy = {}]]
  /\ UNCHANGED <<corpus, entity, mention, build, builds, saves, crossed, appended, seen>>

Builds ==
  \E b \in Builder :
    \/ \E kind \in {"plain", "provider", "index"}, reset \in BOOLEAN :
         (kind = "index" => reset) /\ StartBuild(b, kind, reset)
    \/ \E d \in Document : IndexStage(b, d)
    \/ ReadChunks(b) \/ FailBuild(b) \/ FallBack(b)
    \/ \E found \in SUBSET (Name \X build[b].chunks) : FinishBuild(b, found)

GraphNext ==
  \/ Builds
  \/ \E d \in Document : IndexChunks(d) \/ NewVersion(d)
  \/ \E old \in SUBSET (stored \ LatestChunks) : PurgeOldVersions(old)
  \/ \E w \in Saver : FinishSave(w) \/ \E k \in Setting : StartSave(w, k)

GraphSpec == GraphInit /\ [][GraphNext]_graphVars

-----------------------------------------------------------------------------
(* What retrieval makes of the graph, and the properties.                  *)

\* build_graph_retrieval_context: the fingerprints of what was built differ
\* from those of what there is.
Stale(trace) ==
  /\ trace.status = "completed"
  /\ trace.versions # LatestVersions \/ trace.chunks # LatestChunks

Degraded == kb.trace.status = "failed" \/ Stale(kb.trace) \/ entity = {}

\* "a same-version force reindex is reported as graph_stale instead of silently
\* using incomplete graph evidence" (ragrig-kg-lite-graph-retrieval-spec:45).
\* However indexing and failures fall between the steps of builds and saves that
\* come one at a time, a graph that is not reported degraded is
\* made of all the latest chunks and, where it has replaced the one before it,
\* of nothing else.
GraphIsCurrent ==
  (~ Degraded /\ ~ crossed) =>
    /\ LatestChunks \subseteq seen
    /\ ~ appended => \A m \in mention : m[2] \in LatestChunks

\* "the Console retrieval mode preference is stored" (same document, API): a
\* saved setting is only ever lost to a request, or to a build that succeeds,
\* whose copy of the metadata is older than the setting.  A build that fails
\* loses none, however long ago it began.
Overwrites(copy, k) == kb'.settings[k] = copy.settings[k] /\ copy.settings[k] < kb.settings[k]
SettingsKept ==
  [][\A k \in Setting : kb'.settings[k] < kb.settings[k] =>
       \/ \E w \in Saver : save[w].pc = "loaded" /\ save'[w].pc = "idle"
                           /\ Overwrites(save[w].copy, k)
       \/ \E b \in Builder : build[b].pc = "read" /\ build'[b].pc = "idle"
                             /\ kb'.trace.status = "completed"
                             /\ Overwrites(build[b].copy, k)]_graphVars
=============================================================================
