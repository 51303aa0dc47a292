----------------------------- MODULE SourceSync -----------------------------
(***************************************************************************)
(* Ingestion runs over a source, while what it holds changes: a bucket of  *)
(* an object store, a file share, the rows of a database's queries, or a   *)
(* local directory.                                                        *)
(*                                                                         *)
(* A run is one transaction (READ COMMITTED): it lists the source, records *)
(* the objects it skips, then takes the others in the order of their keys. *)
(* Remote connectors skip an object whose listed snapshot its document     *)
(* has, and read, parse and store any other as a new version; for a local  *)
(* file the new version is compared with the newest one instead.  The row  *)
(* of a document it has written is locked until the run commits.  An       *)
(* object's snapshot (etag, time, size) and its body are identified by a   *)
(* tag.                                                                    *)
(***************************************************************************)
EXTENDS Naturals, Sequences, FiniteSets

CONSTANTS
  Last,        \* the keys of the bucket are 1..Last
  Runner,      \* threads that can be running an ingestion
  MaxRuns,     \* bound on runs
  MaxEvents    \* bound on changes of the objects and failures, together

ASSUME LastAssumption == Last \in Nat \ {0}
ASSUME BoundsAssumption == MaxRuns \in Nat /\ MaxEvents \in Nat

Key == 1..Last
Tag == 0..MaxEvents

\* A large object is over the limit of its size, a binary one has a NUL byte in
\* the head of its body, one that is gone is no longer listed.
Kind == {"text", "binary", "large", "gone"}
Object == [tag: Tag, kind: Kind]

-----------------------------------------------------------------------------
(* How the connectors differ.                                              *)

\* binary: when a NUL byte is noticed; read: when the body is; version: what
\* makes a new one; spoils: a skip or a failure overwrites the document;
\* items: an object's failure costs its item; gone: objects that are missed
\* get a document too.
Trait ==
  [binary: {"listing", "body", "never"}, read: {"listing", "later"},
   version: {"snapshot", "body"}, spoils: BOOLEAN, items: BOOLEAN, gone: BOOLEAN]

\* S3 and its relatives.
ObjectStore ==
  [binary |-> "body", read |-> "later", version |-> "snapshot", spoils |-> TRUE,
   items |-> TRUE, gone |-> FALSE]
AzureBlob == ObjectStore

\* A file share, whose scan reads the heads of the files and tells which of
\* the known documents it has not seen.
Fileshare == [ObjectStore EXCEPT !.binary = "listing", !.gone = TRUE]

\* The rows come with the listing; an error of a row is the run's.
Database ==
  [ObjectStore EXCEPT !.binary = "never", !.read = "listing", !.items = FALSE, !.gone = TRUE]

\* A local directory: documents that exist are left as they are by a skip or
\* a failure.
Local == [ObjectStore EXCEPT !.binary = "listing", !.version = "body", !.spoils = FALSE]

Connector == {ObjectStore, AzureBlob, Fileshare, Database, Local}

-----------------------------------------------------------------------------
(* State.                                                                  *)

\* documents.metadata_json: "done" carries object_snapshot, a skip_reason or a
\* failure_reason does not; "absent" is a document that does not exist.
Meta == [state: {"absent", "done", "skipped", "failed"}, tag: Tag]
Absent == [state |-> "absent", tag |-> 0]
\* document_versions: the body it was parsed from and the snapshot it carries.
Version == [body: Tag, snapshot: Tag]

VARIABLES
  source,    \* the connector of the source
  object,    \* what the source holds
  meta,      \* the documents, as committed
  versions,  \* the versions of each document, as committed
  run,       \* the runs
  runs,      \* runs so far
  events,    \* changes and failures so far
  overlapped \* history: two runs have been under way at a time

vars == <<source, object, meta, versions, run, runs, events, overlapped>>

RunState ==
  [pc: {"idle", "visit", "fetch", "load", "store"},
   listed: [Key -> Object],     \* the listing
   todo: SUBSET Key,            \* objects without an item yet
   at: Key,                     \* the object being ingested
   mem: Meta,                   \* its document as loaded
   body: Object,                \* what was downloaded
   wrote: SUBSET Key,           \* documents written and not committed
   newMeta: [Key -> Meta],      \* their metadata
   added: [Key -> Seq(Version)],\* their new versions
   clean: BOOLEAN]              \* history: nothing has changed or failed since
NoRun ==
  [pc |-> "idle", listed |-> [k \in Key |-> [tag |-> 0, kind |-> "text"]], todo |-> {},
   at |-> 1, mem |-> Absent, body |-> [tag |-> 0, kind |-> "text"], wrote |-> {},
   newMeta |-> [k \in Key |-> Absent], added |-> [k \in Key |-> << >>], clean |-> FALSE]

Init ==
  /\ source \in Connector
  /\ object \in [Key -> {o \in Object : o.tag = 0}]
  /\ meta = [k \in Key |-> Absent]
  /\ versions = [k \in Key |-> << >>]
  /\ run = [r \in Runner |-> NoRun]
  /\ runs = 0 /\ events = 0 /\ overlapped = FALSE

-----------------------------------------------------------------------------
(* Plausible slips in the definitions below, used to see that the          *)
(* properties notice them; no specification refers to one.                 *)

UnchangedOnceDone(r, k) == meta[k].state = "done"
UnchangedNever(r, k) == FALSE
DoneMetaAtStore(r, k) == [state |-> "done", tag |-> object[k].tag]

-----------------------------------------------------------------------------
(* What the code computes.                                                 *)

\* The snapshot of the object as listed.
Snapshot(r, k) == run[r].listed[k].tag

Unchanged(r, k) ==
  source.version = "snapshot" /\ meta[k] = [state |-> "done", tag |-> Snapshot(r, k)]

\* Objects the scan skips come first, then the others, then those that are
\* missed, each in the order of the listing.
Missed(r, k) == run[r].listed[k].kind = "gone"
ScanSkips(r, k) ==
  \/ run[r].listed[k].kind = "large" /\ source.read = "later"
  \/ run[r].listed[k].kind = "binary" /\ source.binary = "listing"
Phase(r, k) == IF ScanSkips(r, k) THEN 1 ELSE IF Missed(r, k) THEN 3 ELSE 2
NextUp(r, k) ==
  /\ run[r].pc = "visit" /\ k \in run[r].todo
  /\ \A j \in run[r].todo \ {k} :
       Phase(r, k) < Phase(r, j) \/ (Phase(r, k) = Phase(r, j) /\ k < j)

\* What is written of an object that is skipped or fails; a document that
\* exists may be left as it is.
Noted(r, k, state) ==
  IF source.spoils \/ meta[k] = Absent THEN [state |-> state, tag |-> Snapshot(r, k)] ELSE meta[k]

\* The snapshot that is stored is that of the listing, not of the body.
DoneMeta(r, k) ==
  [state |-> "done", tag |-> IF source.version = "body" THEN run[r].body.tag ELSE Snapshot(r, k)]

\* Another run has written the document and not committed.
Locked(r, k) == \E q \in Runner \ {r} : k \in run[q].wrote

\* get_or_create_document: an UPDATE of what differs from the row as loaded, or
\* an INSERT; either waits for the run that has written the same document (an
\* INSERT that was beaten becomes an UPDATE).
Done(r, k, old, new, added) ==
  [run[r] EXCEPT !.pc = "visit", !.todo = @ \ {k}, !.newMeta[k] = new, !.added[k] = added,
                 !.mem = Absent, !.body = [tag |-> 0, kind |-> "text"],
                 !.wrote = IF new = old THEN @ ELSE @ \cup {k}]
MayWrite(r, k, old, new) == new # old => ~ Locked(r, k)

Soiled(s) == [r \in Runner |-> [s[r] EXCEPT !.clean = FALSE]]

-----------------------------------------------------------------------------
(* A run.                                                                  *)

\* From the start to the end of the listing.  A source that tells what it
\* misses is asked about every object there has been (known_document_uris).
Start(r) ==
  /\ run[r].pc = "idle"
  /\ runs < MaxRuns
  /\ runs' = runs + 1
  /\ overlapped' = (overlapped \/ \E q \in Runner \ {r} : run[q].pc # "idle")
  /\ run' = [run EXCEPT ![r] = [NoRun EXCEPT
                 !.pc = "visit", !.listed = object, !.clean = TRUE,
                 !.todo = {k \in Key : source.gone \/ object[k].kind # "gone"}]]
  /\ UNCHANGED <<source, object, meta, versions, events>>

\* The document of an object the scan skips, loaded and written.
SkipAtScan(r, k) ==
  /\ NextUp(r, k)
  /\ ScanSkips(r, k)
  /\ LET new == Noted(r, k, "skipped")
     IN  /\ MayWrite(r, k, meta[k], new)
         /\ run' = [run EXCEPT ![r] = Done(r, k, meta[k], new, << >>)]
  /\ UNCHANGED <<source, object, meta, versions, runs, events, overlapped>>

\* An object that is missed has a placeholder made, unless it has a document.
Miss(r, k) ==
  /\ NextUp(r, k)
  /\ Missed(r, k)
  /\ LET new == IF meta[k] = Absent THEN [state |-> "skipped", tag |-> Snapshot(r, k)] ELSE meta[k]
     IN  /\ MayWrite(r, k, meta[k], new)
         /\ run' = [run EXCEPT ![r] = Done(r, k, meta[k], new, << >>)]
  /\ UNCHANGED <<source, object, meta, versions, runs, events, overlapped>>

\* The document is looked up: unchanged, or to be read.  A local file is read
\* first.
Visited(r, k) == NextUp(r, k) /\ ~ ScanSkips(r, k) /\ ~ Missed(r, k)

SkipUnchanged(r, k) ==
  /\ Visited(r, k)
  /\ Unchanged(r, k)
  /\ run' = [run EXCEPT ![r].todo = @ \ {k}]
  /\ UNCHANGED <<source, object, meta, versions, runs, events, overlapped>>

Look(r, k) ==
  /\ Visited(r, k)
  /\ ~ Unchanged(r, k)
  /\ run' = [run EXCEPT ![r].pc = IF source.read = "later" THEN "fetch" ELSE "store",
                        ![r].at = k,
                        ![r].mem = IF source.version = "snapshot" THEN meta[k] ELSE Absent,
                        ![r].body = IF source.read = "later" THEN @ ELSE run[r].listed[k]]
  /\ UNCHANGED <<source, object, meta, versions, runs, events, overlapped>>

\* The body is what the object holds by now, whatever was listed.
Read(r) ==
  /\ run[r].pc = "fetch"
  /\ object[run[r].at].kind # "gone"
  /\ run' = [run EXCEPT ![r].pc = IF source.version = "snapshot" THEN "store" ELSE "load",
                        ![r].body = object[run[r].at]]
  /\ UNCHANGED <<source, object, meta, versions, runs, events, overlapped>>

\* The document of a local file, looked up after it was parsed.
Load(r) ==
  /\ run[r].pc = "load"
  /\ run' = [run EXCEPT ![r].pc = "store", ![r].mem = meta[run[r].at]]
  /\ UNCHANGED <<source, object, meta, versions, runs, events, overlapped>>

SkipBinary(r) ==
  LET k == run[r].at
      new == Noted(r, k, "skipped")
  IN  /\ run[r].pc = "store"
      /\ run[r].body.kind = "binary" /\ source.binary = "body"
      /\ MayWrite(r, k, run[r].mem, new)
      /\ run' = [run EXCEPT ![r] = Done(r, k, run[r].mem, new, << >>)]
      /\ UNCHANGED <<source, object, meta, versions, runs, events, overlapped>>

\* A local file whose newest version, as committed once the row of the
\* document is written, has the same body.
IsNewest(r) ==
  LET v == versions[run[r].at]
  IN  source.version = "body" /\ v # << >> /\ v[Len(v)].body = run[r].body.tag

\* Parsed: the document is written and a version added.
Store(r) ==
  LET k == run[r].at
      new == DoneMeta(r, k)
  IN  /\ run[r].pc = "store"
      /\ ~ (run[r].body.kind = "binary" /\ source.binary = "body")
      /\ MayWrite(r, k, run[r].mem, new)
      /\ ~ IsNewest(r) => ~ Locked(r, k)    \* two versions of one number
      /\ run' = [run EXCEPT ![r] =
                   Done(r, k, run[r].mem, new,
                        IF IsNewest(r) THEN << >>
                        ELSE <<[body |-> run[r].body.tag, snapshot |-> new.tag]>>)]
      /\ UNCHANGED <<source, object, meta, versions, runs, events, overlapped>>

\* Reading fails, with its retries, or parsing; an object may be gone by now, or
\* another run has added the version of the next number.  A failed item, and the
\* run goes on.
GoneByNow(r) == run[r].pc = "fetch" /\ object[run[r].at].kind = "gone"
Collides(r) ==
  /\ run[r].pc = "store" /\ run[r].mem = DoneMeta(r, run[r].at) /\ ~ IsNewest(r)
  /\ \E q \in Runner \ {r} : run[q].added[run[r].at] # << >>
FailObject(r) ==
  LET k == run[r].at
      old == IF source.version = "snapshot" THEN run[r].mem ELSE meta[k]
      new == Noted(r, k, "failed")
  IN  /\ run[r].pc \in {"fetch", "store"} /\ source.items
      /\ \/ (GoneByNow(r) \/ Collides(r)) /\ UNCHANGED events
         \/ events < MaxEvents /\ events' = events + 1
      /\ MayWrite(r, k, old, new)
      /\ run' = [run EXCEPT ![r] = [Done(r, k, old, new, << >>) EXCEPT !.clean = FALSE]]
      /\ UNCHANGED <<source, object, meta, versions, runs, overlapped>>

Committed(r) ==
  /\ meta' = [k \in Key |-> IF k \in run[r].wrote THEN run[r].newMeta[k] ELSE meta[k]]
  /\ versions' = [k \in Key |-> versions[k] \o run[r].added[k]]
  /\ run' = [Soiled(run) EXCEPT ![r] = NoRun]

\* All objects have an item.
Commit(r) ==
  /\ run[r].pc = "visit"
  /\ run[r].todo = {}
  /\ Committed(r)
  /\ UNCHANGED <<source, object, runs, events, overlapped>>

\* A configuration or credential error, while listing or reading, or any error
\* of a database's row: the run is failed, and what it has done is committed.
FailRun(r) ==
  /\ \/ run[r].pc = "visit" /\ (run[r].todo = Key \/ ~ source.items)
     \/ run[r].pc = "fetch"
  /\ source.version = "snapshot"
  /\ events < MaxEvents
  /\ events' = events + 1
  /\ Committed(r)
  /\ UNCHANGED <<source, object, runs, overlapped>>

Lose(r) ==
  /\ run' = [run EXCEPT ![r] = NoRun]
  /\ UNCHANGED <<source, object, meta, versions, runs, overlapped>>

\* The process or the connection ends, a listing fails in another way, or an
\* object raises what no handler of the run names: nothing of it is kept.
BreakOff(r) ==
  /\ run[r].pc # "idle"
  /\ events < MaxEvents
  /\ events' = events + 1
  /\ Lose(r)

\* The database aborts a run that waits for one that waits for it, which the
\* objects that one of them skips at once make possible.
Wants(r, k) ==
  \/ run[r].pc = "store" /\ run[r].at = k
  \/ NextUp(r, k) /\ (ScanSkips(r, k) \/ Missed(r, k))
Deadlock(r) ==
  /\ \E q \in Runner \ {r} :
       /\ \E j \in run[r].wrote : Wants(q, j)
       /\ \E k \in run[q].wrote : Wants(r, k)
  /\ Lose(r)
  /\ UNCHANGED events

\* An object is overwritten, goes, or comes back as it was.
Turned(k, new) ==
  /\ events < MaxEvents
  /\ events' = events + 1
  /\ object' = [object EXCEPT ![k] = new]
  /\ run' = Soiled(run)
  /\ UNCHANGED <<source, meta, versions, runs, overlapped>>

Change(k, kind) ==
  /\ kind # "gone"
  /\ Turned(k, [tag |-> object[k].tag + 1, kind |-> kind])

Go(k) == object[k].kind = "text" /\ Turned(k, [object[k] EXCEPT !.kind = "gone"])

ComeBack(k) == object[k].kind = "gone" /\ Turned(k, [object[k] EXCEPT !.kind = "text"])

Next ==
  \/ \E r \in Runner :
       \/ Start(r) \/ Read(r) \/ Load(r) \/ SkipBinary(r) \/ Store(r) \/ FailObject(r)
       \/ Commit(r) \/ FailRun(r) \/ BreakOff(r) \/ Deadlock(r)
       \/ \E k \in Key : SkipAtScan(r, k) \/ Miss(r, k) \/ SkipUnchanged(r, k) \/ Look(r, k)
  \/ \E k \in Key : \/ \E kind \in Kind : Change(k, kind)
                    \/ Go(k)
                    \/ ComeBack(k)

Spec == Init /\ [][Next]_vars

-----------------------------------------------------------------------------
(* Properties.                                                             *)

Latest(k) == versions[k][Len(versions[k])]

\* The variables keep their types; of two runs only one has written a document.
TypeOK ==
  /\ source \in Connector
  /\ object \in [Key -> Object]
  /\ meta \in [Key -> Meta]
  /\ versions \in [Key -> Seq(Version)]
  /\ run \in [Runner -> RunState]
  /\ runs \in 0..MaxRuns /\ events \in 0..MaxEvents /\ overlapped \in BOOLEAN
  /\ \A r, q \in Runner : r # q => run[r].wrote \cap run[q].wrote = {}

\* An object that the next run would skip for its snapshot is served as it is:
\* whatever changed between the listing and the reading, and in whatever order
\* runs commit, no stale version is taken for the current one (the test at
\* s3/connector.py:158-162 against the snapshot stored at 212-214, and the same
\* at azure_blob/connector.py:311, fileshare/connector.py:156 and
\* database/connector.py:260).
UnchangedIsCurrent ==
  source.version = "snapshot" =>
    \A k \in Key : meta[k] = [state |-> "done", tag |-> object[k].tag]
      => versions[k] # << >> /\ Latest(k).body = object[k].tag

\* A run during which nothing changed, failed or was committed by another
\* leaves every text object served as it is.
RunBringsCurrent ==
  [][\A r \in Runner : Commit(r) /\ run[r].clean
       => \A k \in Key : object[k].kind = "text"
            => versions'[k] # << >> /\ versions'[k][Len(versions'[k])].body = object[k].tag]_vars

\* "Document versions are created only when the object snapshot changes."
\* (docs/specs/ragrig-s3-source-plugin-spec.md:140): so it is as long as runs
\* come one at a time, also where a skip or a failure has overwritten the
\* snapshot a document had (the test at s3/connector.py:158-162).
VersionsOnlyOnChange ==
  ~ overlapped => \A k \in Key : \A i \in 2..Len(versions[k]) :
    versions[k][i].snapshot # versions[k][i - 1].snapshot
=============================================================================
