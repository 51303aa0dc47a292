---------------------------- MODULE CorpusProofs -----------------------------
(***************************************************************************)
(* Proofs about two components that share nothing, for any number of       *)
(* runs, builds, changes and interruptions.                                *)
(*                                                                         *)
(* Runs over a source.  Where snapshots are compared, a document that is   *)
(* done has a version made of its snapshot, of a body at least as new; the *)
(* runs under way carry the same of what they have made but not committed  *)
(* (MadeOf), so that a commit, of any run and at any time, keeps it        *)
(* (SnapshotsFit).  Versions follow changes only while runs come one at a  *)
(* time: what a run decides by is then what is there, and a version is     *)
(* added of a later snapshot, or another body, than the newest (AloneInv). *)
(* A run during which nothing changes has, for every text it has an item   *)
(* for, the version that is served at its end (CleanInv).                  *)
(*                                                                         *)
(* The graph.  As long as those who write the column have not overlapped,  *)
(* there is one at a time and its copy is the column (OneWriter), and the  *)
(* trace tells of the build whose rows are there (TraceFits).  A setting   *)
(* is numbered by its save, so no number is beyond the last (Counted).     *)
(***************************************************************************)
EXTENDS SourceSync, KnowledgeGraph, SequenceTheorems, TLAPS

-----------------------------------------------------------------------------
(* Runs over a source.                                                     *)

\* A run that is under way, and one that has an object in hand.
Busy(s) == s.pc # "idle"
InHand(s, k) == s.pc \in {"fetch", "load", "store"} /\ s.at = k
Newest(vs) == vs[Len(vs)]

\* What a run says of a document it takes as it is listed.
DoneAsListed(s, k) == [state |-> "done", tag |-> s.listed[k].tag]

\* The object in hand has no item yet, and an object without one has not been
\* written.
WorkFits ==
  \A r \in Runner :
    LET s == run[r]
    IN  /\ s.todo \cap s.wrote = {}
        /\ \A k \in Key : InHand(s, k) => k \in s.todo
        /\ \A k \in s.todo : s.added[k] = << >>

\* What a run has made of an object, seen from its snapshot: nothing, a note, or
\* a version of a body that is at least as new as the listing.
MadeOf(s, k, o) ==
  \/ k \notin s.wrote /\ s.added[k] = << >>
  \/ k \in s.wrote /\ s.added[k] = << >> /\ s.newMeta[k].state # "done" /\ s.newMeta[k].tag = s.listed[k].tag
  \/ /\ k \in s.wrote /\ s.newMeta[k] = DoneAsListed(s, k)
     /\ \E b \in Tag : /\ s.added[k] = <<[body |-> b, snapshot |-> s.listed[k].tag]>>
                       /\ s.listed[k].tag <= b /\ b <= o.tag

SnapshotFits(s, k, o) ==
  /\ s.listed[k].tag <= o.tag
  /\ InHand(s, k) => s.pc # "load" /\ s.mem # DoneAsListed(s, k)
  /\ InHand(s, k) /\ s.pc = "store" => s.listed[k].tag <= s.body.tag /\ s.body.tag <= o.tag
  /\ MadeOf(s, k, o)

\* A document that is done has a version of its snapshot, of a body that is at
\* least as new.
ServedFits(k) ==
  meta[k].state = "done" =>
    /\ versions[k] # << >>
    /\ Newest(versions[k]).snapshot = meta[k].tag
    /\ meta[k].tag <= Newest(versions[k]).body
    /\ Newest(versions[k]).body <= object[k].tag

SnapshotsFit ==
  source.version = "snapshot" =>
    \A k \in Key : ServedFits(k) /\ \A r \in Runner : SnapshotFits(run[r], k, object[k])

-----------------------------------------------------------------------------
\* Kinds that do not change without the tag.
Alike(o, l) == o.kind = l.kind \/ {o.kind, l.kind} \subseteq {"text", "gone"}
SkippedKind(kind) ==
  \/ kind = "large" /\ source.read = "later"
  \/ kind = "binary" /\ source.binary = "listing"

\* A document as long as runs come one at a time: what was noted of it last is
\* not older than its newest version.
DocumentFits(k) ==
  /\ meta[k].tag <= object[k].tag
  /\ versions[k] # << >> =>
       LET t == Newest(versions[k]).snapshot
       IN  /\ t <= meta[k].tag
           /\ t = meta[k].tag => meta[k].state = "done"
           /\ t = object[k].tag => ~ SkippedKind(object[k].kind)

\* and a run that is alone: a version is only added, and a document only
\* written, of a snapshot later than the newest version's.
AloneFits(s, k) ==
  Busy(s) =>
    /\ meta[k].tag <= s.listed[k].tag
    /\ s.listed[k].tag = object[k].tag => Alike(object[k], s.listed[k])
    /\ versions[k] # << >> /\ Newest(versions[k]).snapshot = s.listed[k].tag
         => ~ SkippedKind(s.listed[k].kind)
    /\ InHand(s, k) => s.mem = meta[k] /\ ~ SkippedKind(s.listed[k].kind)
    /\ k \in s.wrote /\ versions[k] # << >> => Newest(versions[k]).snapshot < s.listed[k].tag
    /\ s.added[k] # << >> => ~ SkippedKind(s.listed[k].kind)

\* A local file is compared with the newest version itself.
BodyFits(k) ==
  /\ \A i \in 1..Len(versions[k]) : versions[k][i].snapshot = versions[k][i].body
  /\ \A r \in Runner :
       LET s == run[r]
       IN  Busy(s) /\ s.added[k] # << >> =>
             \E v \in Version : /\ s.added[k] = <<v>> /\ v.snapshot = v.body
                                /\ versions[k] # << >> => v.body # Newest(versions[k]).body

AloneInv ==
  ~ overlapped =>
    /\ \A r, q \in Runner : r # q => ~ Busy(run[r]) \/ ~ Busy(run[q])
    /\ VersionsOnlyOnChange
    /\ source.version = "snapshot" =>
         \A k \in Key : DocumentFits(k) /\ \A r \in Runner : AloneFits(run[r], k)
    /\ source.version = "body" => \A k \in Key : BodyFits(k)

-----------------------------------------------------------------------------
\* A run during which nothing has changed lists what there is, reads what it has
\* listed, and every text it has an item for is served, or will be.
CleanFits(s) ==
  Busy(s) /\ s.clean =>
    /\ s.listed = object
    /\ s.pc \in {"load", "store"} => s.body = object[s.at]
    /\ \A k \in Key \ s.todo : object[k].kind = "text" =>
         \/ \E v \in Version : s.added[k] = <<v>> /\ v.body = object[k].tag
         \/ /\ s.added[k] = << >> /\ versions[k] # << >>
            /\ Newest(versions[k]).body = object[k].tag

CleanInv == \A r \in Runner : CleanFits(run[r])

\* No object has been changed more often than there were events.
TagsFit == \A k \in Key : object[k].tag <= events

SyncBase == TypeOK /\ TagsFit /\ WorkFits
SyncInv == SyncBase /\ SnapshotsFit /\ AloneInv /\ CleanInv

-----------------------------------------------------------------------------
\* What the steps of a run make of it.

LEMMA NoRunTyped == NoRun \in RunState
<1>1. 0 \in Tag /\ 1 \in Key
  BY LastAssumption, BoundsAssumption DEF Tag, Key
<1>2. << >> \in Seq(Version)
  OBVIOUS
<1>3. Absent \in Meta /\ [tag |-> 0, kind |-> "text"] \in Object
  BY <1>1 DEF Absent, Meta, Object, Kind
<1> QED
  BY <1>1, <1>2, <1>3 DEF NoRun, RunState

IsDone(d, s, k, old, new, added) ==
  /\ d \in RunState
  /\ d.pc = "visit" /\ d.listed = s.listed /\ d.todo = s.todo \ {k}
  /\ d.wrote = (IF new = old THEN s.wrote ELSE s.wrote \cup {k})
  /\ d.newMeta = [s.newMeta EXCEPT ![k] = new]
  /\ d.added = [s.added EXCEPT ![k] = added]
  /\ d.clean = s.clean

LEMMA DoneFields ==
  ASSUME NEW r \in Runner, run[r] \in RunState, NEW k \in Key, NEW old \in Meta, NEW new \in Meta,
         NEW added \in Seq(Version), NEW d, d = Done(r, k, old, new, added)
  PROVE  IsDone(d, run[r], k, old, new, added)
<1>1. PICK s : s = run[r]
  OBVIOUS
<1>2. s \in RunState
  BY <1>1
<1>3. PICK n : n = [s.newMeta EXCEPT ![k] = new]
  OBVIOUS
<1>4. PICK a : a = [s.added EXCEPT ![k] = added]
  OBVIOUS
<1>5. n \in [Key -> Meta] /\ a \in [Key -> Seq(Version)]
  BY <1>2, <1>3, <1>4 DEF RunState
<1>6. PICK w : w = IF new = old THEN s.wrote ELSE s.wrote \cup {k}
  OBVIOUS
<1>7. w \in SUBSET Key /\ s.todo \ {k} \in SUBSET Key
  BY <1>2, <1>6 DEF RunState
<1>8. Absent \in Meta /\ [tag |-> 0, kind |-> "text"] \in Object
  BY BoundsAssumption DEF Absent, Meta, Object, Kind, Tag
<1>9. d = [s EXCEPT !.pc = "visit", !.todo = s.todo \ {k}, !.newMeta = n, !.added = a,
                    !.mem = Absent, !.body = [tag |-> 0, kind |-> "text"], !.wrote = w]
  BY <1>1, <1>2, <1>3, <1>4, <1>6 DEF Done, RunState
<1>10. /\ d.pc = "visit" /\ d.listed = s.listed /\ d.todo = s.todo \ {k} /\ d.wrote = w
       /\ d.newMeta = n /\ d.added = a /\ d.clean = s.clean
  BY <1>2, <1>9 DEF RunState
<1>11. d \in RunState
  BY <1>2, <1>5, <1>7, <1>8, <1>9 DEF RunState
<1> QED
  BY <1>1, <1>3, <1>4, <1>6, <1>10, <1>11 DEF IsDone

\* Run r gives k its item: add is added, new is noted where it was old.
Handled(r, k, old, new, add, d) ==
  /\ Busy(run[r]) /\ k \in Key /\ k \in run[r].todo /\ old \in Meta /\ new \in Meta /\ add \in Seq(Version)
  /\ run' = [run EXCEPT ![r] = d]
  /\ d \in RunState
  /\ d.pc = "visit" /\ d.listed = run[r].listed /\ d.todo = run[r].todo \ {k}
  /\ d.newMeta[k] = new /\ d.added[k] = add
  /\ k \in d.wrote <=> new # old
  /\ new # old => ~ Locked(r, k)
  /\ \A j \in Key \ {k} :
       /\ d.newMeta[j] = run[r].newMeta[j] /\ d.added[j] = run[r].added[j]
       /\ j \in d.wrote <=> j \in run[r].wrote
  /\ d.clean => run[r].clean
  /\ UNCHANGED <<source, object, meta, versions, runs, overlapped>>
  /\ events' \in 0..MaxEvents /\ events <= events'

LEMMA HandledIfDone ==
  ASSUME SyncBase, NEW r \in Runner, NEW k \in Key, NEW old \in Meta, NEW new \in Meta,
         NEW add \in Seq(Version), NEW d, Busy(run[r]), k \in run[r].todo, MayWrite(r, k, old, new),
         \/ d = Done(r, k, old, new, add)
         \/ d = [Done(r, k, old, new, add) EXCEPT !.clean = FALSE],
         run' = [run EXCEPT ![r] = d],
         UNCHANGED <<source, object, meta, versions, runs, overlapped>>,
         events' \in 0..MaxEvents /\ events <= events'
  PROVE  Handled(r, k, old, new, add, d)
<1>1. PICK c : c = Done(r, k, old, new, add)
  OBVIOUS
<1>2. run[r] \in RunState
  BY DEF SyncBase, TypeOK
<1>2a. IsDone(c, run[r], k, old, new, add)
  BY <1>1, <1>2, DoneFields
<1>3. /\ c \in RunState
      /\ c.pc = "visit" /\ c.listed = run[r].listed /\ c.todo = run[r].todo \ {k}
      /\ c.wrote = (IF new = old THEN run[r].wrote ELSE run[r].wrote \cup {k})
      /\ c.newMeta = [run[r].newMeta EXCEPT ![k] = new]
      /\ c.added = [run[r].added EXCEPT ![k] = add]
      /\ c.clean = run[r].clean
  BY <1>2a DEF IsDone
<1>4. d = c \/ d = [c EXCEPT !.clean = FALSE]
  BY <1>1
<1>5. /\ d \in RunState
      /\ d.pc = c.pc /\ d.listed = c.listed /\ d.todo = c.todo /\ d.wrote = c.wrote
      /\ d.newMeta = c.newMeta /\ d.added = c.added
      /\ d.clean => c.clean
  <2>1. c \in RunState
    BY <1>3
  <2>2. CASE d = c
    BY <2>1, <2>2
  <2>3. CASE d = [c EXCEPT !.clean = FALSE]
    BY <2>1, <2>3 DEF RunState
  <2> QED
    BY <1>4, <2>2, <2>3
<1>6. k \notin run[r].wrote
  BY DEF SyncBase, WorkFits
<1>7. run[r].newMeta \in [Key -> Meta] /\ run[r].added \in [Key -> Seq(Version)]
  BY <1>2 DEF RunState
<1>8. /\ c.newMeta[k] = new /\ c.added[k] = add
      /\ \A j \in Key \ {k} : /\ c.newMeta[j] = run[r].newMeta[j] /\ c.added[j] = run[r].added[j]
  BY <1>3, <1>7
<1> QED
  BY <1>1, <1>3, <1>5, <1>6, <1>8 DEF Handled, MayWrite

\* An object that is skipped, missed or fails: nothing is added, and a note of it
\* is written, if one is, over the document as it is, or as it was loaded.
Noting(r) ==
  \/ SkipBinary(r) \/ FailObject(r)
  \/ \E k \in Key : SkipAtScan(r, k) \/ Miss(r, k)

NoteMade(r, k, old, new, d) ==
  /\ Handled(r, k, old, new, << >>, d)
  /\ source.version = "snapshot" => new = old \/ (new.state # "done" /\ new.tag = Snapshot(r, k))
  /\ \/ InHand(run[r], k) /\ (source.version = "snapshot" => old = run[r].mem)
     \/ old = meta[k] /\ SkippedKind(run[r].listed[k].kind)
     \/ old = meta[k] /\ (new # old => meta[k] = Absent)
  /\ d.clean =>
       \/ run[r].listed[k].kind # "text"
       \/ InHand(run[r], k) /\ run[r].pc = "store" /\ run[r].body.kind # "text"

LEMMA Sources ==
  ASSUME source \in Connector
  PROVE  /\ source.version \in {"snapshot", "body"}
         /\ source.version = "snapshot" => source.spoils
<1> DEFINE Spoiling(c) == c.version = "snapshot" /\ c.spoils = TRUE
<1>1. ObjectStore.version = "snapshot" /\ ObjectStore.spoils = TRUE
  BY DEF ObjectStore
<1>2. Fileshare.version = "snapshot" /\ Fileshare.spoils = TRUE
  BY DEF ObjectStore, Fileshare
<1>3. Database.version = "snapshot" /\ Database.spoils = TRUE
  BY DEF ObjectStore, Database
<1>4. Local.version = "body"
  BY DEF ObjectStore, Local
<1> QED
  BY <1>1, <1>2, <1>3, <1>4 DEF Connector, AzureBlob

LEMMA NotedTyped ==
  ASSUME SyncBase, NEW r \in Runner, NEW k \in Key, NEW state \in {"skipped", "failed"}
  PROVE  /\ Noted(r, k, state) \in Meta
         /\ source.version = "snapshot" =>
              Noted(r, k, state).state # "done" /\ Noted(r, k, state).tag = Snapshot(r, k)
<1>1. run[r] \in RunState /\ meta[k] \in Meta /\ source \in Connector
  BY DEF SyncBase, TypeOK
<1>2. run[r].listed[k] \in Object
  BY <1>1 DEF RunState
<1>3. Snapshot(r, k) \in Tag
  BY <1>2 DEF Snapshot, Object
<1>4. source.version = "snapshot" => source.spoils
  BY <1>1, Sources
<1>5. [state |-> state, tag |-> Snapshot(r, k)] \in Meta
  BY <1>3 DEF Meta
<1> QED
  BY <1>1, <1>4, <1>5 DEF Noted

LEMMA NoteStep ==
  ASSUME SyncBase, NEW r \in Runner, Noting(r)
  PROVE  \E k \in Key, old \in Meta, new \in Meta : \E d \in RunState : NoteMade(r, k, old, new, d)
<1>1. run[r] \in RunState /\ meta \in [Key -> Meta] /\ events \in 0..MaxEvents
  BY DEF SyncBase, TypeOK
<1>2. << >> \in Seq(Version) /\ events \in Nat /\ MaxEvents \in Nat
  BY <1>1, BoundsAssumption
<1>3. run[r].at \in Key /\ run[r].mem \in Meta
  BY <1>1 DEF RunState
<1>4. ASSUME SkipBinary(r)
      PROVE  \E k \in Key, old \in Meta, new \in Meta : \E d \in RunState : NoteMade(r, k, old, new, d)
  <2> DEFINE k == run[r].at
             old == run[r].mem
             new == Noted(r, k, "skipped")
             d == Done(r, k, old, new, << >>)
  <2>1. new \in Meta /\ (source.version = "snapshot" =>
                           new.state # "done" /\ new.tag = Snapshot(r, k))
    BY <1>3, NotedTyped
  <2>2. InHand(run[r], k) /\ run[r].pc = "store" /\ run[r].body.kind # "text"
    BY <1>4 DEF SkipBinary, InHand
  <2>3. Busy(run[r]) /\ k \in run[r].todo
    BY <1>3, <2>2 DEF SyncBase, WorkFits, Busy, InHand
  <2>4. /\ MayWrite(r, k, old, new) /\ run' = [run EXCEPT ![r] = d]
        /\ UNCHANGED <<source, object, meta, versions, runs, events, overlapped>>
    BY <1>4 DEF SkipBinary
  <2>5. events' \in 0..MaxEvents /\ events <= events'
    BY <1>1, <1>2, <2>4
  <2> HIDE DEF k, old, new, d
  <2>6. Handled(r, k, old, new, << >>, d)
    BY <1>2, <1>3, <2>1, <2>3, <2>4, <2>5, HandledIfDone DEF k, old, d
  <2>7. d \in RunState
    BY <2>6 DEF Handled
  <2>8. NoteMade(r, k, old, new, d)
    BY <2>1, <2>2, <2>6 DEF NoteMade, old
  <2> QED
    BY <1>3, <2>1, <2>7, <2>8 DEF k, old
<1>5. ASSUME FailObject(r)
      PROVE  \E k \in Key, old \in Meta, new \in Meta : \E d \in RunState : NoteMade(r, k, old, new, d)
  <2> DEFINE k == run[r].at
             old == IF source.version = "snapshot" THEN run[r].mem ELSE meta[k]
             new == Noted(r, k, "failed")
             d == [Done(r, k, old, new, << >>) EXCEPT !.clean = FALSE]
  <2>1. new \in Meta /\ (source.version = "snapshot" =>
                           new.state # "done" /\ new.tag = Snapshot(r, k))
    BY <1>3, NotedTyped
  <2>2. InHand(run[r], k)
    BY <1>5 DEF FailObject, InHand
  <2>3. Busy(run[r]) /\ k \in run[r].todo
    BY <1>3, <2>2 DEF SyncBase, WorkFits, Busy, InHand
  <2>4. /\ MayWrite(r, k, old, new) /\ run' = [run EXCEPT ![r] = d]
        /\ UNCHANGED <<source, object, meta, versions, runs, overlapped>>
    BY <1>5 DEF FailObject
  <2>5. events' \in 0..MaxEvents /\ events <= events'
    <3>1. events' = events \/ (events < MaxEvents /\ events' = events + 1)
      BY <1>5 DEF FailObject
    <3> QED
      BY <1>1, <1>2, <3>1
  <2>5a. old \in Meta /\ (source.version = "snapshot" => old = run[r].mem)
    BY <1>1, <1>3
  <2>5b. run[r] \in RunState
    BY <1>1
  <2>5c. ~ d.clean
    <3>1. IsDone(Done(r, k, old, new, << >>), run[r], k, old, new, << >>)
      BY <1>1, <1>2, <1>3, <2>1, <2>5a, DoneFields
    <3>2. Done(r, k, old, new, << >>) \in RunState
      BY <3>1 DEF IsDone
    <3> QED
      BY <3>2 DEF RunState
  <2> HIDE DEF k, old, new
  <2>6. Handled(r, k, old, new, << >>, d)
    BY <1>2, <1>3, <2>1, <2>3, <2>4, <2>5, <2>5a, HandledIfDone DEF k
  <2> HIDE DEF d
  <2>7. d \in RunState
    BY <2>6 DEF Handled
  <2>8. NoteMade(r, k, old, new, d)
    BY <2>1, <2>2, <2>5a, <2>5c, <2>6 DEF NoteMade
  <2> QED
    BY <1>3, <2>1, <2>5a, <2>7, <2>8 DEF k
<1>6. ASSUME NEW k \in Key, SkipAtScan(r, k)
      PROVE  \E old \in Meta, new \in Meta : \E d \in RunState : NoteMade(r, k, old, new, d)
  <2> DEFINE old == meta[k]
             new == Noted(r, k, "skipped")
             d == Done(r, k, old, new, << >>)
  <2>1. new \in Meta /\ (source.version = "snapshot" =>
                           new.state # "done" /\ new.tag = Snapshot(r, k))
    BY NotedTyped
  <2>2. old = meta[k] /\ old \in Meta /\ SkippedKind(run[r].listed[k].kind)
    BY <1>1, <1>6 DEF SkipAtScan, ScanSkips, SkippedKind
  <2>2a. run[r].listed[k].kind # "text"
    BY <2>2 DEF SkippedKind
  <2>3. Busy(run[r]) /\ k \in run[r].todo
    BY <1>6 DEF SkipAtScan, NextUp, Busy
  <2>4. /\ MayWrite(r, k, old, new) /\ run' = [run EXCEPT ![r] = d]
        /\ UNCHANGED <<source, object, meta, versions, runs, events, overlapped>>
    BY <1>6 DEF SkipAtScan
  <2>5. events' \in 0..MaxEvents /\ events <= events'
    BY <1>1, <1>2, <2>4
  <2> HIDE DEF old, new, d
  <2>6. Handled(r, k, old, new, << >>, d)
    BY <1>2, <2>1, <2>2, <2>3, <2>4, <2>5, HandledIfDone DEF d
  <2>7. d \in RunState
    BY <2>6 DEF Handled
  <2>8. NoteMade(r, k, old, new, d)
    BY <2>1, <2>2, <2>2a, <2>6 DEF NoteMade
  <2> QED
    BY <2>1, <2>2, <2>7, <2>8
<1>7. ASSUME NEW k \in Key, Miss(r, k)
      PROVE  \E old \in Meta, new \in Meta : \E d \in RunState : NoteMade(r, k, old, new, d)
  <2> DEFINE old == meta[k]
             new == IF meta[k] = Absent THEN [state |-> "skipped", tag |-> Snapshot(r, k)] ELSE meta[k]
             d == Done(r, k, old, new, << >>)
  <2>0. [state |-> "skipped", tag |-> Snapshot(r, k)] \in Meta
    <3>1. run[r].listed[k] \in Object
      BY <1>1 DEF RunState
    <3> QED
      BY <3>1 DEF Snapshot, Object, Meta
  <2>1. new \in Meta /\ (new = old \/ (new.state # "done" /\ new.tag = Snapshot(r, k)))
    BY <1>1, <2>0
  <2>2. old = meta[k] /\ old \in Meta /\ (new # old => meta[k] = Absent)
    BY <1>1
  <2>2a. run[r].listed[k].kind # "text"
    BY <1>7 DEF Miss, Missed
  <2>3. Busy(run[r]) /\ k \in run[r].todo
    BY <1>7 DEF Miss, NextUp, Busy
  <2>4. /\ MayWrite(r, k, old, new) /\ run' = [run EXCEPT ![r] = d]
        /\ UNCHANGED <<source, object, meta, versions, runs, events, overlapped>>
    BY <1>7 DEF Miss
  <2>5. events' \in 0..MaxEvents /\ events <= events'
    BY <1>1, <1>2, <2>4
  <2> HIDE DEF old, new, d
  <2>6. Handled(r, k, old, new, << >>, d)
    BY <1>2, <2>1, <2>2, <2>3, <2>4, <2>5, HandledIfDone DEF d
  <2>7. d \in RunState
    BY <2>6 DEF Handled
  <2>8. NoteMade(r, k, old, new, d)
    BY <2>1, <2>2, <2>2a, <2>6 DEF NoteMade
  <2> QED
    BY <2>1, <2>2, <2>7, <2>8
<1> QED
  BY <1>4, <1>5, <1>6, <1>7 DEF Noting

\* A version is added of the body in hand, unless it is the newest already.
StoreMade(r, k, new, add, d) ==
  /\ Handled(r, k, run[r].mem, new, add, d)
  /\ InHand(run[r], k) /\ run[r].pc = "store"
  /\ new = DoneMeta(r, k)
  /\ ~ IsNewest(r) => ~ Locked(r, k)
  /\ add = IF IsNewest(r) THEN << >> ELSE <<[body |-> run[r].body.tag, snapshot |-> new.tag]>>

LEMMA StoreStep ==
  ASSUME SyncBase, NEW r \in Runner, Store(r)
  PROVE  \E k \in Key, new \in Meta : \E add \in Seq(Version), d \in RunState :
           StoreMade(r, k, new, add, d)
<1>1. run[r] \in RunState /\ events \in 0..MaxEvents
  BY DEF SyncBase, TypeOK
<1>2. events \in Nat /\ MaxEvents \in Nat
  BY <1>1, BoundsAssumption
<1>3. run[r].at \in Key /\ run[r].mem \in Meta /\ run[r].body \in Object
  BY <1>1 DEF RunState
<1> DEFINE k == run[r].at
           new == DoneMeta(r, k)
           add == IF IsNewest(r) THEN << >> ELSE <<[body |-> run[r].body.tag, snapshot |-> new.tag]>>
           d == Done(r, k, run[r].mem, new, add)
<1>4. new \in Meta
  <2>1. run[r].listed[k] \in Object
    BY <1>1, <1>3 DEF RunState
  <2> QED
    BY <1>3, <2>1 DEF DoneMeta, Snapshot, Object, Meta
<1>5. add \in Seq(Version)
  <2>1. [body |-> run[r].body.tag, snapshot |-> new.tag] \in Version
    BY <1>3, <1>4 DEF Version, Object, Meta
  <2> QED
    BY <2>1
<1>6. InHand(run[r], k) /\ run[r].pc = "store"
  BY DEF Store, InHand
<1>7. Busy(run[r]) /\ k \in run[r].todo
  BY <1>3, <1>6 DEF SyncBase, WorkFits, Busy, InHand
<1>8. /\ MayWrite(r, k, run[r].mem, new) /\ run' = [run EXCEPT ![r] = d]
      /\ ~ IsNewest(r) => ~ Locked(r, k)
      /\ UNCHANGED <<source, object, meta, versions, runs, events, overlapped>>
  BY DEF Store
<1>9. events' \in 0..MaxEvents /\ events <= events'
  BY <1>1, <1>2, <1>8
<1>9a. new = DoneMeta(r, k)
       /\ add = IF IsNewest(r) THEN << >> ELSE <<[body |-> run[r].body.tag, snapshot |-> new.tag]>>
  OBVIOUS
<1> HIDE DEF k, new, add, d
<1>10. Handled(r, k, run[r].mem, new, add, d)
  BY <1>3, <1>4, <1>5, <1>7, <1>8, <1>9, HandledIfDone DEF k, d
<1>11. d \in RunState
  BY <1>10 DEF Handled
<1>12. StoreMade(r, k, new, add, d)
  BY <1>6, <1>8, <1>9a, <1>10 DEF StoreMade
<1> QED
  BY <1>3, <1>4, <1>5, <1>11, <1>12 DEF k

\* The steps that give no item: an object is passed by, looked at, read or loaded.
Moving(r) ==
  \/ Read(r) \/ Load(r)
  \/ \E k \in Key : SkipUnchanged(r, k) \/ Look(r, k)

Passed(r, k, d) ==
  /\ run[r].pc = "visit" /\ d.pc = "visit"
  /\ d.todo = run[r].todo \ {k} /\ Unchanged(r, k)
Looked(r, k, d) ==
  /\ run[r].pc = "visit" /\ InHand(d, k) /\ d.pc # "load" /\ d.todo = run[r].todo
  /\ ~ Unchanged(r, k) /\ ~ SkippedKind(run[r].listed[k].kind)
  /\ source.version = "snapshot" => d.mem = meta[k]
  /\ d.pc = "store" => d.body = run[r].listed[k]
WasRead(r, k, d) ==
  /\ InHand(run[r], k) /\ InHand(d, k) /\ d.todo = run[r].todo
  /\ d.mem = run[r].mem /\ d.body = object[k]
  /\ source.version = "snapshot" => d.pc # "load"
WasLoaded(r, k, d) ==
  /\ InHand(run[r], k) /\ run[r].pc = "load" /\ InHand(d, k) /\ d.todo = run[r].todo
  /\ d.body = run[r].body

MoveMade(r, k, d) ==
  /\ k \in run[r].todo
  /\ run' = [run EXCEPT ![r] = d]
  /\ d \in RunState
  /\ d.listed = run[r].listed /\ d.wrote = run[r].wrote /\ d.newMeta = run[r].newMeta
  /\ d.added = run[r].added /\ d.clean = run[r].clean
  /\ Passed(r, k, d) \/ Looked(r, k, d) \/ WasRead(r, k, d) \/ WasLoaded(r, k, d)
  /\ UNCHANGED <<source, object, meta, versions, runs, events, overlapped>>

LEMMA MoveStep ==
  ASSUME SyncBase, NEW r \in Runner, Moving(r)
  PROVE  \E k \in Key : \E d \in RunState : MoveMade(r, k, d)
<1>1. run \in [Runner -> RunState] /\ meta \in [Key -> Meta] /\ object \in [Key -> Object]
  BY DEF SyncBase, TypeOK
<1>2. PICK s : s = run[r]
  OBVIOUS
<1>3. s \in RunState
  BY <1>1, <1>2
<1>4. s.at \in Key /\ s.listed \in [Key -> Object] /\ s.todo \in SUBSET Key
  BY <1>3 DEF RunState
<1>5. ASSUME NEW k \in Key, SkipUnchanged(r, k)
      PROVE  \E d \in RunState : MoveMade(r, k, d)
  <2>1. PICK d : d = [s EXCEPT !.todo = s.todo \ {k}]
    OBVIOUS
  <2>2. /\ d \in RunState /\ d.todo = s.todo \ {k} /\ d.pc = s.pc
        /\ d.listed = s.listed /\ d.wrote = s.wrote /\ d.newMeta = s.newMeta
        /\ d.added = s.added /\ d.clean = s.clean
    BY <1>3, <1>4, <2>1 DEF RunState
  <2>3. run' = [run EXCEPT ![r] = d]
    BY <1>1, <1>2, <1>5, <2>1 DEF SkipUnchanged
  <2>4. s.pc = "visit" /\ k \in s.todo /\ Unchanged(r, k)
    BY <1>2, <1>5 DEF SkipUnchanged, Visited, NextUp
  <2>5. UNCHANGED <<source, object, meta, versions, runs, events, overlapped>>
    BY <1>5 DEF SkipUnchanged
  <2> QED
    BY <1>2, <2>2, <2>3, <2>4, <2>5 DEF MoveMade, Passed
<1>6. ASSUME NEW k \in Key, Look(r, k)
      PROVE  \E d \in RunState : MoveMade(r, k, d)
  <2>1. PICK pc : pc = IF source.read = "later" THEN "fetch" ELSE "store"
    OBVIOUS
  <2>2. PICK mem : mem = IF source.version = "snapshot" THEN meta[k] ELSE Absent
    OBVIOUS
  <2>3. PICK body : body = IF source.read = "later" THEN s.body ELSE s.listed[k]
    OBVIOUS
  <2>4. PICK d : d = [s EXCEPT !.pc = pc, !.at = k, !.mem = mem, !.body = body]
    OBVIOUS
  <2>5. Absent \in Meta
    BY BoundsAssumption DEF Absent, Meta, Tag
  <2>6. pc \in {"fetch", "store"} /\ mem \in Meta /\ body \in Object
    BY <1>1, <1>3, <1>4, <2>1, <2>2, <2>3, <2>5 DEF RunState
  <2>7. /\ d \in RunState /\ d.todo = s.todo /\ d.pc = pc /\ d.at = k /\ d.mem = mem /\ d.body = body
        /\ d.listed = s.listed /\ d.wrote = s.wrote /\ d.newMeta = s.newMeta
        /\ d.added = s.added /\ d.clean = s.clean
    BY <1>3, <2>4, <2>6 DEF RunState
  <2>8. run' = [run EXCEPT ![r] = d]
    BY <1>1, <1>2, <1>3, <1>6, <2>1, <2>2, <2>3, <2>4 DEF Look, RunState
  <2>9. s.pc = "visit" /\ k \in s.todo /\ ~ Unchanged(r, k)
    BY <1>2, <1>6 DEF Look, Visited, NextUp
  <2>10. ~ SkippedKind(s.listed[k].kind)
    BY <1>2, <1>6 DEF Look, Visited, ScanSkips, SkippedKind
  <2>11. UNCHANGED <<source, object, meta, versions, runs, events, overlapped>>
    BY <1>6 DEF Look
  <2>12. Looked(r, k, d)
    BY <1>2, <2>1, <2>2, <2>3, <2>6, <2>7, <2>9, <2>10 DEF Looked, InHand
  <2> QED
    BY <1>2, <2>7, <2>8, <2>9, <2>11, <2>12 DEF MoveMade
<1>7. InHand(s, s.at) => s.at \in s.todo
  BY <1>2, <1>4 DEF SyncBase, WorkFits
<1>8. ASSUME Read(r)
      PROVE  \E d \in RunState : MoveMade(r, s.at, d)
  <2>1. PICK pc : pc = IF source.version = "snapshot" THEN "store" ELSE "load"
    OBVIOUS
  <2>4. PICK d : d = [s EXCEPT !.pc = pc, !.body = object[s.at]]
    OBVIOUS
  <2>7. /\ d \in RunState /\ d.todo = s.todo /\ d.pc = pc /\ d.at = s.at /\ d.mem = s.mem
        /\ d.body = object[s.at] /\ d.listed = s.listed /\ d.wrote = s.wrote
        /\ d.newMeta = s.newMeta /\ d.added = s.added /\ d.clean = s.clean
    BY <1>1, <1>3, <1>4, <2>1, <2>4 DEF RunState
  <2>8. run' = [run EXCEPT ![r] = d]
    BY <1>1, <1>2, <1>3, <1>8, <2>1, <2>4 DEF Read, RunState
  <2>9. s.pc = "fetch" /\ InHand(s, s.at)
    BY <1>2, <1>8 DEF Read, InHand
  <2>11. UNCHANGED <<source, object, meta, versions, runs, events, overlapped>>
    BY <1>8 DEF Read
  <2>12. WasRead(r, s.at, d)
    BY <1>2, <2>1, <2>7, <2>9 DEF WasRead, InHand
  <2> QED
    BY <1>2, <1>7, <2>7, <2>8, <2>9, <2>11, <2>12 DEF MoveMade
<1>9. ASSUME Load(r)
      PROVE  \E d \in RunState : MoveMade(r, s.at, d)
  <2>4. PICK d : d = [s EXCEPT !.pc = "store", !.mem = meta[s.at]]
    OBVIOUS
  <2>7. /\ d \in RunState /\ d.todo = s.todo /\ d.pc = "store" /\ d.at = s.at
        /\ d.body = s.body /\ d.listed = s.listed /\ d.wrote = s.wrote
        /\ d.newMeta = s.newMeta /\ d.added = s.added /\ d.clean = s.clean
    BY <1>1, <1>3, <1>4, <2>4 DEF RunState
  <2>8. run' = [run EXCEPT ![r] = d]
    BY <1>1, <1>2, <1>3, <1>9, <2>4 DEF Load, RunState
  <2>9. s.pc = "load" /\ InHand(s, s.at)
    BY <1>2, <1>9 DEF Load, InHand
  <2>11. UNCHANGED <<source, object, meta, versions, runs, events, overlapped>>
    BY <1>9 DEF Load
  <2>12. WasLoaded(r, s.at, d)
    BY <1>2, <2>7, <2>9 DEF WasLoaded, InHand
  <2> QED
    BY <1>2, <1>7, <2>7, <2>8, <2>9, <2>11, <2>12 DEF MoveMade
<1> QED
  BY <1>2, <1>4, <1>5, <1>6, <1>8, <1>9 DEF Moving

\* The run is over and another has nothing to do with it, or what there is changes
\* under the runs that are under way.
Soil(s, t) ==
  /\ t \in RunState /\ ~ t.clean
  /\ t.pc = s.pc /\ t.listed = s.listed /\ t.todo = s.todo /\ t.at = s.at /\ t.mem = s.mem
  /\ t.body = s.body /\ t.wrote = s.wrote /\ t.newMeta = s.newMeta /\ t.added = s.added

LEMMA SoiledFields ==
  ASSUME run \in [Runner -> RunState]
  PROVE  /\ Soiled(run) \in [Runner -> RunState]
         /\ \A r \in Runner : Soil(run[r], Soiled(run)[r])
<1>1. ASSUME NEW s \in RunState, NEW t, t = [s EXCEPT !.clean = FALSE]
      PROVE  Soil(s, t)
  BY <1>1 DEF Soil, RunState
<1>2. \A r \in Runner : Soiled(run)[r] = [run[r] EXCEPT !.clean = FALSE]
  BY DEF Soiled
<1>3. \A r \in Runner : Soil(run[r], Soiled(run)[r])
  BY <1>1, <1>2
<1>4. \A r \in Runner : Soiled(run)[r] \in RunState
  BY <1>3 DEF Soil
<1>5. Soiled(run) = [r \in Runner |-> Soiled(run)[r]]
  BY <1>2 DEF Soiled
<1> QED
  BY <1>3, <1>4, <1>5

Over(r) == Commit(r) \/ FailRun(r)

\* All but r go on, and no longer as if nothing had been committed.
CommitMade(r) ==
  /\ Busy(run[r])
  /\ \A k \in Key : /\ meta'[k] = IF k \in run[r].wrote THEN run[r].newMeta[k] ELSE meta[k]
                    /\ versions'[k] = versions[k] \o run[r].added[k]
  /\ meta' \in [Key -> Meta] /\ versions' \in [Key -> Seq(Version)]
  /\ run' \in [Runner -> RunState]
  /\ run'[r] = NoRun
  /\ \A q \in Runner \ {r} : Soil(run[q], run'[q])
  /\ events' \in 0..MaxEvents /\ events <= events'
  /\ UNCHANGED <<source, object, runs, overlapped>>

LEMMA CommitStep ==
  ASSUME SyncBase, NEW r \in Runner, Over(r)
  PROVE  CommitMade(r)
<1>1. /\ run \in [Runner -> RunState] /\ meta \in [Key -> Meta] /\ versions \in [Key -> Seq(Version)]
      /\ events \in 0..MaxEvents
  BY DEF SyncBase, TypeOK
<1>2. Committed(r) /\ UNCHANGED <<source, object, runs, overlapped>> /\ Busy(run[r])
  BY DEF Over, Commit, FailRun, Busy
<1>3. events' = events \/ (events < MaxEvents /\ events' = events + 1)
  BY DEF Over, Commit, FailRun
<1>4. events' \in 0..MaxEvents /\ events <= events'
  BY <1>1, <1>3, BoundsAssumption
<1>5. run[r].newMeta \in [Key -> Meta] /\ run[r].added \in [Key -> Seq(Version)]
  BY <1>1 DEF RunState
<1>6. PICK s : s = Soiled(run)
  OBVIOUS
<1>7. s \in [Runner -> RunState] /\ \A q \in Runner : Soil(run[q], s[q])
  BY <1>1, <1>6, SoiledFields
<1>8. run' = [s EXCEPT ![r] = NoRun]
  BY <1>2, <1>6 DEF Committed
<1>9. run' \in [Runner -> RunState] /\ run'[r] = NoRun /\ \A q \in Runner \ {r} : run'[q] = s[q]
  BY <1>7, <1>8, NoRunTyped
<1>10. meta' = [k \in Key |-> IF k \in run[r].wrote THEN run[r].newMeta[k] ELSE meta[k]]
  BY <1>2 DEF Committed
<1>11. versions' = [k \in Key |-> versions[k] \o run[r].added[k]]
  BY <1>2 DEF Committed
<1>12. meta' \in [Key -> Meta]
  BY <1>1, <1>5, <1>10
<1>13. \A k \in Key : versions[k] \o run[r].added[k] \in Seq(Version)
  BY <1>1, <1>5
<1> QED
  BY <1>2, <1>4, <1>7, <1>9, <1>10, <1>11, <1>12, <1>13 DEF CommitMade

Turning == \E k \in Key : Go(k) \/ ComeBack(k) \/ \E kind \in Kind : Change(k, kind)

TurnMade(k, o) ==
  /\ object' = [object EXCEPT ![k] = o]
  /\ o \in Object /\ object[k].tag <= o.tag /\ o.tag <= events'
  /\ o.tag = object[k].tag => {o.kind, object[k].kind} \subseteq {"text", "gone"}
  /\ run' \in [Runner -> RunState] /\ \A q \in Runner : Soil(run[q], run'[q])
  /\ events' = events + 1 /\ events' \in 0..MaxEvents
  /\ UNCHANGED <<source, meta, versions, runs, overlapped>>

LEMMA TurnStep ==
  ASSUME SyncBase, Turning
  PROVE  \E k \in Key : \E o \in Object : TurnMade(k, o)
<1>1. /\ run \in [Runner -> RunState] /\ object \in [Key -> Object] /\ events \in 0..MaxEvents
      /\ \A k \in Key : object[k].tag <= events
  BY DEF SyncBase, TypeOK, TagsFit
<1>2. events \in Nat /\ MaxEvents \in Nat
  BY <1>1, BoundsAssumption
<1>3. ASSUME NEW k \in Key, NEW o, Turned(k, o), o.tag \in Nat, o.kind \in Kind,
             o = [tag |-> o.tag, kind |-> o.kind], object[k].tag <= o.tag,
             o.tag <= object[k].tag + 1,
             o.tag = object[k].tag => {o.kind, object[k].kind} \subseteq {"text", "gone"}
      PROVE  \E p \in Object : TurnMade(k, p)
  <2>1. events < MaxEvents /\ events' = events + 1
    BY <1>3 DEF Turned
  <2>2. object[k].tag \in Nat /\ object[k].tag <= events
    BY <1>1 DEF Object, Tag
  <2>3. events' \in 0..MaxEvents
    BY <1>2, <2>1
  <2>4. o.tag <= events' /\ o.tag \in Tag
    BY <1>2, <1>3, <2>1, <2>2 DEF Tag
  <2>5. o \in Object
    BY <1>3, <2>4 DEF Object
  <2>6. run' \in [Runner -> RunState] /\ \A q \in Runner : Soil(run[q], run'[q])
    BY <1>1, <1>3, SoiledFields DEF Turned
  <2>7. object' = [object EXCEPT ![k] = o] /\ UNCHANGED <<source, meta, versions, runs, overlapped>>
    BY <1>3 DEF Turned
  <2> QED
    BY <1>3, <2>1, <2>3, <2>4, <2>5, <2>6, <2>7 DEF TurnMade
<1>4. ASSUME NEW k \in Key
      PROVE  object[k].tag \in Nat /\ object[k] = [tag |-> object[k].tag, kind |-> object[k].kind]
             /\ object[k].kind \in Kind
  BY <1>1 DEF Object, Tag
<1>5. ASSUME NEW k \in Key, NEW kind \in Kind, Change(k, kind)
      PROVE  \E p \in Object : TurnMade(k, p)
  <2>1. PICK o : o = [tag |-> object[k].tag + 1, kind |-> kind]
    OBVIOUS
  <2>2. Turned(k, o)
    BY <1>5, <2>1 DEF Change
  <2>3. o.tag = object[k].tag + 1 /\ o.kind = kind /\ o = [tag |-> o.tag, kind |-> o.kind]
    BY <2>1
  <2>4. /\ o.tag \in Nat /\ object[k].tag <= o.tag /\ o.tag <= object[k].tag + 1
        /\ o.tag # object[k].tag
    <3>1. PICK t : t = object[k].tag
      OBVIOUS
    <3>2. t \in Nat /\ o.tag = t + 1
      BY <1>4, <2>3, <3>1
    <3>3. t + 1 \in Nat /\ t <= t + 1 /\ t + 1 <= t + 1 /\ t + 1 # t
      BY <3>2
    <3> QED
      BY <3>1, <3>2, <3>3
  <2>5. o.kind \in Kind
    BY <2>3
  <2> QED
    BY <1>3, <2>2, <2>3, <2>4, <2>5
<1>6. ASSUME NEW k \in Key, Go(k) \/ ComeBack(k)
      PROVE  \E p \in Object : TurnMade(k, p)
  <2>1. PICK o : /\ o = [object[k] EXCEPT !.kind = "gone"] \/ o = [object[k] EXCEPT !.kind = "text"]
                 /\ Turned(k, o)
    BY <1>6 DEF Go, ComeBack
  <2>2. object[k].kind \in {"text", "gone"}
    BY <1>6 DEF Go, ComeBack
  <2>3. PICK p : p = object[k]
    OBVIOUS
  <2>4. p \in Object
    BY <1>1, <2>3
  <2>5. o.tag = p.tag /\ o.kind \in {"text", "gone"} /\ o = [tag |-> o.tag, kind |-> o.kind]
    BY <2>1, <2>3, <2>4 DEF Object
  <2>6. o.kind \in Kind
    BY <2>5 DEF Kind
  <2>7. /\ o.tag \in Nat /\ object[k].tag <= o.tag /\ o.tag <= object[k].tag + 1
        /\ {o.kind, object[k].kind} \subseteq {"text", "gone"}
    <3>1. PICK t : t = object[k].tag
      OBVIOUS
    <3>2. t \in Nat /\ o.tag = t
      BY <1>4, <2>3, <2>5, <3>1
    <3>3. t <= t + 1 /\ t <= t
      BY <3>2
    <3> QED
      BY <2>2, <2>5, <3>1, <3>2, <3>3
  <2> QED
    BY <1>3, <2>1, <2>5, <2>6, <2>7
<1> QED
  BY <1>5, <1>6 DEF Turning

Losing(r) == BreakOff(r) \/ Deadlock(r)

LoseMade(r) ==
  /\ run' = [run EXCEPT ![r] = NoRun]
  /\ events' \in 0..MaxEvents /\ events <= events'
  /\ UNCHANGED <<source, object, meta, versions, runs, overlapped>>

LEMMA LoseStep ==
  ASSUME SyncBase, NEW r \in Runner, Losing(r)
  PROVE  LoseMade(r)
<1>1. events \in 0..MaxEvents
  BY DEF SyncBase, TypeOK
<1>2. events' = events \/ (events < MaxEvents /\ events' = events + 1)
  BY DEF Losing, BreakOff, Deadlock
<1>3. events' \in 0..MaxEvents /\ events <= events'
  BY <1>1, <1>2, BoundsAssumption
<1> QED
  BY <1>3 DEF Losing, BreakOff, Deadlock, Lose, LoseMade

StartMade(r, d) ==
  /\ ~ Busy(run[r])
  /\ run' = [run EXCEPT ![r] = d]
  /\ d \in RunState
  /\ d.pc = "visit" /\ d.listed = object /\ d.wrote = {}
  /\ d.todo = {k \in Key : source.gone \/ object[k].kind # "gone"}
  /\ \A k \in Key : d.added[k] = << >>
  /\ runs' \in 0..MaxRuns
  /\ overlapped' = (overlapped \/ \E q \in Runner \ {r} : Busy(run[q]))
  /\ UNCHANGED <<source, object, meta, versions, events>>

LEMMA StartStep ==
  ASSUME SyncBase, NEW r \in Runner, Start(r)
  PROVE  \E d \in RunState : StartMade(r, d)
<1>1. run \in [Runner -> RunState] /\ object \in [Key -> Object] /\ runs \in 0..MaxRuns
  BY DEF SyncBase, TypeOK
<1>2. PICK todo : todo = {k \in Key : source.gone \/ object[k].kind # "gone"}
  OBVIOUS
<1>3. PICK d : d = [NoRun EXCEPT !.pc = "visit", !.listed = object, !.clean = TRUE, !.todo = todo]
  OBVIOUS
<1>4. todo \in SUBSET Key
  BY <1>2
<1>5. /\ d.pc = "visit" /\ d.listed = object /\ d.wrote = NoRun.wrote /\ d.todo = todo
      /\ d.added = NoRun.added /\ d \in RunState
  BY <1>1, <1>3, <1>4, NoRunTyped DEF RunState
<1>6. NoRun.wrote = {} /\ NoRun.added = [k \in Key |-> << >>]
  BY DEF NoRun
<1>6a. \A k \in Key : d.added[k] = << >>
  BY <1>5, <1>6
<1>7. run' = [run EXCEPT ![r] = d]
  BY <1>2, <1>3 DEF Start
<1>8. runs' \in 0..MaxRuns
  BY <1>1, BoundsAssumption DEF Start
<1>9. overlapped' = (overlapped \/ \E q \in Runner \ {r} : Busy(run[q]))
  BY DEF Start, Busy
<1> QED
  <2>1. ~ Busy(run[r]) /\ UNCHANGED <<source, object, meta, versions, events>>
    BY DEF Start, Busy
  <2>2. d.wrote = {}
    BY <1>5, <1>6
  <2>3. d \in RunState /\ StartMade(r, d)
    BY <1>2, <1>5, <1>6a, <1>7, <1>8, <1>9, <2>1, <2>2 DEF StartMade
  <2> QED
    BY <2>3

\* A step of the specification is one of these.
LEMMA SyncSteps ==
  ASSUME SyncBase, Next
  PROVE  \/ \E r \in Runner :
              \/ \E d \in RunState : StartMade(r, d)
              \/ \E k \in Key, old \in Meta, new \in Meta : \E d \in RunState :
                   NoteMade(r, k, old, new, d)
              \/ \E k \in Key, new \in Meta : \E add \in Seq(Version), d \in RunState :
                   StoreMade(r, k, new, add, d)
              \/ \E k \in Key : \E d \in RunState : MoveMade(r, k, d)
              \/ Over(r) /\ CommitMade(r)
              \/ LoseMade(r)
         \/ \E k \in Key : \E o \in Object : TurnMade(k, o)
<1>1. ASSUME Turning PROVE \E k \in Key : \E o \in Object : TurnMade(k, o)
  BY <1>1, TurnStep
<1>2. ASSUME NEW r \in Runner, Start(r) PROVE \E d \in RunState : StartMade(r, d)
  BY <1>2, StartStep
<1>3. ASSUME NEW r \in Runner, Noting(r)
      PROVE  \E k \in Key, old \in Meta, new \in Meta : \E d \in RunState :
               NoteMade(r, k, old, new, d)
  BY <1>3, NoteStep
<1>4. ASSUME NEW r \in Runner, Store(r)
      PROVE  \E k \in Key, new \in Meta : \E add \in Seq(Version), d \in RunState :
               StoreMade(r, k, new, add, d)
  BY <1>4, StoreStep
<1>5. ASSUME NEW r \in Runner, Moving(r)
      PROVE  \E k \in Key : \E d \in RunState : MoveMade(r, k, d)
  BY <1>5, MoveStep
<1>6. ASSUME NEW r \in Runner, Over(r) PROVE CommitMade(r)
  BY <1>6, CommitStep
<1>7. ASSUME NEW r \in Runner, Losing(r) PROVE LoseMade(r)
  BY <1>7, LoseStep
<1>8. \/ \E r \in Runner : Start(r) \/ Noting(r) \/ Store(r) \/ Moving(r) \/ Over(r) \/ Losing(r)
      \/ Turning
  BY DEF Next, Noting, Moving, Over, Losing, Turning
<1> QED
  BY <1>1, <1>2, <1>3, <1>4, <1>5, <1>6, <1>7, <1>8

\* The typing, and the facts about the work of a run, are kept.
LEMMA BaseFromRuns ==
  ASSUME SyncBase, NEW r \in Runner, NEW d \in RunState, run' = [run EXCEPT ![r] = d],
         UNCHANGED <<source, object, meta, versions>>,
         runs' \in 0..MaxRuns, overlapped' \in BOOLEAN,
         events' \in 0..MaxEvents, events <= events',
         d.todo \cap d.wrote = {},
         \A k \in Key : InHand(d, k) => k \in d.todo,
         \A k \in d.todo : d.added[k] = << >>,
         \A q \in Runner \ {r} : d.wrote \cap run[q].wrote = {}
  PROVE  SyncBase'
<1>1. run \in [Runner -> RunState]
  BY DEF SyncBase, TypeOK
<1>2. run' \in [Runner -> RunState] /\ run'[r] = d /\ \A q \in Runner \ {r} : run'[q] = run[q]
  BY <1>1
<1>3. \A p, q \in Runner : p # q => run[p].wrote \cap run[q].wrote = {}
  BY DEF SyncBase, TypeOK
<1>4. \A p, q \in Runner : p # q => run'[p].wrote \cap run'[q].wrote = {}
  BY <1>2, <1>3
<1>5. TypeOK'
  BY <1>2, <1>4 DEF SyncBase, TypeOK
<1>6. TagsFit'
  <2>1. \A k \in Key : object[k].tag \in Nat /\ object[k].tag <= events
    BY DEF SyncBase, TypeOK, TagsFit, Object, Tag
  <2>2. events \in Nat /\ events' \in Nat
    BY BoundsAssumption DEF SyncBase, TypeOK
  <2> QED
    BY <2>1, <2>2 DEF TagsFit
<1>7. WorkFits'
  <2>1. ASSUME NEW q \in Runner
        PROVE  LET s == run'[q]
               IN  /\ s.todo \cap s.wrote = {}
                   /\ \A k \in Key : InHand(s, k) => k \in s.todo
                   /\ \A k \in s.todo : s.added[k] = << >>
    BY <1>2 DEF SyncBase, WorkFits
  <2> QED
    BY <2>1 DEF WorkFits, Busy, InHand
<1> QED
  BY <1>5, <1>6, <1>7 DEF SyncBase

LEMMA NoRunFields ==
  /\ NoRun.pc = "idle" /\ NoRun.todo = {} /\ NoRun.wrote = {}
  /\ \A k \in Key : NoRun.added[k] = << >> /\ NoRun.listed[k] = [tag |-> 0, kind |-> "text"]
  /\ ~ Busy(NoRun) /\ \A k \in Key : ~ InHand(NoRun, k)
BY DEF NoRun, Busy, InHand

LEMMA HandledKeepsBase ==
  ASSUME SyncBase, NEW r \in Runner, NEW k \in Key, NEW old \in Meta, NEW new \in Meta,
         NEW add \in Seq(Version), NEW d \in RunState, Handled(r, k, old, new, add, d)
  PROVE  SyncBase'
<1>1. run[r] \in RunState /\ d.wrote \in SUBSET Key /\ d.todo \in SUBSET Key
      /\ run[r].todo \in SUBSET Key
  BY DEF SyncBase, TypeOK, RunState
<1>1a. /\ d.todo = run[r].todo \ {k}
       /\ k \in d.wrote => ~ Locked(r, k)
       /\ \A j \in Key \ {k} : d.added[j] = run[r].added[j] /\ (j \in d.wrote <=> j \in run[r].wrote)
  <2>1. d.todo = run[r].todo \ {k}
    BY DEF Handled
  <2>2. k \in d.wrote => ~ Locked(r, k)
    BY DEF Handled
  <2>3. \A j \in Key \ {k} : d.added[j] = run[r].added[j] /\ (j \in d.wrote <=> j \in run[r].wrote)
    BY DEF Handled
  <2> QED
    BY <2>1, <2>2, <2>3
<1>1b. run[r].todo \cap run[r].wrote = {} /\ \A j \in run[r].todo : run[r].added[j] = << >>
  BY DEF SyncBase, WorkFits
<1>2. d.todo \cap d.wrote = {}
  BY <1>1, <1>1a, <1>1b
<1>3. \A j \in d.todo : d.added[j] = << >>
  BY <1>1, <1>1a, <1>1b
<1>4. Busy(d) /\ \A j \in Key : ~ InHand(d, j)
  BY DEF Handled, Busy, InHand
<1>5. ASSUME NEW q \in Runner \ {r} PROVE d.wrote \cap run[q].wrote = {}
  <2>1. run[r].wrote \cap run[q].wrote = {}
    BY DEF SyncBase, TypeOK
  <2>2. k \in d.wrote => k \notin run[q].wrote
    BY <1>1a DEF Locked
  <2> QED
    BY <1>1, <1>1a, <2>1, <2>2
<1>6. /\ run' = [run EXCEPT ![r] = d] /\ UNCHANGED <<source, object, meta, versions>>
      /\ runs' \in 0..MaxRuns /\ overlapped' \in BOOLEAN
      /\ events' \in 0..MaxEvents /\ events <= events'
  BY DEF Handled, SyncBase, TypeOK
<1> QED
  BY <1>2, <1>3, <1>4, <1>5, <1>6, BaseFromRuns

LEMMA SyncBaseKept ==
  ASSUME SyncBase, Next
  PROVE  SyncBase'
<1>1. ASSUME NEW r \in Runner, NEW d \in RunState, StartMade(r, d)
      PROVE  SyncBase'
  <2>1. Busy(d) /\ \A k \in Key : ~ InHand(d, k)
    BY <1>1 DEF StartMade, Busy, InHand
  <2>2. /\ d.wrote = {} /\ \A k \in d.todo : d.added[k] = << >>
    BY <1>1 DEF StartMade
  <2>3. events \in 0..MaxEvents /\ overlapped \in BOOLEAN
    BY DEF SyncBase, TypeOK
  <2>4. overlapped' \in BOOLEAN
    BY <1>1, <2>3 DEF StartMade
  <2>5. events' \in 0..MaxEvents /\ events <= events'
    BY <1>1, <2>3, BoundsAssumption DEF StartMade
  <2>6. /\ run' = [run EXCEPT ![r] = d] /\ UNCHANGED <<source, object, meta, versions>>
        /\ runs' \in 0..MaxRuns
    BY <1>1 DEF StartMade
  <2> QED
    BY <2>1, <2>2, <2>4, <2>5, <2>6, BaseFromRuns
<1>2. ASSUME NEW r \in Runner, NEW k \in Key, NEW old \in Meta, NEW new \in Meta,
             NEW d \in RunState, NoteMade(r, k, old, new, d)
      PROVE  SyncBase'
  <2>1. << >> \in Seq(Version) /\ Handled(r, k, old, new, << >>, d)
    BY <1>2 DEF NoteMade
  <2> QED
    BY <2>1, HandledKeepsBase
<1>3. ASSUME NEW r \in Runner, NEW k \in Key, NEW new \in Meta, NEW add \in Seq(Version),
             NEW d \in RunState, StoreMade(r, k, new, add, d)
      PROVE  SyncBase'
  <2>1. run[r].mem \in Meta
    BY DEF SyncBase, TypeOK, RunState
  <2> QED
    BY <1>3, <2>1, HandledKeepsBase DEF StoreMade
<1>4. ASSUME NEW r \in Runner, NEW k \in Key, NEW d \in RunState, MoveMade(r, k, d)
      PROVE  SyncBase'
  <2>1. /\ run[r].todo \cap run[r].wrote = {} /\ \A j \in run[r].todo : run[r].added[j] = << >>
        /\ \A q \in Runner \ {r} : run[r].wrote \cap run[q].wrote = {}
    BY DEF SyncBase, TypeOK, WorkFits
  <2>2. d.wrote = run[r].wrote /\ d.added = run[r].added /\ d.todo \subseteq run[r].todo
    BY <1>4 DEF MoveMade, Passed, Looked, WasRead, WasLoaded
  <2>3. Busy(d) /\ \A j \in Key : InHand(d, j) => j \in d.todo
    BY <1>4 DEF MoveMade, Passed, Looked, WasRead, WasLoaded, Busy, InHand
  <2>4. events \in 0..MaxEvents
    BY DEF SyncBase, TypeOK
  <2>5. events' \in 0..MaxEvents /\ events <= events'
    BY <1>4, <2>4, BoundsAssumption DEF MoveMade
  <2>6. /\ run' = [run EXCEPT ![r] = d] /\ UNCHANGED <<source, object, meta, versions>>
        /\ runs' \in 0..MaxRuns /\ overlapped' \in BOOLEAN
    BY <1>4 DEF MoveMade, SyncBase, TypeOK
  <2> QED
    BY <2>1, <2>2, <2>3, <2>5, <2>6, BaseFromRuns
<1>5. ASSUME NEW r \in Runner, LoseMade(r)
      PROVE  SyncBase'
  <2>1. /\ run' = [run EXCEPT ![r] = NoRun] /\ UNCHANGED <<source, object, meta, versions>>
        /\ runs' \in 0..MaxRuns /\ overlapped' \in BOOLEAN
        /\ events' \in 0..MaxEvents /\ events <= events'
    BY <1>5 DEF LoseMade, SyncBase, TypeOK
  <2> QED
    BY <2>1, NoRunTyped, NoRunFields, BaseFromRuns
<1>6. ASSUME NEW r \in Runner, CommitMade(r)
      PROVE  SyncBase'
  <2>1. \A p, q \in Runner : p # q => run[p].wrote \cap run[q].wrote = {}
    BY DEF SyncBase, TypeOK
  <2>2. \A p \in Runner : run'[p].wrote = {} \/ run'[p].wrote = run[p].wrote
    BY <1>6, NoRunFields DEF CommitMade, Soil
  <2>3. TypeOK'
    BY <1>6, <2>1, <2>2 DEF CommitMade, SyncBase, TypeOK
  <2>4. TagsFit'
    <3>1. \A k \in Key : object[k].tag \in Nat /\ object[k].tag <= events
      BY DEF SyncBase, TypeOK, TagsFit, Object, Tag
    <3>2. events \in Nat /\ events' \in Nat /\ events <= events' /\ object' = object
      BY <1>6, BoundsAssumption DEF SyncBase, TypeOK, CommitMade
    <3> QED
      BY <3>1, <3>2 DEF TagsFit
  <2>5. WorkFits'
    <3>1. ASSUME NEW q \in Runner
          PROVE  LET s == run'[q]
                 IN  /\ s.todo \cap s.wrote = {}
                     /\ \A k \in Key : InHand(s, k) => k \in s.todo
                     /\ \A k \in s.todo : s.added[k] = << >>
      <4>1. CASE q = r
        BY <1>6, <4>1, NoRunFields DEF CommitMade
      <4>2. CASE q # r
        <5>1. Soil(run[q], run'[q])
          BY <1>6, <4>2 DEF CommitMade
        <5> QED
          BY <5>1 DEF Soil, SyncBase, WorkFits, Busy, InHand
      <4> QED
        BY <4>1, <4>2
    <3> QED
      BY <3>1 DEF WorkFits, Busy, InHand
  <2> QED
    BY <2>3, <2>4, <2>5 DEF SyncBase
<1>7. ASSUME NEW k \in Key, NEW o \in Object, TurnMade(k, o)
      PROVE  SyncBase'
  <2>1. \A p, q \in Runner : p # q => run[p].wrote \cap run[q].wrote = {}
    BY DEF SyncBase, TypeOK
  <2>2. \A p \in Runner : run'[p].wrote = run[p].wrote
    BY <1>7 DEF TurnMade, Soil
  <2>3. object \in [Key -> Object]
    BY DEF SyncBase, TypeOK
  <2>4. object' \in [Key -> Object] /\ object'[k] = o /\ \A j \in Key \ {k} : object'[j] = object[j]
    BY <1>7, <2>3 DEF TurnMade
  <2>5. TypeOK'
    BY <1>7, <2>1, <2>2, <2>4 DEF TurnMade, SyncBase, TypeOK
  <2>6. TagsFit'
    <3>1. \A j \in Key : object[j].tag \in Nat /\ object[j].tag <= events
      BY DEF SyncBase, TypeOK, TagsFit, Object, Tag
    <3>2. events \in Nat /\ events' = events + 1 /\ o.tag <= events'
      BY <1>7, BoundsAssumption DEF SyncBase, TypeOK, TurnMade
    <3>3. \A j \in Key \ {k} : object[j].tag <= events'
      BY <3>1, <3>2
    <3> QED
      BY <2>4, <3>2, <3>3 DEF TagsFit
  <2>7. WorkFits'
    <3>1. ASSUME NEW q \in Runner
          PROVE  LET s == run'[q]
                 IN  /\ s.todo \cap s.wrote = {}
                     /\ \A j \in Key : InHand(s, j) => j \in s.todo
                     /\ \A j \in s.todo : s.added[j] = << >>
      <4>1. Soil(run[q], run'[q])
        BY <1>7 DEF TurnMade
      <4> QED
        BY <4>1 DEF Soil, SyncBase, WorkFits, Busy, InHand
    <3> QED
      BY <3>1 DEF WorkFits, Busy, InHand
  <2> QED
    BY <2>5, <2>6, <2>7 DEF SyncBase
<1> QED
  BY <1>1, <1>2, <1>3, <1>4, <1>5, <1>6, <1>7, SyncSteps

\* What fits an object and a run fits while neither is changed where it counts.
SameAt(s, t, k) ==
  /\ t.listed[k] = s.listed[k] /\ t.newMeta[k] = s.newMeta[k] /\ t.added[k] = s.added[k]
  /\ k \in t.wrote <=> k \in s.wrote
  /\ InHand(t, k) => InHand(s, k) /\ t.pc = s.pc /\ t.mem = s.mem /\ t.body = s.body

LEMMA SnapshotCarried ==
  ASSUME NEW s \in RunState, NEW t \in RunState, NEW k \in Key, NEW o \in Object, NEW p \in Object,
         SnapshotFits(s, k, o), o.tag <= p.tag, SameAt(s, t, k)
  PROVE  SnapshotFits(t, k, p)
<1>1. /\ s.listed[k].tag \in Nat /\ o.tag \in Nat /\ p.tag \in Nat /\ s.body.tag \in Nat
      /\ \A b \in Tag : b \in Nat
  BY DEF RunState, Object, Tag
<1>2. t.listed[k].tag <= p.tag
  BY <1>1 DEF SnapshotFits, SameAt
<1>3. InHand(t, k) => t.pc # "load" /\ t.mem # DoneAsListed(t, k)
  BY DEF SnapshotFits, SameAt, DoneAsListed
<1>4. InHand(t, k) /\ t.pc = "store" => t.listed[k].tag <= t.body.tag /\ t.body.tag <= p.tag
  BY <1>1 DEF SnapshotFits, SameAt
<1>5. MadeOf(t, k, p)
  <2>1. MadeOf(s, k, o)
    BY DEF SnapshotFits
  <2>2. \A b \in Tag : b <= o.tag => b <= p.tag
    BY <1>1
  <2> QED
    BY <2>1, <2>2 DEF MadeOf, SameAt, DoneAsListed
<1> QED
  BY <1>2, <1>3, <1>4, <1>5 DEF SnapshotFits

LEMMA NoRunFits ==
  ASSUME NEW k \in Key, NEW o \in Object
  PROVE  SnapshotFits(NoRun, k, o)
<1>1. o.tag \in Nat
  BY DEF Object, Tag
<1> QED
  BY <1>1, NoRunFields DEF SnapshotFits, MadeOf

LEMMA NoteFits ==
  ASSUME SyncBase, source.version = "snapshot",
         NEW r \in Runner, NEW k \in Key, NEW old \in Meta, NEW new \in Meta, NEW d \in RunState,
         NoteMade(r, k, old, new, d), SnapshotFits(run[r], k, object[k])
  PROVE  SnapshotFits(d, k, object[k])
<1>1. /\ d.pc = "visit" /\ d.listed = run[r].listed /\ d.newMeta[k] = new /\ d.added[k] = << >>
      /\ k \in d.wrote <=> new # old
  BY DEF NoteMade, Handled
<1>2. new = old \/ (new.state # "done" /\ new.tag = run[r].listed[k].tag)
  BY DEF NoteMade, Snapshot
<1> QED
  BY <1>1, <1>2 DEF SnapshotFits, MadeOf, InHand

LEMMA StoreFits ==
  ASSUME SyncBase, source.version = "snapshot",
         NEW r \in Runner, NEW k \in Key, NEW new \in Meta, NEW add \in Seq(Version),
         NEW d \in RunState, StoreMade(r, k, new, add, d), SnapshotFits(run[r], k, object[k])
  PROVE  SnapshotFits(d, k, object[k])
<1>1. /\ d.pc = "visit" /\ d.listed = run[r].listed /\ d.newMeta[k] = new /\ d.added[k] = add
      /\ k \in d.wrote <=> new # run[r].mem
  BY DEF StoreMade, Handled
<1>2. InHand(run[r], k) /\ run[r].pc = "store"
  BY DEF StoreMade
<1>3. new = DoneAsListed(run[r], k)
  BY DEF StoreMade, DoneMeta, DoneAsListed, Snapshot
<1>4. new.tag = run[r].listed[k].tag
  BY <1>3 DEF DoneAsListed
<1>5. add = <<[body |-> run[r].body.tag, snapshot |-> new.tag]>>
  BY DEF StoreMade, IsNewest
<1>6. run[r].body.tag \in Tag
  BY DEF SyncBase, TypeOK, RunState, Object
<1>7. /\ run[r].listed[k].tag <= run[r].body.tag /\ run[r].body.tag <= object[k].tag
      /\ run[r].mem # new /\ run[r].listed[k].tag <= object[k].tag
  BY <1>2, <1>3 DEF SnapshotFits
<1>8. MadeOf(d, k, object[k])
  BY <1>1, <1>3, <1>4, <1>5, <1>6, <1>7 DEF MadeOf, DoneAsListed
<1> QED
  BY <1>1, <1>7, <1>8 DEF SnapshotFits, InHand

LEMMA MoveFits ==
  ASSUME SyncBase, source.version = "snapshot",
         NEW r \in Runner, NEW k \in Key, NEW d \in RunState,
         MoveMade(r, k, d), SnapshotFits(run[r], k, object[k])
  PROVE  SnapshotFits(d, k, object[k])
<1>1. /\ d.listed = run[r].listed /\ d.wrote = run[r].wrote /\ d.newMeta = run[r].newMeta
      /\ d.added = run[r].added
  BY DEF MoveMade
<1>2. MadeOf(d, k, object[k]) /\ d.listed[k].tag <= object[k].tag
  BY <1>1 DEF SnapshotFits, MadeOf, DoneAsListed
<1>3. object[k].tag \in Nat /\ meta[k] \in Meta
  BY DEF SyncBase, TypeOK, Object, Tag
<1>4. DoneAsListed(d, k) = DoneAsListed(run[r], k)
  BY <1>1 DEF DoneAsListed
<1>5. CASE Passed(r, k, d)
  BY <1>2, <1>5 DEF SnapshotFits, Passed, InHand
<1>6. CASE Looked(r, k, d)
  <2>1. meta[k] # DoneAsListed(run[r], k)
    BY <1>6 DEF Looked, Unchanged, DoneAsListed, Snapshot
  <2>2. run[r].listed[k].tag \in Nat
    BY DEF SyncBase, TypeOK, RunState, Object, Tag
  <2>3. d.pc # "load" /\ d.mem # DoneAsListed(d, k)
    BY <1>4, <1>6, <2>1 DEF Looked
  <2>4. d.pc = "store" => d.listed[k].tag <= d.body.tag /\ d.body.tag <= object[k].tag
    BY <1>1, <1>2, <1>6, <2>2 DEF Looked
  <2> QED
    BY <1>2, <2>3, <2>4 DEF SnapshotFits
<1>7. CASE WasRead(r, k, d)
  BY <1>1, <1>2, <1>3, <1>4, <1>7 DEF SnapshotFits, WasRead
<1>8. CASE WasLoaded(r, k, d)
  BY <1>8 DEF WasLoaded, SnapshotFits
<1> QED
  BY <1>5, <1>6, <1>7, <1>8 DEF MoveMade

LEMMA HandledElsewhere ==
  ASSUME NEW r \in Runner, NEW k \in Key, NEW old, NEW new, NEW add, NEW d,
         Handled(r, k, old, new, add, d), NEW j \in Key \ {k}
  PROVE  SameAt(run[r], d, j)
BY DEF Handled, SameAt, InHand

LEMMA MovedElsewhere ==
  ASSUME NEW r \in Runner, NEW k \in Key, NEW d, MoveMade(r, k, d), NEW j \in Key \ {k}
  PROVE  SameAt(run[r], d, j)
BY DEF MoveMade, SameAt, InHand, Passed, Looked, WasRead, WasLoaded

\* When one run takes a step and the objects stay, it is enough that it fits.
LEMMA SnapshotsFromRun ==
  ASSUME SyncBase, SnapshotsFit, NEW r \in Runner, NEW d \in RunState,
         run' = [run EXCEPT ![r] = d], UNCHANGED <<source, object, meta, versions>>,
         source.version = "snapshot" => \A k \in Key : SnapshotFits(d, k, object[k])
  PROVE  SnapshotsFit'
<1>1. run \in [Runner -> RunState]
  BY DEF SyncBase, TypeOK
<1>2. run'[r] = d /\ \A q \in Runner \ {r} : run'[q] = run[q]
  BY <1>1
<1>3. SUFFICES ASSUME source.version = "snapshot", NEW k \in Key
               PROVE  ServedFits(k)' /\ \A q \in Runner : SnapshotFits(run'[q], k, object[k])
  BY DEF SnapshotsFit
<1>4. ServedFits(k)'
  BY <1>3 DEF SnapshotsFit, ServedFits
<1>5. \A q \in Runner : SnapshotFits(run'[q], k, object[k])
  BY <1>2, <1>3 DEF SnapshotsFit
<1> QED
  BY <1>4, <1>5

\* A commit leaves a document as it is, or replaces it with a newer version.
LEMMA AppendedLast ==
  ASSUME NEW vs \in Seq(Version), NEW v \in Version
  PROVE  /\ vs \o <<v>> \in Seq(Version) /\ vs \o <<v>> # << >>
         /\ Len(vs \o <<v>>) = Len(vs) + 1
         /\ Newest(vs \o <<v>>) = v
         /\ \A i \in 1..Len(vs) : (vs \o <<v>>)[i] = vs[i]
BY DEF Newest

LEMMA NoneAppended ==
  ASSUME NEW vs \in Seq(Version)
  PROVE  vs \o << >> = vs
OBVIOUS

LEMMA ServedAfterCommit ==
  ASSUME SyncBase, SnapshotsFit, source.version = "snapshot", NEW r \in Runner, CommitMade(r),
         NEW k \in Key
  PROVE  ServedFits(k)'
<1>1. SnapshotFits(run[r], k, object[k]) /\ ServedFits(k)
  BY DEF SnapshotsFit
<1>2. /\ meta'[k] = IF k \in run[r].wrote THEN run[r].newMeta[k] ELSE meta[k]
      /\ versions'[k] = versions[k] \o run[r].added[k]
      /\ object' = object
  BY DEF CommitMade
<1>3. versions[k] \in Seq(Version)
  BY DEF SyncBase, TypeOK
<1>4. CASE k \notin run[r].wrote /\ run[r].added[k] = << >>
  <2>1. meta'[k] = meta[k] /\ versions'[k] = versions[k]
    BY <1>2, <1>3, <1>4, NoneAppended
  <2> QED
    BY <1>1, <1>2, <2>1 DEF ServedFits
<1>5. CASE k \in run[r].wrote /\ run[r].newMeta[k].state # "done"
  BY <1>2, <1>5 DEF ServedFits
<1>6. ASSUME k \in run[r].wrote, run[r].newMeta[k] = DoneAsListed(run[r], k), NEW b \in Tag,
             run[r].added[k] = <<[body |-> b, snapshot |-> run[r].listed[k].tag]>>,
             run[r].listed[k].tag <= b, b <= object[k].tag
      PROVE  ServedFits(k)'
  <2>1. PICK v : v = [body |-> b, snapshot |-> run[r].listed[k].tag]
    OBVIOUS
  <2>2. run[r].listed[k].tag \in Tag
    BY DEF SyncBase, TypeOK, RunState, Object
  <2>3. v \in Version /\ v.body = b /\ v.snapshot = run[r].listed[k].tag
    BY <2>1, <2>2 DEF Version
  <2>4. versions'[k] # << >> /\ Newest(versions'[k]) = v
    BY <1>2, <1>3, <1>6, <2>1, <2>3, AppendedLast
  <2>5. meta'[k].tag = run[r].listed[k].tag
    BY <1>2, <1>6 DEF DoneAsListed
  <2> QED
    BY <1>2, <1>6, <2>3, <2>4, <2>5 DEF ServedFits
<1> QED
  BY <1>1, <1>4, <1>5, <1>6 DEF SnapshotFits, MadeOf

LEMMA SnapshotsKept ==
  ASSUME SyncBase, SnapshotsFit, Next
  PROVE  SnapshotsFit'
<1>0. /\ run \in [Runner -> RunState] /\ object \in [Key -> Object]
      /\ \A k \in Key : object[k].tag \in Nat
  BY DEF SyncBase, TypeOK, Object, Tag
<1>1. ASSUME NEW r \in Runner, NEW d \in RunState, StartMade(r, d)
      PROVE  SnapshotsFit'
  <2>1. ASSUME NEW k \in Key PROVE SnapshotFits(d, k, object[k])
    <3>1. /\ d.listed[k] = object[k] /\ k \notin d.wrote /\ d.added[k] = << >> /\ ~ InHand(d, k)
      BY <1>1 DEF StartMade, InHand
    <3> QED
      BY <1>0, <3>1 DEF SnapshotFits, MadeOf
  <2> QED
    BY <1>1, <2>1, SnapshotsFromRun DEF StartMade
<1>2. ASSUME NEW r \in Runner, NEW k \in Key, NEW old \in Meta, NEW new \in Meta,
             NEW d \in RunState, NoteMade(r, k, old, new, d)
      PROVE  SnapshotsFit'
  <2>1. /\ Handled(r, k, old, new, << >>, d)
        /\ run' = [run EXCEPT ![r] = d] /\ UNCHANGED <<source, object, meta, versions>>
    BY <1>2 DEF NoteMade, Handled
  <2>2. ASSUME source.version = "snapshot", NEW j \in Key PROVE SnapshotFits(d, j, object[j])
    <3>1. SnapshotFits(run[r], j, object[j])
      BY <2>2 DEF SnapshotsFit
    <3>2. CASE j = k
      BY <1>2, <2>2, <3>1, <3>2, NoteFits
    <3>3. CASE j # k
      <4>1. SameAt(run[r], d, j)
        BY <2>1, <3>3, HandledElsewhere
      <4>2. object[j].tag <= object[j].tag /\ object[j] \in Object /\ run[r] \in RunState
        BY <1>0
      <4> QED
        BY <3>1, <4>1, <4>2, SnapshotCarried
    <3> QED
      BY <3>2, <3>3
  <2> QED
    BY <2>1, <2>2, SnapshotsFromRun
<1>3. ASSUME NEW r \in Runner, NEW k \in Key, NEW new \in Meta, NEW add \in Seq(Version),
             NEW d \in RunState, StoreMade(r, k, new, add, d)
      PROVE  SnapshotsFit'
  <2>1. /\ Handled(r, k, run[r].mem, new, add, d)
        /\ run' = [run EXCEPT ![r] = d] /\ UNCHANGED <<source, object, meta, versions>>
    BY <1>3 DEF StoreMade, Handled
  <2>2. ASSUME source.version = "snapshot", NEW j \in Key PROVE SnapshotFits(d, j, object[j])
    <3>1. SnapshotFits(run[r], j, object[j])
      BY <2>2 DEF SnapshotsFit
    <3>2. CASE j = k
      BY <1>3, <2>2, <3>1, <3>2, StoreFits
    <3>3. CASE j # k
      <4>1. SameAt(run[r], d, j)
        BY <2>1, <3>3, HandledElsewhere
      <4>2. object[j].tag <= object[j].tag /\ object[j] \in Object /\ run[r] \in RunState
        BY <1>0
      <4> QED
        BY <3>1, <4>1, <4>2, SnapshotCarried
    <3> QED
      BY <3>2, <3>3
  <2> QED
    BY <2>1, <2>2, SnapshotsFromRun
<1>4. ASSUME NEW r \in Runner, NEW k \in Key, NEW d \in RunState, MoveMade(r, k, d)
      PROVE  SnapshotsFit'
  <2>1. run' = [run EXCEPT ![r] = d] /\ UNCHANGED <<source, object, meta, versions>>
    BY <1>4 DEF MoveMade
  <2>2. ASSUME source.version = "snapshot", NEW j \in Key PROVE SnapshotFits(d, j, object[j])
    <3>1. SnapshotFits(run[r], j, object[j])
      BY <2>2 DEF SnapshotsFit
    <3>2. CASE j = k
      BY <1>4, <2>2, <3>1, <3>2, MoveFits
    <3>3. CASE j # k
      <4>1. SameAt(run[r], d, j)
        BY <1>4, <3>3, MovedElsewhere
      <4>2. object[j].tag <= object[j].tag /\ object[j] \in Object /\ run[r] \in RunState
        BY <1>0
      <4> QED
        BY <3>1, <4>1, <4>2, SnapshotCarried
    <3> QED
      BY <3>2, <3>3
  <2> QED
    BY <2>1, <2>2, SnapshotsFromRun
<1>5. ASSUME NEW r \in Runner, LoseMade(r)
      PROVE  SnapshotsFit'
  <2>1. run' = [run EXCEPT ![r] = NoRun] /\ UNCHANGED <<source, object, meta, versions>>
    BY <1>5 DEF LoseMade
  <2>2. \A j \in Key : SnapshotFits(NoRun, j, object[j])
    BY <1>0, NoRunFits
  <2> QED
    BY <2>1, <2>2, NoRunTyped, SnapshotsFromRun
<1>6. ASSUME NEW r \in Runner, CommitMade(r)
      PROVE  SnapshotsFit'
  <2>1. UNCHANGED <<source, object>>
    BY <1>6 DEF CommitMade
  <2>2. SUFFICES ASSUME source.version = "snapshot", NEW k \in Key
                 PROVE  ServedFits(k)' /\ \A q \in Runner : SnapshotFits(run'[q], k, object[k])
    BY <2>1 DEF SnapshotsFit
  <2>3. ServedFits(k)'
    BY <1>6, <2>2, ServedAfterCommit
  <2>4. ASSUME NEW q \in Runner PROVE SnapshotFits(run'[q], k, object[k])
    <3>1. CASE q = r
      BY <1>0, <1>6, <3>1, NoRunFits DEF CommitMade
    <3>2. CASE q # r
      <4>1. Soil(run[q], run'[q])
        BY <1>6, <3>2 DEF CommitMade
      <4>2. SameAt(run[q], run'[q], k) /\ run'[q] \in RunState
        BY <4>1 DEF Soil, SameAt, InHand
      <4>3. SnapshotFits(run[q], k, object[k])
        BY <2>2 DEF SnapshotsFit
      <4>4. object[k].tag <= object[k].tag /\ object[k] \in Object /\ run[q] \in RunState
        BY <1>0
      <4> QED
        BY <4>2, <4>3, <4>4, SnapshotCarried
    <3> QED
      BY <3>1, <3>2
  <2> QED
    BY <2>3, <2>4
<1>7. ASSUME NEW j \in Key, NEW o \in Object, TurnMade(j, o)
      PROVE  SnapshotsFit'
  <2>1. /\ UNCHANGED <<source, meta, versions>> /\ object' = [object EXCEPT ![j] = o]
        /\ object[j].tag <= o.tag
    BY <1>7 DEF TurnMade
  <2>1a. ASSUME NEW k \in Key PROVE object'[k] \in Object /\ object[k].tag <= object'[k].tag
    <3>1. object'[k] = IF k = j THEN o ELSE object[k]
      BY <1>0, <2>1
    <3> QED
      BY <1>0, <2>1, <3>1
  <2>2. SUFFICES ASSUME source.version = "snapshot", NEW k \in Key
                 PROVE  ServedFits(k)' /\ \A q \in Runner : SnapshotFits(run'[q], k, object'[k])
    BY <2>1 DEF SnapshotsFit
  <2>3. ServedFits(k)'
    <3>1. ServedFits(k) /\ versions[k] \in Seq(Version)
      BY <2>2 DEF SnapshotsFit, SyncBase, TypeOK
    <3>2. versions[k] # << >> => Newest(versions[k]).body \in Nat
      <4>1. versions[k] # << >> => Newest(versions[k]) \in Version
        BY <3>1 DEF Newest
      <4> QED
        BY <4>1 DEF Version, Tag
    <3>3. object[k].tag \in Nat /\ object'[k].tag \in Nat /\ object[k].tag <= object'[k].tag
      BY <1>0, <2>1a DEF Object, Tag
    <3>4. ASSUME meta[k].state = "done" PROVE Newest(versions[k]).body <= object'[k].tag
      BY <3>1, <3>2, <3>3, <3>4 DEF ServedFits
    <3> QED
      BY <2>1, <3>1, <3>4 DEF ServedFits
  <2>4. ASSUME NEW q \in Runner PROVE SnapshotFits(run'[q], k, object'[k])
    <4>1. Soil(run[q], run'[q])
      BY <1>7 DEF TurnMade
    <4>2. SameAt(run[q], run'[q], k) /\ run'[q] \in RunState
      BY <4>1 DEF Soil, SameAt, InHand
    <4>3. SnapshotFits(run[q], k, object[k])
      BY <2>2 DEF SnapshotsFit
    <4>4. object[k] \in Object /\ run[q] \in RunState
      BY <1>0
    <4> QED
      BY <2>1a, <4>2, <4>3, <4>4, SnapshotCarried
  <2> QED
    BY <2>3, <2>4
<1> QED
  BY <1>1, <1>2, <1>3, <1>4, <1>5, <1>6, <1>7, SyncSteps

LEMMA Differing ==
  ASSUME NEW vs \in Seq(Version), NEW v \in Version,
         \A i \in 2..Len(vs) : vs[i].snapshot # vs[i - 1].snapshot,
         vs # << >> => v.snapshot # Newest(vs).snapshot
  PROVE  \A i \in 2..Len(vs \o <<v>>) : (vs \o <<v>>)[i].snapshot # (vs \o <<v>>)[i - 1].snapshot
<1>1. PICK ws : ws = vs \o <<v>>
  OBVIOUS
<1>2. /\ Len(ws) = Len(vs) + 1 /\ \A i \in 1..Len(vs) : ws[i] = vs[i]
      /\ ws[Len(ws)] = v
  BY <1>1, AppendedLast DEF Newest
<1>3. Len(vs) \in Nat /\ (vs = << >> <=> Len(vs) = 0)
  OBVIOUS
<1>4. ASSUME NEW i \in 2..Len(ws)
      PROVE  ws[i].snapshot # ws[i - 1].snapshot
  <2>1. CASE i = Len(ws)
    <3>1. i - 1 = Len(vs) /\ vs # << >> /\ Len(vs) \in 1..Len(vs)
      BY <1>2, <1>3, <2>1
    <3>2. ws[i - 1] = Newest(vs) /\ ws[i] = v
      BY <1>2, <2>1, <3>1 DEF Newest
    <3> QED
      BY <3>1, <3>2
  <2>2. CASE i # Len(ws)
    <3>1. i \in 2..Len(vs) /\ i \in 1..Len(vs) /\ i - 1 \in 1..Len(vs)
      BY <1>2, <1>3, <2>2
    <3> QED
      BY <1>2, <3>1
  <2> QED
    BY <2>1, <2>2
<1> QED
  BY <1>1, <1>4

\* An object that is read has changed since the newest version: its document
\* would else say so, and it would be passed by.
LEMMA LaterThanNewest ==
  ASSUME SyncBase, SnapshotsFit, source.version = "snapshot", NEW r \in Runner, NEW k \in Key,
         Busy(run[r]), DocumentFits(k), AloneFits(run[r], k), versions[k] # << >>,
         \/ InHand(run[r], k)
         \/ SkippedKind(run[r].listed[k].kind)
         \/ meta[k] = Absent
  PROVE  Newest(versions[k]).snapshot < run[r].listed[k].tag
<1>1. PICK t : t = Newest(versions[k]).snapshot
  OBVIOUS
<1>2. PICK l : l = run[r].listed[k].tag
  OBVIOUS
<1>3. /\ t \in Nat /\ l \in Nat /\ meta[k] \in Meta /\ meta[k].tag \in Nat
  <2>1. versions[k] \in Seq(Version) /\ run[r] \in RunState /\ meta[k] \in Meta
    BY DEF SyncBase, TypeOK
  <2>2. Newest(versions[k]) \in Version
    BY <2>1 DEF Newest
  <2>3. t \in Nat
    BY <1>1, <2>2 DEF Version, Tag
  <2>4. l \in Nat
    BY <1>2, <2>1 DEF RunState, Object, Tag
  <2> QED
    BY <2>1, <2>3, <2>4 DEF Meta, Tag
<1>4. t <= meta[k].tag /\ (t = meta[k].tag => meta[k].state = "done") /\ meta[k].tag <= l
  BY <1>1, <1>2 DEF DocumentFits, AloneFits
<1>5. CASE InHand(run[r], k)
  <2>1. run[r].mem = meta[k] /\ run[r].mem # DoneAsListed(run[r], k)
    BY <1>5 DEF AloneFits, SnapshotsFit, SnapshotFits
  <2>2. ~ (meta[k].state = "done" /\ meta[k].tag = l)
    BY <1>2, <1>3, <2>1 DEF DoneAsListed, Meta
  <2> QED
    BY <1>1, <1>2, <1>3, <1>4, <2>2
<1>6. CASE SkippedKind(run[r].listed[k].kind)
  <2>1. t # l
    BY <1>1, <1>2, <1>6 DEF AloneFits
  <2> QED
    BY <1>1, <1>2, <1>3, <1>4, <2>1
<1>7. CASE meta[k] = Absent
  <2>1. meta[k].tag = 0 /\ meta[k].state # "done"
    BY <1>7 DEF Absent
  <2> QED
    BY <1>1, <1>2, <1>3, <1>4, <2>1
<1> QED
  BY <1>5, <1>6, <1>7

\* The document of k and a run, where the run does not touch it.
LEMMA AloneCarried ==
  ASSUME NEW s, NEW t, NEW k \in Key, SameAt(s, t, k), Busy(s), AloneFits(s, k),
         UNCHANGED <<source, object, meta, versions>>
  PROVE  (AloneFits(t, k))'
BY DEF AloneFits, SameAt, SkippedKind, Alike

LEMMA NoteAlone ==
  ASSUME SyncBase, SnapshotsFit, source.version = "snapshot",
         NEW r \in Runner, NEW k \in Key, NEW old \in Meta, NEW new \in Meta, NEW d \in RunState,
         NoteMade(r, k, old, new, d), DocumentFits(k), AloneFits(run[r], k)
  PROVE  (AloneFits(d, k))'
<1>1. /\ d.pc = "visit" /\ d.listed = run[r].listed /\ d.added[k] = << >> /\ Busy(run[r])
      /\ k \in d.wrote <=> new # old
      /\ UNCHANGED <<source, object, meta, versions>>
  BY DEF NoteMade, Handled
<1>2. ASSUME k \in d.wrote, versions[k] # << >>
      PROVE  Newest(versions[k]).snapshot < d.listed[k].tag
  <2>1. new # old
    BY <1>1, <1>2
  <2>2. InHand(run[r], k) \/ SkippedKind(run[r].listed[k].kind) \/ meta[k] = Absent
    BY <2>1 DEF NoteMade
  <2> QED
    BY <1>1, <1>2, <2>2, LaterThanNewest
<1>3. /\ meta[k].tag <= d.listed[k].tag
      /\ d.listed[k].tag = object[k].tag => Alike(object[k], d.listed[k])
      /\ versions[k] # << >> /\ Newest(versions[k]).snapshot = d.listed[k].tag
           => ~ SkippedKind(d.listed[k].kind)
  BY <1>1 DEF AloneFits
<1>4. ~ InHand(d, k)
  BY <1>1 DEF InHand
<1> QED
  BY <1>1, <1>2, <1>3, <1>4 DEF AloneFits, SkippedKind, Alike

LEMMA StoreAlone ==
  ASSUME SyncBase, SnapshotsFit, source.version = "snapshot",
         NEW r \in Runner, NEW k \in Key, NEW new \in Meta, NEW add \in Seq(Version),
         NEW d \in RunState, StoreMade(r, k, new, add, d), DocumentFits(k), AloneFits(run[r], k)
  PROVE  (AloneFits(d, k))'
<1>1. /\ d.pc = "visit" /\ d.listed = run[r].listed /\ Busy(run[r]) /\ InHand(run[r], k)
      /\ UNCHANGED <<source, object, meta, versions>>
  BY DEF StoreMade, Handled
<1>2. ASSUME versions[k] # << >>
      PROVE  Newest(versions[k]).snapshot < d.listed[k].tag
  BY <1>1, <1>2, LaterThanNewest
<1>3. /\ meta[k].tag <= d.listed[k].tag
      /\ d.listed[k].tag = object[k].tag => Alike(object[k], d.listed[k])
      /\ versions[k] # << >> /\ Newest(versions[k]).snapshot = d.listed[k].tag
           => ~ SkippedKind(d.listed[k].kind)
      /\ ~ SkippedKind(d.listed[k].kind)
  BY <1>1 DEF AloneFits
<1>4. ~ InHand(d, k)
  BY <1>1 DEF InHand
<1> QED
  BY <1>1, <1>2, <1>3, <1>4 DEF AloneFits, SkippedKind, Alike

LEMMA MoveAlone ==
  ASSUME SyncBase, SnapshotsFit, source.version = "snapshot",
         NEW r \in Runner, NEW k \in Key, NEW d \in RunState, MoveMade(r, k, d),
         AloneFits(run[r], k), Busy(run[r])
  PROVE  (AloneFits(d, k))'
<1>1. /\ d.listed = run[r].listed /\ d.wrote = run[r].wrote /\ d.added = run[r].added
      /\ UNCHANGED <<source, object, meta, versions>>
  BY DEF MoveMade
<1>2. InHand(d, k) => d.mem = meta[k] /\ ~ SkippedKind(d.listed[k].kind)
  <2>1. InHand(run[r], k) => /\ run[r].mem = meta[k] /\ ~ SkippedKind(run[r].listed[k].kind)
                             /\ run[r].pc # "load"
    BY DEF AloneFits, SnapshotsFit, SnapshotFits
  <2>2. CASE Passed(r, k, d)
    BY <2>2 DEF Passed, InHand
  <2>3. CASE Looked(r, k, d)
    BY <1>1, <2>3 DEF Looked
  <2>4. CASE WasRead(r, k, d)
    BY <1>1, <2>1, <2>4 DEF WasRead
  <2>5. CASE WasLoaded(r, k, d)
    BY <2>1, <2>5 DEF WasLoaded
  <2> QED
    BY <2>2, <2>3, <2>4, <2>5 DEF MoveMade
<1>3. /\ meta[k].tag <= d.listed[k].tag
      /\ d.listed[k].tag = object[k].tag => Alike(object[k], d.listed[k])
      /\ versions[k] # << >> /\ Newest(versions[k]).snapshot = d.listed[k].tag
           => ~ SkippedKind(d.listed[k].kind)
      /\ k \in d.wrote /\ versions[k] # << >> => Newest(versions[k]).snapshot < d.listed[k].tag
      /\ d.added[k] # << >> => ~ SkippedKind(d.listed[k].kind)
  BY <1>1 DEF AloneFits
<1> QED
  BY <1>1, <1>2, <1>3 DEF AloneFits, SkippedKind, Alike

\* When one run takes a step and the documents stay, it is enough that what it has
\* become fits them.
OneRun == \A p, q \in Runner : p # q => ~ Busy(run[p]) \/ ~ Busy(run[q])

LEMMA AloneFromRun ==
  ASSUME SyncBase, AloneInv, NEW r \in Runner, NEW d \in RunState,
         run' = [run EXCEPT ![r] = d], UNCHANGED <<source, object, meta, versions>>,
         ~ overlapped' => ~ overlapped,
         ~ overlapped' /\ Busy(d) => \A q \in Runner \ {r} : ~ Busy(run[q]),
         ~ overlapped' /\ source.version = "snapshot" => \A k \in Key : (AloneFits(d, k))',
         ~ overlapped' /\ source.version = "body" => \A k \in Key :
           Busy(d) /\ d.added[k] # << >> =>
             \E v \in Version : /\ d.added[k] = <<v>> /\ v.snapshot = v.body
                                /\ versions[k] # << >> => v.body # Newest(versions[k]).body
  PROVE  AloneInv'
<1>1. run \in [Runner -> RunState]
  BY DEF SyncBase, TypeOK
<1>2. run'[r] = d /\ \A q \in Runner \ {r} : run'[q] = run[q]
  BY <1>1
<1>3. SUFFICES ASSUME ~ overlapped'
               PROVE  /\ OneRun' /\ VersionsOnlyOnChange'
                      /\ source.version = "snapshot" =>
                           \A k \in Key : (DocumentFits(k))' /\ \A q \in Runner : (AloneFits(run[q], k))'
                      /\ source.version = "body" => \A k \in Key : BodyFits(k)'
  BY DEF AloneInv, OneRun
<1>4. ~ overlapped
  BY <1>3
<1>5. OneRun'
  BY <1>2, <1>3, <1>4 DEF AloneInv, OneRun
<1>6. VersionsOnlyOnChange'
  BY <1>4 DEF AloneInv, VersionsOnlyOnChange
<1>7. ASSUME source.version = "snapshot", NEW k \in Key
      PROVE  (DocumentFits(k))' /\ \A q \in Runner : (AloneFits(run[q], k))'
  <2>1. DocumentFits(k) /\ \A q \in Runner : AloneFits(run[q], k)
    BY <1>4, <1>7 DEF AloneInv
  <2>2. (DocumentFits(k))'
    BY <2>1 DEF DocumentFits, SkippedKind
  <2>3. ASSUME NEW q \in Runner \ {r} PROVE (AloneFits(run[q], k))'
    BY <1>2, <2>1 DEF AloneFits, SkippedKind, Alike
  <2>4. (AloneFits(run[r], k))'
    BY <1>2, <1>3, <1>7 DEF AloneFits, SkippedKind, Alike
  <2> QED
    BY <2>2, <2>3, <2>4
<1>8. ASSUME source.version = "body", NEW k \in Key
      PROVE  BodyFits(k)'
  <2>1. BodyFits(k)
    BY <1>4, <1>8 DEF AloneInv
  <2>2. ASSUME NEW q \in Runner, Busy(run'[q]), run'[q].added[k] # << >>
        PROVE  \E v \in Version : /\ run'[q].added[k] = <<v>> /\ v.snapshot = v.body
                                  /\ versions[k] # << >> => v.body # Newest(versions[k]).body
    <3>1. CASE q = r
      BY <1>2, <1>3, <1>8, <2>2, <3>1
    <3>2. CASE q # r
      BY <1>2, <2>1, <2>2, <3>2 DEF BodyFits
    <3> QED
      BY <3>1, <3>2
  <2> QED
    BY <2>1, <2>2 DEF BodyFits, Busy
<1> QED
  BY <1>5, <1>6, <1>7, <1>8

LEMMA DocumentAfterCommit ==
  ASSUME SyncBase, SnapshotsFit, source.version = "snapshot", NEW r \in Runner, CommitMade(r),
         NEW k \in Key, DocumentFits(k), AloneFits(run[r], k)
  PROVE  (DocumentFits(k))'
<1>1. SnapshotFits(run[r], k, object[k]) /\ MadeOf(run[r], k, object[k])
  BY DEF SnapshotsFit, SnapshotFits
<1>2. /\ meta'[k] = IF k \in run[r].wrote THEN run[r].newMeta[k] ELSE meta[k]
      /\ versions'[k] = versions[k] \o run[r].added[k]
      /\ UNCHANGED <<source, object>> /\ Busy(run[r])
  BY DEF CommitMade
<1>3. versions[k] \in Seq(Version) /\ run[r].listed[k] \in Object /\ object[k] \in Object
  BY DEF SyncBase, TypeOK, RunState
<1>3a. run[r].listed[k].tag \in Nat /\ object[k].tag \in Nat /\ run[r].listed[k].tag \in Tag
       /\ run[r].listed[k].tag <= object[k].tag
  BY <1>1, <1>3 DEF Object, Tag, SnapshotFits
<1>4. CASE k \notin run[r].wrote /\ run[r].added[k] = << >>
  <2>1. meta'[k] = meta[k] /\ versions'[k] = versions[k]
    BY <1>2, <1>3, <1>4, NoneAppended
  <2> QED
    BY <1>2, <2>1 DEF DocumentFits, SkippedKind
<1>5. CASE /\ k \in run[r].wrote /\ run[r].added[k] = << >>
           /\ run[r].newMeta[k].state # "done" /\ run[r].newMeta[k].tag = run[r].listed[k].tag
  <2>1. meta'[k].tag = run[r].listed[k].tag /\ versions'[k] = versions[k]
    BY <1>2, <1>3, <1>5, NoneAppended
  <2>2. ASSUME versions[k] # << >>
        PROVE  /\ Newest(versions[k]).snapshot \in Nat
               /\ Newest(versions[k]).snapshot < run[r].listed[k].tag
    <3>1. Newest(versions[k]) \in Version
      BY <1>3, <2>2 DEF Newest
    <3> QED
      BY <1>2, <1>5, <2>2, <3>1 DEF AloneFits, Version, Tag
  <2>3. ASSUME versions[k] # << >>
        PROVE  /\ Newest(versions[k]).snapshot <= run[r].listed[k].tag
               /\ Newest(versions[k]).snapshot # run[r].listed[k].tag
               /\ Newest(versions[k]).snapshot # object[k].tag
    BY <1>3a, <2>2, <2>3
  <2> QED
    BY <1>2, <1>3a, <2>1, <2>3 DEF DocumentFits
<1>6. ASSUME k \in run[r].wrote, run[r].newMeta[k] = DoneAsListed(run[r], k), NEW b \in Tag,
             run[r].added[k] = <<[body |-> b, snapshot |-> run[r].listed[k].tag]>>
      PROVE  (DocumentFits(k))'
  <2>1. PICK v : v = [body |-> b, snapshot |-> run[r].listed[k].tag]
    OBVIOUS
  <2>2. v \in Version /\ v.snapshot = run[r].listed[k].tag
    BY <1>3a, <2>1 DEF Version
  <2>3. Newest(versions'[k]) = v
    BY <1>2, <1>3, <1>6, <2>1, <2>2, AppendedLast
  <2>4. meta'[k].tag = run[r].listed[k].tag /\ meta'[k].state = "done"
    BY <1>2, <1>6 DEF DoneAsListed
  <2>5. ASSUME run[r].listed[k].tag = object[k].tag PROVE ~ SkippedKind(object[k].kind)
    <3>1. ~ SkippedKind(run[r].listed[k].kind) /\ Alike(object[k], run[r].listed[k])
      <4>1. run[r].added[k] # << >>
        BY <1>6
      <4> QED
        BY <1>2, <2>5, <4>1 DEF AloneFits
    <3> QED
      BY <3>1 DEF Alike, SkippedKind
  <2>6. ~ SkippedKind(object[k].kind) => (~ SkippedKind(object[k].kind))'
    BY <1>2 DEF SkippedKind
  <2> QED
    BY <1>2, <1>3a, <2>2, <2>3, <2>4, <2>5, <2>6 DEF DocumentFits
<1> QED
  BY <1>1, <1>4, <1>5, <1>6 DEF MadeOf

\* What a run adds to the versions of a document differs from the newest.
LEMMA AddedDiffers ==
  ASSUME SyncBase, SnapshotsFit, AloneInv, ~ overlapped, NEW r \in Runner, CommitMade(r), NEW k \in Key
  PROVE  \/ run[r].added[k] = << >>
         \/ \E v \in Version : /\ run[r].added[k] = <<v>>
                               /\ versions[k] # << >> => v.snapshot # Newest(versions[k]).snapshot
                               /\ source.version = "body" => v.snapshot = v.body
<1>1. source.version \in {"snapshot", "body"} /\ Busy(run[r]) /\ versions[k] \in Seq(Version)
      /\ run[r] \in RunState
  BY Sources DEF SyncBase, TypeOK, CommitMade
<1>2. ASSUME source.version = "snapshot", run[r].added[k] # << >>
      PROVE  \E v \in Version : /\ run[r].added[k] = <<v>>
                                /\ versions[k] # << >> => v.snapshot # Newest(versions[k]).snapshot
  <2>1. MadeOf(run[r], k, object[k])
    BY <1>2 DEF SnapshotsFit, SnapshotFits
  <2>2. PICK b \in Tag : run[r].added[k] = <<[body |-> b, snapshot |-> run[r].listed[k].tag]>>
    BY <1>2, <2>1 DEF MadeOf
  <2>3. k \in run[r].wrote
    BY <1>2, <2>1 DEF MadeOf
  <2>4. PICK v : v = [body |-> b, snapshot |-> run[r].listed[k].tag]
    OBVIOUS
  <2>5. run[r].listed[k].tag \in Tag
    BY <1>1 DEF RunState, Object
  <2>6. v \in Version /\ v.snapshot = run[r].listed[k].tag
    BY <2>4, <2>5 DEF Version
  <2>7. ASSUME versions[k] # << >> PROVE v.snapshot # Newest(versions[k]).snapshot
    <3>1. Newest(versions[k]).snapshot < run[r].listed[k].tag
      BY <1>1, <1>2, <2>3, <2>7 DEF AloneInv, AloneFits
    <3>2. Newest(versions[k]) \in Version
      BY <1>1, <2>7 DEF Newest
    <3>3. Newest(versions[k]).snapshot \in Nat /\ run[r].listed[k].tag \in Nat
      BY <2>5, <3>2 DEF Version, Tag
    <3> QED
      BY <2>6, <3>1, <3>3
  <2> QED
    BY <2>2, <2>4, <2>6, <2>7
<1>3. ASSUME source.version = "body", run[r].added[k] # << >>
      PROVE  \E v \in Version : /\ run[r].added[k] = <<v>> /\ v.snapshot = v.body
                                /\ versions[k] # << >> => v.snapshot # Newest(versions[k]).snapshot
  <2>1. BodyFits(k)
    BY <1>3 DEF AloneInv
  <2>2. PICK v \in Version : /\ run[r].added[k] = <<v>> /\ v.snapshot = v.body
                             /\ versions[k] # << >> => v.body # Newest(versions[k]).body
    BY <1>1, <1>3, <2>1 DEF BodyFits
  <2>3. versions[k] # << >> => Newest(versions[k]).snapshot = Newest(versions[k]).body
    <3>1. versions[k] # << >> => Len(versions[k]) \in 1..Len(versions[k])
      BY <1>1
    <3> QED
      BY <2>1, <3>1 DEF BodyFits, Newest
  <2> QED
    BY <2>2, <2>3
<1> QED
  BY <1>1, <1>2, <1>3

LEMMA CommitKeepsAlone ==
  ASSUME SyncBase, SnapshotsFit, AloneInv, NEW r \in Runner, CommitMade(r)
  PROVE  AloneInv'
<1>1. SUFFICES ASSUME ~ overlapped
               PROVE  /\ OneRun' /\ VersionsOnlyOnChange'
                      /\ source.version = "snapshot" =>
                           \A k \in Key : (DocumentFits(k))' /\ \A q \in Runner : (AloneFits(run[q], k))'
                      /\ source.version = "body" => \A k \in Key : BodyFits(k)'
  BY DEF AloneInv, OneRun, CommitMade
<1>2. \A q \in Runner : ~ Busy(run'[q])
  <2>1. \A q \in Runner \ {r} : ~ Busy(run[q])
    BY <1>1 DEF AloneInv, CommitMade
  <2> QED
    BY <2>1, NoRunFields DEF CommitMade, Soil, Busy
<1>3. OneRun'
  BY <1>2 DEF OneRun, Busy
<1>4. ASSUME NEW k \in Key
      PROVE  /\ versions[k] \in Seq(Version) /\ versions'[k] = versions[k] \o run[r].added[k]
             /\ \A i \in 2..Len(versions[k]) : versions[k][i].snapshot # versions[k][i - 1].snapshot
  BY <1>1 DEF SyncBase, TypeOK, CommitMade, AloneInv, VersionsOnlyOnChange
<1>5. ASSUME NEW k \in Key
      PROVE  \A i \in 2..Len(versions'[k]) : versions'[k][i].snapshot # versions'[k][i - 1].snapshot
  <2>1. CASE run[r].added[k] = << >>
    <3>1. versions'[k] = versions[k]
      BY <1>4, <2>1, NoneAppended
    <3> QED
      BY <1>4, <3>1
  <2>2. ASSUME NEW v \in Version, run[r].added[k] = <<v>>,
               versions[k] # << >> => v.snapshot # Newest(versions[k]).snapshot
        PROVE  \A i \in 2..Len(versions'[k]) :
                 versions'[k][i].snapshot # versions'[k][i - 1].snapshot
    <3>1. PICK vs : vs = versions[k]
      OBVIOUS
    <3>2. /\ vs \in Seq(Version) /\ versions'[k] = vs \o <<v>>
          /\ \A i \in 2..Len(vs) : vs[i].snapshot # vs[i - 1].snapshot
          /\ vs # << >> => v.snapshot # Newest(vs).snapshot
      BY <1>4, <2>2, <3>1
    <3>3. \A i \in 2..Len(vs \o <<v>>) :
            (vs \o <<v>>)[i].snapshot # (vs \o <<v>>)[i - 1].snapshot
      BY <3>2, Differing
    <3> QED
      BY <3>2, <3>3
  <2> QED
    BY <1>1, <2>1, <2>2, AddedDiffers
<1>6. VersionsOnlyOnChange'
  BY <1>5 DEF VersionsOnlyOnChange
<1>7. ASSUME source.version = "snapshot", NEW k \in Key
      PROVE  (DocumentFits(k))' /\ \A q \in Runner : (AloneFits(run[q], k))'
  <2>1. (DocumentFits(k))'
    BY <1>1, <1>7, DocumentAfterCommit DEF AloneInv
  <2>2. \A q \in Runner : (AloneFits(run[q], k))'
    BY <1>2 DEF AloneFits, Busy
  <2> QED
    BY <2>1, <2>2
<1>8. ASSUME source.version = "body", NEW k \in Key
      PROVE  BodyFits(k)'
  <2>1. \A i \in 1..Len(versions[k]) : versions[k][i].snapshot = versions[k][i].body
    BY <1>1, <1>8 DEF AloneInv, BodyFits
  <2>2. \A i \in 1..Len(versions'[k]) : versions'[k][i].snapshot = versions'[k][i].body
    <3>1. CASE run[r].added[k] = << >>
      <4>1. versions'[k] = versions[k]
        BY <1>4, <3>1, NoneAppended
      <4> QED
        BY <2>1, <4>1
    <3>2. ASSUME NEW v \in Version, run[r].added[k] = <<v>>, v.snapshot = v.body
          PROVE  \A i \in 1..Len(versions'[k]) : versions'[k][i].snapshot = versions'[k][i].body
      <4>1. PICK ws : ws = versions[k] \o <<v>>
        OBVIOUS
      <4>2. /\ Len(ws) = Len(versions[k]) + 1 /\ \A i \in 1..Len(versions[k]) : ws[i] = versions[k][i]
            /\ ws[Len(ws)] = v /\ Len(versions[k]) \in Nat
        BY <1>4, <4>1, AppendedLast DEF Newest
      <4>3. \A i \in 1..Len(ws) : i \in 1..Len(versions[k]) \/ i = Len(ws)
        BY <4>2
      <4>4. \A i \in 1..Len(ws) : ws[i].snapshot = ws[i].body
        BY <2>1, <3>2, <4>2, <4>3
      <4> QED
        BY <1>4, <3>2, <4>1, <4>4
    <3> QED
      BY <1>1, <1>8, <3>1, <3>2, AddedDiffers
  <2> QED
    BY <1>2, <2>2 DEF BodyFits, Busy
<1> QED
  BY <1>3, <1>6, <1>7, <1>8

LEMMA TurnKeepsAlone ==
  ASSUME SyncBase, SnapshotsFit, AloneInv, NEW j \in Key, NEW o \in Object, TurnMade(j, o)
  PROVE  AloneInv'
<1>0. /\ object \in [Key -> Object] /\ meta \in [Key -> Meta] /\ versions \in [Key -> Seq(Version)]
      /\ run \in [Runner -> RunState]
  BY DEF SyncBase, TypeOK
<1>1. SUFFICES ASSUME ~ overlapped
               PROVE  /\ OneRun' /\ VersionsOnlyOnChange'
                      /\ source.version = "snapshot" =>
                           \A k \in Key : (DocumentFits(k))' /\ \A q \in Runner : (AloneFits(run[q], k))'
                      /\ source.version = "body" => \A k \in Key : BodyFits(k)'
  BY DEF AloneInv, OneRun, TurnMade
<1>2. /\ UNCHANGED <<source, meta, versions>> /\ object[j].tag <= o.tag
      /\ o.tag = object[j].tag => {o.kind, object[j].kind} \subseteq {"text", "gone"}
      /\ \A q \in Runner : Soil(run[q], run'[q])
  BY DEF TurnMade
<1>3. object'[j] = o /\ \A k \in Key \ {j} : object'[k] = object[k]
  BY <1>0 DEF TurnMade
<1>4. OneRun'
  BY <1>1, <1>2 DEF AloneInv, OneRun, Soil, Busy
<1>5. VersionsOnlyOnChange'
  BY <1>1, <1>2 DEF AloneInv, VersionsOnlyOnChange
<1>6. ASSUME source.version = "snapshot", NEW k \in Key
      PROVE  (DocumentFits(k))'
  <2>1. DocumentFits(k)
    BY <1>1, <1>6 DEF AloneInv
  <2>2. CASE k # j
    BY <1>2, <1>3, <2>1, <2>2 DEF DocumentFits, SkippedKind
  <2>3. CASE k = j
    <3>1. meta[k].tag \in Nat /\ object[k].tag \in Nat /\ o.tag \in Nat
      BY <1>0 DEF Meta, Object, Tag
    <3>2. meta[k].tag <= o.tag
      BY <1>2, <2>1, <2>3, <3>1 DEF DocumentFits
    <3>3. ASSUME versions[k] # << >>, Newest(versions[k]).snapshot = o.tag
          PROVE  ~ (SkippedKind(o.kind))'
      <4>1. o.tag = object[k].tag
        BY <1>2, <2>1, <2>3, <3>1, <3>3 DEF DocumentFits
      <4>2. o.kind \in {"text", "gone"}
        BY <1>2, <2>3, <4>1
      <4> QED
        BY <4>2 DEF SkippedKind
    <3> QED
      BY <1>2, <1>3, <2>1, <2>3, <3>2, <3>3 DEF DocumentFits, SkippedKind
  <2> QED
    BY <2>2, <2>3
<1>7. ASSUME source.version = "snapshot", NEW k \in Key, NEW q \in Runner
      PROVE  (AloneFits(run[q], k))'
  <2>1. AloneFits(run[q], k) /\ SnapshotFits(run[q], k, object[k])
    BY <1>1, <1>7 DEF AloneInv, SnapshotsFit
  <2>2. Soil(run[q], run'[q])
    BY <1>2
  <2>3. ASSUME Busy(run[q]), run[q].listed[k].tag = object'[k].tag
        PROVE  Alike(object'[k], run[q].listed[k])
    <3>1. CASE k # j
      BY <1>3, <2>1, <2>3, <3>1 DEF AloneFits
    <3>2. CASE k = j
      <4>1. run[q].listed[k].tag \in Nat /\ object[k].tag \in Nat /\ o.tag \in Nat
        BY <1>0 DEF RunState, Object, Tag
      <4>2. run[q].listed[k].tag = object[k].tag /\ o.tag = object[k].tag
        BY <1>2, <1>3, <2>1, <2>3, <3>2, <4>1 DEF SnapshotFits
      <4>3. Alike(object[k], run[q].listed[k]) /\ {o.kind, object[k].kind} \subseteq {"text", "gone"}
        BY <1>2, <2>1, <2>3, <3>2, <4>2 DEF AloneFits
      <4> QED
        BY <1>3, <3>2, <4>3 DEF Alike
    <3> QED
      BY <3>1, <3>2
  <2> QED
    BY <1>2, <2>1, <2>2, <2>3 DEF AloneFits, Soil, Busy, InHand, SkippedKind, Alike
<1>8. ASSUME source.version = "body", NEW k \in Key
      PROVE  BodyFits(k)'
  <2>1. BodyFits(k)
    BY <1>1, <1>8 DEF AloneInv
  <2> QED
    BY <1>2, <2>1 DEF BodyFits, Soil, Busy
<1> QED
  BY <1>4, <1>5, <1>6, <1>7, <1>8

LEMMA AloneKept ==
  ASSUME SyncBase, SnapshotsFit, AloneInv, Next
  PROVE  AloneInv'
<1>0. \A k \in Key : versions[k] \in Seq(Version)
  BY DEF SyncBase, TypeOK
<1>a. ASSUME ~ overlapped, source.version = "snapshot", NEW k \in Key
      PROVE  DocumentFits(k) /\ \A r \in Runner : AloneFits(run[r], k)
  BY <1>a DEF AloneInv
<1>b. ASSUME ~ overlapped, NEW r \in Runner, Busy(run[r])
      PROVE  \A q \in Runner \ {r} : ~ Busy(run[q])
  BY <1>b DEF AloneInv
<1>c. ASSUME ~ overlapped, source.version = "body", NEW k \in Key, NEW r \in Runner,
             Busy(run[r]), run[r].added[k] # << >>
      PROVE  \E v \in Version : /\ run[r].added[k] = <<v>> /\ v.snapshot = v.body
                                /\ versions[k] # << >> => v.body # Newest(versions[k]).body
  BY <1>c DEF AloneInv, BodyFits
<1>1. ASSUME NEW r \in Runner, NEW d \in RunState, StartMade(r, d)
      PROVE  AloneInv'
  <2>1. ~ overlapped' => ~ overlapped /\ \A q \in Runner \ {r} : ~ Busy(run[q])
    BY <1>1 DEF StartMade
  <2>2. /\ run' = [run EXCEPT ![r] = d] /\ UNCHANGED <<source, object, meta, versions>>
        /\ \A k \in Key : d.added[k] = << >>
    BY <1>1 DEF StartMade
  <2>3. ASSUME ~ overlapped', source.version = "snapshot", NEW k \in Key
        PROVE  (AloneFits(d, k))'
    <3>1. DocumentFits(k)
      BY <1>a, <2>1, <2>3
    <3>2. /\ d.listed[k] = object[k] /\ d.wrote = {} /\ d.added[k] = << >> /\ ~ InHand(d, k)
      BY <1>1 DEF StartMade, InHand
    <3> QED
      BY <2>2, <3>1, <3>2 DEF AloneFits, DocumentFits, Alike, SkippedKind
  <2> QED
    BY <2>1, <2>2, <2>3, AloneFromRun
<1>2. ASSUME NEW r \in Runner, NEW k \in Key, NEW old \in Meta, NEW new \in Meta,
             NEW d \in RunState, NoteMade(r, k, old, new, d)
      PROVE  AloneInv'
  <2>1. /\ Handled(r, k, old, new, << >>, d) /\ run' = [run EXCEPT ![r] = d]
        /\ UNCHANGED <<source, object, meta, versions, overlapped>> /\ Busy(run[r])
        /\ d.added[k] = << >> /\ \A j \in Key \ {k} : d.added[j] = run[r].added[j]
    BY <1>2 DEF NoteMade, Handled
  <2>2. ASSUME ~ overlapped, source.version = "snapshot", NEW j \in Key
        PROVE  (AloneFits(d, j))'
    <3>1. DocumentFits(j) /\ AloneFits(run[r], j)
      BY <1>a, <2>2
    <3>2. CASE j = k
      BY <1>2, <2>2, <3>1, <3>2, NoteAlone
    <3>3. CASE j # k
      BY <2>1, <3>1, <3>3, HandledElsewhere, AloneCarried
    <3> QED
      BY <3>2, <3>3
  <2>3. ASSUME ~ overlapped, source.version = "body", NEW j \in Key, d.added[j] # << >>
        PROVE  \E v \in Version : /\ d.added[j] = <<v>> /\ v.snapshot = v.body
                                  /\ versions[j] # << >> => v.body # Newest(versions[j]).body
    <3>1. j # k /\ d.added[j] = run[r].added[j]
      BY <2>1, <2>3
    <3> QED
      BY <1>c, <2>1, <2>3, <3>1
  <2> QED
    BY <1>b, <2>1, <2>2, <2>3, AloneFromRun
<1>3. ASSUME NEW r \in Runner, NEW k \in Key, NEW new \in Meta, NEW add \in Seq(Version),
             NEW d \in RunState, StoreMade(r, k, new, add, d)
      PROVE  AloneInv'
  <2>1. /\ Handled(r, k, run[r].mem, new, add, d) /\ run' = [run EXCEPT ![r] = d]
        /\ UNCHANGED <<source, object, meta, versions, overlapped>> /\ Busy(run[r])
        /\ d.added[k] = add /\ \A j \in Key \ {k} : d.added[j] = run[r].added[j]
    BY <1>3 DEF StoreMade, Handled
  <2>2. ASSUME ~ overlapped, source.version = "snapshot", NEW j \in Key
        PROVE  (AloneFits(d, j))'
    <3>1. DocumentFits(j) /\ AloneFits(run[r], j)
      BY <1>a, <2>2
    <3>2. CASE j = k
      BY <1>3, <2>2, <3>1, <3>2, StoreAlone
    <3>3. CASE j # k
      BY <2>1, <3>1, <3>3, HandledElsewhere, AloneCarried
    <3> QED
      BY <3>2, <3>3
  <2>3. ASSUME ~ overlapped, source.version = "body", NEW j \in Key, d.added[j] # << >>
        PROVE  \E v \in Version : /\ d.added[j] = <<v>> /\ v.snapshot = v.body
                                  /\ versions[j] # << >> => v.body # Newest(versions[j]).body
    <3>1. CASE j # k
      <4>1. d.added[j] = run[r].added[j]
        BY <2>1, <3>1
      <4> QED
        BY <1>c, <2>1, <2>3, <4>1
    <3>2. CASE j = k
      <4>1. ~ IsNewest(r) /\ add = <<[body |-> run[r].body.tag, snapshot |-> new.tag]>>
        BY <1>3, <2>1, <2>3, <3>2 DEF StoreMade
      <4>2. new.tag = run[r].body.tag /\ run[r].at = k
        BY <1>3, <2>3 DEF StoreMade, DoneMeta, InHand
      <4>3. versions[k] # << >> => Newest(versions[k]).body # run[r].body.tag
        BY <2>3, <4>1, <4>2 DEF IsNewest, Newest
      <4>4. run[r].body.tag \in Tag
        BY DEF SyncBase, TypeOK, RunState, Object
      <4>5. PICK v : v = [body |-> run[r].body.tag, snapshot |-> new.tag]
        OBVIOUS
      <4>6. v \in Version /\ v.snapshot = v.body /\ v.body = run[r].body.tag
        BY <4>2, <4>4, <4>5 DEF Version
      <4> QED
        BY <2>1, <3>2, <4>1, <4>3, <4>5, <4>6
    <3> QED
      BY <3>1, <3>2
  <2> QED
    BY <1>b, <2>1, <2>2, <2>3, AloneFromRun
<1>4. ASSUME NEW r \in Runner, NEW k \in Key, NEW d \in RunState, MoveMade(r, k, d)
      PROVE  AloneInv'
  <2>1. /\ run' = [run EXCEPT ![r] = d] /\ UNCHANGED <<source, object, meta, versions, overlapped>>
        /\ d.added = run[r].added
    BY <1>4 DEF MoveMade
  <2>1a. Busy(run[r])
    BY <1>4 DEF MoveMade, Passed, Looked, WasRead, WasLoaded, Busy, InHand
  <2>2. ASSUME ~ overlapped, source.version = "snapshot", NEW j \in Key
        PROVE  (AloneFits(d, j))'
    <3>1. DocumentFits(j) /\ AloneFits(run[r], j)
      BY <1>a, <2>2
    <3>2. CASE j = k
      BY <1>4, <2>1a, <2>2, <3>1, <3>2, MoveAlone
    <3>3. CASE j # k
      BY <1>4, <2>1, <2>1a, <3>1, <3>3, MovedElsewhere, AloneCarried
    <3> QED
      BY <3>2, <3>3
  <2>3. ASSUME ~ overlapped, source.version = "body", NEW j \in Key, d.added[j] # << >>
        PROVE  \E v \in Version : /\ d.added[j] = <<v>> /\ v.snapshot = v.body
                                  /\ versions[j] # << >> => v.body # Newest(versions[j]).body
    BY <1>c, <2>1, <2>1a, <2>3
  <2> QED
    BY <1>b, <2>1, <2>1a, <2>2, <2>3, AloneFromRun
<1>5. ASSUME NEW r \in Runner, LoseMade(r)
      PROVE  AloneInv'
  <2>1. /\ run' = [run EXCEPT ![r] = NoRun]
        /\ UNCHANGED <<source, object, meta, versions, overlapped>>
    BY <1>5 DEF LoseMade
  <2>2. \A k \in Key : (AloneFits(NoRun, k))'
    BY NoRunFields DEF AloneFits, Busy
  <2>3. ~ Busy(NoRun)
    BY NoRunFields
  <2> QED
    BY <2>1, <2>2, <2>3, NoRunTyped, AloneFromRun
<1> QED
  BY <1>1, <1>2, <1>3, <1>4, <1>5, CommitKeepsAlone, TurnKeepsAlone, SyncSteps

-----------------------------------------------------------------------------
\* A run that nothing has come in the way of.

LEMMA CleanFromRun ==
  ASSUME SyncBase, CleanInv, NEW r \in Runner, NEW d \in RunState,
         run' = [run EXCEPT ![r] = d], UNCHANGED <<object, versions>>,
         (CleanFits(d))'
  PROVE  CleanInv'
<1>1. run' \in [Runner -> RunState] /\ run'[r] = d /\ \A q \in Runner \ {r} : run'[q] = run[q]
  BY DEF SyncBase, TypeOK
<1>2. ASSUME NEW q \in Runner \ {r} PROVE (CleanFits(run[q]))'
  BY <1>1 DEF CleanInv, CleanFits
<1>3. (CleanFits(run[r]))'
  BY <1>1 DEF CleanFits
<1> QED
  BY <1>2, <1>3 DEF CleanInv

\* What is served of a text once it has an item.
Served(s, k) ==
  \/ \E v \in Version : s.added[k] = <<v>> /\ v.body = object[k].tag
  \/ /\ s.added[k] = << >> /\ versions[k] # << >>
     /\ Newest(versions[k]).body = object[k].tag

LEMMA CleanKept ==
  ASSUME SyncBase, SnapshotsFit, CleanInv, Next
  PROVE  CleanInv'
<1>1. ASSUME NEW r \in Runner, NEW d \in RunState, StartMade(r, d)
      PROVE  CleanInv'
  <2>1. /\ run' = [run EXCEPT ![r] = d] /\ UNCHANGED <<object, versions>>
        /\ d.listed = object /\ d.pc = "visit"
        /\ \A k \in Key : object[k].kind = "text" => k \in d.todo
    BY <1>1 DEF StartMade
  <2>2. (CleanFits(d))'
    BY <2>1 DEF CleanFits
  <2> QED
    BY <2>1, <2>2, CleanFromRun
<1>2. ASSUME NEW r \in Runner, NEW k \in Key, NEW old \in Meta, NEW new \in Meta,
             NEW d \in RunState, NoteMade(r, k, old, new, d)
      PROVE  CleanInv'
  <2>1. /\ run' = [run EXCEPT ![r] = d] /\ UNCHANGED <<object, versions>> /\ Busy(run[r])
        /\ d.listed = run[r].listed /\ d.pc = "visit" /\ d.todo = run[r].todo \ {k}
        /\ d.clean => run[r].clean
        /\ \A j \in Key \ {k} : d.added[j] = run[r].added[j]
    BY <1>2 DEF NoteMade, Handled
  <2>2. ASSUME d.clean
        PROVE  d.listed = object /\ \A j \in Key \ d.todo : object[j].kind = "text" => Served(d, j)
    <3>1. CleanFits(run[r]) /\ run[r].clean
      BY <2>1, <2>2 DEF CleanInv
    <3>2. run[r].listed = object
      BY <2>1, <3>1 DEF CleanFits
    <3>3. object[k].kind # "text"
      <4>1. CASE run[r].listed[k].kind # "text"
        BY <3>2, <4>1
      <4>2. CASE InHand(run[r], k) /\ run[r].pc = "store" /\ run[r].body.kind # "text"
        BY <2>1, <3>1, <4>2 DEF CleanFits, InHand
      <4> QED
        BY <1>2, <2>2, <4>1, <4>2 DEF NoteMade
    <3>4. ASSUME NEW j \in Key \ d.todo, object[j].kind = "text" PROVE Served(d, j)
      <4>1. j # k /\ j \notin run[r].todo
        BY <2>1, <3>3, <3>4
      <4> QED
        BY <2>1, <3>1, <3>4, <4>1 DEF CleanFits, Served
    <3> QED
      BY <2>1, <3>2, <3>4
  <2>3. (CleanFits(d))'
    BY <2>1, <2>2 DEF CleanFits, Served
  <2> QED
    BY <2>1, <2>3, CleanFromRun
<1>3. ASSUME NEW r \in Runner, NEW k \in Key, NEW new \in Meta, NEW add \in Seq(Version),
             NEW d \in RunState, StoreMade(r, k, new, add, d)
      PROVE  CleanInv'
  <2>1. /\ run' = [run EXCEPT ![r] = d] /\ UNCHANGED <<object, versions>> /\ Busy(run[r])
        /\ d.listed = run[r].listed /\ d.pc = "visit" /\ d.todo = run[r].todo \ {k}
        /\ d.clean => run[r].clean
        /\ d.added[k] = add /\ \A j \in Key \ {k} : d.added[j] = run[r].added[j]
    BY <1>3 DEF StoreMade, Handled
  <2>2. ASSUME d.clean
        PROVE  d.listed = object /\ \A j \in Key \ d.todo : object[j].kind = "text" => Served(d, j)
    <3>1. CleanFits(run[r]) /\ run[r].clean
      BY <2>1, <2>2 DEF CleanInv
    <3>2. run[r].listed = object
      BY <2>1, <3>1 DEF CleanFits
    <3>3. run[r].at = k /\ run[r].body = object[k]
      BY <1>3, <2>1, <3>1 DEF CleanFits, StoreMade, InHand
    <3>4. Served(d, k)
      <4>1. CASE IsNewest(r)
        BY <1>3, <2>1, <3>3, <4>1 DEF StoreMade, IsNewest, Newest, Served
      <4>2. CASE ~ IsNewest(r)
        <5>1. PICK v : v = [body |-> run[r].body.tag, snapshot |-> new.tag]
          OBVIOUS
        <5>2. v \in Version /\ v.body = object[k].tag
          BY <3>3, <5>1 DEF Version, SyncBase, TypeOK, Object, Meta
        <5> QED
          BY <1>3, <2>1, <4>2, <5>1, <5>2 DEF StoreMade, Served
      <4> QED
        BY <4>1, <4>2
    <3>5. ASSUME NEW j \in Key \ d.todo, object[j].kind = "text", j # k PROVE Served(d, j)
      <4>1. j \notin run[r].todo
        BY <2>1, <3>5
      <4> QED
        BY <2>1, <3>1, <3>5, <4>1 DEF CleanFits, Served
    <3> QED
      BY <2>1, <3>2, <3>4, <3>5
  <2>3. (CleanFits(d))'
    BY <2>1, <2>2 DEF CleanFits, Served
  <2> QED
    BY <2>1, <2>3, CleanFromRun
<1>4. ASSUME NEW r \in Runner, NEW k \in Key, NEW d \in RunState, MoveMade(r, k, d)
      PROVE  CleanInv'
  <2>1. /\ run' = [run EXCEPT ![r] = d] /\ UNCHANGED <<object, versions>>
        /\ d.listed = run[r].listed /\ d.clean = run[r].clean /\ d.added = run[r].added
        /\ k \in run[r].todo
    BY <1>4 DEF MoveMade
  <2>2. Busy(run[r])
    BY <1>4 DEF MoveMade, Passed, Looked, WasRead, WasLoaded, Busy, InHand
  <2>3. ASSUME d.clean
        PROVE  /\ d.listed = object
               /\ d.pc \in {"load", "store"} => d.body = object[d.at]
               /\ \A j \in Key \ d.todo : object[j].kind = "text" => Served(d, j)
    <3>1. CleanFits(run[r]) /\ run[r].clean
      BY <2>1, <2>3 DEF CleanInv
    <3>2. /\ run[r].listed = object
          /\ run[r].pc \in {"load", "store"} => run[r].body = object[run[r].at]
          /\ \A j \in Key \ run[r].todo : object[j].kind = "text" => Served(d, j)
      BY <2>1, <2>2, <3>1 DEF CleanFits, Served
    <3>3. CASE Passed(r, k, d)
      <4>1. /\ d.pc = "visit" /\ d.todo = run[r].todo \ {k} /\ source.version = "snapshot"
            /\ meta[k] = [state |-> "done", tag |-> object[k].tag]
        BY <3>2, <3>3 DEF Passed, Unchanged, Snapshot
      <4>2. meta[k].state = "done" /\ meta[k].tag = object[k].tag
        BY <4>1
      <4>3. /\ versions[k] # << >> /\ object[k].tag <= Newest(versions[k]).body
            /\ Newest(versions[k]).body <= object[k].tag
        BY <4>1, <4>2 DEF SnapshotsFit, ServedFits
      <4>4. Newest(versions[k]).body \in Nat /\ object[k].tag \in Nat
        <5>1. versions[k] \in Seq(Version) /\ object[k] \in Object
          BY DEF SyncBase, TypeOK
        <5>2. Newest(versions[k]) \in Version
          BY <4>3, <5>1 DEF Newest
        <5> QED
          BY <5>1, <5>2 DEF Version, Object, Tag
      <4>5. Newest(versions[k]).body = object[k].tag
        BY <4>3, <4>4
      <4>6. d.added[k] = << >>
        BY <2>1 DEF SyncBase, WorkFits
      <4>7. Served(d, k)
        BY <4>3, <4>5, <4>6 DEF Served
      <4> QED
        BY <2>1, <3>2, <4>1, <4>7
    <3>4. CASE Looked(r, k, d)
      BY <2>1, <3>2, <3>4 DEF Looked, InHand
    <3>5. CASE WasRead(r, k, d)
      BY <2>1, <3>2, <3>5 DEF WasRead, InHand
    <3>6. CASE WasLoaded(r, k, d)
      BY <2>1, <3>2, <3>6 DEF WasLoaded, InHand
    <3> QED
      BY <1>4, <3>3, <3>4, <3>5, <3>6 DEF MoveMade
  <2>4. (CleanFits(d))'
    BY <2>1, <2>3 DEF CleanFits, Served
  <2> QED
    BY <2>1, <2>4, CleanFromRun
<1>5. ASSUME NEW r \in Runner, LoseMade(r)
      PROVE  CleanInv'
  <2>1. run' = [run EXCEPT ![r] = NoRun] /\ UNCHANGED <<object, versions>>
    BY <1>5 DEF LoseMade
  <2>2. (CleanFits(NoRun))'
    BY NoRunFields DEF CleanFits, Busy
  <2> QED
    BY <2>1, <2>2, NoRunTyped, CleanFromRun
<1>6. ASSUME NEW r \in Runner, CommitMade(r)
      PROVE  CleanInv'
  BY <1>6, NoRunFields DEF CommitMade, Soil, CleanInv, CleanFits, Busy
<1>7. ASSUME NEW k \in Key, NEW o \in Object, TurnMade(k, o)
      PROVE  CleanInv'
  BY <1>7 DEF TurnMade, Soil, CleanInv, CleanFits
<1> QED
  BY <1>1, <1>2, <1>3, <1>4, <1>5, <1>6, <1>7, SyncSteps

-----------------------------------------------------------------------------
LEMMA SyncInitially ==
  ASSUME Init
  PROVE  SyncInv
<1>0. /\ 0 \in Nat /\ 0 \in Tag /\ 0 \in 0..MaxEvents /\ 0 \in 0..MaxRuns
  BY BoundsAssumption DEF Tag
<1>1. /\ object \in [Key -> Object] /\ \A k \in Key : object[k].tag = 0
  BY DEF Init
<1>2. \A r \in Runner : run[r] = NoRun
  BY DEF Init
<1>3. run \in [Runner -> RunState]
  BY NoRunTyped DEF Init
<1>4. \A k \in Key : meta[k] = Absent /\ versions[k] = << >>
  BY DEF Init
<1>5. meta \in [Key -> Meta] /\ versions \in [Key -> Seq(Version)]
  <2>1. Absent \in Meta
    BY <1>0 DEF Absent, Meta
  <2> QED
    BY <2>1 DEF Init
<1>6. TypeOK
  BY <1>0, <1>1, <1>2, <1>3, <1>5, NoRunFields DEF TypeOK, Init
<1>7. TagsFit
  BY <1>0, <1>1 DEF TagsFit, Init
<1>8. WorkFits
  BY <1>2, NoRunFields DEF WorkFits
<1>9. SnapshotsFit
  BY <1>1, <1>2, <1>4, NoRunFits DEF SnapshotsFit, ServedFits, Absent
<1>10. AloneInv
  <2>1. \A k \in Key : DocumentFits(k)
    BY <1>0, <1>1, <1>4 DEF DocumentFits, Absent
  <2>2. \A k \in Key : \A r \in Runner : AloneFits(run[r], k)
    BY <1>2, NoRunFields DEF AloneFits
  <2>3. \A k \in Key : BodyFits(k)
    BY <1>2, <1>4, NoRunFields DEF BodyFits
  <2>4. VersionsOnlyOnChange
    BY <1>4 DEF VersionsOnlyOnChange
  <2> QED
    BY <1>2, <2>1, <2>2, <2>3, <2>4, NoRunFields DEF AloneInv
<1>11. CleanInv
  BY <1>2, NoRunFields DEF CleanInv, CleanFits
<1> QED
  BY <1>6, <1>7, <1>8, <1>9, <1>10, <1>11 DEF SyncInv, SyncBase

LEMMA SyncStep ==
  ASSUME SyncInv, [Next]_vars
  PROVE  SyncInv'
<1>1. CASE Next
  BY <1>1, SyncBaseKept, SnapshotsKept, AloneKept, CleanKept DEF SyncInv
<1>2. CASE UNCHANGED vars
  <2>1. TypeOK' /\ TagsFit' /\ WorkFits'
    BY <1>2 DEF SyncInv, SyncBase, TypeOK, TagsFit, WorkFits, InHand, vars
  <2>2. SnapshotsFit'
    BY <1>2 DEF SyncInv, SnapshotsFit, ServedFits, vars
  <2>3. AloneInv'
    BY <1>2 DEF SyncInv, AloneInv, VersionsOnlyOnChange, DocumentFits, AloneFits, BodyFits, Busy,
                SkippedKind, Alike, vars
  <2>4. CleanInv'
    BY <1>2 DEF SyncInv, CleanInv, CleanFits, vars
  <2> QED
    BY <2>1, <2>2, <2>3, <2>4 DEF SyncInv, SyncBase
<1> QED
  BY <1>1, <1>2

\* The inductive invariant holds of every behaviour, and with it the typing.
THEOREM SyncInvariant == Spec => [](SyncInv /\ TypeOK)
<1>1. Init => SyncInv
  BY SyncInitially
<1>2. SyncInv /\ [Next]_vars => SyncInv'
  BY SyncStep
<1>3. SyncInv => TypeOK
  BY DEF SyncInv, SyncBase
<1> QED
  BY <1>1, <1>2, <1>3, PTL DEF Spec

\* Whatever changes between listing and reading, in whatever order runs over a
\* remote source commit, fail or are broken off, for any number of keys, runs and
\* changes: what the next run would skip for its snapshot is served as it is.
THEOREM UnchangedObjectsAreServed == Spec => []UnchangedIsCurrent
<1>1. ASSUME SyncInv PROVE UnchangedIsCurrent
  <2>1. SUFFICES ASSUME source.version = "snapshot", NEW k \in Key,
                        meta[k] = [state |-> "done", tag |-> object[k].tag]
                 PROVE  versions[k] # << >> /\ Latest(k).body = object[k].tag
    BY DEF UnchangedIsCurrent
  <2>2. meta[k].state = "done" /\ meta[k].tag = object[k].tag
    BY <2>1
  <2>3. /\ versions[k] # << >> /\ object[k].tag <= Newest(versions[k]).body
        /\ Newest(versions[k]).body <= object[k].tag
    BY <1>1, <2>1, <2>2 DEF SyncInv, SnapshotsFit, ServedFits
  <2>4. versions[k] \in Seq(Version) /\ object[k] \in Object
    BY <1>1 DEF SyncInv, SyncBase, TypeOK
  <2>5. Newest(versions[k]) \in Version
    BY <2>3, <2>4 DEF Newest
  <2>6. Newest(versions[k]).body \in Nat /\ object[k].tag \in Nat
    BY <2>4, <2>5 DEF Version, Object, Tag
  <2> QED
    BY <2>3, <2>6 DEF Latest, Newest
<1> QED
  BY <1>1, SyncInvariant, PTL

\* As long as runs come one at a time, two versions of a document that follow each
\* other have different snapshots, for every connector.
THEOREM VersionsFollowChanges == Spec => []VersionsOnlyOnChange
<1>1. SyncInv => VersionsOnlyOnChange
  BY DEF SyncInv, AloneInv, VersionsOnlyOnChange
<1> QED
  BY <1>1, SyncInvariant, PTL

\* A run that commits, during which nothing changed, failed or was committed by
\* another, leaves every text served as it is.
THEOREM CleanRunsAreComplete == Spec => RunBringsCurrent
<1>1. ASSUME SyncInv, Next, NEW r \in Runner, Commit(r), run[r].clean, NEW k \in Key,
             object[k].kind = "text"
      PROVE  versions'[k] # << >> /\ versions'[k][Len(versions'[k])].body = object[k].tag
  <2>1. Busy(run[r]) /\ run[r].todo = {} /\ CleanFits(run[r])
    BY <1>1 DEF Commit, Busy, SyncInv, CleanInv
  <2>2. Served(run[r], k)
    BY <1>1, <2>1 DEF CleanFits, Served
  <2>3. versions[k] \in Seq(Version) /\ versions'[k] = versions[k] \o run[r].added[k]
    BY <1>1 DEF SyncInv, SyncBase, TypeOK, Commit, Committed
  <2>4. CASE run[r].added[k] = << >> /\ versions[k] # << >> /\ Newest(versions[k]).body = object[k].tag
    BY <2>3, <2>4, NoneAppended DEF Newest
  <2>5. ASSUME NEW v \in Version, run[r].added[k] = <<v>>, v.body = object[k].tag
        PROVE  versions'[k] # << >> /\ versions'[k][Len(versions'[k])].body = object[k].tag
    BY <2>3, <2>5, AppendedLast DEF Newest
  <2> QED
    BY <2>2, <2>4, <2>5 DEF Served
<1>2. SyncInv /\ [Next]_vars =>
        [\A r \in Runner : Commit(r) /\ run[r].clean
           => \A k \in Key : object[k].kind = "text"
                => versions'[k] # << >> /\ versions'[k][Len(versions'[k])].body = object[k].tag]_vars
  BY <1>1
<1> QED
  BY <1>2, SyncInvariant, PTL DEF Spec, RunBringsCurrent

-----------------------------------------------------------------------------
(* The knowledge graph.                                                    *)

Trace ==
  [status: {"none", "failed", "completed"}, versions: SUBSET (Document \X Nat), chunks: SUBSET Nat]
Column == [settings: [Setting -> Nat], trace: Trace]
Counted(c) == c \in Column /\ \A k \in Setting : c.settings[k] <= saves
IsBuild(r) ==
  /\ r = [pc |-> r.pc, kind |-> r.kind, reset |-> r.reset, copy |-> r.copy, gone |-> r.gone,
          chunks |-> r.chunks, versions |-> r.versions]
  /\ r.pc # "idle" => Counted(r.copy)
  /\ r.chunks \subseteq Nat /\ r.versions \subseteq Document \X Nat
IsSave(r) ==
  /\ r = [pc |-> r.pc, key |-> r.key, copy |-> r.copy]
  /\ r.pc # "idle" => Counted(r.copy)

\* What the column and its copies hold; a setting is numbered by its save, so that
\* no number is beyond the last save's.
GraphTypeOK ==
  /\ version \in [Document -> Nat] /\ chunk \in [Document -> Nat] /\ made \in Nat
  /\ Counted(kb)
  /\ build = [b \in Builder |-> build[b]] /\ \A b \in Builder : IsBuild(build[b])
  /\ save = [w \in Saver |-> save[w]] /\ \A w \in Saver : IsSave(save[w])
  /\ saves \in Nat
  /\ crossed \in BOOLEAN /\ appended \in BOOLEAN

\* Those who write the column, as long as none of them overlap: one at a time, and
\* with what the column holds.
OneWriter ==
  /\ \A b, c \in Builder : b # c => build[b].pc = "idle" \/ build[c].pc = "idle"
  /\ \A w, v \in Saver : w # v => save[w].pc = "idle" \/ save[v].pc = "idle"
  /\ \A b \in Builder, w \in Saver : build[b].pc = "idle" \/ save[w].pc = "idle"
  /\ \A w \in Saver : save[w].pc # "idle" => save[w].copy = kb

\* The trace tells of the build whose rows are there, unless it says that one has
\* failed.
TraceFits ==
  /\ kb.trace.status = "none" => entity = {}
  /\ kb.trace.status = "completed" =>
       /\ kb.trace.chunks \subseteq seen
       /\ ~ appended => \A m \in mention : m[2] \in kb.trace.chunks

GraphInv == GraphTypeOK /\ (~ crossed => OneWriter /\ TraceFits)

LEMMA LatestTyped ==
  ASSUME GraphTypeOK
  PROVE  LatestChunks \subseteq Nat /\ LatestVersions \subseteq Document \X Nat
BY DEF GraphTypeOK, LatestChunks, LatestVersions

LEMMA FreeFields ==
  /\ Free = [pc |-> "idle", kind |-> "plain", reset |-> TRUE, copy |-> {}, gone |-> {},
             chunks |-> {}, versions |-> {}]
  /\ Free.pc = "idle" /\ IsBuild(Free)
BY DEF Free, IsBuild

\* A step of a builder, of a saver, and of the corpus.
LEMMA BuildTyped ==
  ASSUME GraphTypeOK, NEW b \in Builder, NEW r, IsBuild(r), build' = [build EXCEPT ![b] = r]
  PROVE  /\ build' = [c \in Builder |-> build'[c]] /\ \A c \in Builder : IsBuild(build'[c])
         /\ build'[b] = r /\ \A c \in Builder \ {b} : build'[c] = build[c]
<1>1. build = [c \in Builder |-> build[c]] /\ \A c \in Builder : IsBuild(build[c])
  BY DEF GraphTypeOK
<1>2. build'[b] = r /\ \A c \in Builder \ {b} : build'[c] = build[c]
  BY <1>1
<1>3. \A c \in Builder : IsBuild(build'[c])
  BY <1>1, <1>2
<1>4. build' = [c \in Builder |-> build'[c]]
  BY <1>1
<1> QED
  BY <1>2, <1>3, <1>4

LEMMA SaveTyped ==
  ASSUME GraphTypeOK, NEW w \in Saver, NEW r, IsSave(r), save' = [save EXCEPT ![w] = r]
  PROVE  /\ save' = [v \in Saver |-> save'[v]] /\ \A v \in Saver : IsSave(save'[v])
         /\ save'[w] = r /\ \A v \in Saver \ {w} : save'[v] = save[v]
<1>1. save = [v \in Saver |-> save[v]] /\ \A v \in Saver : IsSave(save[v])
  BY DEF GraphTypeOK
<1>2. save'[w] = r /\ \A v \in Saver \ {w} : save'[v] = save[v]
  BY <1>1
<1>3. \A v \in Saver : IsSave(save'[v])
  BY <1>1, <1>2
<1>4. save' = [v \in Saver |-> save'[v]]
  BY <1>1
<1> QED
  BY <1>2, <1>3, <1>4

\* While the column is not written: builds take steps on their own, and what
\* refers to chunks can only go.
LEMMA Unwritten ==
  ASSUME GraphInv, NEW b \in Builder, NEW r, IsBuild(r), build' = [build EXCEPT ![b] = r],
         r.pc # "idle",
         \/ build[b].pc # "idle" /\ crossed' = crossed
         \/ crossed' = (crossed \/ Writing),
         version' \in [Document -> Nat], chunk' \in [Document -> Nat], made' \in Nat,
         \A m \in mention' : m \in mention,
         UNCHANGED <<entity, kb, save, saves, appended, seen>>
  PROVE  GraphInv'
<1>1. /\ build' = [c \in Builder |-> build'[c]] /\ \A c \in Builder : IsBuild(build'[c])
      /\ build'[b] = r /\ \A c \in Builder \ {b} : build'[c] = build[c]
  BY BuildTyped DEF GraphInv
<1>2. GraphTypeOK'
  <2>1. crossed' \in BOOLEAN
    BY DEF GraphInv, GraphTypeOK
  <2> QED
    BY <1>1, <2>1 DEF GraphInv, GraphTypeOK, IsBuild, IsSave, Counted
<1>3. ASSUME ~ crossed' PROVE OneWriter' /\ TraceFits'
  <2>1. OneWriter /\ TraceFits
    BY <1>3 DEF GraphInv
  <2>2. /\ \A c \in Builder \ {b} : build[c].pc = "idle"
        /\ \A w \in Saver : save[w].pc = "idle"
    BY <1>3, <2>1 DEF OneWriter, Writing
  <2>3. OneWriter'
    BY <1>1, <2>2 DEF OneWriter
  <2>4. TraceFits'
    BY <2>1 DEF TraceFits
  <2> QED
    BY <2>3, <2>4
<1> QED
  BY <1>2, <1>3 DEF GraphInv

LEMMA CorpusKept ==
  ASSUME GraphInv, version' \in [Document -> Nat], chunk' \in [Document -> Nat], made' \in Nat,
         \A m \in mention' : m \in mention,
         UNCHANGED <<entity, kb, build, save, saves, crossed, appended, seen>>
  PROVE  GraphInv'
<1>1. GraphTypeOK'
  BY DEF GraphInv, GraphTypeOK, IsBuild, IsSave, Counted
<1>2. ASSUME ~ crossed PROVE OneWriter' /\ TraceFits'
  BY <1>2 DEF GraphInv, OneWriter, TraceFits
<1> QED
  BY <1>1, <1>2 DEF GraphInv

LEMMA ReplacedTyped ==
  ASSUME GraphTypeOK, NEW d \in Document, Replaced(d)
  PROVE  /\ chunk' \in [Document -> Nat] /\ made' \in Nat
         /\ \A m \in mention' : m \in mention
BY DEF GraphTypeOK, Replaced

LEMMA BuildWrites ==
  ASSUME GraphInv, NEW b \in Builder, build[b].pc # "idle", build' = [build EXCEPT ![b] = Free],
         Counted(kb'),
         appended' \in BOOLEAN, ~ crossed => TraceFits',
         UNCHANGED <<corpus, save, saves, crossed>>
  PROVE  GraphInv'
<1>1. /\ build' = [c \in Builder |-> build'[c]] /\ \A c \in Builder : IsBuild(build'[c])
      /\ build'[b] = Free /\ \A c \in Builder \ {b} : build'[c] = build[c]
  BY BuildTyped, FreeFields DEF GraphInv
<1>2. GraphTypeOK'
  BY <1>1 DEF GraphInv, GraphTypeOK, IsBuild, IsSave, Counted, corpus
<1>3. ASSUME ~ crossed PROVE OneWriter'
  <2>1. /\ \A c \in Builder \ {b} : build[c].pc = "idle"
        /\ \A w \in Saver : save[w].pc = "idle"
    BY <1>3 DEF GraphInv, OneWriter
  <2> QED
    BY <1>1, <2>1, FreeFields DEF OneWriter
<1> QED
  BY <1>2, <1>3 DEF GraphInv

LEMMA FinishBuildKeeps ==
  ASSUME GraphInv, NEW b \in Builder, NEW found \in SUBSET (Name \X build[b].chunks),
         FinishBuild(b, found)
  PROVE  GraphInv' /\ kb'.settings = build[b].copy.settings /\ kb'.trace.status = "completed"
<1>1. build[b].pc = "read" /\ Counted(build[b].copy) /\ IsBuild(build[b])
  BY DEF FinishBuild, GraphInv, GraphTypeOK, IsBuild
<1>2. PICK t : t = [status |-> "completed", versions |-> build[b].versions,
                    chunks |-> build[b].chunks]
  OBVIOUS
<1>3. t \in Trace /\ t.status = "completed" /\ t.chunks = build[b].chunks
  BY <1>1, <1>2 DEF Trace, IsBuild
<1>4. PICK c : c = build[b].copy
  OBVIOUS
<1>5. c \in Column /\ \A k \in Setting : c.settings[k] <= saves
  BY <1>1, <1>4 DEF Counted
<1>6. kb' = [c EXCEPT !.trace = t]
  BY <1>2, <1>4 DEF FinishBuild, BuiltTrace
<1>7. kb' \in Column /\ kb'.settings = c.settings /\ kb'.trace = t
  BY <1>3, <1>5, <1>6 DEF Column
<1>8. TraceFits'
  <2>1. build[b].chunks \subseteq seen'
    BY DEF FinishBuild
  <2>2. ASSUME ~ appended', NEW m \in mention' PROVE m[2] \in build[b].chunks
    <3>1. Kept(b) = {} /\ mention' = {n \in mention : n[1] \in Kept(b)} \cup found
      BY <2>2 DEF FinishBuild
    <3>2. m \in found
      BY <2>2, <3>1
    <3> QED
      BY <3>2
  <2> QED
    BY <1>3, <1>7, <2>1, <2>2 DEF TraceFits
<1>9. Counted(kb')
  BY <1>5, <1>7 DEF Counted
<1>10. GraphInv'
  <2>1. /\ build[b].pc # "idle" /\ build' = [build EXCEPT ![b] = Free] /\ appended' \in BOOLEAN
        /\ UNCHANGED <<corpus, save, saves, crossed>>
    BY <1>1 DEF FinishBuild
  <2> QED
    BY <1>8, <1>9, <2>1, BuildWrites
<1> QED
  BY <1>3, <1>4, <1>7, <1>10

LEMMA FailBuildKeeps ==
  ASSUME GraphInv, NEW b \in Builder, FailBuild(b)
  PROVE  GraphInv' /\ kb'.settings = kb.settings
<1>1. Counted(kb) /\ kb \in Column /\ \A k \in Setting : kb.settings[k] <= saves
  BY DEF GraphInv, GraphTypeOK, Counted
<1>2. PICK t : t = [NoTrace EXCEPT !.status = "failed"]
  OBVIOUS
<1>3. t \in Trace /\ t.status = "failed"
  BY <1>2 DEF Trace, NoTrace
<1>4. CASE kb' = kb
  <2>1. ~ crossed => TraceFits'
    BY <1>4 DEF FailBuild, GraphInv, TraceFits
  <2>2. appended' \in BOOLEAN
    BY DEF FailBuild, GraphInv, GraphTypeOK
  <2> QED
    BY <1>1, <1>4, <2>1, <2>2, BuildWrites DEF FailBuild
<1>5. CASE kb' = FailedTrace(b)
  <2>1. kb' \in Column /\ kb'.settings = kb.settings /\ kb'.trace = t
    BY <1>1, <1>2, <1>3, <1>5 DEF FailedTrace, Column
  <2>2. TraceFits'
    BY <1>3, <2>1 DEF TraceFits
  <2>3. Counted(kb')
    BY <1>1, <2>1 DEF Counted
  <2>4. appended' \in BOOLEAN
    BY DEF FailBuild, GraphInv, GraphTypeOK
  <2> QED
    BY <2>1, <2>2, <2>3, <2>4, BuildWrites DEF FailBuild
<1> QED
  BY <1>4, <1>5 DEF FailBuild

LEMMA BuildsKeep ==
  ASSUME GraphInv, Builds
  PROVE  GraphInv'
<1>0. /\ version \in [Document -> Nat] /\ chunk \in [Document -> Nat] /\ made \in Nat
      /\ Counted(kb) /\ \A b \in Builder : IsBuild(build[b])
  BY DEF GraphInv, GraphTypeOK
<1>1. ASSUME NEW b \in Builder, NEW kind, NEW reset, StartBuild(b, kind, reset)
      PROVE  GraphInv'
  <2>1. PICK r : r = [Free EXCEPT !.pc = IF kind = "index" THEN "index" ELSE "loaded",
                                  !.kind = kind, !.reset = reset, !.copy = kb]
    OBVIOUS
  <2>2. r.pc # "idle" /\ IsBuild(r)
    <3>1. PICK pc : pc = IF kind = "index" THEN "index" ELSE "loaded"
      OBVIOUS
    <3>2. r = [pc |-> pc, kind |-> kind, reset |-> reset, copy |-> kb, gone |-> {},
               chunks |-> {}, versions |-> {}]
      BY <2>1, <3>1, FreeFields
    <3>3. /\ r.pc = pc /\ r.kind = kind /\ r.reset = reset /\ r.copy = kb /\ r.gone = {}
          /\ r.chunks = {} /\ r.versions = {}
      BY <3>2
    <3> QED
      BY <1>0, <3>1, <3>2, <3>3 DEF IsBuild
  <2>3. build' = [build EXCEPT ![b] = r] /\ crossed' = (crossed \/ Writing)
        /\ UNCHANGED <<version, chunk, made, mention, entity, kb, save, saves, appended, seen>>
    BY <1>1, <2>1 DEF StartBuild, corpus
  <2> QED
    BY <1>0, <2>2, <2>3, Unwritten
<1>2. ASSUME NEW b \in Builder, NEW d \in Document, IndexStage(b, d)
      PROVE  GraphInv'
  <2>1. PICK r : r = [build[b] EXCEPT !.pc = "loaded"]
    OBVIOUS
  <2>2. r.pc # "idle" /\ IsBuild(r)
    <3>1. PICK s : s = build[b]
      OBVIOUS
    <3>2. IsBuild(s) /\ s.pc = "index" /\ Counted(s.copy)
      BY <1>0, <1>2, <3>1 DEF IsBuild, IndexStage
    <3>3. s = [pc |-> s.pc, kind |-> s.kind, reset |-> s.reset, copy |-> s.copy, gone |-> s.gone,
               chunks |-> s.chunks, versions |-> s.versions]
      BY <3>2 DEF IsBuild
    <3>4. r = [pc |-> "loaded", kind |-> s.kind, reset |-> s.reset, copy |-> s.copy,
               gone |-> s.gone, chunks |-> s.chunks, versions |-> s.versions]
      BY <2>1, <3>1, <3>3
    <3>5. /\ r.pc = "loaded" /\ r.kind = s.kind /\ r.reset = s.reset /\ r.copy = s.copy
          /\ r.gone = s.gone /\ r.chunks = s.chunks /\ r.versions = s.versions
      BY <3>4
    <3> QED
      BY <3>2, <3>4, <3>5 DEF IsBuild
  <2>3. build' = [build EXCEPT ![b] = r] /\ crossed' = crossed /\ build[b].pc # "idle"
        /\ UNCHANGED <<version, entity, kb, save, saves, appended, seen>>
    BY <1>2, <2>1 DEF IndexStage, GraphInv, GraphTypeOK
  <2>4. /\ chunk' \in [Document -> Nat] /\ made' \in Nat /\ \A m \in mention' : m \in mention
    BY <1>2, ReplacedTyped DEF IndexStage, GraphInv
  <2> QED
    BY <1>0, <2>2, <2>3, <2>4, Unwritten
<1>3. ASSUME NEW b \in Builder, ReadChunks(b)
      PROVE  GraphInv'
  <2>1. PICK g : g = IF build[b].reset THEN entity ELSE {}
    OBVIOUS
  <2>2. PICK r : r = [build[b] EXCEPT !.pc = "read", !.chunks = LatestChunks,
                                      !.versions = LatestVersions, !.gone = g]
    OBVIOUS
  <2>3. r.pc # "idle" /\ IsBuild(r)
    <3>1. PICK s : s = build[b]
      OBVIOUS
    <3>2. IsBuild(s) /\ s.pc = "loaded" /\ Counted(s.copy)
      BY <1>0, <1>3, <3>1 DEF IsBuild, ReadChunks
    <3>3. s = [pc |-> s.pc, kind |-> s.kind, reset |-> s.reset, copy |-> s.copy, gone |-> s.gone,
               chunks |-> s.chunks, versions |-> s.versions]
      BY <3>2 DEF IsBuild
    <3>4. r = [pc |-> "read", kind |-> s.kind, reset |-> s.reset, copy |-> s.copy, gone |-> g,
               chunks |-> LatestChunks, versions |-> LatestVersions]
      BY <2>2, <3>1, <3>3
    <3>5. /\ r.pc = "read" /\ r.kind = s.kind /\ r.reset = s.reset /\ r.copy = s.copy
          /\ r.gone = g /\ r.chunks = LatestChunks /\ r.versions = LatestVersions
      BY <3>4
    <3>6. LatestChunks \subseteq Nat /\ LatestVersions \subseteq Document \X Nat
      BY LatestTyped DEF GraphInv
    <3> QED
      BY <3>2, <3>4, <3>5, <3>6 DEF IsBuild
  <2>4. build' = [build EXCEPT ![b] = r] /\ crossed' = crossed /\ build[b].pc # "idle"
        /\ UNCHANGED <<version, chunk, made, mention, entity, kb, save, saves, appended, seen>>
    BY <1>3, <2>1, <2>2 DEF ReadChunks, corpus
  <2> QED
    BY <1>0, <2>3, <2>4, Unwritten
<1>4. ASSUME NEW b \in Builder, FallBack(b)
      PROVE  GraphInv'
  <2>1. PICK r : r = [Free EXCEPT !.pc = "loaded", !.kind = "fallback",
                                  !.reset = build[b].reset, !.copy = kb]
    OBVIOUS
  <2>2. r.pc # "idle" /\ IsBuild(r)
    BY <1>0, <2>1, FreeFields DEF IsBuild
  <2>3. build' = [build EXCEPT ![b] = r] /\ crossed' = crossed /\ build[b].pc # "idle"
        /\ UNCHANGED <<version, chunk, made, mention, entity, kb, save, saves, appended, seen>>
    BY <1>4, <2>1 DEF FallBack, corpus
  <2> QED
    BY <1>0, <2>2, <2>3, Unwritten
<1> QED
  BY <1>1, <1>2, <1>3, <1>4, FinishBuildKeeps, FailBuildKeeps DEF Builds

\* A save makes its setting the newest, and leaves the others as it loaded them.
LEMMA StartSaveKeeps ==
  ASSUME GraphInv, NEW w \in Saver, NEW k \in Setting, StartSave(w, k)
  PROVE  GraphInv'
<1>0. saves \in Nat /\ saves' = saves + 1 /\ saves' \in Nat /\ kb' = kb /\ kb \in Column
  BY DEF StartSave, GraphInv, GraphTypeOK, Counted
<1>1. PICK r : r = [pc |-> "loaded", key |-> k, copy |-> kb]
  OBVIOUS
<1>2. r.pc = "loaded" /\ r.copy = kb /\ IsSave(r)
  BY <1>1 DEF IsSave, GraphInv, GraphTypeOK
<1>3. /\ save' = [v \in Saver |-> save'[v]] /\ \A v \in Saver : IsSave(save'[v])
      /\ save'[w] = r /\ \A v \in Saver \ {w} : save'[v] = save[v]
  BY <1>1, <1>2, SaveTyped DEF StartSave, GraphInv
<1>4. \A c \in Column : Counted(c) => Counted(c)'
  <2>1. \A c \in Column : \A j \in Setting : c.settings[j] \in Nat
    BY DEF Column
  <2> QED
    BY <1>0, <2>1 DEF Counted
<1>5. \A c : IsBuild(c) => IsBuild(c)'
  BY <1>4 DEF IsBuild, Counted
<1>6. \A c : IsSave(c) => IsSave(c)'
  BY <1>4 DEF IsSave, Counted
<1>7. Counted(kb)'
  BY <1>0, <1>4 DEF GraphInv, GraphTypeOK, Counted
<1>8. \A v \in Saver : IsSave(save[v])'
  BY <1>3, <1>6 DEF IsSave, Counted
<1>9. /\ version' \in [Document -> Nat] /\ chunk' \in [Document -> Nat] /\ made' \in Nat
      /\ crossed' \in BOOLEAN /\ appended' \in BOOLEAN
  BY DEF StartSave, GraphInv, GraphTypeOK, corpus
<1>10. build' = [c \in Builder |-> build'[c]] /\ \A c \in Builder : IsBuild(build[c])'
  BY <1>5 DEF StartSave, GraphInv, GraphTypeOK, IsBuild, Counted
<1>11. GraphTypeOK'
  BY <1>0, <1>3, <1>7, <1>8, <1>9, <1>10 DEF GraphTypeOK
<1>12. ASSUME ~ crossed' PROVE OneWriter' /\ TraceFits'
  <2>1. ~ crossed /\ ~ Writing /\ UNCHANGED <<build, entity, mention, appended, seen>>
    BY <1>12 DEF StartSave
  <2>2. OneWriter'
    BY <1>0, <1>2, <1>3, <2>1 DEF OneWriter, Writing
  <2>3. TraceFits'
    BY <1>0, <2>1 DEF GraphInv, TraceFits
  <2> QED
    BY <2>2, <2>3
<1> QED
  BY <1>11, <1>12 DEF GraphInv

LEMMA FinishSaveKeeps ==
  ASSUME GraphInv, NEW w \in Saver, FinishSave(w)
  PROVE  /\ GraphInv'
         /\ kb'.settings = [save[w].copy.settings EXCEPT ![save[w].key] = saves]
<1>1. /\ IsSave(save[w]) /\ save[w].pc = "loaded" /\ saves \in Nat
      /\ UNCHANGED <<version, chunk, made, entity, mention, build, saves, crossed, appended, seen>>
  BY DEF FinishSave, GraphInv, GraphTypeOK, corpus
<1>2. PICK c : c = save[w].copy
  OBVIOUS
<1>3. c \in Column /\ \A k \in Setting : c.settings[k] <= saves
  BY <1>1, <1>2 DEF IsSave, Counted
<1>4. PICK s : s = [c.settings EXCEPT ![save[w].key] = saves]
  OBVIOUS
<1>5. s \in [Setting -> Nat] /\ \A k \in Setting : s[k] <= saves
  <2>1. c.settings \in [Setting -> Nat]
    BY <1>3 DEF Column
  <2>2. saves <= saves
    BY <1>1
  <2> QED
    BY <1>1, <1>3, <1>4, <2>1, <2>2
<1>6. kb' = [c EXCEPT !.settings = s]
  BY <1>2, <1>3, <1>4 DEF FinishSave, Saved, Column
<1>7. kb' \in Column /\ kb'.settings = s /\ kb'.trace = c.trace
  BY <1>3, <1>5, <1>6 DEF Column
<1>8. Counted(kb')
  BY <1>5, <1>7 DEF Counted
<1>9. PICK r : r = [save[w] EXCEPT !.pc = "idle", !.copy = {}]
  OBVIOUS
<1>10. r.pc = "idle" /\ IsSave(r)
  BY <1>1, <1>9 DEF IsSave
<1>11. /\ save' = [v \in Saver |-> save'[v]] /\ \A v \in Saver : IsSave(save'[v])
       /\ save'[w] = r /\ \A v \in Saver \ {w} : save'[v] = save[v]
  BY <1>9, <1>10, SaveTyped DEF FinishSave, GraphInv
<1>12. GraphTypeOK'
  BY <1>1, <1>8, <1>11 DEF GraphInv, GraphTypeOK, IsBuild, IsSave, Counted
<1>13. ASSUME ~ crossed PROVE OneWriter' /\ TraceFits'
  <2>1. OneWriter /\ TraceFits
    BY <1>13 DEF GraphInv
  <2>2. kb'.trace = kb.trace
    BY <1>1, <1>2, <1>7, <2>1 DEF OneWriter
  <2>3. OneWriter'
    BY <1>1, <1>10, <1>11, <2>1 DEF OneWriter
  <2>4. TraceFits'
    BY <1>1, <2>1, <2>2 DEF TraceFits
  <2> QED
    BY <2>3, <2>4
<1> QED
  BY <1>1, <1>2, <1>4, <1>7, <1>12, <1>13 DEF GraphInv

LEMMA GraphStep ==
  ASSUME GraphInv, [GraphNext]_graphVars
  PROVE  GraphInv'
<1>0. GraphTypeOK
  BY DEF GraphInv
<1>1. ASSUME NEW d \in Document, IndexChunks(d) PROVE GraphInv'
  <2>1. /\ chunk' \in [Document -> Nat] /\ made' \in Nat /\ \A m \in mention' : m \in mention
    BY <1>0, <1>1, ReplacedTyped DEF IndexChunks
  <2>2. /\ version' \in [Document -> Nat]
        /\ UNCHANGED <<entity, kb, build, save, saves, crossed, appended, seen>>
    BY <1>0, <1>1 DEF IndexChunks, GraphTypeOK
  <2> QED
    BY <2>1, <2>2, CorpusKept
<1>2. ASSUME NEW d \in Document, NewVersion(d) PROVE GraphInv'
  <2>1. /\ chunk' \in [Document -> Nat] /\ made' \in Nat /\ \A m \in mention' : m \in mention
        /\ version' \in [Document -> Nat]
        /\ UNCHANGED <<entity, kb, build, save, saves, crossed, appended, seen>>
    BY <1>0, <1>2 DEF NewVersion, GraphTypeOK
  <2> QED
    BY <2>1, CorpusKept
<1>3. ASSUME NEW old, PurgeOldVersions(old) PROVE GraphInv'
  <2>1. /\ chunk' \in [Document -> Nat] /\ made' \in Nat /\ \A m \in mention' : m \in mention
        /\ version' \in [Document -> Nat]
        /\ UNCHANGED <<entity, kb, build, save, saves, crossed, appended, seen>>
    BY <1>0, <1>3 DEF PurgeOldVersions, GraphTypeOK
  <2> QED
    BY <2>1, CorpusKept
<1>4. CASE UNCHANGED graphVars
  <2>1. /\ chunk' \in [Document -> Nat] /\ made' \in Nat /\ \A m \in mention' : m \in mention
        /\ version' \in [Document -> Nat]
        /\ UNCHANGED <<entity, kb, build, save, saves, crossed, appended, seen>>
    BY <1>0, <1>4 DEF graphVars, GraphTypeOK
  <2> QED
    BY <2>1, CorpusKept
<1> QED
  BY <1>1, <1>2, <1>3, <1>4, BuildsKeep, StartSaveKeeps, FinishSaveKeeps DEF GraphNext

LEMMA GraphInitially ==
  ASSUME GraphInit
  PROVE  GraphInv
<1>1. NoTrace \in Trace /\ NoTrace.status = "none"
  BY DEF NoTrace, Trace
<1>2. kb = [settings |-> [k \in Setting |-> 0], trace |-> NoTrace]
  BY DEF GraphInit
<1>3. Counted(kb) /\ kb.trace = NoTrace
  BY <1>1, <1>2 DEF Counted, Column, GraphInit
<1>4. \A w \in Saver : save[w].pc = "idle" /\ IsSave(save[w])
  BY DEF GraphInit, IsSave
<1>5. GraphTypeOK
  BY <1>3, <1>4, FreeFields DEF GraphTypeOK, GraphInit
<1>6. OneWriter /\ TraceFits
  BY <1>1, <1>3, <1>4, FreeFields DEF OneWriter, TraceFits, GraphInit
<1> QED
  BY <1>5, <1>6 DEF GraphInv

LEMMA GraphInvariant == GraphSpec => []GraphInv
BY GraphInitially, GraphStep, PTL DEF GraphSpec

\* However indexing, retention and failures fall between the steps of builds and
\* saves that come one at a time, a graph that retrieval does not report degraded
\* is made of all the latest chunks and, where it has replaced the one before it,
\* of nothing else.
THEOREM UndegradedGraphsAreCurrent == GraphSpec => []GraphIsCurrent
<1>1. ASSUME GraphInv PROVE GraphIsCurrent
  <2>1. SUFFICES ASSUME ~ Degraded, ~ crossed
                 PROVE  /\ LatestChunks \subseteq seen
                        /\ ~ appended => \A m \in mention : m[2] \in LatestChunks
    BY DEF GraphIsCurrent
  <2>2. TraceFits /\ kb.trace \in Trace
    BY <1>1, <2>1 DEF GraphInv, GraphTypeOK, Counted, Column
  <2>3. kb.trace.status = "completed"
    BY <2>1, <2>2 DEF Degraded, TraceFits, Trace
  <2>4. kb.trace.chunks = LatestChunks
    BY <2>1, <2>3 DEF Degraded, Stale
  <2> QED
    BY <2>2, <2>3, <2>4 DEF TraceFits
<1> QED
  BY <1>1, GraphInvariant, PTL

\* A saved setting is only ever lost to a save, or to a build that succeeds, whose
\* copy of the column is older: nothing else lowers the number of a setting.
THEOREM SettingsAreOnlyOvertaken == GraphSpec => SettingsKept
<1> DEFINE Lost(k) ==
      \/ \E w \in Saver : save[w].pc = "loaded" /\ save'[w].pc = "idle" /\ Overwrites(save[w].copy, k)
      \/ \E b \in Builder : build[b].pc = "read" /\ build'[b].pc = "idle"
                            /\ kb'.trace.status = "completed" /\ Overwrites(build[b].copy, k)
<1>1. ASSUME GraphInv, GraphNext, NEW k \in Setting, kb'.settings[k] < kb.settings[k]
      PROVE  Lost(k)
  <2>0. /\ kb.settings[k] \in Nat /\ kb.settings[k] <= saves /\ saves \in Nat
        /\ save = [w \in Saver |-> save[w]] /\ build = [b \in Builder |-> build[b]]
    BY <1>1 DEF GraphInv, GraphTypeOK, Counted, Column
  <2>1. ~ (kb.settings[k] < kb.settings[k])
    BY <2>0
  <2>2. kb'.settings # kb.settings
    BY <1>1, <2>1
  <2>3. ASSUME NEW w \in Saver, FinishSave(w) PROVE Lost(k)
    <3>1. kb'.settings = [save[w].copy.settings EXCEPT ![save[w].key] = saves]
      BY <1>1, <2>3, FinishSaveKeeps
    <3>2. save[w].pc = "loaded" /\ save'[w].pc = "idle" /\ save[w].copy.settings \in [Setting -> Nat]
      <4>1. IsSave(save[w]) /\ save[w].pc = "loaded"
        BY <1>1, <2>3 DEF GraphInv, GraphTypeOK, FinishSave
      <4>2. save'[w] = [save[w] EXCEPT !.pc = "idle", !.copy = {}]
        BY <2>0, <2>3 DEF FinishSave
      <4> QED
        BY <4>1, <4>2 DEF IsSave, Counted, Column
    <3>3. k # save[w].key
      BY <1>1, <2>0, <3>1, <3>2
    <3>4. kb'.settings[k] = save[w].copy.settings[k]
      BY <3>1, <3>2, <3>3
    <3> QED
      BY <1>1, <3>2, <3>4 DEF Overwrites
  <2>4. ASSUME NEW b \in Builder, NEW found \in SUBSET (Name \X build[b].chunks),
               FinishBuild(b, found)
        PROVE  Lost(k)
    <3>1. kb'.settings = build[b].copy.settings /\ kb'.trace.status = "completed"
      BY <1>1, <2>4, FinishBuildKeeps
    <3>2. build[b].pc = "read" /\ build'[b] = Free
      BY <2>0, <2>4 DEF FinishBuild
    <3> QED
      BY <1>1, <3>1, <3>2, FreeFields DEF Overwrites
  <2>5. ASSUME NEW b \in Builder, FailBuild(b) PROVE FALSE
    BY <1>1, <2>2, <2>5, FailBuildKeeps
  <2>6. \/ kb' = kb
        \/ \E b \in Builder : FailBuild(b)
        \/ \E b \in Builder : \E found \in SUBSET (Name \X build[b].chunks) : FinishBuild(b, found)
        \/ \E w \in Saver : FinishSave(w)
    BY <1>1 DEF GraphNext, Builds, StartBuild, IndexStage, ReadChunks, FallBack, IndexChunks,
                NewVersion, PurgeOldVersions, StartSave
  <2> QED
    BY <2>2, <2>3, <2>4, <2>5, <2>6
<1>2. GraphInv /\ [GraphNext]_graphVars =>
        [\A k \in Setting : kb'.settings[k] < kb.settings[k] =>
       \/ \E w \in Saver : save[w].pc = "loaded" /\ save'[w].pc = "idle"
                           /\ Overwrites(save[w].copy, k)
       \/ \E b \in Builder : build[b].pc = "read" /\ build'[b].pc = "idle"
                             /\ kb'.trace.status = "completed"
                             /\ Overwrites(build[b].copy, k)]_graphVars
  BY <1>1
<1> QED
  BY <1>2, GraphInvariant, PTL DEF GraphSpec, SettingsKept
=============================================================================
