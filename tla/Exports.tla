------------------------------- MODULE Exports -------------------------------
(***************************************************************************)
(* Exports of a knowledge base to an object store: the artifacts of an     *)
(* export are put one after the other, and the last of them, pipeline_runs,*)
(* says of the export's own run how it ended, before it has ended.  All    *)
(* sinks for object stores share this code; that for Azure brings a client *)
(* of its own.  The row of a run is only visible once its one transaction  *)
(* has been committed.                                                     *)
(***************************************************************************)
EXTENDS Naturals, FiniteSets

CONSTANTS
  Exporter,    \* requests that export, one export each
  Planned,     \* the artifacts of an export are 1..Planned, pipeline_runs the last
  MaxTries     \* what a put is tried at most: max_retries + 1

ASSUME ExportPlan == Planned \in Nat \ {0} /\ MaxTries \in Nat \ {0}

VARIABLES
  perRun,     \* path_template names the run, which it need not
  bucket,     \* the objects: by whom, and what pipeline_runs says of that run
  runRow,     \* the row of each export as committed
  export      \* what each request is doing

exportVars == <<perRun, bucket, runRow, export>>

Artifacts == 1..Planned
KeyOf(e, a) == IF perRun THEN <<e, a>> ELSE <<a>>
Keys(e) == {KeyOf(e, a) : a \in Artifacts}

Row(status, success, failure) == [status |-> status, success |-> success, failure |-> failure]
NoRow == Row("none", 0, 0)

Outcome(failed) == IF failed > 0 THEN "completed_with_failures" ELSE "completed"

\* `unsure' is history: the artifacts of which a put was answered by an error
\* although it had taken effect.
Unstarted ==
  [pc |-> "idle", client |-> "s3", overwrite |-> FALSE, at |-> 1, tries |-> 0,
   uploaded |-> 0, skipped |-> 0, failed |-> 0, stated |-> NoRow, unsure |-> {}]

ExportInit ==
  /\ perRun \in BOOLEAN
  /\ bucket = [k \in {} |-> NoRow]
  /\ runRow = [e \in Exporter |-> NoRow]
  /\ export = [e \in Exporter |-> Unstarted]

-----------------------------------------------------------------------------
(* Plausible slips in the definitions below, used to see that the          *)
(* properties notice them.                                                 *)

\* The run is committed as it was stated before pipeline_runs was put.
ClosedAsStated(e) ==
  IF export[e].stated = NoRow
  THEN Row(Outcome(export[e].failed), export[e].uploaded, export[e].failed)
  ELSE export[e].stated

-----------------------------------------------------------------------------
(* A request.                                                              *)

To(e, pc) == export' = [export EXCEPT ![e].pc = pc]

\* _fail_run, committed.  It leaves the counters as they are, and these are
\* zero until pipeline_runs is next.
FailExport(e) ==
  /\ runRow' = [runRow EXCEPT ![e] = [export[e].stated EXCEPT !.status = "failed"]]
  /\ To(e, "done")

\* An exception nobody catches: the session is closed, the row gone.
Escape(e) == To(e, "gone") /\ UNCHANGED runRow

BeginExport(e, client, overwrite) ==
  /\ export[e].pc = "idle"
  /\ export' = [export EXCEPT ![e] = [@ EXCEPT !.pc = "check", !.client = client,
                                               !.overwrite = overwrite]]
  /\ UNCHANGED <<perRun, bucket, runRow>>

DryRun(e) ==
  /\ export[e].pc = "idle"
  /\ runRow' = [runRow EXCEPT ![e] = Row("completed", 0, 0)]
  /\ To(e, "planned")
  /\ UNCHANGED <<perRun, bucket>>

WithoutPyarrow(e) ==
  /\ export[e].pc = "idle"
  /\ FailExport(e)
  /\ UNCHANGED <<perRun, bucket>>

\* A client that cannot be built or an access that is denied for good, other
\* than for credentials, is not caught.
CheckBucket(e) ==
  /\ export[e].pc = "check"
  /\ \/ To(e, "look") /\ UNCHANGED runRow
     \/ FailExport(e)
     \/ export[e].client = "s3" /\ Escape(e)
  /\ UNCHANGED <<perRun, bucket>>

Here(e) == KeyOf(e, export[e].at)
IsLast(e) == export[e].at = Planned

\* On with the next artifact.
Onward(r) == [r EXCEPT !.pc = IF r.at = Planned THEN "close" ELSE "look",
                      !.at = IF r.at = Planned THEN r.at ELSE r.at + 1, !.tries = 0]

\* What is said of the run in pipeline_runs: as it ends if this put succeeds.
Projected(e, skipping) ==
  Row(Outcome(export[e].failed), export[e].uploaded + (IF skipping THEN 0 ELSE 1),
      export[e].failed)

StatedAt(e, skipping) == IF IsLast(e) THEN Projected(e, skipping) ELSE export[e].stated

SkipExisting(e) ==
  /\ export[e].pc = "look"
  /\ Here(e) \in DOMAIN bucket /\ ~export[e].overwrite
  /\ export' = [export EXCEPT
       ![e] = [Onward(@) EXCEPT !.skipped = export[e].skipped + 1,
                               !.stated = StatedAt(e, TRUE)]]
  /\ UNCHANGED <<perRun, bucket, runRow>>

\* Azure's client takes any error but that of credentials for "not there".
Missing(e) ==
  /\ export[e].pc = "look"
  /\ Here(e) \notin DOMAIN bucket \/ export[e].overwrite \/ export[e].client = "azure"
  /\ export' = [export EXCEPT ![e] = [@ EXCEPT !.pc = "put", !.stated = StatedAt(e, FALSE)]]
  /\ UNCHANGED <<perRun, bucket, runRow>>

\* The look for pipeline_runs is outside the try.
LookFails(e) ==
  /\ export[e].pc = "look"
  /\ \/ export[e].client = "s3" /\ ~IsLast(e)
        /\ export' = [export EXCEPT ![e] = [Onward(@) EXCEPT !.failed = export[e].failed + 1]]
        /\ UNCHANGED runRow
     \/ ~IsLast(e) /\ FailExport(e)
     \/ IsLast(e) /\ Escape(e)
  /\ UNCHANGED <<perRun, bucket>>

Stored(e) ==
  [k \in DOMAIN bucket \cup {Here(e)} |->
     IF k = Here(e) THEN [by |-> e, says |-> export[e].stated] ELSE bucket[k]]

Put(e) ==
  /\ export[e].pc = "put"
  /\ bucket' = Stored(e)
  /\ export' = [export EXCEPT ![e] = [Onward(@) EXCEPT !.uploaded = export[e].uploaded + 1]]
  /\ UNCHANGED <<perRun, runRow>>

\* A put that is answered by an error, or by none in time, may have taken effect.
PutRetries(e, applied) ==
  /\ export[e].pc = "put" /\ export[e].client = "s3"
  /\ LET unsure == export[e].unsure \cup (IF applied THEN {export[e].at} ELSE {})
         again  == [export[e] EXCEPT !.tries = @ + 1, !.unsure = unsure]
     IN  export' = [export EXCEPT ![e] =
           IF again.tries < MaxTries THEN again
           ELSE [Onward(again) EXCEPT !.failed = again.failed + 1]]
  /\ bucket' = IF applied THEN Stored(e) ELSE bucket
  /\ UNCHANGED <<perRun, runRow>>

\* Azure's client has no errors that are tried again, a timeout included.
PutFails(e, applied) ==
  /\ export[e].pc = "put"
  /\ applied => export[e].client = "azure"
  /\ runRow' = [runRow EXCEPT ![e] = [export[e].stated EXCEPT !.status = "failed"]]
  /\ export' = [export EXCEPT ![e] =
       [@ EXCEPT !.pc = "done",
            !.unsure = export[e].unsure \cup (IF applied THEN {export[e].at} ELSE {})]]
  /\ bucket' = IF applied THEN Stored(e) ELSE bucket
  /\ UNCHANGED perRun

Closed(e) == Row(Outcome(export[e].failed), export[e].uploaded, export[e].failed)

CloseExport(e) ==
  /\ export[e].pc = "close"
  /\ runRow' = [runRow EXCEPT ![e] = Closed(e)]
  /\ To(e, "done")
  /\ UNCHANGED <<perRun, bucket>>

ExportBreaksOff(e) ==
  /\ export[e].pc \in {"check", "look", "put", "close"}
  /\ Escape(e)
  /\ UNCHANGED <<perRun, bucket>>

Exporting(e) ==
  \/ \E c \in {"s3", "azure"}, overwrite \in BOOLEAN : BeginExport(e, c, overwrite)
  \/ DryRun(e) \/ WithoutPyarrow(e) \/ CheckBucket(e)
  \/ SkipExisting(e) \/ Missing(e) \/ LookFails(e)
  \/ Put(e) \/ \E applied \in BOOLEAN : PutRetries(e, applied) \/ PutFails(e, applied)
  \/ CloseExport(e) \/ ExportBreaksOff(e)

ExportNext == \E e \in Exporter : Exporting(e)

ExportSpec == ExportInit /\ [][ExportNext]_exportVars

-----------------------------------------------------------------------------
(* Properties.                                                             *)

ExportTypeOK ==
  /\ \A k \in DOMAIN bucket : k \in UNION {Keys(e) : e \in Exporter} /\ bucket[k].by \in Exporter
  /\ \A e \in Exporter :
       /\ export[e].at \in Artifacts /\ export[e].tries \in 0..MaxTries
       /\ export[e].uploaded + export[e].skipped + export[e].failed <= Planned
       /\ (runRow[e] # NoRow) <=> export[e].pc \in {"planned", "done"}

There(e) == {a \in Artifacts : KeyOf(e, a) \in DOMAIN bucket}

\* The planned artifacts of an export that ended without failures are all there.
CompleteIsThere(e) ==
  (runRow[e].status = "completed" /\ export[e].pc = "done") => There(e) = Artifacts

\* Each artifact is counted once, and what is counted as uploaded is there; what
\* is there beside it was put although the store answered with an error.
CountsTrue(e) ==
  (perRun /\ export[e].pc = "done" /\ runRow[e].status # "failed") =>
    /\ runRow[e].success + runRow[e].failure = Planned
    /\ Cardinality(There(e)) \in
         runRow[e].success .. (runRow[e].success + Cardinality(export[e].unsure))

\* What pipeline_runs says of the run that put it.
StatementTrue(e) ==
  LET k == KeyOf(e, Planned) IN
  (/\ k \in DOMAIN bucket /\ bucket[k].by = e
   /\ export[e].pc = "done" /\ Planned \notin export[e].unsure) => bucket[k].says = runRow[e]

\* "Preserve traceability back to knowledge base, document version, chunk, and
\* pipeline run metadata" (docs/specs/ragrig-object-storage-sink-spec.md, Scope):
\* whatever fails on the way, and although pipeline_runs is put before the run
\* has ended, the run as it is kept and as the store has it both tell what is in
\* the store.
ExportAccounted == \A e \in Exporter : CompleteIsThere(e) /\ CountsTrue(e) /\ StatementTrue(e)
=============================================================================
