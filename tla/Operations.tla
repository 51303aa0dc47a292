----------------------------- MODULE Operations ------------------------------
(***************************************************************************)
(* The operator's scripts: deploy check, backup, restore and upgrade.      *)
(* Each runs its steps whatever the ones before have come to, gathers what *)
(* they report and ends in one word.  Nothing keeps two scripts, or the    *)
(* application, from the database in between, and the tools they call can  *)
(* be missing, killed or fail half way.                                    *)
(***************************************************************************)
EXTENDS Naturals, Sequences, FiniteSetsExt

CONSTANTS
  Operator,    \* who runs scripts
  MaxScripts,  \* bound on scripts run
  MaxBeside,   \* and on those of them that are run beside others
  MaxRows,     \* bound on rows ever written
  MaxFaults    \* bound on outages, losses and broken tools

VARIABLES
  db,        \* the database: [rows, revision, whole]
  up,        \* it can be reached
  head,      \* the newest revision among the migrations
  shelf,     \* the backup directories, oldest first: what is in their dump file
  script,    \* what each operator's script is doing
  report,    \* what each has said since the last script began, and what was so then
  written,   \* the number of the last row written
  replaced,  \* history: rows the application has put others in the place of
  scripts,   \* scripts started
  faults     \* faults so far

operationsVars == <<db, up, head, shelf, script, report, written, replaced, scripts, faults>>

\* A database without tables has no revision; one half restored is not whole.
Database(rows, revision, whole) == [rows |-> rows, revision |-> revision, whole |-> whole]
NoTables == Database({}, 0, TRUE)

NoFile == [file |-> "none", of |-> NoTables]
Torn == [file |-> "torn", of |-> NoTables]
DumpOf(d) == [file |-> "whole", of |-> d]

\* The steps of each script, in order.
StepsOf ==
  [deploy  |-> <<"compose", "health", "extension", "revision">>,
   backup  |-> <<"open", "dump", "files">>,
   restore |-> <<"choose", "health", "count", "drop", "load", "health", "revision", "verify", "files">>,
   upgrade |-> <<"version", "count", "health", "extension", "migrate", "revision",
                 "health", "extension", "verify">>]

\* `expected' has what was counted before, if it could be; `entry' the directory a
\* script writes to or restores from; `before' (history) what the database held
\* at the start, `met' whether another script, `wrote' whether the application
\* has written meanwhile.
NoScript ==
  [kind |-> "none", at |-> 0, worst |-> "pass", expected |-> {},
   entry |-> 0, before |-> {}, met |-> FALSE, wrote |-> FALSE]
NoReport == [status |-> "none", of |-> NoScript, db |-> NoTables, head |-> 1]

OperationsInit ==
  /\ db = Database({1}, 1, TRUE) /\ up = TRUE /\ head = 1
  /\ shelf = << >>
  /\ script = [o \in Operator |-> NoScript] /\ report = [o \in Operator |-> NoReport]
  /\ written = 1 /\ replaced = {} /\ scripts = 0 /\ faults = 0

-----------------------------------------------------------------------------
(* Plausible slips in the definitions below, used to see that the          *)
(* property notices them; no specification refers to one.                  *)

StatusUnlessFailed(worst) == IF worst = "failure" THEN "failure" ELSE "success"

-----------------------------------------------------------------------------
(* How a script goes on and ends.                                          *)

Busy(o) == script[o].kind # "none"
At(o, step) == Busy(o) /\ StepsOf[script[o].kind][script[o].at] = step
Fault == faults < MaxFaults /\ faults' = faults + 1

\* Of the results of all steps a degraded one outweighs a failure.
Worst(a, b) ==
  CASE "degraded" \in {a, b} -> "degraded"
    [] "degraded" \notin {a, b} /\ "failure" \in {a, b} -> "failure"
    [] OTHER -> "pass"
StatusOf(worst) == IF worst = "pass" THEN "success" ELSE worst

\* A step has come to `result'; s is the script with what it has learnt.  The
\* last step is followed by the report.
Done(o, s, result) ==
  LET now == [s EXCEPT !.worst = Worst(@, result)]
  IN  IF s.at < Len(StepsOf[s.kind])
      THEN /\ script' = [script EXCEPT ![o] = [now EXCEPT !.at = @ + 1]]
           /\ UNCHANGED report
      ELSE /\ script' = [script EXCEPT ![o] = NoScript]
           /\ report' = [report EXCEPT ![o] =
                [status |-> StatusOf(now.worst), of |-> now, db |-> db, head |-> head]]

Pass(o, holds) == Done(o, script[o], IF holds THEN "pass" ELSE "failure")

\* The code and its migrations are not replaced while a script runs.
Start(o, kind) ==
  /\ ~ Busy(o) /\ scripts < MaxScripts
  /\ scripts' = scripts + 1
  /\ LET others == {p \in Operator : Busy(p)}
     IN  /\ others = {} \/ scripts < MaxBeside
         /\ script' = [p \in Operator |->
              CASE p = o ->
                     [NoScript EXCEPT !.kind = kind, !.at = 1, !.before = db.rows, !.met = others # {}]
                [] p # o -> [script[p] EXCEPT !.met = @ \/ p \in others]]
  /\ report' = [p \in Operator |-> NoReport]
  /\ UNCHANGED <<db, up, head, shelf, written, replaced, faults>>

-----------------------------------------------------------------------------
(* Steps that only look.                                                   *)

\* check_docker_compose and check_vector_extension may find what they look for
\* missing; so may the copies of configuration and artifacts.
Look(o) ==
  /\ \E step \in {"compose", "extension", "files"}, result \in {"pass", "degraded", "failure"} :
       /\ At(o, step)
       /\ step = "extension" => (result = "failure" <=> ~ up)
       /\ (step = "files" /\ script[o].kind = "restore") => result # "failure"
       /\ Done(o, script[o], result)
  /\ UNCHANGED <<db, up, head, shelf, written, replaced, scripts, faults>>

CheckHealth(o) ==
  /\ At(o, "health") /\ Pass(o, up)
  /\ UNCHANGED <<db, up, head, shelf, written, replaced, scripts, faults>>

\* The revision before an upgrade only has to be there, the one afterwards, and
\* that of a restored or deployed database, has to be the newest.
CheckRevision(o) ==
  /\ \/ At(o, "version") /\ Pass(o, up /\ db.revision # 0)
     \/ At(o, "revision") /\ Pass(o, up /\ db.revision = head)
  /\ UNCHANGED <<db, up, head, shelf, written, replaced, scripts, faults>>

\* _count_entities: what cannot be read is left out, without a word.
Counts == IF up /\ db.revision # 0 THEN {Cardinality(db.rows)} ELSE {}

Count(o) ==
  /\ At(o, "count")
  /\ Done(o, [script[o] EXCEPT !.expected = Counts], "pass")
  /\ UNCHANGED <<db, up, head, shelf, written, replaced, scripts, faults>>

\* What was not counted before is not compared.
Verify(o) ==
  /\ At(o, "verify")
  /\ Pass(o, script[o].expected \in {{}, Counts})
  /\ UNCHANGED <<db, up, head, shelf, written, replaced, scripts, faults>>

-----------------------------------------------------------------------------
(* backup_postgres.                                                        *)

\* The dump file is opened before pg_dump runs; without pg_dump there is none.
OpenDump(o) ==
  /\ At(o, "open")
  /\ \/ /\ shelf' = Append(shelf, Torn)
        /\ Done(o, [script[o] EXCEPT !.entry = Len(shelf) + 1], "pass")
        /\ UNCHANGED faults
     \/ /\ shelf' = Append(shelf, NoFile) /\ Fault
        /\ Done(o, [script[o] EXCEPT !.at = 2], "degraded")
  /\ UNCHANGED <<db, up, head, written, replaced, scripts>>

\* pg_dump takes what is committed; broken off it leaves the file it has begun.
Dump(o) ==
  /\ At(o, "dump")
  /\ \/ /\ up /\ shelf' = [shelf EXCEPT ![script[o].entry] = DumpOf(db)]
        /\ Pass(o, TRUE) /\ UNCHANGED faults
     \/ ~ up /\ Pass(o, FALSE) /\ UNCHANGED <<shelf, faults>>
     \/ Fault /\ Pass(o, FALSE) /\ UNCHANGED shelf
  /\ UNCHANGED <<db, up, head, written, replaced, scripts>>

-----------------------------------------------------------------------------
(* run_restore.                                                            *)

WithFile == {i \in DOMAIN shelf : shelf[i].file # "none"}

\* The newest backup that has a dump file, whatever is in it; without one the
\* restore has failed.
Choose(o) ==
  /\ At(o, "choose")
  /\ IF WithFile # {}
     THEN Done(o, [script[o] EXCEPT !.entry = Max(WithFile)], "pass")
     ELSE Done(o, [script[o] EXCEPT !.at = Len(StepsOf.restore)], "failure")
  /\ UNCHANGED <<db, up, head, shelf, written, replaced, scripts, faults>>

\* The database while some of d is in it: the tables before their rows.
Parts(d) == [rows: SUBSET d.rows, revision: {0, d.revision}, whole: {FALSE}]

\* pg_restore --clean: the tables are dropped, unless it is missing, cannot
\* connect or cannot read the head of the file.
Drop(o) ==
  LET from == shelf[script[o].entry]
      skipLoad == [script[o] EXCEPT !.at = @ + 1]
  IN  /\ At(o, "drop")
      /\ \/ up /\ from.file = "whole" /\ db' \in Parts(from.of) /\ Pass(o, TRUE) /\ UNCHANGED faults
         \/ up /\ from.file = "torn" /\ db' \in {db} \cup Parts(NoTables)
            /\ Done(o, skipLoad, "failure") /\ UNCHANGED faults
         \/ ~ up /\ Done(o, skipLoad, "failure") /\ UNCHANGED <<db, faults>>
         \/ Fault /\ Done(o, skipLoad, "degraded") /\ UNCHANGED db
      /\ UNCHANGED <<up, head, shelf, written, replaced, scripts>>

\* The rest is loaded, or pg_restore is killed or loses its connection.
LoadRows(o) ==
  /\ At(o, "load")
  /\ \/ /\ up /\ db' = shelf[script[o].entry].of
        /\ Pass(o, TRUE) /\ UNCHANGED faults
     \/ ~ up /\ Pass(o, FALSE) /\ UNCHANGED <<db, faults>>
     \/ Fault /\ Pass(o, FALSE) /\ UNCHANGED db
  /\ UNCHANGED <<up, head, shelf, written, replaced, scripts>>

-----------------------------------------------------------------------------
(* run_migrations, in one transaction: all or nothing.  A migration may be *)
(* wrong and lose rows.                                                    *)

Migrate(o) ==
  /\ At(o, "migrate")
  /\ \/ /\ up /\ db.whole
        /\ \E rows \in SUBSET db.rows :
             /\ IF rows = db.rows THEN UNCHANGED faults ELSE Fault
             /\ db' = Database(rows, head, TRUE)
        /\ Pass(o, TRUE)
     \/ (~ up \/ ~ db.whole) /\ Pass(o, FALSE) /\ UNCHANGED <<db, faults>>
     \/ Fault /\ Pass(o, FALSE) /\ UNCHANGED db
  /\ UNCHANGED <<up, head, shelf, written, replaced, scripts>>

-----------------------------------------------------------------------------
(* What happens beside.                                                    *)

\* The application adds a row, or puts one in the place of another; while a
\* restore has its tables it does not get at them.
Write ==
  /\ up /\ db.whole /\ db.revision # 0
  /\ written < MaxRows /\ written' = written + 1
  /\ \E old \in {{}} \cup {{r} : r \in db.rows} :
       /\ db' = [db EXCEPT !.rows = (@ \ old) \cup {written'}]
       /\ replaced' = replaced \cup old
  /\ script' = [o \in Operator |-> IF Busy(o) THEN [script[o] EXCEPT !.wrote = TRUE] ELSE script[o]]
  /\ UNCHANGED <<up, head, shelf, report, scripts, faults>>

\* A new version of the code brings a migration.
Release ==
  /\ head = 1 /\ \A o \in Operator : ~ Busy(o)
  /\ head' = 2
  /\ UNCHANGED <<db, up, shelf, script, report, written, replaced, scripts, faults>>

Outage == up /\ up' = FALSE /\ Fault /\ UNCHANGED <<db, head, shelf, script, report, written, replaced, scripts>>
Recover == ~ up /\ up' = TRUE /\ UNCHANGED <<db, head, shelf, script, report, written, replaced, scripts, faults>>

\* The database is lost and set up anew.
Lose ==
  /\ db # NoTables /\ Fault
  /\ db' = NoTables
  /\ script' = [o \in Operator |-> IF Busy(o) THEN [script[o] EXCEPT !.met = TRUE] ELSE script[o]]
  /\ UNCHANGED <<up, head, shelf, report, written, replaced, scripts>>

OperationsNext ==
  \/ \E o \in Operator :
       \/ \E kind \in DOMAIN StepsOf : Start(o, kind)
       \/ Look(o) \/ CheckHealth(o) \/ CheckRevision(o) \/ Count(o) \/ Verify(o)
       \/ OpenDump(o) \/ Dump(o) \/ Choose(o) \/ Drop(o) \/ LoadRows(o) \/ Migrate(o)
  \/ Write \/ Release \/ Outage \/ Recover \/ Lose

OperationsSpec == OperationsInit /\ [][OperationsNext]_operationsVars

-----------------------------------------------------------------------------
(* Properties.                                                             *)

\* A script is at one of its steps, and writes to or reads from a directory there
\* is; rows are numbered as they are written.
OperationsTypeOK ==
  /\ db.rows \subseteq 1 .. written /\ db.revision \in 0 .. head
  /\ \A o \in Operator : Busy(o) =>
       /\ script[o].at \in DOMAIN StepsOf[script[o].kind]
       /\ script[o].entry \in {0} \cup DOMAIN shelf
       /\ script[o].expected \subseteq 0 .. MaxRows
  /\ \A i \in DOMAIN shelf : shelf[i].file \in {"none", "torn", "whole"}
  /\ scripts \in 0 .. MaxScripts /\ faults \in 0 .. MaxFaults

Succeeded(o, kind) ==
  report[o].status = "success" /\ report[o].of.kind = kind /\ ~ report[o].of.met

OnShelf(i) == IF i \in DOMAIN shelf THEN shelf[i] ELSE NoFile

\* What a backup says it has is all that was there when it began, and has not
\* been replaced since.
BackupIsWhole ==
  \A o \in Operator : Succeeded(o, "backup") =>
    LET d == OnShelf(report[o].of.entry)
    IN  d.file = "whole" /\ report[o].of.before \subseteq d.of.rows \cup replaced

\* What a restore says it has restored is in the database, at the revision of
\* the code, and what was there before and is not in the backup has gone.
RestoreIsComplete ==
  \A o \in Operator : Succeeded(o, "restore") =>
    LET r == report[o]
        d == OnShelf(r.of.entry)
    IN  /\ d.file = "whole" /\ r.db.revision = r.head
        /\ d.of.rows \subseteq r.db.rows \cup replaced
        /\ r.of.before \cap r.db.rows \subseteq d.of.rows

\* An upgrade that says it succeeded has lost nothing, if it could count before
\* and the application was not writing.
UpgradeLosesNothing ==
  \A o \in Operator : Succeeded(o, "upgrade") =>
    LET r == report[o]
    IN  (r.of.expected # {} /\ ~ r.of.wrote) => r.db.rows = r.of.before

\* No script reports a success that is none (EVI-108: "never silent success"),
\* whatever fails under it, as long as no other script runs beside it.
SuccessIsTrue == BackupIsWhole /\ RestoreIsComplete /\ UpgradeLosesNothing
=============================================================================
