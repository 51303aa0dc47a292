-------------------------- MODULE ProfileOverrides --------------------------
(***************************************************************************)
(* Overrides of processing profiles: creation, change, soft deletion, the  *)
(* audit log and rollback to a state the log recorded.                     *)
(*                                                                         *)
(* A handler reads the override, and some time later writes it with its    *)
(* entry of the log in one commit; handlers overlap.  All overrides here   *)
(* compete for one pair of extension and task type, of which an index of   *)
(* the database admits one that is neither deleted nor disabled.  A state  *)
(* in the log has its secrets redacted.                                    *)
(***************************************************************************)
EXTENDS Naturals, Sequences

CONSTANTS
  Profile,     \* profile ids
  Handler,     \* threads that serve requests
  MaxSerial,   \* bound on requests that are served one at a time
  MaxShared    \* bound on requests that may overlap

ASSUME ConstantsAssumption == MaxSerial \in Nat /\ MaxShared \in Nat /\ Profile # {}

Status == {"active", "disabled"}
Name == 0..1                                \* display_name, and the like
Meta == {"plain", "secret", "redacted"}     \* metadata_json

\* processing_profile_overrides.  The text of a "redacted" value is that of the
\* log.
Row == [state: {"none", "live", "deleted"}, status: Status, name: Name, meta: Meta]
None == [state |-> "none", status |-> "active", name |-> 0, meta |-> "plain"]
\* processing_profile_audit_log; None for a state that is null.
Entry == [profile: Profile, action: {"create", "update", "delete", "rollback"}, old: Row, new: Row]

VARIABLES
  row,       \* the overrides
  log,       \* the audit log
  before,    \* history: the override before each entry, not redacted
  work,      \* the handlers
  requests,  \* requests so far
  overlap    \* whether requests may overlap; it does not change

vars == <<row, log, before, work, requests, overlap>>

MaxRequests == IF overlap THEN MaxShared ELSE MaxSerial

Values == [status: Status, name: Name, meta: Meta]
WorkState ==
  [pc: {"idle", "save"},
   action: {"create", "update", "delete", "rollback"},
   profile: Profile,
   mem: Row,                 \* the override as loaded
   new: Row,                 \* as the session holds it after its changes
   entry: Nat,               \* of a rollback
   answer: {"none", "ok", "not_found", "conflict", "error"}]  \* to the last request
Idle(a) ==
  [pc |-> "idle", action |-> "create", profile |-> CHOOSE p \in Profile : TRUE, mem |-> None,
   new |-> None, entry |-> 0, answer |-> a]

Init ==
  /\ row = [p \in Profile |-> None]
  /\ log = << >> /\ before = << >>
  /\ work = [h \in Handler |-> Idle("none")]
  /\ requests = 0
  /\ overlap \in BOOLEAN

-----------------------------------------------------------------------------
(* Plausible slips in the definitions below, used to see that the          *)
(* properties notice them; no specification refers to one.                 *)

TargetLatest(e) == IF e.new # None THEN e.new ELSE e.old
EntryAfter(h) ==
  [profile |-> work[h].profile, action |-> work[h].action,
   old |-> IF work[h].action = "create" THEN None ELSE work[h].new, new |-> work[h].new]
IndexOfDeleted(p, r) ==
  \A q \in Profile \ {p} : ~ (r.state = "live" /\ row[q].state = "live" /\ row[q].status = "disabled")

-----------------------------------------------------------------------------
(* What the code computes.                                                 *)

Takes(r) == r.state = "live" /\ r.status # "disabled"

\* find_conflicting_override.
Conflict == \E q \in Profile : Takes(row[q])

Redact(r) == IF r.meta = "secret" THEN [r EXCEPT !.meta = "redacted"] ELSE r

\* The old and the new state of the entry, as the session holds them.
EntryOf(h) ==
  [profile |-> work[h].profile, action |-> work[h].action, old |-> work[h].mem,
   new |-> work[h].new]
Redacted(e) ==
  [profile |-> e.profile, action |-> e.action, old |-> Redact(e.old), new |-> Redact(e.new)]

\* What a rollback restores.
Target(e) == IF e.old # None THEN e.old ELSE e.new

\* An UPDATE sets the columns whose value has changed since it was loaded.
Column(old, mem, new) == IF new = mem THEN old ELSE new
Updated(r, mem, new) ==
  [state  |-> Column(r.state, mem.state, new.state),
   status |-> Column(r.status, mem.status, new.status),
   name   |-> Column(r.name, mem.name, new.name),
   meta   |-> Column(r.meta, mem.meta, new.meta)]

\* The unique index over what is neither deleted nor disabled.
IndexAdmits(p, r) == Takes(r) => \A q \in Profile \ {p} : ~ Takes(row[q])

-----------------------------------------------------------------------------
(* The handlers, to the point where they write.                            *)

Answer(h, a) == work' = [work EXCEPT ![h] = Idle(a)]
Ready(h, action, p, new, i) ==
  work' = [work EXCEPT ![h] = [pc |-> "save", action |-> action, profile |-> p, mem |-> row[p],
                               new |-> new, entry |-> i, answer |-> "none"]]
Begin(h) ==
  /\ work[h].pc = "idle"
  /\ overlap \/ \A g \in Handler : work[g].pc = "idle"
  /\ requests < MaxRequests
  /\ requests' = requests + 1
  /\ UNCHANGED <<row, log, before, overlap>>

Create(h, p, v) ==
  /\ Begin(h)
  /\ IF row[p].state = "live" \/ Conflict
     THEN Answer(h, "conflict")
     ELSE work' = [work EXCEPT ![h] =
            [pc |-> "save", action |-> "create", profile |-> p, mem |-> None,
             new |-> [state |-> "live", status |-> "active", name |-> v.name, meta |-> v.meta],
             entry |-> 0, answer |-> "none"]]

\* A PATCH gives some of the fields; those it does not give it leaves alone.
Patch(h, p, v, fields) ==
  /\ Begin(h)
  /\ IF row[p].state # "live"
     THEN Answer(h, "not_found")
     ELSE Ready(h, "update", p,
            [f \in DOMAIN None |-> IF f \in fields THEN v[f] ELSE row[p][f]], 0)

Delete(h, p) ==
  /\ Begin(h)
  /\ IF row[p].state # "live"
     THEN Answer(h, "not_found")
     ELSE Ready(h, "delete", p, [row[p] EXCEPT !.state = "deleted"], 0)

Rollback(h, i) ==
  LET p == log[i].profile
      t == Target(log[i])
  IN  /\ Begin(h)
      /\ IF row[p].state = "deleted" \/ row[p].status = "disabled"
         THEN Answer(h, "conflict")
         ELSE Ready(h, "rollback", p,
                [row[p] EXCEPT !.status = t.status, !.name = t.name, !.meta = t.meta], i)

-----------------------------------------------------------------------------
(* The write, with its entry of the log.                                   *)

Logged(h) ==
  /\ log' = Append(log, Redacted(EntryOf(h)))
  /\ before' = Append(before, work[h].mem)
  /\ Answer(h, "ok")
  /\ UNCHANGED <<requests, overlap>>

Insert(h) ==
  LET p == work[h].profile
  IN  /\ work[h].pc = "save" /\ work[h].action = "create"
      /\ row[p].state = "none" /\ IndexAdmits(p, work[h].new)
      /\ row' = [row EXCEPT ![p] = work[h].new]
      /\ Logged(h)

Update(h) ==
  LET p == work[h].profile
      r == Updated(row[p], work[h].mem, work[h].new)
  IN  /\ work[h].pc = "save" /\ work[h].action # "create"
      /\ IndexAdmits(p, r)
      /\ row' = [row EXCEPT ![p] = r]
      /\ Logged(h)

\* A unique key or the index is violated: an error no handler answers.
Refused(h) ==
  LET p == work[h].profile
  IN  /\ work[h].pc = "save"
      /\ IF work[h].action = "create"
         THEN row[p].state # "none" \/ ~ IndexAdmits(p, work[h].new)
         ELSE ~ IndexAdmits(p, Updated(row[p], work[h].mem, work[h].new))
      /\ Answer(h, "error")
      /\ UNCHANGED <<row, log, before, requests, overlap>>

Given == [status: Status, name: Name, meta: {"plain", "secret"}]

Next ==
  \E h \in Handler :
    \/ Insert(h) \/ Update(h) \/ Refused(h)
    \/ \E p \in Profile :
         \/ Delete(h, p)
         \/ \E v \in Given :
              \/ Create(h, p, v)
              \/ \E f \in SUBSET {"status", "name", "meta"} : Patch(h, p, v, f)
    \/ \E i \in DOMAIN log : Rollback(h, i)

Spec == Init /\ [][Next]_vars

-----------------------------------------------------------------------------
(* Properties.                                                             *)

Types ==
  /\ row \in [Profile -> Row]
  /\ log \in Seq(Entry) /\ before \in Seq(Row) /\ Len(before) = Len(log)
  /\ work \in [Handler -> WorkState]
  /\ requests \in 0..MaxRequests /\ overlap \in BOOLEAN
Creations(p) == {i \in DOMAIN log : log[i].profile = p /\ log[i].action = "create"}
CreatedOnce ==
  \A p \in Profile :
    /\ row[p].state = "none" <=> Creations(p) = {}
    /\ \A i, j \in Creations(p) : i = j

\* The variables keep their types, and however requests overlap every override
\* that has ever been has one creation on record
\* (repositories/processing_profile.py:214).
TypeOK == Types /\ CreatedOnce

\* However requests overlap, one override at most applies to a pair of extension
\* and task type (the index of migration 20260509_0003, over the check that
\* repositories/processing_profile.py:191 makes when one is created).
OneApplies == \A p, q \in Profile : Takes(row[p]) /\ Takes(row[q]) => p = q

EntriesOf(p) == {i \in DOMAIN log : log[i].profile = p}
Following(i, j) ==
  log[i].profile = log[j].profile /\ i < j
    /\ \A k \in EntriesOf(log[i].profile) : ~ (i < k /\ k < j)

\* Served one at a time, requests leave a log that is a true account: without
\* gaps, each entry starting from where the one before it ended and the first from
\* nothing, and the last says what the override is
\* (repositories/processing_profile.py:245, 289, 456).
LogIsTrue ==
  ~ overlap =>
    /\ \A i, j \in DOMAIN log : Following(i, j) => log[j].old = log[i].new
    /\ \A p \in Profile : \A i \in EntriesOf(p) :
         /\ (\A j \in EntriesOf(p) : i <= j) => log[i].old = None
         /\ (\A j \in EntriesOf(p) : j <= i) => log[i].new = Redact(row[p])

\* Served one at a time, a rollback of an entry brings back the values the
\* override had before it, redaction apart, and never what is deleted
\* (repositories/processing_profile.py:447-482).
RollbackRestores ==
  [][\A h \in Handler :
       ~ overlap /\ Update(h) /\ work[h].action = "rollback" /\ before[work[h].entry] # None
         => LET p == work[h].profile
                b == before[work[h].entry]
            IN  /\ row'[p].status = b.status /\ row'[p].name = b.name
                /\ Redact(row'[p]).meta = Redact(b).meta
                /\ row'[p].state = "live"]_vars
=============================================================================
