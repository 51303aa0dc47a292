---------------------------- MODULE TenancyProofs ----------------------------
(***************************************************************************)
(* Proofs about four components that share nothing, for any number of      *)
(* profiles, accounts, invitations, threads, requests, operators, places,  *)
(* pages and entries.                                                      *)
(*                                                                         *)
(* Profiles.  The type invariant needs to know what a handler is about to  *)
(* write: a creation inserts a live override, and anything else changes    *)
(* one that has been created.  That one override at most applies follows   *)
(* from the index alone.  That the log is true when requests are served    *)
(* one at a time needs more: what is written has not changed since it was  *)
(* loaded (Fresh), and the log keeps what was there before each entry      *)
(* (Kept), which is what a rollback brings back.                           *)
(*                                                                         *)
(* Accounts.  An erased account has a session or a key, or an invitation   *)
(* or a backup code is used twice, only where requests have overlapped, so *)
(* the invariant keeps account of the blame: of two requests under way     *)
(* neither is alone (Overlapping), and what would break a promise is       *)
(* either made by such a request or goes back to one (ErasureInv,          *)
(* InvitationInv, CodeInv).                                                *)
(*                                                                         *)
(* Operators' scripts.  A script that no other runs beside knows what its  *)
(* steps have found and done, as long as all have passed (Knows), and that *)
(* is what its report says (Right); reports are cleared when a script      *)
(* begins, so nothing touches the backups while one of them stands.        *)
(*                                                                         *)
(* Paged sources.  What is listed after the cursor is still to come, and   *)
(* what has been gathered lies before it (ReadTo): by the numbers of the   *)
(* entries, which come and go on either side without moving it, or by how  *)
(* many are newer, which they do move.  So a place that has been read is   *)
(* whole (ReadWhole) and in order (Neat), and has a file until another     *)
(* channel writes one of the same name (StagedFits).                       *)
(***************************************************************************)
EXTENDS ProfileOverrides, Accounts, Operations, Gathering, FiniteSetTheorems,
        FunctionTheorems, WellFoundedInduction, TLAPS

-----------------------------------------------------------------------------
(* Profiles.                                                               *)

\* A handler about to write one that is there has loaded it.
Prepared ==
  \A h \in Handler :
    work[h].pc = "save" =>
      /\ work[h].action = "create" => work[h].new.state = "live"
      /\ work[h].action # "create" =>
           /\ row[work[h].profile].state # "none"
           /\ work[h].new.state # "none"

\* The log is of overrides that have been created.
Recorded == \A i \in DOMAIN log : row[log[i].profile].state # "none"

Inductive == TypeOK /\ Prepared /\ Recorded /\ OneApplies

-----------------------------------------------------------------------------
(* What the helpers return.                                                *)

\* What a handler holds is of its type (the session of
\* repositories/processing_profile.py).
LEMMA WorkTypes ==
  ASSUME Types, NEW h \in Handler
  PROVE  /\ work[h].pc \in {"idle", "save"}
         /\ work[h].action \in {"create", "update", "delete", "rollback"}
         /\ work[h].profile \in Profile /\ work[h].mem \in Row /\ work[h].new \in Row
         /\ work[h].entry \in Nat
<1>1. work[h] \in WorkState
  BY DEF Types
<1> QED
  BY <1>1 DEF WorkState

\* An override with its secrets redacted is an override
\* (processing_profile/sanitizer.py:351).
LEMMA RedactType == ASSUME NEW r \in Row PROVE Redact(r) \in Row
BY DEF Redact, Row, Status, Name, Meta

LEMMA NoneType == None \in Row
BY DEF None, Row, Status, Name, Meta

\* The entry of a write, as it is logged.
LEMMA EntryType ==
  ASSUME Types, NEW h \in Handler
  PROVE  /\ Redacted(EntryOf(h)) \in Entry
         /\ Redacted(EntryOf(h)).profile = work[h].profile
         /\ Redacted(EntryOf(h)).action = work[h].action
<1>1. /\ work[h].action \in {"create", "update", "delete", "rollback"}
      /\ work[h].profile \in Profile /\ work[h].mem \in Row /\ work[h].new \in Row
  BY WorkTypes
<1>2. Redact(work[h].mem) \in Row /\ Redact(work[h].new) \in Row
  BY <1>1, RedactType
<1>3. Redacted(EntryOf(h)) =
        [profile |-> work[h].profile, action |-> work[h].action,
         old |-> Redact(work[h].mem), new |-> Redact(work[h].new)]
  BY DEF Redacted, EntryOf
<1> QED
  BY <1>1, <1>2, <1>3 DEF Entry

\* What a rollback restores is an override.
LEMMA TargetType == ASSUME NEW e \in Entry PROVE Target(e) \in Row
BY DEF Target, Entry

\* An UPDATE leaves an override, and does not take one away.
LEMMA UpdatedType ==
  ASSUME NEW r \in Row, NEW mem \in Row, NEW new \in Row
  PROVE  /\ Updated(r, mem, new) \in Row
         /\ r.state # "none" /\ new.state # "none" => Updated(r, mem, new).state # "none"
BY DEF Updated, Column, Row

\* A handler between requests.
LEMMA IdleType ==
  ASSUME NEW a \in {"none", "ok", "not_found", "conflict", "error"}
  PROVE  Idle(a) \in WorkState /\ Idle(a).pc = "idle"
<1> DEFINE first == CHOOSE p \in Profile : TRUE
<1>1. first \in Profile
  BY ConstantsAssumption
<1>2. Idle(a) = [pc |-> "idle", action |-> "create", profile |-> first, mem |-> None,
                 new |-> None, entry |-> 0, answer |-> a]
  BY DEF Idle
<1> HIDE DEF first
<1> QED
  BY <1>1, <1>2, NoneType DEF WorkState

\* A handler with an answer is idle and of its type.
LEMMA AnswerType ==
  ASSUME Types, NEW h \in Handler, NEW a \in {"none", "ok", "not_found", "conflict", "error"},
         Answer(h, a)
  PROVE  /\ work' \in [Handler -> WorkState]
         /\ work'[h].pc = "idle" /\ \A g \in Handler \ {h} : work'[g] = work[g]
<1>1. Idle(a) \in WorkState /\ Idle(a).pc = "idle"
  BY IdleType
<1> QED
  BY <1>1 DEF Types, Answer

-----------------------------------------------------------------------------
(* Steps that only read.                                                   *)

\* A request that is refused at once, or is read and prepared, changes neither
\* the overrides nor the log.
LEMMA Refusals ==
  ASSUME Inductive, NEW h \in Handler, NEW a \in {"none", "ok", "not_found", "conflict", "error"},
         Answer(h, a), UNCHANGED <<row, log, before, overlap>>, requests' \in 0..MaxRequests
  PROVE  Inductive'
<1>1. /\ work' \in [Handler -> WorkState]
      /\ work'[h].pc = "idle" /\ \A g \in Handler \ {h} : work'[g] = work[g]
  BY AnswerType DEF Inductive, TypeOK
<1>2. Types'
  BY <1>1 DEF Inductive, TypeOK, Types, MaxRequests
<1>3. CreatedOnce'
  BY DEF Inductive, TypeOK, CreatedOnce, Creations
<1>4. Prepared'
  BY <1>1 DEF Inductive, Prepared
<1>5. OneApplies' /\ Recorded'
  BY DEF Inductive, OneApplies, Takes, Recorded
<1> QED
  BY <1>2, <1>3, <1>4, <1>5 DEF Inductive, TypeOK

\* A handler that has prepared a write.
LEMMA Preparation ==
  ASSUME Inductive, NEW h \in Handler, NEW w \in WorkState,
         work' = [work EXCEPT ![h] = w], UNCHANGED <<row, log, before, overlap>>,
         requests' \in 0..MaxRequests,
         w.action = "create" => w.new.state = "live",
         w.action # "create" => row[w.profile].state # "none" /\ w.new.state # "none"
  PROVE  Inductive'
<1>1. work' \in [Handler -> WorkState] /\ work'[h] = w /\ \A g \in Handler \ {h} : work'[g] = work[g]
  BY DEF Inductive, TypeOK, Types
<1>2. Types'
  BY <1>1 DEF Inductive, TypeOK, Types, MaxRequests
<1>3. CreatedOnce'
  BY DEF Inductive, TypeOK, CreatedOnce, Creations
<1>4. Prepared'
  <2> SUFFICES ASSUME NEW g \in Handler, work'[g].pc = "save"
               PROVE  /\ work'[g].action = "create" => work'[g].new.state = "live"
                      /\ work'[g].action # "create" =>
                           row[work'[g].profile].state # "none" /\ work'[g].new.state # "none"
    BY DEF Prepared
  <2>1. CASE g = h
    BY <1>1, <2>1
  <2>2. CASE g # h
    BY <1>1, <2>2 DEF Inductive, Prepared
  <2> QED
    BY <2>1, <2>2
<1>5. OneApplies' /\ Recorded'
  BY DEF Inductive, OneApplies, Takes, Recorded
<1> QED
  BY <1>2, <1>3, <1>4, <1>5 DEF Inductive, TypeOK

-----------------------------------------------------------------------------
(* Steps that write.                                                       *)

\* A write that puts r for the override p, with its entry of the log, where the
\* index admits r, and r is created only when there was nothing.
LEMMA Writing ==
  ASSUME Inductive, NEW h \in Handler, NEW p \in Profile, p = work[h].profile, NEW r \in Row,
         row' = [row EXCEPT ![p] = r], Logged(h), r.state # "none", IndexAdmits(p, r),
         row[p].state = "none" <=> work[h].action = "create"
  PROVE  Inductive'
<1> DEFINE e == Redacted(EntryOf(h))
<1>1. /\ p \in Profile /\ work[h].mem \in Row
      /\ e \in Entry /\ e.profile = p /\ e.action = work[h].action
  BY WorkTypes, EntryType DEF Inductive, TypeOK
<1>2. /\ log' = Append(log, e) /\ before' = Append(before, work[h].mem)
      /\ requests' = requests /\ overlap' = overlap
  BY DEF Logged
<1>3. /\ work' \in [Handler -> WorkState]
      /\ work'[h].pc = "idle" /\ \A g \in Handler \ {h} : work'[g] = work[g]
  BY AnswerType DEF Logged, Inductive, TypeOK
<1>4. row \in [Profile -> Row] /\ log \in Seq(Entry) /\ before \in Seq(Row) /\ Len(before) = Len(log)
  BY DEF Inductive, TypeOK, Types
<1>5. row' \in [Profile -> Row] /\ row'[p] = r /\ \A q \in Profile \ {p} : row'[q] = row[q]
  BY <1>1, <1>4
<1> HIDE DEF e
<1>7. Types'
  BY <1>1, <1>2, <1>3, <1>4, <1>5 DEF Types, Inductive, TypeOK, MaxRequests
<1>0. /\ DOMAIN log' = DOMAIN log \cup {Len(log) + 1} /\ Len(log) + 1 \notin DOMAIN log
      /\ log'[Len(log) + 1] = e /\ \A i \in DOMAIN log : log'[i] = log[i] /\ log[i] \in Entry
  BY <1>1, <1>2, <1>4
<1>8. CreatedOnce'
  <2>2. ASSUME NEW q \in Profile
        PROVE  Creations(q)' = IF q = p /\ work[h].action = "create"
                               THEN Creations(q) \cup {Len(log) + 1} ELSE Creations(q)
    BY <1>0, <1>1 DEF Creations
  <2>3. ASSUME NEW q \in Profile, q # p
        PROVE  /\ row'[q].state = "none" <=> Creations(q)' = {}
               /\ \A i, j \in Creations(q)' : i = j
    BY <1>5, <2>2, <2>3 DEF Inductive, TypeOK, CreatedOnce
  <2>4. ASSUME work[h].action = "create"
        PROVE  Creations(p)' = {Len(log) + 1}
    BY <1>1, <2>2, <2>4 DEF Inductive, TypeOK, CreatedOnce
  <2>5. ASSUME work[h].action # "create"
        PROVE  /\ Creations(p)' = Creations(p) /\ Creations(p) # {}
               /\ \A i, j \in Creations(p) : i = j
    BY <1>1, <2>2, <2>5 DEF Inductive, TypeOK, CreatedOnce
  <2>6. row'[p].state # "none"
    BY <1>5
  <2> QED
    BY <1>1, <2>3, <2>4, <2>5, <2>6 DEF CreatedOnce
<1>9. Prepared'
  <2> SUFFICES ASSUME NEW g \in Handler, work'[g].pc = "save"
               PROVE  /\ work'[g].action = "create" => work'[g].new.state = "live"
                      /\ work'[g].action # "create" =>
                           row'[work'[g].profile].state # "none" /\ work'[g].new.state # "none"
    BY DEF Prepared
  <2>1. g # h /\ work'[g] = work[g]
    BY <1>3
  <2>2. work[g].profile \in Profile
    BY WorkTypes DEF Inductive, TypeOK
  <2>3. row[work[g].profile].state # "none" => row'[work[g].profile].state # "none"
    BY <1>5, <2>2
  <2> QED
    BY <2>1, <2>3 DEF Inductive, Prepared
<1>10. OneApplies'
  <2>1. Takes(r) => \A q \in Profile \ {p} : ~ Takes(row[q])
    BY DEF IndexAdmits
  <2> SUFFICES ASSUME NEW q1 \in Profile, NEW q2 \in Profile, Takes(row'[q1]), Takes(row'[q2])
               PROVE  q1 = q2
    BY DEF OneApplies, Takes
  <2> QED
    BY <1>5, <2>1 DEF Inductive, OneApplies
<1>11. Recorded'
  <2> SUFFICES ASSUME NEW i \in DOMAIN log' PROVE row'[log'[i].profile].state # "none"
    BY DEF Recorded
  <2>1. CASE i = Len(log) + 1
    BY <1>0, <1>1, <1>5, <2>1
  <2>2. CASE i \in DOMAIN log
    <3>1. log'[i] = log[i] /\ log[i].profile \in Profile /\ row[log[i].profile].state # "none"
      BY <1>0, <2>2 DEF Entry, Inductive, Recorded
    <3> QED
      BY <1>5, <3>1
  <2> QED
    BY <1>0, <2>1, <2>2
<1> QED
  BY <1>7, <1>8, <1>9, <1>10, <1>11 DEF Inductive, TypeOK

-----------------------------------------------------------------------------
(* The invariant.                                                          *)

LEMMA Initially == Init => Inductive
<1> SUFFICES ASSUME Init PROVE Inductive
  OBVIOUS
<1>2. Idle("none") \in WorkState /\ Idle("none").pc = "idle"
  BY IdleType
<1>3. Types
  BY <1>2, NoneType, ConstantsAssumption DEF Init, Types, MaxRequests
<1>4. CreatedOnce
  <2>1. DOMAIN log = {} /\ \A p \in Profile : row[p].state = "none"
    BY DEF Init, None
  <2> QED
    BY <2>1 DEF CreatedOnce, Creations
<1>5. Prepared
  BY <1>2 DEF Init, Prepared
<1>6. OneApplies /\ Recorded
  BY DEF Init, OneApplies, Takes, None, Recorded
<1> QED
  BY <1>3, <1>4, <1>5, <1>6 DEF Inductive, TypeOK

LEMMA Creating ==
  ASSUME Inductive, NEW h \in Handler, NEW p \in Profile, NEW v \in Given, Create(h, p, v)
  PROVE  Inductive'
<1>1. requests' \in 0..MaxRequests /\ UNCHANGED <<row, log, before, overlap>>
  BY ConstantsAssumption DEF MaxRequests, Create, Begin, Inductive, TypeOK, Types
<1>2. CASE row[p].state = "live" \/ Conflict
  BY <1>1, <1>2, Refusals DEF Create
<1>3. CASE ~ (row[p].state = "live" \/ Conflict)
  <2> DEFINE n == [state |-> "live", status |-> "active", name |-> v.name, meta |-> v.meta]
             w == [pc |-> "save", action |-> "create", profile |-> p, mem |-> None, new |-> n,
                   entry |-> 0, answer |-> "none"]
  <2>1. n \in Row /\ n.state = "live"
    BY DEF Given, Row, Status, Name, Meta
  <2>2. work' = [work EXCEPT ![h] = w]
    BY <1>3 DEF Create
  <2> HIDE DEF n
  <2>3. w \in WorkState /\ w.action = "create" /\ w.new = n
    BY <2>1, NoneType DEF WorkState
  <2> HIDE DEF w
  <2> QED
    BY <1>1, <2>1, <2>2, <2>3, Preparation
<1> QED
  BY <1>2, <1>3

\* The three requests that change what is there.
LEMMA Changing ==
  ASSUME Inductive, NEW h \in Handler, NEW p \in Profile, NEW n \in Row, NEW i \in Nat,
         NEW act \in {"update", "delete", "rollback"}, Begin(h), Ready(h, act, p, n, i),
         row[p].state # "none", n.state # "none"
  PROVE  Inductive'
<1> DEFINE w == [pc |-> "save", action |-> act, profile |-> p, mem |-> row[p], new |-> n,
                 entry |-> i, answer |-> "none"]
<1>1. requests' \in 0..MaxRequests /\ UNCHANGED <<row, log, before, overlap>>
  BY ConstantsAssumption DEF MaxRequests, Begin, Inductive, TypeOK, Types
<1>2. work' = [work EXCEPT ![h] = w]
  BY DEF Ready
<1>3. w \in WorkState /\ w.action # "create" /\ w.profile = p /\ w.new = n
  BY DEF WorkState, Inductive, TypeOK, Types
<1> HIDE DEF w
<1> QED
  BY <1>1, <1>2, <1>3, Preparation

LEMMA Patching ==
  ASSUME Inductive, NEW h \in Handler, NEW p \in Profile, NEW v \in Given,
         NEW f \in SUBSET {"status", "name", "meta"}, Patch(h, p, v, f)
  PROVE  Inductive'
<1>1. Begin(h) /\ requests' \in 0..MaxRequests /\ UNCHANGED <<row, log, before, overlap>>
  BY ConstantsAssumption DEF MaxRequests, Patch, Begin, Inductive, TypeOK, Types
<1>2. CASE row[p].state # "live"
  BY <1>1, <1>2, Refusals DEF Patch
<1>3. CASE row[p].state = "live"
  <2> DEFINE n == [g \in DOMAIN None |-> IF g \in f THEN v[g] ELSE row[p][g]]
  <2>1. row[p] \in Row
    BY DEF Inductive, TypeOK, Types
  <2>2. n = [state |-> row[p].state, status |-> IF "status" \in f THEN v.status ELSE row[p].status,
             name |-> IF "name" \in f THEN v.name ELSE row[p].name,
             meta |-> IF "meta" \in f THEN v.meta ELSE row[p].meta]
    BY DEF None
  <2>3. n \in Row /\ n.state = "live"
    BY <1>3, <2>1, <2>2 DEF Given, Row, Status, Name, Meta
  <2>4. Ready(h, "update", p, n, 0)
    BY <1>3 DEF Patch
  <2> HIDE DEF n
  <2> QED
    BY <1>1, <1>3, <2>3, <2>4, Changing
<1> QED
  BY <1>2, <1>3

LEMMA Deleting ==
  ASSUME Inductive, NEW h \in Handler, NEW p \in Profile, Delete(h, p)
  PROVE  Inductive'
<1>1. Begin(h) /\ requests' \in 0..MaxRequests /\ UNCHANGED <<row, log, before, overlap>>
  BY ConstantsAssumption DEF MaxRequests, Delete, Begin, Inductive, TypeOK, Types
<1>2. CASE row[p].state # "live"
  BY <1>1, <1>2, Refusals DEF Delete
<1>3. CASE row[p].state = "live"
  <2>1. row[p] \in Row
    BY DEF Inductive, TypeOK, Types
  <2>2. [row[p] EXCEPT !.state = "deleted"] \in Row /\ [row[p] EXCEPT !.state = "deleted"].state = "deleted"
    BY <2>1 DEF Row
  <2>3. Ready(h, "delete", p, [row[p] EXCEPT !.state = "deleted"], 0)
    BY <1>3 DEF Delete
  <2> QED
    BY <1>1, <1>3, <2>2, <2>3, Changing
<1> QED
  BY <1>2, <1>3

LEMMA RollingBack ==
  ASSUME Inductive, NEW h \in Handler, NEW i \in DOMAIN log, Rollback(h, i)
  PROVE  Inductive'
<1> DEFINE p == log[i].profile
           t == Target(log[i])
           n == [row[p] EXCEPT !.status = t.status, !.name = t.name, !.meta = t.meta]
<1>1. Begin(h) /\ requests' \in 0..MaxRequests /\ UNCHANGED <<row, log, before, overlap>>
  BY ConstantsAssumption DEF MaxRequests, Rollback, Begin, Inductive, TypeOK, Types
<1>2. i \in Nat /\ log[i] \in Entry /\ p \in Profile /\ t \in Row
  <2>1. log \in Seq(Entry)
    BY DEF Inductive, TypeOK, Types
  <2>2. i \in Nat /\ log[i] \in Entry
    BY <2>1
  <2> QED
    BY <2>2, TargetType DEF Entry
<1>3. CASE row[p].state = "deleted" \/ row[p].status = "disabled"
  BY <1>1, <1>3, Refusals DEF Rollback
<1>4. CASE ~ (row[p].state = "deleted" \/ row[p].status = "disabled")
  <2>1. row[p] \in Row
    BY <1>2 DEF Inductive, TypeOK, Types
  <2>2. n \in Row /\ n.state = row[p].state
    BY <1>2, <2>1 DEF Row
  <2>3. Ready(h, "rollback", p, n, i)
    BY <1>4 DEF Rollback
  <2>4. row[p].state # "none"
    BY DEF Inductive, Recorded
  <2> QED
    BY <1>1, <1>2, <2>2, <2>3, <2>4, Changing
<1> QED
  BY <1>3, <1>4

LEMMA Inserting ==
  ASSUME Inductive, NEW h \in Handler, Insert(h)
  PROVE  Inductive'
<1>1. /\ work[h].profile \in Profile /\ work[h].new \in Row /\ work[h].new.state = "live"
      /\ work[h].action = "create" /\ row[work[h].profile].state = "none"
  BY WorkTypes DEF Insert, Inductive, TypeOK, Prepared
<1>2. /\ row' = [row EXCEPT ![work[h].profile] = work[h].new] /\ Logged(h)
      /\ IndexAdmits(work[h].profile, work[h].new)
  BY DEF Insert
<1> QED
  BY <1>1, <1>2, Writing

LEMMA Updating ==
  ASSUME Inductive, NEW h \in Handler, Update(h)
  PROVE  Inductive'
<1> DEFINE p == work[h].profile
           r == Updated(row[p], work[h].mem, work[h].new)
<1>1. /\ p \in Profile /\ work[h].mem \in Row /\ work[h].new \in Row
      /\ work[h].action # "create" /\ row[p].state # "none" /\ work[h].new.state # "none"
  BY WorkTypes DEF Update, Inductive, TypeOK, Prepared
<1>2. row[p] \in Row
  BY <1>1 DEF Inductive, TypeOK, Types
<1>3. r \in Row /\ r.state # "none"
  BY <1>1, <1>2, UpdatedType
<1>4. row' = [row EXCEPT ![p] = r] /\ Logged(h) /\ IndexAdmits(p, r)
  BY DEF Update
<1> HIDE DEF r
<1> QED
  BY <1>1, <1>3, <1>4, Writing

LEMMA Refusing ==
  ASSUME Inductive, NEW h \in Handler, Refused(h)
  PROVE  Inductive'
<1>1. Answer(h, "error") /\ UNCHANGED <<row, log, before, overlap>> /\ requests' \in 0..MaxRequests
  BY DEF Refused, Inductive, TypeOK, Types
<1> QED
  BY <1>1, Refusals

LEMMA Preserved == Inductive /\ [Next]_vars => Inductive'
<1> SUFFICES ASSUME Inductive, [Next]_vars PROVE Inductive'
  OBVIOUS
<1>1. ASSUME NEW h \in Handler, Insert(h) PROVE Inductive'
  BY <1>1, Inserting
<1>2. ASSUME NEW h \in Handler, Update(h) PROVE Inductive'
  BY <1>2, Updating
<1>3. ASSUME NEW h \in Handler, Refused(h) PROVE Inductive'
  BY <1>3, Refusing
<1>4. ASSUME NEW h \in Handler, NEW p \in Profile, Delete(h, p) PROVE Inductive'
  BY <1>4, Deleting
<1>5. ASSUME NEW h \in Handler, NEW p \in Profile, NEW v \in Given, Create(h, p, v)
      PROVE  Inductive'
  BY <1>5, Creating
<1>6. ASSUME NEW h \in Handler, NEW p \in Profile, NEW v \in Given,
             NEW f \in SUBSET {"status", "name", "meta"}, Patch(h, p, v, f)
      PROVE  Inductive'
  BY <1>6, Patching
<1>7. ASSUME NEW h \in Handler, NEW i \in DOMAIN log, Rollback(h, i) PROVE Inductive'
  BY <1>7, RollingBack
<1>8. CASE UNCHANGED vars
  BY <1>8 DEF vars, Inductive, TypeOK, Types, MaxRequests, CreatedOnce, Creations, Prepared, Recorded,
              OneApplies, Takes
<1> QED
  BY <1>1, <1>2, <1>3, <1>4, <1>5, <1>6, <1>7, <1>8 DEF Next

-----------------------------------------------------------------------------
(* Requests that are served one at a time.                                 *)

\* What a handler is about to write starts from the override as it is.
Fresh(h) ==
  /\ work[h].action = "create" => work[h].mem = None
  /\ work[h].action # "create" => work[h].mem = row[work[h].profile]
  /\ work[h].action = "rollback" =>
       LET t == Target(log[work[h].entry])
       IN  /\ work[h].entry \in DOMAIN log
           /\ work[h].mem.state = "live"
           /\ work[h].new = [work[h].mem EXCEPT !.status = t.status, !.name = t.name, !.meta = t.meta]

\* One handler at most is about to write.
Serial ==
  /\ \A g, h \in Handler : work[g].pc = "save" /\ work[h].pc = "save" => g = h
  /\ \A h \in Handler : work[h].pc = "save" => Fresh(h)

\* The log keeps what was there before an entry, redacted.
Kept ==
  \A i \in DOMAIN log : /\ log[i].old = Redact(before[i])
                        /\ before[i] = None \/ before[i].state # "none"

TrueAccount == ~ overlap => Serial /\ Kept /\ LogIsTrue

\* Redaction changes the secrets alone, and once.
LEMMA RedactKeeps ==
  ASSUME NEW r \in Row
  PROVE  /\ Redact(r).state = r.state /\ Redact(r).status = r.status /\ Redact(r).name = r.name
         /\ Redact(Redact(r)) = Redact(r)
BY DEF Redact, Row

LEMMA RedactNone == Redact(None) = None
BY DEF Redact, None

\* An update of what was loaded just now stores what the session holds.
LEMMA UpdatedWhole == ASSUME NEW r \in Row, NEW new \in Row PROVE Updated(r, r, new) = new
BY DEF Updated, Column, Row

\* A step that leaves overrides and log alone: a request comes, or is refused.
LEMMA Serving ==
  ASSUME Inductive, TrueAccount, NEW h \in Handler, NEW w, work' = [work EXCEPT ![h] = w],
         UNCHANGED <<row, log, before, overlap>>,
         w.pc = "idle" \/ ((overlap \/ \A g \in Handler : work[g].pc = "idle") /\ Fresh(h)')
  PROVE  TrueAccount'
<1> SUFFICES ASSUME ~ overlap PROVE Serial' /\ Kept' /\ LogIsTrue'
  BY DEF TrueAccount
<1>1. /\ work'[h] = w /\ \A g \in Handler \ {h} : work'[g] = work[g]
      /\ Serial /\ Kept /\ LogIsTrue
  BY DEF Inductive, TypeOK, Types, TrueAccount
<1>2. Kept' /\ LogIsTrue'
  BY <1>1 DEF Kept, LogIsTrue, Following, EntriesOf
<1>3. Serial'
  <2>1. ASSUME NEW g \in Handler \ {h}, work'[g].pc = "save" PROVE Fresh(g)'
    <3>1. Fresh(g) /\ work'[g] = work[g]
      BY <1>1, <2>1 DEF Serial
    <3> QED BY <3>1 DEF Fresh, Target
  <2> QED BY <1>1, <2>1 DEF Serial
<1> QED BY <1>2, <1>3

\* A write, of an override that has not changed since it was loaded.
LEMMA Accounting ==
  ASSUME Inductive, TrueAccount, NEW h \in Handler, work[h].pc = "save",
         NEW p \in Profile, p = work[h].profile, Logged(h),
         ~ overlap => row' = [row EXCEPT ![p] = work[h].new],
         row[p].state = "none" <=> work[h].action = "create"
  PROVE  TrueAccount'
<1> SUFFICES ASSUME ~ overlap PROVE Serial' /\ Kept' /\ LogIsTrue'
  BY DEF TrueAccount, Logged
<1> DEFINE e == Redacted(EntryOf(h))
           m == work[h].mem
           new == work[h].new
<1>n. PICK n \in Nat : n = Len(log) + 1
  BY DEF Inductive, TypeOK, Types
<1>1. /\ m \in Row /\ new \in Row /\ e.profile = p /\ e.action = work[h].action
      /\ e.old = Redact(m) /\ e.new = Redact(new)
  BY WorkTypes, EntryType DEF Inductive, TypeOK, Redacted, EntryOf
<1>2. log' = Append(log, e) /\ before' = Append(before, m) /\ overlap' = overlap
  BY DEF Logged
<1>3. work'[h].pc = "idle" /\ \A g \in Handler \ {h} : work'[g] = work[g]
  BY AnswerType DEF Logged, Inductive, TypeOK
<1>4. row \in [Profile -> Row] /\ log \in Seq(Entry) /\ before \in Seq(Row) /\ Len(before) = Len(log)
  BY DEF Inductive, TypeOK, Types
<1>5. row'[p] = new /\ \A q \in Profile \ {p} : row'[q] = row[q]
  BY <1>4
<1>6. Serial /\ Kept /\ LogIsTrue /\ Fresh(h)
  BY DEF TrueAccount, Serial
<1>7. /\ work[h].action = "create" => m = None
      /\ work[h].action # "create" => m = row[p]
  BY <1>6 DEF Fresh
<1> HIDE DEF e, m, new
<1>8. /\ DOMAIN log' = DOMAIN log \cup {n} /\ n \in Nat /\ DOMAIN log = 1..Len(log)
      /\ log'[n] = e /\ before'[n] = m
      /\ \A i \in DOMAIN log : log'[i] = log[i] /\ before'[i] = before[i] /\ i < n /\ i \in Nat
  BY <1>n, <1>1, <1>2, <1>4
<1>9. Serial'
  BY <1>3, <1>6 DEF Serial
<1>10. Kept'
  <2>1. e.old = Redact(m) /\ (m = None \/ m.state # "none")
    BY <1>1, <1>7
  <2> QED BY <1>6, <1>8, <2>1 DEF Kept
<1>11. \A q \in Profile : EntriesOf(q)' = IF q = p THEN EntriesOf(q) \cup {n} ELSE EntriesOf(q)
  BY <1>1, <1>8 DEF EntriesOf
<1>12. EntriesOf(p) = {} <=> work[h].action = "create"
  <2>1. CASE work[h].action = "create"
    BY <2>1 DEF Inductive, Recorded, EntriesOf
  <2>2. CASE work[h].action # "create"
    BY <2>2 DEF Inductive, TypeOK, CreatedOnce, Creations, EntriesOf
  <2> QED BY <2>1, <2>2
<1>13. ASSUME NEW i \in DOMAIN log, NEW j \in DOMAIN log, Following(i, j)' PROVE log[j].old = log[i].new
  <2>0. log[i] \in Entry
    BY <1>4
  <2>1. log[i].profile \in Profile
    BY <2>0 DEF Entry
  <2>2. EntriesOf(log[i].profile) \subseteq EntriesOf(log[i].profile)' /\ log'[i] = log[i] /\ log'[j] = log[j]
    BY <1>8, <2>1 DEF EntriesOf
  <2>3. Following(i, j)
    BY <1>13, <2>2 DEF Following, EntriesOf
  <2> QED BY <1>6, <2>3 DEF LogIsTrue
<1>14. ASSUME NEW i \in DOMAIN log, Following(i, n)' PROVE e.old = log[i].new
  <2>0. log[i].profile = p /\ \A k \in DOMAIN log' : log'[k].profile = p => ~ (i < k /\ k < n)
    BY <1>1, <1>8, <1>14 DEF Following, EntriesOf
  <2>1. log[i].profile = p /\ \A k \in EntriesOf(p) : ~ (i < k)
    BY <1>8, <2>0 DEF EntriesOf
  <2>2. i \in EntriesOf(p) /\ \A k \in EntriesOf(p) : k <= i
    BY <1>8, <2>1 DEF EntriesOf
  <2>3. log[i].new = Redact(row[p])
    BY <1>6, <2>2 DEF LogIsTrue
  <2> QED BY <1>1, <1>7, <1>12, <2>2, <2>3
<1>15. ASSUME NEW i \in DOMAIN log', NEW j \in DOMAIN log', Following(i, j)' PROVE log'[j].old = log'[i].new
  <2>1. i < j
    BY <1>15 DEF Following
  <2>2. i # n
    BY <1>8, <2>1
  <2>3. i \in DOMAIN log /\ log'[i] = log[i]
    BY <1>8, <2>2
  <2>4. CASE j = n
    BY <1>8, <1>14, <1>15, <2>3, <2>4
  <2>5. CASE j \in DOMAIN log
    BY <1>8, <1>13, <1>15, <2>3, <2>5
  <2> QED BY <1>8, <2>4, <2>5
<1>16. ASSUME NEW q \in Profile, NEW i \in EntriesOf(q)'
       PROVE  /\ (\A j \in EntriesOf(q)' : i <= j) => log'[i].old = None
              /\ (\A j \in EntriesOf(q)' : j <= i) => log'[i].new = Redact(row'[q])
  <2>1. CASE q # p
    BY <1>5, <1>6, <1>8, <1>11, <1>16, <2>1 DEF LogIsTrue, EntriesOf, Redact
  <2>2. CASE q = p /\ i = n
    <3>1. ASSUME \A j \in EntriesOf(p)' : n <= j PROVE e.old = None
      <4>1. EntriesOf(p) = {}
        BY <1>8, <1>11, <3>1 DEF EntriesOf
      <4> QED BY <1>1, <1>7, <1>12, <4>1, RedactNone
    <3> QED BY <1>1, <1>5, <1>8, <2>2, <3>1 DEF Redact
  <2>3. CASE q = p /\ i # n
    <3>1. i \in EntriesOf(p) /\ log'[i] = log[i] /\ i \in Nat /\ i < n
      BY <1>8, <1>11, <2>3 DEF EntriesOf
    <3>2. n \in EntriesOf(p)' /\ EntriesOf(p) \subseteq EntriesOf(p)'
      BY <1>11
    <3>3. ~ (n <= i)
      BY <1>8, <3>1
    <3> QED BY <1>6, <2>3, <3>1, <3>2, <3>3 DEF LogIsTrue
  <2> QED BY <2>1, <2>2, <2>3
<1>17. LogIsTrue'
  <2>1. \A q \in Profile : Redact(row[q])' = Redact(row'[q])
    BY DEF Redact
  <2> QED BY <1>15, <1>16, <2>1 DEF LogIsTrue
<1> QED BY <1>9, <1>10, <1>17

\* Every step leaves a true account.
LEMMA AccountKept == Inductive /\ TrueAccount /\ [Next]_vars => TrueAccount'
<1> SUFFICES ASSUME Inductive, TrueAccount, [Next]_vars PROVE TrueAccount'
  OBVIOUS
<1>0. row \in [Profile -> Row] /\ log \in Seq(Entry)
  BY DEF Inductive, TypeOK, Types
<1>i. ASSUME NEW h \in Handler, NEW a, Answer(h, a), UNCHANGED <<row, log, before, overlap>>
      PROVE  TrueAccount'
  <2>1. PICK w : w = Idle(a)
    OBVIOUS
  <2>2. w.pc = "idle" /\ work' = [work EXCEPT ![h] = w]
    BY <1>i, <2>1 DEF Idle, Answer
  <2> QED BY <1>i, <2>2, Serving
<1>r. ASSUME NEW h \in Handler, NEW act \in {"update", "delete"}, NEW p \in Profile, NEW new, NEW i,
             Begin(h), Ready(h, act, p, new, i)
      PROVE  TrueAccount'
  <2>1. PICK w : w = [pc |-> "save", action |-> act, profile |-> p, mem |-> row[p], new |-> new,
                      entry |-> i, answer |-> "none"]
    OBVIOUS
  <2>2. work' = [work EXCEPT ![h] = w] /\ work'[h] = w /\ UNCHANGED <<row, log, before, overlap>>
    BY <1>r, <2>1 DEF Ready, Begin, Inductive, TypeOK, Types
  <2>3. Fresh(h)'
    BY <2>1, <2>2 DEF Fresh
  <2> QED BY <1>r, <2>2, <2>3, Serving DEF Begin
<1>1. ASSUME NEW h \in Handler, Insert(h) PROVE TrueAccount'
  <2>1. PICK p \in Profile : p = work[h].profile
    BY WorkTypes DEF Inductive, TypeOK
  <2> QED BY <1>1, <2>1, Accounting DEF Insert
<1>2. ASSUME NEW h \in Handler, Update(h) PROVE TrueAccount'
  <2>1. PICK p \in Profile : p = work[h].profile
    BY WorkTypes DEF Inductive, TypeOK
  <2>2. /\ work[h].pc = "save" /\ work[h].action # "create" /\ Logged(h)
        /\ row' = [row EXCEPT ![p] = Updated(row[p], work[h].mem, work[h].new)]
    BY <1>2, <2>1 DEF Update
  <2>3. row[p].state # "none"
    BY <2>1, <2>2 DEF Inductive, Prepared
  <2>4. ~ overlap => Updated(row[p], work[h].mem, work[h].new) = work[h].new
    <3>1. ~ overlap => work[h].mem = row[p]
      BY <2>1, <2>2 DEF TrueAccount, Serial, Fresh
    <3> QED BY <1>0, <2>1, <3>1, UpdatedWhole, WorkTypes DEF Inductive, TypeOK
  <2> QED BY <2>1, <2>2, <2>3, <2>4, Accounting
<1>3. ASSUME NEW h \in Handler, Refused(h) PROVE TrueAccount'
  BY <1>3, <1>i DEF Refused
<1>4. ASSUME NEW h \in Handler, NEW p \in Profile, Delete(h, p) PROVE TrueAccount'
  BY <1>4, <1>i, <1>r DEF Delete, Begin
<1>5. ASSUME NEW h \in Handler, NEW p \in Profile, NEW v \in Given, Create(h, p, v)
      PROVE  TrueAccount'
  <2>1. CASE row[p].state = "live" \/ Conflict
    BY <1>5, <1>i, <2>1 DEF Create, Begin
  <2>2. CASE ~ (row[p].state = "live" \/ Conflict)
    <3>1. PICK w : w = [pc |-> "save", action |-> "create", profile |-> p, mem |-> None,
             new |-> [state |-> "live", status |-> "active", name |-> v.name, meta |-> v.meta],
             entry |-> 0, answer |-> "none"]
      OBVIOUS
    <3>2. /\ work' = [work EXCEPT ![h] = w] /\ work'[h] = w /\ UNCHANGED <<row, log, before, overlap>>
          /\ overlap \/ \A g \in Handler : work[g].pc = "idle"
      BY <1>5, <2>2, <3>1 DEF Create, Begin, Inductive, TypeOK, Types
    <3>3. Fresh(h)'
      BY <3>1, <3>2 DEF Fresh, None
    <3> QED BY <3>2, <3>3, Serving
  <2> QED BY <2>1, <2>2
<1>6. ASSUME NEW h \in Handler, NEW p \in Profile, NEW v \in Given,
             NEW f \in SUBSET {"status", "name", "meta"}, Patch(h, p, v, f)
      PROVE  TrueAccount'
  BY <1>6, <1>i, <1>r DEF Patch, Begin
<1>7. ASSUME NEW h \in Handler, NEW i \in DOMAIN log, Rollback(h, i) PROVE TrueAccount'
  <2>1. PICK p, t : p = log[i].profile /\ t = Target(log[i])
    OBVIOUS
  <2>2. CASE row[p].state = "deleted" \/ row[p].status = "disabled"
    BY <1>7, <1>i, <2>1, <2>2 DEF Rollback, Begin
  <2>3. CASE ~ (row[p].state = "deleted" \/ row[p].status = "disabled")
    <3>1. PICK w : w = [pc |-> "save", action |-> "rollback", profile |-> p, mem |-> row[p],
             new |-> [row[p] EXCEPT !.status = t.status, !.name = t.name, !.meta = t.meta],
             entry |-> i, answer |-> "none"]
      OBVIOUS
    <3>2. /\ work' = [work EXCEPT ![h] = w] /\ work'[h] = w /\ UNCHANGED <<row, log, before, overlap>>
          /\ overlap \/ \A g \in Handler : work[g].pc = "idle"
      BY <1>7, <2>1, <2>3, <3>1 DEF Rollback, Ready, Begin, Inductive, TypeOK, Types
    <3>3. log[i] \in Entry
      BY <1>0
    <3>4. p \in Profile /\ row[p] \in Row /\ row[p].state # "none"
      BY <1>0, <2>1, <3>3 DEF Inductive, Recorded, Entry
    <3>5. row[p].state = "live"
      BY <2>3, <3>4 DEF Row
    <3>6. /\ w.mem = row[p] /\ w.entry = i /\ w.profile = p /\ w.action = "rollback"
          /\ w.new = [row[p] EXCEPT !.status = t.status, !.name = t.name, !.meta = t.meta]
      BY <3>1
    <3>7. Fresh(h)'
      <4>1. w.new = [w.mem EXCEPT !.status = t.status, !.name = t.name, !.meta = t.meta]
        BY <3>6
      <4>2. Target(log[i])' = t /\ work'[h].entry = i /\ DOMAIN log' = DOMAIN log
        BY <2>1, <3>2, <3>6 DEF Target
      <4> QED BY <2>1, <3>2, <3>5, <3>6, <4>1, <4>2 DEF Fresh
    <3> QED BY <3>2, <3>7, Serving
  <2> QED BY <2>2, <2>3
<1>8. CASE UNCHANGED vars
  <2>1. UNCHANGED <<row, log, before, work, overlap>>
    BY <1>8 DEF vars
  <2>2. \A h \in Handler : Fresh(h) => Fresh(h)'
    BY <2>1 DEF Fresh, Target
  <2> QED BY <2>1, <2>2 DEF TrueAccount, Serial, Kept, LogIsTrue, Following, EntriesOf, Redact
<1> QED
  BY <1>1, <1>2, <1>3, <1>4, <1>5, <1>6, <1>7, <1>8 DEF Next

LEMMA AccountAlways == Spec => [](Inductive /\ TrueAccount)
<1>1. Init => TrueAccount
  <2> SUFFICES ASSUME Init PROVE Serial /\ Kept /\ LogIsTrue
    BY DEF TrueAccount
  <2>1. \A h \in Handler : work[h].pc = "idle"
    BY DEF Init, Idle
  <2>2. DOMAIN log = {}
    BY DEF Init
  <2> QED BY <2>1, <2>2 DEF Serial, Kept, LogIsTrue, EntriesOf
<1> QED
  BY <1>1, Initially, Preserved, AccountKept, PTL DEF Spec

-----------------------------------------------------------------------------

\* Whatever requests overlap, overrides, log and handlers keep their types and
\* each override has one creation on record
\* (repositories/processing_profile.py:170-223).
THEOREM ProfilesTypeCorrect == Spec => []TypeOK
<1>1. Inductive => TypeOK
  BY DEF Inductive
<1> QED
  BY <1>1, Initially, Preserved, PTL DEF Spec

\* Whatever requests overlap, one override at most applies to a pair of extension
\* and task type (the index of migration 20260509_0003).
THEOREM OneOverrideApplies == Spec => []OneApplies
<1>1. Inductive => OneApplies
  BY DEF Inductive
<1> QED
  BY <1>1, Initially, Preserved, PTL DEF Spec

\* Served one at a time, requests leave a log that is a true account, for any
\* number of them (repositories/processing_profile.py:245, 289, 456).
THEOREM LogTellsTheTruth == Spec => []LogIsTrue
<1>1. TrueAccount => LogIsTrue
  BY DEF TrueAccount, LogIsTrue
<1> QED
  BY <1>1, AccountAlways, PTL

\* Served one at a time, a rollback brings back what was there before the entry
\* it names (repositories/processing_profile.py:447-482).
THEOREM RollbacksRestore == Spec => RollbackRestores
<1>1. ASSUME Inductive, TrueAccount, NEW h \in Handler,
             ~ overlap, Update(h), work[h].action = "rollback", before[work[h].entry] # None
      PROVE  /\ row'[work[h].profile].status = before[work[h].entry].status
             /\ row'[work[h].profile].name = before[work[h].entry].name
             /\ Redact(row'[work[h].profile]).meta = Redact(before[work[h].entry]).meta
             /\ row'[work[h].profile].state = "live"
  <2>1. PICK p, m, new, i :
          /\ p \in Profile /\ p = work[h].profile
          /\ m = work[h].mem /\ new = work[h].new /\ i = work[h].entry
    BY <1>1, WorkTypes DEF Inductive, TypeOK
  <2>2. PICK b : b = before[i]
    OBVIOUS
  <2>3. Fresh(h) /\ Kept
    BY <1>1 DEF TrueAccount, Serial, Update
  <2>4. /\ m = row[p] /\ i \in DOMAIN log /\ m.state = "live"
        /\ new = [m EXCEPT !.status = Target(log[i]).status, !.name = Target(log[i]).name,
                           !.meta = Target(log[i]).meta]
    BY <1>1, <2>1, <2>3 DEF Fresh
  <2>5. b \in Row /\ b # None /\ b.state # "none" /\ log[i].old = Redact(b)
    BY <1>1, <2>1, <2>2, <2>3, <2>4 DEF Kept, Inductive, TypeOK, Types
  <2>6. Target(log[i]) = Redact(b)
    BY <2>5, RedactKeeps DEF Target, None
  <2>7. m \in Row /\ new \in Row
    BY <1>1, <2>1, WorkTypes DEF Inductive, TypeOK
  <2>8. row'[p] = new
    <3>1. row' = [row EXCEPT ![p] = Updated(row[p], m, new)]
      BY <1>1, <2>1 DEF Update
    <3>2. p \in Profile /\ row \in [Profile -> Row] /\ row[p] = m
      BY <1>1, <2>1, <2>4 DEF Inductive, TypeOK, Types
    <3>3. Updated(row[p], m, new) = new
      BY <2>4, <2>7, <3>2, UpdatedWhole
    <3> QED BY <3>1, <3>2, <3>3
  <2>9. new.status = b.status /\ new.name = b.name /\ new.meta = Redact(b).meta /\ new.state = "live"
    BY <2>4, <2>5, <2>6, <2>7, RedactKeeps DEF Row
  <2>10. Redact(new).meta = Redact(b).meta
    BY <2>5, <2>7, <2>9 DEF Redact, Row, Meta
  <2> QED BY <2>1, <2>2, <2>8, <2>9, <2>10
<1>2. Inductive /\ TrueAccount /\ [Next]_vars =>
        [\A h \in Handler :
           ~ overlap /\ Update(h) /\ work[h].action = "rollback" /\ before[work[h].entry] # None
             => LET p == work[h].profile
                    b == before[work[h].entry]
                IN  /\ row'[p].status = b.status /\ row'[p].name = b.name
                    /\ Redact(row'[p]).meta = Redact(b).meta
                    /\ row'[p].state = "live"]_vars
  BY <1>1
<1> QED
  BY <1>2, AccountAlways, PTL DEF Spec, RollbackRestores

-----------------------------------------------------------------------------
(* Accounts.                                                               *)

Requests ==
  [kind: Kind, no: Number, user: User, mem: UserRow, first: BOOLEAN,
   with: SUBSET Invitation, seen: SUBSET Number, backup: BOOLEAN, alone: BOOLEAN]

UnderWay(s) == request[s].kind # "idle"

\* A user some of whose credentials come of requests that overlapped.
Tainted(u) == \E k \in credentials : k.user = u /\ ~ k.alone

\* Requests under way at a time have numbers of their own, and are not alone.
Overlapping ==
  /\ \A s \in Slot : request[s].no <= begun /\ (~ UnderWay(s) => request[s] = NoRequest)
  /\ \A s, t \in Slot : s # t /\ UnderWay(s) /\ UnderWay(t) =>
       ~ request[s].alone /\ request[s].no # request[t].no

\* Of an erased user there is a live credential, or a request that can make
\* one, only if requests overlapped; an erasure has seen what it has to revoke,
\* or requests overlap.
ErasureInv ==
  /\ ErasureIsComplete
  /\ \A s \in Slot : UnderWay(s) /\ request[s].kind # "erase"
       /\ user[request[s].user].status = "deleted" =>
         ~ request[s].alone \/ Tainted(request[s].user)
  /\ \A s \in Slot : request[s].kind = "erase" =>
       \A c \in Live(request[s].user) : c.no \notin request[s].seen => Tainted(request[s].user)

\* An invitation that let somebody in is not pending; a registration that was
\* let in by it too overlapped with the other.
InvitationInv ==
  /\ InvitationServesOne
  /\ \A j \in joined : invitation[j.invitation].status \notin {"none", "pending"}
  /\ \A s \in Slot : \A j \in joined : j.invitation \in request[s].with =>
       ~ j.alone /\ ~ request[s].alone

\* A number that no account, no request and no use knows as a code.
NewCode(n) ==
  /\ \A u \in User : n \notin user[u].codes
  /\ \A s \in Slot : n \notin request[s].mem.codes
  /\ \A a \in uses : a.code # n

\* Codes belong to one user; those that were accepted are nobody's any more.
CodeInv ==
  /\ BackupCodeOnce
  /\ \A n \in Number : n > begun => NewCode(n)
  /\ \A s \in Slot : request[s].kind = "setup" => NewCode(request[s].no)
  /\ \A u, w \in User : u # w => user[u].codes \cap user[w].codes = {}
  /\ \A s \in Slot, u \in User :
       u # request[s].user => request[s].mem.codes \cap user[u].codes = {}
  /\ \A a \in uses, u \in User : a.code \notin user[u].codes
  /\ \A a \in uses, s \in Slot : a.code \in request[s].mem.codes =>
       ~ a.alone /\ ~ request[s].alone

AccountsInv ==
  /\ AccountsTypeOK
  /\ Overlapping
  /\ ErasureInv
  /\ InvitationInv
  /\ CodeInv

-----------------------------------------------------------------------------
(* Types.                                                                  *)

\* What the type invariant says of one request.
LEMMA RequestTypes ==
  ASSUME AccountsTypeOK
  PROVE  /\ request \in [Slot -> Requests] /\ user \in [User -> UserRow]
         /\ begun \in Number /\ begun \in Nat /\ MaxAsked \in Nat /\ Number \subseteq Nat
         /\ \A s \in Slot :
              /\ request[s] \in Requests /\ request[s].user \in User
              /\ request[s].no \in Number /\ request[s].no \in Nat
              /\ request[s].mem \in UserRow /\ request[s].mem.codes \subseteq Number
              /\ request[s].alone \in BOOLEAN /\ request[s].with \subseteq Invitation
BY AccountsAssumption DEF AccountsTypeOK, Requests, Number, UserRow

\* A slot without a request.
LEMMA NoRequestType ==
  /\ NoRequest \in Requests /\ NoRequest.kind = "idle" /\ NoRequest.no = 0
  /\ NoRequest.mem.codes = {} /\ NoRequest.with = {} /\ NoRequest.seen = {}
  /\ NoRow \in UserRow /\ \A mfa \in BOOLEAN : Active(mfa) \in UserRow
<1>1. Some(User) \in User
  BY AccountsAssumption DEF Some
<1>2. 0 \in Number
  BY AccountsAssumption DEF Number
<1>3. NoRow \in UserRow /\ NoRow.codes = {}
  BY DEF NoRow, UserRow
<1>4. \A mfa \in BOOLEAN : Active(mfa) \in UserRow
  BY <1>2 DEF Active, UserRow
<1> QED
  BY <1>1, <1>2, <1>3, <1>4 DEF NoRequest, Requests, Kind

-----------------------------------------------------------------------------
(* Requests that begin.                                                    *)

\* What beginning a request does: it has a number of its own, and if it is not
\* alone neither is any other.
LEMMA Begun ==
  ASSUME AccountsInv, NEW s \in Slot, NEW r \in Requests, r.kind # "idle", Read(s, r)
  PROVE  /\ request' \in [Slot -> Requests] /\ begun' = begun + 1 /\ begun' \in Number
         /\ request'[s].kind = r.kind /\ request'[s].user = r.user
         /\ request'[s].with = r.with /\ request'[s].seen = r.seen
         /\ request'[s].no = begun + 1 /\ request'[s].mem = user[r.user]
         /\ \A t \in Slot \ {s} :
              /\ request'[t].kind = request[t].kind /\ request'[t].user = request[t].user
              /\ request'[t].with = request[t].with /\ request'[t].seen = request[t].seen
              /\ request'[t].no = request[t].no /\ request'[t].mem = request[t].mem
              /\ ~ UnderWay(t) => request'[t] = request[t]
              /\ UnderWay(t) => ~ request'[t].alone /\ ~ request'[s].alone
              /\ ~ request[t].alone => ~ request'[t].alone
         /\ UNCHANGED <<user, member, invitation, credentials, joined, uses>>
<1>1. PICK others \in SUBSET Slot : others = {t \in Slot : request[t].kind # "idle"}
  OBVIOUS
<1>2. PICK m : m = user[r.user]
  OBVIOUS
<1>3. /\ request \in [Slot -> Requests] /\ begun \in Nat /\ MaxAsked \in Nat
      /\ begun < MaxAsked /\ begun' = begun + 1 /\ m \in UserRow /\ request[s].kind = "idle"
  BY <1>2, RequestTypes DEF AccountsInv, Read, BeginRequest, Requests
<1>4. PICK n \in Number : n = begun + 1
  BY <1>3 DEF Number
<1>5. PICK alone \in BOOLEAN : alone = (others = {})
  OBVIOUS
<1>6. PICK q : q = [r EXCEPT !.no = n, !.mem = m, !.alone = alone]
  OBVIOUS
<1>7. request' = [t \in Slot |-> IF t = s THEN q
                    ELSE IF t \in others THEN [request[t] EXCEPT !.alone = FALSE] ELSE request[t]]
  BY <1>1, <1>2, <1>3, <1>4, <1>5, <1>6 DEF Read, BeginRequest
<1>8. /\ q \in Requests /\ q.kind = r.kind /\ q.user = r.user /\ q.with = r.with
      /\ q.seen = r.seen /\ q.no = n /\ q.mem = m /\ q.alone = alone
  BY <1>3, <1>6 DEF Requests
<1>9. \A t \in Slot \ {s} :
        /\ request'[t] \in Requests
        /\ request'[t].kind = request[t].kind /\ request'[t].user = request[t].user
        /\ request'[t].with = request[t].with /\ request'[t].seen = request[t].seen
        /\ request'[t].no = request[t].no /\ request'[t].mem = request[t].mem
        /\ t \notin others => request'[t] = request[t]
        /\ t \in others => ~ request'[t].alone
  BY <1>3, <1>7 DEF Requests
<1>10. request' \in [Slot -> Requests] /\ request'[s] = q
  BY <1>7, <1>8, <1>9
<1>11. \A t \in Slot \ {s} : UnderWay(t) => ~ alone /\ t \in others
  BY <1>1, <1>5 DEF UnderWay
<1>12. \A t \in Slot \ {s} : /\ ~ UnderWay(t) => t \notin others
                             /\ ~ request[t].alone => ~ request'[t].alone
  BY <1>1, <1>9 DEF UnderWay
<1> QED
  BY <1>2, <1>3, <1>4, <1>8, <1>9, <1>10, <1>11, <1>12 DEF Read

\* A request that begins for a user who is not erased, or is tainted; that has
\* seen all there is to revoke; and with no invitation that has served.
LEMMA BeginKeeps ==
  ASSUME AccountsInv, NEW s \in Slot, NEW r \in Requests, r.kind # "idle", Read(s, r),
         r.kind # "erase" => user[r.user].status # "deleted" \/ Tainted(r.user),
         r.kind = "erase" => \A c \in Live(r.user) : c.no \in r.seen,
         \A i \in r.with : Pending(i)
  PROVE  AccountsInv'
<1>1. /\ request' \in [Slot -> Requests] /\ begun' = begun + 1 /\ begun' \in Number
      /\ request'[s].kind = r.kind /\ request'[s].user = r.user
      /\ request'[s].with = r.with /\ request'[s].seen = r.seen
      /\ request'[s].no = begun + 1 /\ request'[s].mem = user[r.user]
      /\ UNCHANGED <<user, member, invitation, credentials, joined, uses>>
  BY Begun
<1>2. \A t \in Slot \ {s} :
        /\ request'[t].kind = request[t].kind /\ request'[t].user = request[t].user
        /\ request'[t].with = request[t].with /\ request'[t].seen = request[t].seen
        /\ request'[t].no = request[t].no /\ request'[t].mem = request[t].mem
        /\ ~ UnderWay(t) => request'[t] = request[t]
        /\ UnderWay(t) => ~ request'[t].alone /\ ~ request'[s].alone
        /\ ~ request[t].alone => ~ request'[t].alone
  BY Begun
<1>3. /\ begun \in Nat /\ Number \subseteq Nat /\ r.user \in User
      /\ \A t \in Slot : request[t].no \in Nat /\ request[t].user \in User
  BY RequestTypes DEF AccountsInv, Requests
<1>4. AccountsTypeOK'
  BY <1>1 DEF AccountsInv, AccountsTypeOK, Requests
<1>5. Overlapping'
  <2>1. ASSUME NEW t \in Slot
        PROVE  request'[t].no <= begun' /\ (request'[t].kind = "idle" => request'[t] = NoRequest)
    BY <1>1, <1>2, <1>3 DEF AccountsInv, Overlapping, UnderWay
  <2>2. ASSUME NEW t \in Slot, NEW x \in Slot, t # x, request'[t].kind # "idle",
               request'[x].kind # "idle"
        PROVE  ~ request'[t].alone /\ request'[t].no # request'[x].no
    <3>1. \A y \in Slot : request[y].no <= begun
      BY DEF AccountsInv, Overlapping
    <3>2. CASE t = s
      BY <1>1, <1>2, <1>3, <2>2, <3>1, <3>2 DEF UnderWay
    <3>3. CASE x = s
      BY <1>1, <1>2, <1>3, <2>2, <3>1, <3>3 DEF UnderWay
    <3>4. CASE t # s /\ x # s
      BY <1>2, <2>2, <3>4 DEF AccountsInv, Overlapping, UnderWay
    <3> QED
      BY <3>2, <3>3, <3>4
  <2> QED
    BY <2>1, <2>2 DEF Overlapping, UnderWay
<1>6. ErasureInv'
  <2>1. ErasureIsComplete' /\ \A u \in User : Tainted(u) => Tainted(u)'
    BY <1>1 DEF AccountsInv, ErasureInv, ErasureIsComplete, Tainted
  <2>2. ASSUME NEW t \in Slot, request'[t].kind \notin {"idle", "erase"},
               user[request'[t].user].status = "deleted"
        PROVE  ~ request'[t].alone \/ Tainted(request'[t].user)
    <3>1. CASE t = s
      BY <1>1, <2>2, <3>1
    <3>2. CASE t # s
      BY <1>2, <2>2, <3>2 DEF AccountsInv, ErasureInv, UnderWay
    <3> QED
      BY <3>1, <3>2
  <2>3. ASSUME NEW t \in Slot, request'[t].kind = "erase",
               NEW c \in Live(request'[t].user), c.no \notin request'[t].seen
        PROVE  Tainted(request'[t].user)
    <3>1. CASE t = s
      BY <1>1, <2>3, <3>1
    <3>2. CASE t # s
      BY <1>2, <2>3, <3>2 DEF AccountsInv, ErasureInv
    <3> QED
      BY <3>1, <3>2
  <2> QED
    BY <1>1, <2>1, <2>2, <2>3 DEF ErasureInv, UnderWay, Tainted, Live
<1>7. InvitationInv'
  <2>1. InvitationServesOne' /\ \A j \in joined : invitation[j.invitation].status # "pending"
    BY <1>1 DEF AccountsInv, InvitationInv, InvitationServesOne
  <2>2. ASSUME NEW t \in Slot, NEW j \in joined, j.invitation \in request'[t].with
        PROVE  ~ j.alone /\ ~ request'[t].alone
    <3>1. CASE t = s
      BY <1>1, <2>1, <2>2, <3>1 DEF Pending
    <3>2. CASE t # s
      BY <1>2, <2>2, <3>2 DEF AccountsInv, InvitationInv
    <3> QED
      BY <3>1, <3>2
  <2> QED
    BY <1>1, <2>1, <2>2 DEF AccountsInv, InvitationInv
<1>8. CodeInv'
  <2>1. /\ \A n \in Number : n > begun => NewCode(n)
        /\ \A t \in Slot : request[t].kind = "setup" => NewCode(request[t].no)
    BY DEF AccountsInv, CodeInv
  <2>2. ASSUME NEW n, NewCode(n) PROVE NewCode(n)'
    BY <1>1, <1>2, <1>3, <2>2 DEF NewCode
  <2>3. \A n \in Number : n > begun + 1 => NewCode(n)'
    <3> SUFFICES ASSUME NEW n \in Number, n > begun + 1 PROVE NewCode(n)'
      OBVIOUS
    <3>1. n > begun
      BY <1>3
    <3> QED
      BY <2>1, <2>2, <3>1
  <2>4. ASSUME NEW t \in Slot, request'[t].kind = "setup" PROVE NewCode(request[t].no)'
    <3>1. CASE t = s
      <4>1. begun + 1 \in Number /\ begun + 1 > begun
        BY <1>1, <1>3
      <4>2. NewCode(begun + 1)
        BY <2>1, <4>1
      <4>3. PICK n : n = begun + 1
        OBVIOUS
      <4>4. NewCode(n)' /\ request'[t].no = n
        BY <1>1, <2>2, <3>1, <4>2, <4>3
      <4> QED
        BY <4>4 DEF NewCode
    <3>2. CASE t # s
      <4>1. PICK n : n = request[t].no
        OBVIOUS
      <4>2. NewCode(n)' /\ request'[t].no = n
        BY <1>2, <2>1, <2>2, <2>4, <3>2, <4>1
      <4> QED
        BY <4>2 DEF NewCode
    <3> QED
      BY <3>1, <3>2
  <2>5. /\ BackupCodeOnce'
        /\ \A u, w \in User : u # w => user[u].codes \cap user[w].codes = {}
        /\ \A a \in uses, u \in User : a.code \notin user[u].codes
    BY <1>1 DEF AccountsInv, CodeInv, BackupCodeOnce
  <2>6. ASSUME NEW t \in Slot, NEW u \in User, u # request'[t].user
        PROVE  request'[t].mem.codes \cap user[u].codes = {}
    <3>1. CASE t = s
      BY <1>1, <1>3, <2>5, <2>6, <3>1
    <3>2. CASE t # s
      BY <1>2, <2>6, <3>2 DEF AccountsInv, CodeInv
    <3> QED
      BY <3>1, <3>2
  <2>7. ASSUME NEW a \in uses, NEW t \in Slot, a.code \in request'[t].mem.codes
        PROVE  ~ a.alone /\ ~ request'[t].alone
    <3>1. CASE t = s
      BY <1>1, <1>3, <2>5, <2>7, <3>1
    <3>2. CASE t # s
      BY <1>2, <2>7, <3>2 DEF AccountsInv, CodeInv
    <3> QED
      BY <3>1, <3>2
  <2> QED
    BY <1>1, <2>3, <2>4, <2>5, <2>6, <2>7 DEF CodeInv
<1> QED
  BY <1>4, <1>5, <1>6, <1>7, <1>8 DEF AccountsInv

\* Every request that begins keeps the invariant.
LEMMA StartStep ==
  ASSUME AccountsInv, NEW s \in Slot, NEW u \in User,
         \/ \E with \in {{}} \cup {{i} : i \in Invitation} : StartRegister(s, u, with)
         \/ StartExternal(s, u) \/ StartLogin(s, u) \/ StartSetup(s, u) \/ StartConfirm(s, u)
         \/ StartKey(s, u) \/ StartErase(s, u)
         \/ \E backup \in BOOLEAN : StartDisable(s, u, backup)
  PROVE  AccountsInv'
<1>1. \A kind \in Kind : /\ Of(kind, u) \in Requests /\ Of(kind, u).kind = kind
                         /\ Of(kind, u).user = u /\ Of(kind, u).with = {}
  BY NoRequestType DEF Of, Requests
<1>2. LoggedIn(u) => user[u].status # "deleted" \/ Tainted(u)
  BY DEF LoggedIn, Live, AccountsInv, ErasureInv, ErasureIsComplete, Tainted
<1>3. CASE \E with \in {{}} \cup {{i} : i \in Invitation} : StartRegister(s, u, with)
  <2>1. PICK with \in {{}} \cup {{i} : i \in Invitation} : StartRegister(s, u, with)
    BY <1>3
  <2>2. PICK first \in BOOLEAN : first = NoMembers
    BY DEF NoMembers
  <2>3. PICK r : r = [Of("register", u) EXCEPT !.with = with, !.first = first]
    OBVIOUS
  <2>4. with \subseteq Invitation /\ "register" \in Kind
    BY <2>1 DEF Kind
  <2>5. r \in Requests /\ r.kind = "register" /\ r.user = u /\ r.with = with
    <3>1. PICK o \in Requests : o = Of("register", u) /\ o.kind = "register" /\ o.user = u
      BY <1>1, <2>4
    <3> QED
      BY <2>2, <2>3, <2>4, <3>1 DEF Requests
  <2>6. Read(s, r) /\ user[u].status # "deleted" /\ \A i \in with : Pending(i)
    BY <2>1, <2>2, <2>3 DEF StartRegister
  <2> QED
    BY <2>5, <2>6, BeginKeeps
<1>4. ASSUME NEW kind \in {"login", "setup", "confirm", "key"}, Read(s, Of(kind, u)),
             user[u].status # "deleted" \/ Tainted(u)
      PROVE  AccountsInv'
  <2>1. PICK r : r = Of(kind, u)
    OBVIOUS
  <2>2. kind \in Kind
    BY DEF Kind
  <2>3. r \in Requests /\ r.kind = kind /\ r.user = u /\ r.with = {}
    BY <1>1, <2>1, <2>2
  <2> QED
    BY <1>4, <2>1, <2>3, BeginKeeps
<1>5. CASE StartExternal(s, u) \/ StartLogin(s, u) \/ StartSetup(s, u) \/ StartConfirm(s, u)
           \/ StartKey(s, u)
  <2>1. CASE StartExternal(s, u)
    <3>1. PICK first \in BOOLEAN : first = NoMembers
      BY DEF NoMembers
    <3>2. PICK r : r = [Of("external", u) EXCEPT !.first = first]
      OBVIOUS
    <3>3. "external" \in Kind
      BY DEF Kind
    <3>4. r \in Requests /\ r.kind = "external" /\ r.user = u /\ r.with = {}
      BY <1>1, <3>2, <3>3 DEF Requests
    <3>5. Read(s, r) /\ user[u].status # "deleted"
      BY <2>1, <3>1, <3>2 DEF StartExternal
    <3> QED
      BY <3>4, <3>5, BeginKeeps
  <2>2. CASE StartLogin(s, u)
    <3>1. Read(s, Of("login", u)) /\ user[u].status # "deleted"
      BY <2>2 DEF StartLogin
    <3> QED
      BY <1>4, <3>1
  <2>3. CASE StartSetup(s, u)
    <3>1. Read(s, Of("setup", u)) /\ LoggedIn(u)
      BY <2>3 DEF StartSetup
    <3> QED
      BY <1>2, <1>4, <3>1
  <2>4. CASE StartConfirm(s, u)
    <3>1. Read(s, Of("confirm", u)) /\ LoggedIn(u)
      BY <2>4 DEF StartConfirm
    <3> QED
      BY <1>2, <1>4, <3>1
  <2>5. CASE StartKey(s, u)
    <3>1. Read(s, Of("key", u)) /\ LoggedIn(u)
      BY <2>5 DEF StartKey
    <3> QED
      BY <1>2, <1>4, <3>1
  <2> QED
    BY <1>5, <2>1, <2>2, <2>3, <2>4, <2>5
<1>6. CASE StartErase(s, u)
  <2>1. PICK seen : seen = {c.no : c \in Live(u)}
    OBVIOUS
  <2>2. PICK r : r = [Of("erase", u) EXCEPT !.seen = seen]
    OBVIOUS
  <2>3. seen \subseteq Number /\ "erase" \in Kind
    BY <2>1 DEF Live, AccountsInv, AccountsTypeOK, Credential, Kind
  <2>4. r \in Requests /\ r.kind = "erase" /\ r.user = u /\ r.with = {} /\ r.seen = seen
    BY <1>1, <2>2, <2>3 DEF Requests
  <2>5. Read(s, r) /\ \A c \in Live(u) : c.no \in seen
    BY <1>6, <2>1, <2>2 DEF StartErase
  <2> QED
    BY <2>4, <2>5, BeginKeeps
<1>7. CASE \E backup \in BOOLEAN : StartDisable(s, u, backup)
  <2>1. PICK backup \in BOOLEAN : StartDisable(s, u, backup)
    BY <1>7
  <2>2. PICK r : r = [Of("disable", u) EXCEPT !.backup = backup]
    OBVIOUS
  <2>3. "disable" \in Kind
    BY DEF Kind
  <2>4. r \in Requests /\ r.kind = "disable" /\ r.user = u /\ r.with = {}
    BY <1>1, <2>2, <2>3 DEF Requests
  <2>5. Read(s, r) /\ LoggedIn(u)
    BY <2>1, <2>2 DEF StartDisable
  <2> QED
    BY <1>2, <2>4, <2>5, BeginKeeps
<1> QED
  BY <1>3, <1>5, <1>6, <1>7

\* The second factor is asked of one who has a live credential.
LEMMA ChallengeStart ==
  ASSUME AccountsInv, NEW s \in Slot, NEW c \in credentials, NEW backup \in BOOLEAN,
         StartChallenge(s, c, backup)
  PROVE  AccountsInv'
<1>1. c.user \in User /\ c.no \in Number /\ "challenge" \in Kind
  BY DEF AccountsInv, AccountsTypeOK, Credential, Kind
<1>2. PICK u \in User : u = c.user
  BY <1>1
<1>3. PICK seen \in SUBSET Number : seen = {c.no}
  BY <1>1
<1>4. PICK r : r = [Of("challenge", u) EXCEPT !.seen = seen, !.backup = backup]
  OBVIOUS
<1>5. r \in Requests /\ r.kind = "challenge" /\ r.user = u /\ r.with = {}
  BY <1>1, <1>4, NoRequestType DEF Of, Requests
<1>6. user[u].status # "deleted" \/ Tainted(u)
  BY <1>2 DEF StartChallenge, AccountsInv, ErasureInv, ErasureIsComplete, Tainted
<1>7. Read(s, r)
  BY <1>2, <1>3, <1>4 DEF StartChallenge
<1> QED
  BY <1>5, <1>6, <1>7, BeginKeeps

-----------------------------------------------------------------------------
(* Requests that end.                                                      *)

\* A slot is free again.
LEMMA Ended ==
  ASSUME AccountsInv, NEW s \in Slot, End(s), UNCHANGED begun
  PROVE  /\ request' \in [Slot -> Requests] /\ Overlapping'
         /\ request'[s] = NoRequest /\ \A t \in Slot \ {s} : request'[t] = request[t]
<1>1. request \in [Slot -> Requests] /\ begun \in Nat
  BY RequestTypes DEF AccountsInv
<1>2. /\ request' \in [Slot -> Requests] /\ request'[s] = NoRequest
      /\ \A t \in Slot \ {s} : request'[t] = request[t]
  BY <1>1, NoRequestType DEF End
<1>3. NoRequest.no <= begun
  BY <1>1, NoRequestType
<1> QED
  BY <1>2, <1>3, NoRequestType DEF AccountsInv, Overlapping, UnderWay

\* An end that erases nobody: the credentials there are go on or are revoked,
\* and what it grants is its own user's and no more alone than it is.
LEMMA EndErasure ==
  ASSUME AccountsInv, NEW s \in Slot, End(s), UNCHANGED begun, UnderWay(s),
         \A u \in User : user'[u].status = "deleted" => user[u].status = "deleted",
         \A c \in credentials' :
           \/ \E k \in credentials : k.user = c.user /\ k.no = c.no /\ (c.live => k.live)
           \/ /\ request[s].kind # "erase"
              /\ c.user = request[s].user /\ c.alone = request[s].alone,
         \A k \in credentials : \E c \in credentials' : c.user = k.user /\ c.alone = k.alone
  PROVE  ErasureInv'
<1> DEFINE ThenTainted(u) == \E k \in credentials' : k.user = u /\ ~ k.alone
<1>1. /\ request'[s] = NoRequest /\ \A t \in Slot \ {s} : request'[t] = request[t]
      /\ NoRequest.kind = "idle"
  BY Ended, NoRequestType
<1>2. \A u : Tainted(u) => ThenTainted(u)
  BY DEF Tainted
<1>3. /\ \A t \in Slot : request[t].user \in User
      /\ \A c \in credentials : c.user \in User
  BY RequestTypes DEF AccountsInv, AccountsTypeOK, Credential
<1>4. \A c \in credentials' : c.user = request[s].user /\ c.alone = request[s].alone
        /\ ~ request[s].alone => ThenTainted(request[s].user)
  BY DEF Tainted
<1>5. ASSUME NEW c \in credentials', c.live, user'[c.user].status = "deleted"
      PROVE  ThenTainted(c.user)
  <2>1. CASE \E k \in credentials : k.user = c.user /\ k.no = c.no /\ (c.live => k.live)
    BY <1>2, <1>3, <1>5, <2>1 DEF AccountsInv, ErasureInv, ErasureIsComplete, Tainted
  <2>2. CASE /\ request[s].kind # "erase"
             /\ c.user = request[s].user /\ c.alone = request[s].alone
    <3>1. ~ request[s].alone \/ Tainted(request[s].user)
      BY <1>3, <1>5, <2>2 DEF AccountsInv, ErasureInv
    <3> QED
      BY <1>2, <1>4, <2>2, <3>1 DEF Tainted
  <2> QED
    BY <2>1, <2>2
<1>6. ErasureIsComplete'
  BY <1>5 DEF ErasureIsComplete, Tainted
<1>7. ASSUME NEW t \in Slot, UnderWay(t)', request'[t].kind # "erase",
             user'[request'[t].user].status = "deleted"
      PROVE  ~ request'[t].alone \/ ThenTainted(request'[t].user)
  <2>1. t # s /\ request'[t] = request[t]
    BY <1>1, <1>7 DEF UnderWay
  <2> QED
    BY <1>2, <1>3, <1>7, <2>1 DEF AccountsInv, ErasureInv, UnderWay, Tainted
<1>8. ASSUME NEW t \in Slot, request'[t].kind = "erase", NEW c \in credentials',
             c.user = request'[t].user, c.live, c.no \notin request'[t].seen
      PROVE  ThenTainted(request'[t].user)
  <2>1. t # s /\ request'[t] = request[t] /\ UnderWay(t)
    BY <1>1, <1>8 DEF UnderWay
  <2>2. CASE \E k \in credentials : k.user = c.user /\ k.no = c.no /\ (c.live => k.live)
    <3>1. Tainted(request[t].user)
      BY <1>8, <2>1, <2>2 DEF AccountsInv, ErasureInv, Live
    <3> QED
      BY <1>2, <2>1, <3>1 DEF Tainted
  <2>3. CASE c.user = request[s].user /\ c.alone = request[s].alone
    <3>1. ~ request[s].alone
      BY <2>1 DEF AccountsInv, Overlapping
    <3> QED
      BY <1>8, <2>3, <3>1 DEF Tainted
  <2> QED
    BY <2>2, <2>3
<1> QED
  BY <1>6, <1>7, <1>8 DEF ErasureInv, Live, UnderWay, Tainted

\* An end that lets nobody in by an invitation.
LEMMA EndInvitation ==
  ASSUME AccountsInv, NEW s \in Slot, End(s), UNCHANGED <<begun, invitation, joined>>
  PROVE  InvitationInv'
<1>1. /\ request'[s] = NoRequest /\ \A t \in Slot \ {s} : request'[t] = request[t]
      /\ NoRequest.with = {}
  BY Ended, NoRequestType
<1> QED
  BY <1>1 DEF AccountsInv, InvitationInv, InvitationServesOne

\* An end that leaves its user no code but a new one of a set-up, and uses up
\* what it has accepted.
LEMMA EndCodes ==
  ASSUME AccountsInv, NEW s \in Slot, End(s), UNCHANGED begun, UnderWay(s),
         \A u \in User : user'[u].codes \subseteq
           user[u].codes \cup (IF u = request[s].user /\ request[s].kind = "setup"
                               THEN {request[s].no} ELSE {}),
         NEW X, uses' = uses \cup X,
         \A a \in X : /\ a.code \in request[s].mem.codes
                      /\ a.no = request[s].no /\ a.alone = request[s].alone
                      /\ a.code \notin user'[request[s].user].codes
  PROVE  CodeInv'
<1> DEFINE r == request[s]
<1>1. /\ request'[s] = NoRequest /\ \A t \in Slot \ {s} : request'[t] = request[t]
      /\ NoRequest.kind = "idle" /\ NoRequest.mem.codes = {}
  BY Ended, NoRequestType
<1>2. /\ r.user \in User /\ r.no \in Nat /\ r.no <= begun /\ begun \in Nat /\ Number \subseteq Nat
  BY RequestTypes DEF AccountsInv, Overlapping
<1>3. r.kind = "setup" => NewCode(r.no)
  BY DEF AccountsInv, CodeInv
<1>4. \A t \in Slot \ {s} : UnderWay(t) => ~ r.alone /\ ~ request[t].alone /\ r.no # request[t].no
  BY DEF AccountsInv, Overlapping
<1>5. \A t \in Slot \ {s} : ~ UnderWay(t) => request[t].mem.codes = {} /\ request[t].kind = "idle"
  BY NoRequestType DEF AccountsInv, Overlapping
<1>6. BackupCodeOnce'
  <2> SUFFICES ASSUME NEW a \in uses', NEW b \in uses', a.code = b.code, a.no # b.no
               PROVE  ~ a.alone
    BY DEF BackupCodeOnce
  <2>1. CASE a \in uses /\ b \in uses
    BY <2>1 DEF AccountsInv, CodeInv, BackupCodeOnce
  <2>2. CASE a \in uses /\ b \in X
    BY <2>2 DEF AccountsInv, CodeInv
  <2>3. CASE a \in X /\ b \in uses
    BY <2>3 DEF AccountsInv, CodeInv
  <2> QED
    BY <2>1, <2>2, <2>3
<1>7. ASSUME NEW n, NewCode(n), n # r.no \/ r.kind # "setup" PROVE NewCode(n)'
  <2>1. \A u \in User : n \notin user'[u].codes
    BY <1>7 DEF NewCode
  <2>2. \A t \in Slot : n \notin request'[t].mem.codes
    BY <1>1, <1>7 DEF NewCode
  <2>3. \A a \in uses' : a.code # n
    BY <1>7 DEF NewCode
  <2> QED
    BY <2>1, <2>2, <2>3 DEF NewCode
<1>8. \A n \in Number : n > begun' => NewCode(n)'
  <2> SUFFICES ASSUME NEW n \in Number, n > begun PROVE NewCode(n)'
    OBVIOUS
  <2>1. NewCode(n) /\ n # r.no
    BY <1>2 DEF AccountsInv, CodeInv
  <2> QED
    BY <1>7, <2>1
<1>9. ASSUME NEW t \in Slot, request'[t].kind = "setup" PROVE NewCode(request[t].no)'
  <2>1. t # s /\ request'[t] = request[t] /\ UnderWay(t)
    BY <1>1, <1>9 DEF UnderWay
  <2>2. PICK n : n = request[t].no
    OBVIOUS
  <2>3. NewCode(n) /\ n # r.no
    BY <1>4, <1>9, <2>1, <2>2 DEF AccountsInv, CodeInv
  <2>4. NewCode(n)' /\ request'[t].no = n
    BY <1>7, <2>1, <2>2, <2>3
  <2> QED
    BY <2>4 DEF NewCode
<1>10. ASSUME NEW u \in User, NEW w \in User, u # w
       PROVE  user'[u].codes \cap user'[w].codes = {}
  <2>1. user[u].codes \cap user[w].codes = {}
    BY <1>10 DEF AccountsInv, CodeInv
  <2> QED
    BY <1>3, <1>10, <2>1 DEF NewCode
<1>11. ASSUME NEW t \in Slot, NEW u \in User, u # request'[t].user
       PROVE  request'[t].mem.codes \cap user'[u].codes = {}
  <2>1. CASE t = s
    BY <1>1, <2>1
  <2>2. CASE t # s
    <3>1. request'[t] = request[t] /\ request[t].mem.codes \cap user[u].codes = {}
      BY <1>1, <1>11, <2>2 DEF AccountsInv, CodeInv
    <3> QED
      BY <1>3, <3>1 DEF NewCode
  <2> QED
    BY <2>1, <2>2
<1>12. ASSUME NEW a \in uses', NEW u \in User PROVE a.code \notin user'[u].codes
  <2>1. CASE a \in uses
    BY <1>3, <2>1 DEF AccountsInv, CodeInv, NewCode
  <2>2. CASE a \in X /\ u # r.user
    <3>1. a.code \notin user[u].codes
      BY <2>2 DEF AccountsInv, CodeInv
    <3> QED
      BY <2>2, <3>1
  <2>3. CASE a \in X /\ u = r.user
    BY <2>3
  <2> QED
    BY <2>1, <2>2, <2>3
<1>13. ASSUME NEW a \in uses', NEW t \in Slot, a.code \in request'[t].mem.codes
       PROVE  ~ a.alone /\ ~ request'[t].alone
  <2>1. t # s /\ request'[t] = request[t]
    BY <1>1, <1>13
  <2>2. CASE a \in uses
    BY <1>13, <2>1, <2>2 DEF AccountsInv, CodeInv
  <2>3. CASE a \in X
    BY <1>4, <1>5, <1>13, <2>1, <2>3
  <2> QED
    BY <2>2, <2>3
<1> QED
  BY <1>6, <1>8, <1>9, <1>10, <1>11, <1>12, <1>13 DEF CodeInv

\* Revoking credentials changes nothing else about them.
LEMMA RevokedFacts ==
  ASSUME AccountsTypeOK, NEW C
  PROVE  /\ Revoked(C) \subseteq Credential
         /\ \A c \in Revoked(C) : \E k \in credentials :
              k.user = c.user /\ k.no = c.no /\ (c.live => k.live /\ k \notin C)
         /\ \A k \in credentials : \E c \in Revoked(C) : c.user = k.user /\ c.alone = k.alone
         /\ Revoked({}) = credentials
<1>1. credentials \subseteq Credential
  BY DEF AccountsTypeOK
<1>2. \A k \in credentials :
        /\ [k EXCEPT !.live = FALSE] \in Credential
        /\ [k EXCEPT !.live = FALSE].user = k.user /\ [k EXCEPT !.live = FALSE].no = k.no
        /\ [k EXCEPT !.live = FALSE].alone = k.alone /\ ~ [k EXCEPT !.live = FALSE].live
  BY <1>1 DEF Credential
<1>3. \A c \in Revoked(C) : \E k \in credentials :
        \/ c = k /\ k \notin C
        \/ c = [k EXCEPT !.live = FALSE]
  BY DEF Revoked
<1>4. \A k \in credentials : k \in Revoked(C) \/ [k EXCEPT !.live = FALSE] \in Revoked(C)
  BY DEF Revoked
<1>5. Revoked({}) = credentials
  BY DEF Revoked
<1>6. ASSUME NEW c \in Revoked(C)
      PROVE  /\ c \in Credential
             /\ \E k \in credentials :
                  k.user = c.user /\ k.no = c.no /\ (c.live => k.live /\ k \notin C)
  <2>1. PICK k \in credentials : (c = k /\ k \notin C) \/ c = [k EXCEPT !.live = FALSE]
    BY <1>3
  <2> QED
    BY <1>1, <1>2, <2>1
<1>7. ASSUME NEW k \in credentials
      PROVE  \E c \in Revoked(C) : c.user = k.user /\ c.alone = k.alone
  <2>1. CASE k \in Revoked(C)
    BY <2>1
  <2>2. CASE [k EXCEPT !.live = FALSE] \in Revoked(C)
    BY <1>2, <2>2
  <2> QED
    BY <1>4, <2>1, <2>2
<1>8. Revoked(C) \subseteq Credential
  BY <1>6
<1> QED
  BY <1>5, <1>6, <1>7, <1>8

\* What an end may do: revoke, grant its own user one credential, and change
\* rows; nobody is erased, and codes are spent or set up.
LEMMA EndKeeps ==
  ASSUME AccountsInv, NEW s \in Slot, End(s), UNCHANGED begun, UnderWay(s),
         user' \in [User -> UserRow],
         member' \in [User -> Roles \cup {"none", "deleted"}],
         invitation' \in [Invitation ->
           [status: {"none", "pending", "accepted", "revoked"}, role: Roles]],
         joined' \subseteq [invitation: Invitation, user: User, alone: BOOLEAN],
         InvitationInv',
         \A u \in User : user'[u].status = "deleted" => user[u].status = "deleted",
         \A u \in User : user'[u].codes \subseteq
           user[u].codes \cup (IF u = request[s].user /\ request[s].kind = "setup"
                               THEN {request[s].no} ELSE {}),
         NEW C, NEW N, credentials' = Revoked(C) \cup N,
         request[s].kind # "erase",
         \A c \in N : \E kind \in {"session", "pending", "key"} : c = New(s, kind),
         \/ uses' = uses
         \/ /\ uses' = uses \cup CodesUsed(request[s])
            /\ request[s].backup =>
                 user'[request[s].user].codes \cap request[s].mem.codes = {}
  PROVE  AccountsInv'
<1>1. /\ request[s] \in Requests /\ request[s].user \in User /\ request[s].no \in Number
      /\ request[s].alone \in BOOLEAN /\ request[s].mem.codes \subseteq Number
  BY RequestTypes DEF AccountsInv
<1>2. \A c \in N : c \in Credential /\ c.user = request[s].user /\ c.alone = request[s].alone
  <2> SUFFICES ASSUME NEW c \in N
               PROVE  c \in Credential /\ c.user = request[s].user /\ c.alone = request[s].alone
    OBVIOUS
  <2>1. PICK kind \in {"session", "pending", "key"} : c = New(s, kind)
    OBVIOUS
  <2>2. PICK u, n, a : u = request[s].user /\ n = request[s].no /\ a = request[s].alone
    OBVIOUS
  <2>3. c = [no |-> n, kind |-> kind, user |-> u, live |-> TRUE, alone |-> a]
    BY <2>1, <2>2 DEF New
  <2>4. u \in User /\ n \in Number /\ a \in BOOLEAN
    BY <1>1, <2>2
  <2> QED
    BY <2>2, <2>3, <2>4 DEF Credential
<1>3. ErasureInv' /\ credentials' \subseteq Credential
  <2>1. /\ Revoked(C) \subseteq Credential
        /\ \A c \in Revoked(C) : \E k \in credentials :
             k.user = c.user /\ k.no = c.no /\ (c.live => k.live)
        /\ \A k \in credentials : \E c \in Revoked(C) : c.user = k.user /\ c.alone = k.alone
    BY RevokedFacts DEF AccountsInv
  <2>2. \A c \in credentials' :
          \/ \E k \in credentials : k.user = c.user /\ k.no = c.no /\ (c.live => k.live)
          \/ /\ request[s].kind # "erase"
             /\ c.user = request[s].user /\ c.alone = request[s].alone
    BY <1>2, <2>1
  <2>3. \A k \in credentials : \E c \in credentials' : c.user = k.user /\ c.alone = k.alone
    BY <2>1
  <2> QED
    BY <1>2, <2>1, <2>2, <2>3, EndErasure
<1>4. PICK X : /\ uses' = uses \cup X
               /\ \A a \in X : /\ a.code \in request[s].mem.codes
                               /\ a.no = request[s].no /\ a.alone = request[s].alone
                               /\ a.code \notin user'[request[s].user].codes
                               /\ a \in [code: Number, no: Number, alone: BOOLEAN]
  <2>1. CASE uses' = uses
    <3>1. uses' = uses \cup {}
      BY <2>1
    <3> QED
      BY <3>1
  <2>2. CASE /\ uses' = uses \cup CodesUsed(request[s])
             /\ request[s].backup =>
                  user'[request[s].user].codes \cap request[s].mem.codes = {}
    <3>1. \A a \in CodesUsed(request[s]) :
            /\ request[s].backup
            /\ \E c \in request[s].mem.codes :
                 a = [code |-> c, no |-> request[s].no, alone |-> request[s].alone]
      BY DEF CodesUsed
    <3>2. \A a \in CodesUsed(request[s]) :
            /\ a.code \in request[s].mem.codes
            /\ a.no = request[s].no /\ a.alone = request[s].alone
            /\ a.code \notin user'[request[s].user].codes
            /\ a \in [code: Number, no: Number, alone: BOOLEAN]
      BY <1>1, <2>2, <3>1
    <3> QED
      BY <2>2, <3>2
  <2> QED
    BY <2>1, <2>2
<1>5. CodeInv'
  BY <1>4, EndCodes
<1>6. request' \in [Slot -> Requests] /\ Overlapping'
  BY Ended
<1>7. AccountsTypeOK'
  <2>1. uses' \subseteq [code: Number, no: Number, alone: BOOLEAN]
    BY <1>4 DEF AccountsInv, AccountsTypeOK
  <2> QED
    BY <1>3, <1>6, <2>1 DEF AccountsInv, AccountsTypeOK, Requests
<1> QED
  BY <1>3, <1>5, <1>6, <1>7 DEF AccountsInv

\* What an end that changes no rows of accounts, members or invitations keeps.
LEMMA RowsAlone ==
  ASSUME AccountsInv, NEW s \in Slot, End(s), UNCHANGED <<begun, invitation, joined>>
  PROVE  /\ invitation' \in [Invitation ->
              [status: {"none", "pending", "accepted", "revoked"}, role: Roles]]
         /\ joined' \subseteq [invitation: Invitation, user: User, alone: BOOLEAN]
         /\ InvitationInv'
BY EndInvitation DEF AccountsInv, AccountsTypeOK

\* An end that only grants, or does nothing: a login, a key.
LEMMA GrantStep ==
  ASSUME AccountsInv, NEW s \in Slot, Login(s) \/ CreateKey(s)
  PROVE  AccountsInv'
<1>1. PICK kind \in {"session", "pending", "key"} :
        /\ request[s].kind \in {"login", "key"} /\ End(s)
        /\ credentials' = credentials \cup {New(s, kind)}
        /\ UNCHANGED <<user, member, invitation, joined, uses, begun>>
  BY DEF Login, CreateKey
<1>2. PICK N : N = {New(s, kind)}
  OBVIOUS
<1>3. credentials' = Revoked({}) \cup N
  BY <1>1, <1>2, RevokedFacts DEF AccountsInv
<1>4. /\ user' \in [User -> UserRow]
      /\ member' \in [User -> Roles \cup {"none", "deleted"}]
  BY <1>1 DEF AccountsInv, AccountsTypeOK
<1>5. \A c \in N : \E k \in {"session", "pending", "key"} : c = New(s, k)
  BY <1>2
<1> QED
  BY <1>1, <1>3, <1>4, <1>5, RowsAlone, EndKeeps DEF UnderWay

\* The second factor: a code of the moment or the backup code.
LEMMA ChallengeStep ==
  ASSUME AccountsInv, NEW s \in Slot, Challenge(s)
  PROVE  AccountsInv'
<1>1. PICK w \in User : w = request[s].user
  BY RequestTypes DEF AccountsInv
<1>2. PICK C : C = {c \in credentials : c.no \in request[s].seen}
  OBVIOUS
<1>3. PICK N : N = {New(s, "session")}
  OBVIOUS
<1>4. /\ request[s].kind = "challenge" /\ End(s)
      /\ credentials' = Revoked(C) \cup N
      /\ uses' = uses \cup CodesUsed(request[s])
      /\ UNCHANGED <<member, invitation, joined, begun>>
  BY <1>2, <1>3 DEF Challenge
<1>5. user \in [User -> UserRow]
  BY RequestTypes DEF AccountsInv
<1>6. user' = IF request[s].backup THEN [user EXCEPT ![w].codes = {}] ELSE user
  BY <1>1, <1>5 DEF Challenge, CodeSpent
<1>7. /\ user' \in [User -> UserRow]
      /\ \A u \in User : /\ user'[u].status = user[u].status
                         /\ user'[u].codes \subseteq user[u].codes
      /\ request[s].backup => user'[w].codes = {}
  BY <1>5, <1>6 DEF UserRow
<1>8. member' \in [User -> Roles \cup {"none", "deleted"}]
  BY <1>4 DEF AccountsInv, AccountsTypeOK
<1>9. \A c \in N : \E k \in {"session", "pending", "key"} : c = New(s, k)
  BY <1>3
<1> QED
  BY <1>1, <1>4, <1>7, <1>8, <1>9, RowsAlone, EndKeeps DEF UnderWay

\* The second factor is set up, confirmed and disabled.
LEMMA FactorStep ==
  ASSUME AccountsInv, NEW s \in Slot, Setup(s) \/ Confirm(s) \/ Disable(s)
  PROVE  AccountsInv'
<1>1. PICK w \in User : w = request[s].user
  BY RequestTypes DEF AccountsInv
<1>2. PICK n \in Number : n = request[s].no
  BY RequestTypes DEF AccountsInv
<1>3. /\ request[s].kind \in {"setup", "confirm", "disable"} /\ End(s)
      /\ UNCHANGED <<member, invitation, credentials, joined, begun>>
  BY DEF Setup, Confirm, Disable
<1>4. user \in [User -> UserRow]
  BY RequestTypes DEF AccountsInv
<1>5. /\ user' \in [User -> UserRow]
      /\ \A u \in User : /\ user'[u].status = user[u].status
                         /\ user'[u].codes \subseteq
                              user[u].codes \cup (IF u = w /\ request[s].kind = "setup"
                                                  THEN {n} ELSE {})
      /\ \/ uses' = uses
         \/ /\ uses' = uses \cup CodesUsed(request[s])
            /\ request[s].mem.codes # {} => user'[w].codes = {}
  <2>1. CASE Setup(s)
    <3>1. /\ user' = [user EXCEPT ![w].secret = TRUE, ![w].codes = {n}] /\ uses' = uses
          /\ request[s].kind = "setup"
      BY <1>1, <1>2, <2>1 DEF Setup
    <3>2. user' \in [User -> UserRow]
      BY <1>4, <3>1 DEF UserRow
    <3>3. \A u \in User : /\ user'[u].status = user[u].status
                          /\ user'[u].codes = IF u = w THEN {n} ELSE user[u].codes
      BY <1>4, <3>1 DEF UserRow
    <3>4. \A u \in User : user'[u].status = user[u].status
      BY <3>3
    <3>5. \A u \in User : user'[u].codes \subseteq
            user[u].codes \cup (IF u = w /\ request[s].kind = "setup" THEN {n} ELSE {})
      BY <3>1, <3>3
    <3> QED
      BY <3>1, <3>2, <3>4, <3>5
  <2>2. CASE Confirm(s)
    <3>1. (user' = user \/ user' = [user EXCEPT ![w].mfa = TRUE]) /\ uses' = uses
      BY <1>1, <2>2 DEF Confirm
    <3>2. user' \in [User -> UserRow]
      BY <1>4, <3>1 DEF UserRow
    <3>3. \A u \in User : user'[u].status = user[u].status /\ user'[u].codes = user[u].codes
      BY <1>4, <3>1 DEF UserRow
    <3> QED
      BY <3>1, <3>2, <3>3
  <2>3. CASE Disable(s)
    <3>1. PICK codes : codes = IF request[s].mem.codes = {} THEN user[w].codes ELSE {}
      OBVIOUS
    <3>2. /\ user' = [user EXCEPT ![w].mfa = FALSE, ![w].secret = FALSE, ![w].codes = codes]
          /\ uses' = uses \cup CodesUsed(request[s])
      BY <1>1, <1>4, <2>3, <3>1 DEF Disable, UserRow
    <3>3. user[w].codes \subseteq Number /\ codes \subseteq user[w].codes
      BY <1>4, <3>1 DEF UserRow
    <3>4. user' \in [User -> UserRow]
      BY <1>4, <3>2, <3>3 DEF UserRow
    <3>5. \A u \in User : /\ user'[u].status = user[u].status
                          /\ user'[u].codes = IF u = w THEN codes ELSE user[u].codes
      BY <1>4, <3>2 DEF UserRow
    <3>6. request[s].mem.codes # {} => user'[w].codes = {}
      BY <3>1, <3>5
    <3>7. \A u \in User : user'[u].codes \subseteq user[u].codes
      BY <3>3, <3>5
    <3>8. \A u \in User : user'[u].status = user[u].status
      BY <3>5
    <3>9. \A u \in User : user'[u].codes \subseteq
            user[u].codes \cup (IF u = w /\ request[s].kind = "setup" THEN {n} ELSE {})
      BY <3>7
    <3>10. /\ uses' = uses \cup CodesUsed(request[s])
           /\ request[s].mem.codes # {} => user'[w].codes = {}
      BY <3>2, <3>6
    <3> QED
      BY <3>4, <3>8, <3>9, <3>10
  <2> QED
    BY <2>1, <2>2, <2>3
<1>6. credentials' = Revoked({}) \cup {}
  BY <1>3, RevokedFacts DEF AccountsInv
<1>7. member' \in [User -> Roles \cup {"none", "deleted"}]
  BY <1>3 DEF AccountsInv, AccountsTypeOK
<1>8. \/ uses' = uses
      \/ /\ uses' = uses \cup CodesUsed(request[s])
         /\ request[s].backup =>
              user'[request[s].user].codes \cap request[s].mem.codes = {}
  BY <1>1, <1>5
<1>9. \A u \in User : user'[u].status = "deleted" => user[u].status = "deleted"
  BY <1>5
<1>10. \A u \in User : user'[u].codes \subseteq
         user[u].codes \cup (IF u = request[s].user /\ request[s].kind = "setup"
                             THEN {request[s].no} ELSE {})
  BY <1>1, <1>2, <1>5
<1>11. UnderWay(s) /\ request[s].kind # "erase"
  BY <1>3 DEF UnderWay
<1>12. PICK N : N = {}
  OBVIOUS
<1>13. /\ credentials' = Revoked({}) \cup N
       /\ \A c \in N : \E kind \in {"session", "pending", "key"} : c = New(s, kind)
  BY <1>6, <1>12
<1>14. user' \in [User -> UserRow]
  BY <1>5
<1>15. /\ invitation' \in [Invitation ->
             [status: {"none", "pending", "accepted", "revoked"}, role: Roles]]
       /\ joined' \subseteq [invitation: Invitation, user: User, alone: BOOLEAN]
       /\ InvitationInv'
  BY <1>3, RowsAlone
<1> QED
  BY <1>3, <1>7, <1>8, <1>9, <1>10, <1>11, <1>13, <1>14, <1>15, EndKeeps

\* Somebody is let in with an invitation: if it has let in another, requests
\* overlapped.
LEMMA LetIn ==
  ASSUME AccountsInv, NEW s \in Slot, End(s), UNCHANGED begun, UnderWay(s),
         \A i \in request[s].with : invitation'[i].status = "accepted",
         \A i \in Invitation \ request[s].with : invitation'[i] = invitation[i],
         NEW X, joined' = joined \cup X,
         \A j \in X : /\ j.invitation \in request[s].with
                      /\ j.user = request[s].user /\ j.alone = request[s].alone
  PROVE  InvitationInv'
<1>1. /\ request'[s] = NoRequest /\ \A t \in Slot \ {s} : request'[t] = request[t]
      /\ NoRequest.with = {}
  BY Ended, NoRequestType
<1>2. \A j \in joined : j.invitation \in Invitation
  BY DEF AccountsInv, AccountsTypeOK
<1>3. \A j \in joined : j.invitation \in request[s].with => ~ j.alone /\ ~ request[s].alone
  BY DEF AccountsInv, InvitationInv
<1>4. InvitationServesOne'
  <2> SUFFICES ASSUME NEW j \in joined', NEW k \in joined',
                      j.invitation = k.invitation, j.user # k.user
               PROVE  ~ j.alone
    BY DEF InvitationServesOne
  <2>1. CASE j \in joined /\ k \in joined
    BY <2>1 DEF AccountsInv, InvitationInv, InvitationServesOne
  <2>2. CASE j \in joined /\ k \in X
    BY <1>3, <2>2
  <2>3. CASE j \in X /\ k \in joined
    BY <1>3, <2>3
  <2> QED
    BY <2>1, <2>2, <2>3
<1>5. ASSUME NEW j \in joined'
      PROVE  invitation'[j.invitation].status \notin {"none", "pending"}
  <2>1. CASE j \in joined
    BY <1>2, <2>1 DEF AccountsInv, InvitationInv
  <2>2. CASE j \in X
    BY <2>2
  <2> QED
    BY <2>1, <2>2
<1>6. ASSUME NEW t \in Slot, NEW j \in joined', j.invitation \in request'[t].with
      PROVE  ~ j.alone /\ ~ request'[t].alone
  <2>1. t # s /\ request'[t] = request[t]
    BY <1>1, <1>6
  <2>2. UnderWay(t)
    BY <1>1, <1>6, <2>1 DEF AccountsInv, Overlapping
  <2>3. ~ request[s].alone /\ ~ request[t].alone
    BY <2>1, <2>2 DEF AccountsInv, Overlapping
  <2>4. CASE j \in joined
    BY <1>6, <2>1, <2>4 DEF AccountsInv, InvitationInv
  <2>5. CASE j \in X
    BY <2>1, <2>3, <2>5
  <2> QED
    BY <2>4, <2>5
<1> QED
  BY <1>4, <1>5, <1>6 DEF InvitationInv

\* A row of an account that is made.
LEMMA MadeRow ==
  ASSUME user \in [User -> UserRow], NEW w \in User, user' = [user EXCEPT ![w] = Active(FALSE)]
  PROVE  /\ user' \in [User -> UserRow]
         /\ \A u \in User : /\ user'[u].status = "deleted" => user[u].status = "deleted"
                            /\ user'[u].codes \subseteq user[u].codes
<1>1. PICK newRow \in UserRow : newRow = Active(FALSE) /\ newRow.status = "active" /\ newRow.codes = {}
  BY NoRequestType DEF Active
<1> QED
  BY <1>1

\* A registration: the e-mail address is taken, or an account is made.
LEMMA RegisterStep ==
  ASSUME AccountsInv, NEW s \in Slot, Register(s)
  PROVE  AccountsInv'
<1>1. PICK w \in User : w = request[s].user
  BY RequestTypes DEF AccountsInv
<1>2. PICK with \in SUBSET Invitation : with = request[s].with
  BY RequestTypes DEF AccountsInv
<1>3. /\ request[s].kind = "register" /\ End(s) /\ UNCHANGED <<uses, begun>>
      /\ UnderWay(s) /\ request[s].kind # "erase"
  BY DEF Register, UnderWay
<1>4. /\ user \in [User -> UserRow] /\ member \in [User -> Roles \cup {"none", "deleted"}]
      /\ invitation \in [Invitation ->
           [status: {"none", "pending", "accepted", "revoked"}, role: Roles]]
      /\ joined \subseteq [invitation: Invitation, user: User, alone: BOOLEAN]
      /\ request[s].alone \in BOOLEAN
  BY RequestTypes DEF AccountsInv, AccountsTypeOK
<1>5. CASE user[w].status # "none"
  <2>1. UNCHANGED <<user, member, invitation, credentials, joined>>
    BY <1>1, <1>5 DEF Register
  <2>2. PICK N : N = {}
    OBVIOUS
  <2>3. credentials' = Revoked({}) \cup N
    BY <2>1, <2>2, RevokedFacts DEF AccountsInv
  <2>4. \A u \in User : /\ user'[u].status = "deleted" => user[u].status = "deleted"
                        /\ user'[u].codes \subseteq user[u].codes
    BY <2>1
  <2>5. \A u \in User : user'[u].codes \subseteq
          user[u].codes \cup (IF u = request[s].user /\ request[s].kind = "setup"
                              THEN {request[s].no} ELSE {})
    BY <2>4
  <2>6. \A c \in N : \E k \in {"session", "pending", "key"} : c = New(s, k)
    BY <2>2
  <2>7. /\ user' \in [User -> UserRow] /\ member' \in [User -> Roles \cup {"none", "deleted"}]
        /\ UNCHANGED <<begun, invitation, joined>>
    BY <1>3, <1>4, <2>1
  <2> QED
    BY <1>3, <2>3, <2>4, <2>5, <2>6, <2>7, RowsAlone, EndKeeps
<1>6. CASE user[w].status = "none"
  <2>1. PICK role : role = IF with # {} THEN invitation[Some(with)].role
                           ELSE IF request[s].first THEN "owner" ELSE "viewer"
    OBVIOUS
  <2>2. PICK X : X = {[invitation |-> i, user |-> w, alone |-> request[s].alone] : i \in with}
    OBVIOUS
  <2>3. PICK N : N = {New(s, "session")}
    OBVIOUS
  <2>4. /\ user' = [user EXCEPT ![w] = Active(FALSE)]
        /\ member' = [member EXCEPT ![w] = role]
        /\ invitation' = [i \in Invitation |->
             IF i \in with THEN [invitation[i] EXCEPT !.status = "accepted"] ELSE invitation[i]]
        /\ credentials' = credentials \cup N
        /\ joined' = joined \cup X
    <3>0. request[s].user = w /\ request[s].with = with
      BY <1>1, <1>2
    <3>1. user' = [user EXCEPT ![w] = Active(FALSE)] /\ credentials' = credentials \cup N
      BY <1>1, <1>6, <2>3, <3>0 DEF Register
    <3>2. member' = [member EXCEPT ![w] = role]
      BY <1>1, <1>6, <2>1, <3>0 DEF Register
    <3>3. invitation' = [i \in Invitation |->
            IF i \in with THEN [invitation[i] EXCEPT !.status = "accepted"] ELSE invitation[i]]
      BY <1>1, <1>6, <3>0 DEF Register
    <3>4. joined' = joined \cup X
      BY <1>1, <1>6, <2>2, <3>0 DEF Register
    <3> QED
      BY <3>1, <3>2, <3>3, <3>4
  <2>5. role \in Roles
    BY <1>4, <2>1 DEF Some, Roles
  <2>6. member' \in [User -> Roles \cup {"none", "deleted"}]
    BY <1>4, <2>4, <2>5
  <2>7. /\ invitation' \in [Invitation ->
             [status: {"none", "pending", "accepted", "revoked"}, role: Roles]]
        /\ \A i \in with : invitation'[i].status = "accepted"
        /\ \A i \in Invitation \ with : invitation'[i] = invitation[i]
    BY <1>4, <2>4
  <2>8. \A j \in X : /\ j.invitation \in with /\ j.user = w /\ j.alone = request[s].alone
                     /\ j \in [invitation: Invitation, user: User, alone: BOOLEAN]
    BY <1>4, <2>2
  <2>9. joined' \subseteq [invitation: Invitation, user: User, alone: BOOLEAN]
    BY <1>4, <2>4, <2>8
  <2>10. InvitationInv'
    <3>1. End(s) /\ UnderWay(s) /\ UNCHANGED begun /\ request[s].user = w /\ request[s].with = with
      BY <1>1, <1>2, <1>3
    <3>2. /\ \A i \in request[s].with : invitation'[i].status = "accepted"
          /\ \A i \in Invitation \ request[s].with : invitation'[i] = invitation[i]
          /\ \A j \in X : /\ j.invitation \in request[s].with
                           /\ j.user = request[s].user /\ j.alone = request[s].alone
      BY <2>7, <2>8, <3>1
    <3>3. joined' = joined \cup X
      BY <2>4
    <3> QED BY <3>1, <3>2, <3>3, LetIn
  <2>11. credentials' = Revoked({}) \cup N
    BY <2>4, RevokedFacts DEF AccountsInv
  <2>12. /\ user' \in [User -> UserRow]
         /\ \A u \in User : user'[u].status = "deleted" => user[u].status = "deleted"
         /\ \A u \in User : user'[u].codes \subseteq user[u].codes
    BY <1>4, <2>4, MadeRow
  <2>13. \A u \in User : user'[u].codes \subseteq
           user[u].codes \cup (IF u = request[s].user /\ request[s].kind = "setup"
                               THEN {request[s].no} ELSE {})
    BY <2>12
  <2>14. \A c \in N : \E k \in {"session", "pending", "key"} : c = New(s, k)
    BY <2>3
  <2> QED
    BY <1>3, <2>6, <2>7, <2>9, <2>10, <2>11, <2>12, <2>13, <2>14, EndKeeps
<1> QED
  BY <1>5, <1>6

\* A user vouched for by LDAP or OIDC: an account is made, or the one that was
\* found is logged in, whatever has become of it.
LEMMA ExternalStep ==
  ASSUME AccountsInv, NEW s \in Slot, External(s)
  PROVE  AccountsInv'
<1>1. PICK w \in User : w = request[s].user
  BY RequestTypes DEF AccountsInv
<1>2. /\ request[s].kind = "external" /\ End(s) /\ UNCHANGED <<invitation, joined, uses, begun>>
      /\ UnderWay(s) /\ request[s].kind # "erase"
  BY DEF External, UnderWay
<1>3. /\ user \in [User -> UserRow] /\ member \in [User -> Roles \cup {"none", "deleted"}]
  BY DEF AccountsInv, AccountsTypeOK
<1>4. PICK role \in {"owner", "viewer"} : role = IF request[s].first THEN "owner" ELSE "viewer"
  OBVIOUS
<1>5. /\ \/ UNCHANGED <<user, member>>
         \/ /\ user' = [user EXCEPT ![w] = Active(FALSE)]
            /\ member' = [member EXCEPT ![w] = role]
      /\ credentials' = credentials \/ credentials' = credentials \cup {New(s, "session")}
  BY <1>1, <1>4 DEF External
<1>6. /\ user' \in [User -> UserRow]
      /\ \A u \in User : user'[u].status = "deleted" => user[u].status = "deleted"
      /\ \A u \in User : user'[u].codes \subseteq user[u].codes
  BY <1>3, <1>5, MadeRow
<1>7. member' \in [User -> Roles \cup {"none", "deleted"}]
  BY <1>3, <1>5 DEF Roles
<1>8. PICK N \in SUBSET {New(s, "session")} : credentials' = credentials \cup N
  <2>1. CASE credentials' = credentials
    <3>1. credentials' = credentials \cup {}
      BY <2>1
    <3> QED
      BY <3>1
  <2> QED
    BY <1>5, <2>1
<1>9. credentials' = Revoked({}) \cup N
  BY <1>8, RevokedFacts DEF AccountsInv
<1>10. \A u \in User : user'[u].codes \subseteq
         user[u].codes \cup (IF u = request[s].user /\ request[s].kind = "setup"
                             THEN {request[s].no} ELSE {})
  BY <1>6
<1>11. \A c \in N : \E k \in {"session", "pending", "key"} : c = New(s, k)
  BY <1>8
<1> QED
  BY <1>2, <1>6, <1>7, <1>9, <1>10, <1>11, RowsAlone, EndKeeps

\* An erasure: what it has seen of its user is revoked; what is left it has not
\* seen, so requests overlapped.
LEMMA EraseStep ==
  ASSUME AccountsInv, NEW s \in Slot, Erase(s)
  PROVE  AccountsInv'
<1>1. PICK w \in User : w = request[s].user
  BY RequestTypes DEF AccountsInv
<1>2. PICK C : C = {c \in credentials : c.no \in request[s].seen /\ c.user = w}
  OBVIOUS
<1>3. PICK newRow : newRow = [status |-> "deleted",
                              mfa |-> IF request[s].mem.mfa THEN FALSE ELSE user[w].mfa,
                              secret |-> IF request[s].mem.secret THEN FALSE ELSE user[w].secret,
                              codes |-> IF request[s].mem.codes # {} THEN {} ELSE user[w].codes]
  OBVIOUS
<1>4. user \in [User -> UserRow] /\ member \in [User -> Roles \cup {"none", "deleted"}]
  BY DEF AccountsInv, AccountsTypeOK
<1>5. /\ request[s].kind = "erase" /\ End(s) /\ UNCHANGED <<invitation, joined, uses, begun>>
      /\ credentials' = Revoked(C)
      /\ member' = [member EXCEPT ![w] = "none"]
      /\ UnderWay(s)
  BY <1>1, <1>2 DEF Erase, UnderWay
<1>6. user' = [user EXCEPT ![w] = newRow]
  BY <1>1, <1>3, <1>4 DEF Erase
<1>7. newRow \in UserRow /\ newRow.codes \subseteq user[w].codes
  BY <1>3, <1>4 DEF UserRow
<1>8. /\ user' \in [User -> UserRow]
      /\ \A u \in User : user'[u].codes \subseteq user[u].codes
      /\ \A u \in User \ {w} : user'[u] = user[u]
  BY <1>4, <1>6, <1>7
<1>9. member' \in [User -> Roles \cup {"none", "deleted"}]
  BY <1>4, <1>5
<1>10. /\ Revoked(C) \subseteq Credential
       /\ \A c \in Revoked(C) : \E k \in credentials :
            k.user = c.user /\ k.no = c.no /\ (c.live => k.live /\ k \notin C)
       /\ \A k \in credentials : \E c \in Revoked(C) : c.user = k.user /\ c.alone = k.alone
  BY RevokedFacts DEF AccountsInv
<1>11. ErasureInv'
  <2> DEFINE ThenTainted(u) == \E k \in credentials' : k.user = u /\ ~ k.alone
  <2>1. /\ request'[s] = NoRequest /\ \A t \in Slot \ {s} : request'[t] = request[t]
        /\ NoRequest.kind = "idle"
    BY <1>5, Ended, NoRequestType
  <2>2. \A u : Tainted(u) => ThenTainted(u)
    BY <1>5, <1>10 DEF Tainted
  <2>3. /\ \A t \in Slot : request[t].user \in User
        /\ \A c \in credentials' : c.user \in User
    BY <1>5, <1>10, RequestTypes DEF AccountsInv, Credential
  <2>4. ASSUME NEW c \in credentials', c.live, user'[c.user].status = "deleted"
        PROVE  ThenTainted(c.user)
    <3>1. PICK k \in credentials : k.user = c.user /\ k.no = c.no /\ k.live /\ k \notin C
      BY <1>5, <1>10, <2>4
    <3>2. CASE c.user = w
      <4>1. k \in Live(w) /\ k.no \notin request[s].seen
        BY <1>2, <3>1, <3>2 DEF Live
      <4>2. Tainted(w)
        BY <1>1, <1>5, <4>1 DEF AccountsInv, ErasureInv
      <4> QED
        BY <2>2, <3>2, <4>2
    <3>3. CASE c.user # w
      <4>1. Tainted(c.user)
        BY <1>8, <2>3, <2>4, <3>1, <3>3 DEF AccountsInv, ErasureInv, ErasureIsComplete, Tainted
      <4> QED
        BY <2>2, <4>1
    <3> QED
      BY <3>2, <3>3
  <2>5. ErasureIsComplete'
    BY <2>4 DEF ErasureIsComplete
  <2>6. ASSUME NEW t \in Slot, UnderWay(t)', request'[t].kind # "erase",
               user'[request'[t].user].status = "deleted"
        PROVE  ~ request'[t].alone \/ ThenTainted(request'[t].user)
    <3>1. t # s /\ request'[t] = request[t] /\ UnderWay(t)
      BY <2>1, <2>6 DEF UnderWay
    <3>2. ~ request[t].alone
      BY <1>5, <3>1 DEF AccountsInv, Overlapping
    <3> QED
      BY <3>1, <3>2
  <2>7. ASSUME NEW t \in Slot, request'[t].kind = "erase", NEW c \in credentials',
               c.user = request'[t].user, c.live, c.no \notin request'[t].seen
        PROVE  ThenTainted(request'[t].user)
    <3>1. t # s /\ request'[t] = request[t]
      BY <2>1, <2>7
    <3>2. PICK k \in credentials : k.user = c.user /\ k.no = c.no /\ k.live
      BY <1>5, <1>10, <2>7
    <3>3. Tainted(request[t].user)
      BY <2>7, <3>1, <3>2 DEF AccountsInv, ErasureInv, Live
    <3> QED
      BY <2>2, <3>1, <3>3
  <2> QED
    BY <2>5, <2>6, <2>7 DEF ErasureInv, Live, UnderWay, Tainted
<1>12. InvitationInv'
  BY <1>5, EndInvitation
<1>13. CodeInv'
  <2>1. PICK X : X = {}
    OBVIOUS
  <2>2. uses' = uses \cup X
    BY <1>5, <2>1
  <2>3. \A u \in User : user'[u].codes \subseteq
          user[u].codes \cup (IF u = request[s].user /\ request[s].kind = "setup"
                              THEN {request[s].no} ELSE {})
    BY <1>8
  <2>4. \A a \in X : /\ a.code \in request[s].mem.codes
                     /\ a.no = request[s].no /\ a.alone = request[s].alone
                     /\ a.code \notin user'[request[s].user].codes
    BY <2>1
  <2> QED
    BY <1>5, <2>2, <2>3, <2>4, EndCodes
<1>14. request' \in [Slot -> Requests] /\ Overlapping'
  BY <1>5, Ended
<1>15. AccountsTypeOK'
  BY <1>5, <1>8, <1>9, <1>10, <1>14 DEF AccountsInv, AccountsTypeOK, Requests
<1> QED
  BY <1>11, <1>12, <1>13, <1>14, <1>15 DEF AccountsInv

-----------------------------------------------------------------------------
(* What one statement does.                                                *)

\* A statement that is counted, revokes at most, and makes no invitation pending
\* again.
LEMMA StatementKeeps ==
  ASSUME AccountsInv, begun < MaxAsked, begun' = begun + 1,
         UNCHANGED <<user, request, joined, uses>>,
         member' \in [User -> Roles \cup {"none", "deleted"}],
         invitation' \in [Invitation ->
           [status: {"none", "pending", "accepted", "revoked"}, role: Roles]],
         \A i \in Invitation : invitation'[i].status \in {"none", "pending"} =>
           invitation[i].status \in {"none", "pending"},
         NEW C, credentials' = Revoked(C)
  PROVE  AccountsInv'
<1>1. /\ begun \in Nat /\ MaxAsked \in Nat /\ Number \subseteq Nat
      /\ \A s \in Slot : request[s].user \in User /\ request[s].no \in Nat
  BY RequestTypes DEF AccountsInv
<1>2. begun' \in Number
  BY <1>1 DEF Number
<1>3. /\ Revoked(C) \subseteq Credential
      /\ \A c \in Revoked(C) : \E k \in credentials :
           k.user = c.user /\ k.no = c.no /\ (c.live => k.live)
      /\ \A k \in credentials : \E c \in Revoked(C) : c.user = k.user /\ c.alone = k.alone
  BY RevokedFacts DEF AccountsInv
<1>4. AccountsTypeOK'
  BY <1>2, <1>3 DEF AccountsInv, AccountsTypeOK
<1>5. Overlapping'
  BY <1>1 DEF AccountsInv, Overlapping, UnderWay
<1>6. ErasureInv'
  <2> DEFINE ThenTainted(u) == \E k \in credentials' : k.user = u /\ ~ k.alone
  <2>1. \A u : Tainted(u) => ThenTainted(u)
    BY <1>3 DEF Tainted
  <2>2. \A c \in credentials' : \E k \in credentials :
          k.user = c.user /\ k.no = c.no /\ (c.live => k.live)
    BY <1>3
  <2>3. \A c \in credentials' : (c.live /\ user[c.user].status = "deleted") => ThenTainted(c.user)
    BY <2>1, <2>2 DEF AccountsInv, ErasureInv, ErasureIsComplete, Tainted
  <2>4. \A s \in Slot : UnderWay(s) /\ request[s].kind # "erase"
          /\ user[request[s].user].status = "deleted" =>
            ~ request[s].alone \/ ThenTainted(request[s].user)
    BY <2>1 DEF AccountsInv, ErasureInv
  <2>5. ASSUME NEW s \in Slot, request[s].kind = "erase", NEW c \in credentials',
               c.user = request[s].user, c.live, c.no \notin request[s].seen
        PROVE  ThenTainted(request[s].user)
    <3>1. PICK k \in credentials : k.user = c.user /\ k.no = c.no /\ k.live
      BY <2>2, <2>5
    <3>2. Tainted(request[s].user)
      BY <2>5, <3>1 DEF AccountsInv, ErasureInv, Live
    <3> QED
      BY <2>1, <3>2
  <2> QED
    BY <2>3, <2>4, <2>5 DEF ErasureInv, ErasureIsComplete, Live, UnderWay, Tainted
<1>7. InvitationInv'
  <2>1. \A j \in joined : j.invitation \in Invitation
    BY DEF AccountsInv, AccountsTypeOK
  <2> QED
    BY <2>1 DEF AccountsInv, InvitationInv, InvitationServesOne
<1>8. CodeInv'
  <2>1. \A n \in Number : n > begun' => n > begun
    BY <1>1
  <2>2. ASSUME NEW n, NewCode(n) PROVE NewCode(n)'
    BY <2>2 DEF NewCode
  <2>3. \A n \in Number : n > begun' => NewCode(n)'
    BY <2>1, <2>2 DEF AccountsInv, CodeInv
  <2>4. \A s \in Slot : request[s].kind = "setup" => NewCode(request[s].no)'
    BY DEF AccountsInv, CodeInv, NewCode
  <2> QED
    BY <2>3, <2>4 DEF AccountsInv, CodeInv, BackupCodeOnce
<1> QED
  BY <1>4, <1>5, <1>6, <1>7, <1>8 DEF AccountsInv

\* Logging out, keys revoked, invitations, roles.
LEMMA StatementStep ==
  ASSUME AccountsInv,
         \/ \E c \in credentials : Revoke(c)
         \/ \E i \in Invitation : RevokeInvitation(i) \/ \E role \in Role : Invite(i, role)
         \/ \E o, u \in User, role \in Roles \cup {"deleted"} : ChangeRole(o, u, role)
  PROVE  AccountsInv'
<1>1. /\ member \in [User -> Roles \cup {"none", "deleted"}]
      /\ invitation \in [Invitation ->
           [status: {"none", "pending", "accepted", "revoked"}, role: Roles]]
      /\ Revoked({}) = credentials
  BY RevokedFacts DEF AccountsInv, AccountsTypeOK
<1>2. CASE \E c \in credentials : Revoke(c)
  <2>1. PICK c \in credentials : Revoke(c)
    BY <1>2
  <2>2. PICK C : C = {c}
    OBVIOUS
  <2>3. credentials' = Revoked(C)
    BY <2>1, <2>2 DEF Revoke
  <2>4. /\ begun < MaxAsked /\ begun' = begun + 1
        /\ UNCHANGED <<user, member, invitation, request, joined, uses>>
    BY <2>1 DEF Revoke
  <2> QED
    BY <1>1, <2>3, <2>4, StatementKeeps
<1>3. CASE \E i \in Invitation : RevokeInvitation(i) \/ \E role \in Role : Invite(i, role)
  <2>1. PICK i \in Invitation : RevokeInvitation(i) \/ \E role \in Role : Invite(i, role)
    BY <1>3
  <2>2. /\ begun < MaxAsked /\ begun' = begun + 1
        /\ UNCHANGED <<user, member, credentials, request, joined, uses>>
    BY <2>1 DEF RevokeInvitation, Invite
  <2>3. /\ invitation' \in [Invitation ->
             [status: {"none", "pending", "accepted", "revoked"}, role: Roles]]
        /\ \A k \in Invitation : invitation'[k].status \in {"none", "pending"} =>
             invitation[k].status \in {"none", "pending"}
    <3>1. CASE RevokeInvitation(i)
      BY <1>1, <3>1 DEF RevokeInvitation
    <3>2. CASE \E role \in Role : Invite(i, role)
      BY <1>1, <3>2 DEF Invite, Roles
    <3> QED
      BY <2>1, <3>1, <3>2
  <2>4. credentials' = Revoked({})
    BY <1>1, <2>2
  <2> QED
    BY <1>1, <2>2, <2>3, <2>4, StatementKeeps
<1>4. CASE \E o, u \in User, role \in Roles \cup {"deleted"} : ChangeRole(o, u, role)
  <2>1. PICK u \in User, role \in Roles \cup {"deleted"} :
          /\ begun < MaxAsked /\ begun' = begun + 1
          /\ member' = [member EXCEPT ![u] = role]
          /\ UNCHANGED <<user, invitation, credentials, request, joined, uses>>
    BY <1>4 DEF ChangeRole
  <2>2. member' \in [User -> Roles \cup {"none", "deleted"}]
    BY <1>1, <2>1
  <2>3. credentials' = Revoked({})
    BY <1>1, <2>1
  <2> QED
    BY <1>1, <2>1, <2>2, <2>3, StatementKeeps
<1> QED
  BY <1>2, <1>3, <1>4

-----------------------------------------------------------------------------
(* The invariant.                                                          *)

\* Every step keeps it.
LEMMA AccountsStep == AccountsInv /\ [AccountsNext]_accountVars => AccountsInv'
<1> SUFFICES ASSUME AccountsInv, [AccountsNext]_accountVars PROVE AccountsInv'
  OBVIOUS
<1>1. CASE UNCHANGED accountVars
  BY <1>1 DEF accountVars, AccountsInv, AccountsTypeOK, Overlapping, ErasureInv, InvitationInv,
              CodeInv, ErasureIsComplete, InvitationServesOne, BackupCodeOnce, NewCode, UnderWay,
              Tainted, Live
<1>2. ASSUME NEW s \in Slot,
             \/ Register(s) \/ External(s) \/ Login(s) \/ Challenge(s) \/ Setup(s) \/ Confirm(s)
             \/ Disable(s) \/ CreateKey(s) \/ Erase(s)
      PROVE  AccountsInv'
  BY <1>2, RegisterStep, ExternalStep, GrantStep, ChallengeStep, FactorStep, EraseStep
<1>3. ASSUME NEW s \in Slot, NEW u \in User,
             \/ \E with \in {{}} \cup {{i} : i \in Invitation} : StartRegister(s, u, with)
             \/ StartExternal(s, u) \/ StartLogin(s, u) \/ StartSetup(s, u)
             \/ StartConfirm(s, u) \/ StartKey(s, u) \/ StartErase(s, u)
             \/ \E backup \in BOOLEAN : StartDisable(s, u, backup)
      PROVE  AccountsInv'
  BY <1>3, StartStep
<1>4. ASSUME NEW s \in Slot, NEW c \in credentials, NEW backup \in BOOLEAN,
             StartChallenge(s, c, backup)
      PROVE  AccountsInv'
  BY <1>4, ChallengeStart
<1> QED
  BY <1>1, <1>2, <1>3, <1>4, StatementStep DEF AccountsNext

\* Nothing has happened yet, and nobody is erased.
LEMMA AccountsStarts == AccountsInit => AccountsInv
<1> SUFFICES ASSUME AccountsInit PROVE AccountsInv
  OBVIOUS
<1>1. /\ MaxAsked \in Nat /\ 0 \in Number /\ Number \subseteq Nat
  BY AccountsAssumption DEF Number
<1>2. \A s \in Slot : request[s] = NoRequest
  BY DEF AccountsInit
<1>3. PICK o \in User : \E mfa \in BOOLEAN :
        /\ user \in [User -> UserRow] /\ member \in [User -> Roles \cup {"none", "deleted"}]
        /\ credentials \subseteq Credential
        /\ \A u \in User : /\ user[u].status # "deleted" /\ user[u].codes \subseteq {0}
                           /\ u # o => user[u].codes = {}
  <2>1. CASE user = [u \in User |-> NoRow] /\ member = [u \in User |-> "none"]
             /\ credentials = {}
    BY <2>1, AccountsAssumption, NoRequestType DEF NoRow
  <2>2. ASSUME NEW w \in User, NEW mfa \in BOOLEAN,
               user = [u \in User |-> IF u = w THEN Active(mfa) ELSE NoRow],
               member = [u \in User |-> IF u = w THEN "owner" ELSE "none"],
               credentials = {[no |-> 0, kind |-> "session", user |-> w, live |-> TRUE,
                               alone |-> TRUE]}
        PROVE  /\ user \in [User -> UserRow] /\ member \in [User -> Roles \cup {"none", "deleted"}]
               /\ credentials \subseteq Credential
               /\ \A u \in User : /\ user[u].status # "deleted" /\ user[u].codes \subseteq {0}
                                  /\ u # w => user[u].codes = {}
    <3>1. PICK newRow \in UserRow : newRow = Active(mfa)
      BY NoRequestType
    <3>2. newRow.status = "active" /\ newRow.codes \subseteq {0}
      BY <3>1 DEF Active
    <3>3. PICK none \in UserRow : none = NoRow /\ none.status = "none" /\ none.codes = {}
      BY NoRequestType DEF NoRow
    <3>4. user = [u \in User |-> IF u = w THEN newRow ELSE none]
      BY <2>2, <3>1, <3>3
    <3>5. member \in [User -> Roles \cup {"none", "deleted"}] /\ credentials \subseteq Credential
      BY <1>1, <2>2 DEF Roles, Credential
    <3> QED
      BY <3>2, <3>3, <3>4, <3>5
  <2> QED
    BY <2>1, <2>2 DEF AccountsInit
<1>4. /\ invitation \in [Invitation ->
           [status: {"none", "pending", "accepted", "revoked"}, role: Roles]]
      /\ request \in [Slot -> Requests] /\ joined = {} /\ uses = {} /\ begun = 0
  BY NoRequestType DEF AccountsInit, Roles
<1>5. AccountsTypeOK
  BY <1>1, <1>3, <1>4 DEF AccountsTypeOK, Requests
<1>6. Overlapping
  BY <1>2, <1>4, NoRequestType DEF Overlapping, UnderWay
<1>7. ErasureInv
  <2>1. \A c \in credentials : c.user \in User
    BY <1>3 DEF Credential
  <2> QED
    BY <1>2, <1>3, <2>1, NoRequestType DEF ErasureInv, ErasureIsComplete, UnderWay
<1>8. InvitationInv
  BY <1>4 DEF InvitationInv, InvitationServesOne
<1>9. CodeInv
  <2>1. \A n \in Number : n > 0 => NewCode(n)
    BY <1>2, <1>3, <1>4, NoRequestType DEF NewCode
  <2>2. \A s \in Slot : request[s].mem.codes = {} /\ request[s].kind = "idle"
    BY <1>2, NoRequestType
  <2>3. \A u, w \in User : u # w => user[u].codes \cap user[w].codes = {}
    BY <1>3
  <2> QED
    BY <1>4, <2>1, <2>2, <2>3 DEF CodeInv, BackupCodeOnce
<1> QED
  BY <1>5, <1>6, <1>7, <1>8, <1>9 DEF AccountsInv

\* The invariant of the specification.
LEMMA AccountsInvariant == AccountsSpec => []AccountsInv
BY AccountsStarts, AccountsStep, PTL DEF AccountsSpec

\* The rows of the accounts, their credentials and the requests under way have
\* the types of auth.py's and auth_mfa.py's columns.
THEOREM AccountsTypes == AccountsSpec => []AccountsTypeOK
<1>1. AccountsInv => AccountsTypeOK
  BY DEF AccountsInv
<1> QED
  BY <1>1, AccountsInvariant, PTL

\* Sessions and keys are good whatever the status of their user is
\* (auth.py:112,170): an erased account has a live one only if one of its own was
\* granted by a request that overlapped with another.
THEOREM ErasureRevokesAll == AccountsSpec => []ErasureIsComplete
<1>1. AccountsInv => ErasureIsComplete
  BY DEF AccountsInv, ErasureInv
<1> QED
  BY <1>1, AccountsInvariant, PTL

\* An invitation makes one account (auth.py:331) and a backup code is accepted
\* once (auth_mfa.py:4), unless requests overlapped.
THEOREM OneUseEach == AccountsSpec => []SingleUse
<1>1. AccountsInv => SingleUse
  BY DEF AccountsInv, InvitationInv, CodeInv, SingleUse
<1> QED
  BY <1>1, AccountsInvariant, PTL

-----------------------------------------------------------------------------
(* Operators' scripts.                                                     *)

Results == {"pass", "degraded", "failure"}
Bases == [rows: SUBSET Nat, revision: Nat, whole: BOOLEAN]
Dumps == [file: {"none", "torn", "whole"}, of: Bases]
Scripts ==
  [kind: {"none", "deploy", "backup", "restore", "upgrade"}, at: Nat, worst: Results,
   expected: SUBSET Nat, entry: Nat, before: SUBSET Nat, met: BOOLEAN, wrote: BOOLEAN]
Reports == [status: {"none", "success", "degraded", "failure"}, of: Scripts, db: Bases, head: Nat]

\* A script is at one of its steps, and what reads or writes a directory has one.
Placed(s) ==
  s.kind # "none" =>
    /\ s.at \in 1..Len(StepsOf[s.kind])
    /\ (s.kind = "backup" /\ s.at = 2) \/ (s.kind = "restore" /\ s.at \in 2..8) => s.entry \in DOMAIN shelf

OperationsFit ==
  /\ db \in Bases /\ head \in Nat /\ written \in Nat /\ db.rows \subseteq 1..written
  /\ shelf \in Seq(Dumps) /\ \A i \in DOMAIN shelf : shelf[i].of.rows \subseteq 1..written
  /\ script \in [Operator -> Scripts] /\ report \in [Operator -> Reports]
  /\ \A o \in Operator : Placed(script[o])

\* What the directory of a backup must have, and the database after a restore.
Dumped(s) ==
  /\ s.entry \in DOMAIN shelf /\ shelf[s.entry].file = "whole"
  /\ s.before \subseteq shelf[s.entry].of.rows \cup replaced
Loaded(s) ==
  /\ s.entry \in DOMAIN shelf /\ shelf[s.entry].file = "whole"
  /\ shelf[s.entry].of.rows \subseteq db.rows \cup replaced
  /\ s.before \cap db.rows \subseteq shelf[s.entry].of.rows

\* What is so at the step a script has come to, if no other ran beside it.
Knows(s) ==
  /\ s.before \subseteq 1..written
  /\ s.kind = "backup" => /\ s.before \subseteq db.rows \cup replaced
                          /\ (s.at = 3 /\ s.worst = "pass") => Dumped(s)
  /\ s.kind = "restore" =>
       /\ s.at = 5 => shelf[s.entry].file = "whole"
       /\ (s.at \in 6..9 /\ s.worst = "pass") => Loaded(s)
       /\ (s.at \in 8..9 /\ s.worst = "pass") => db.revision = head
  /\ (s.kind = "upgrade" /\ ~ s.wrote) =>
       /\ s.expected \in {{}, {Cardinality(s.before)}}
       /\ db.rows \subseteq s.before
       /\ s.at \in 1..5 => db.rows = s.before

OperationsInv ==
  /\ OperationsFit
  /\ \A o, p \in Operator : (Busy(o) /\ Busy(p) /\ o # p) => script[o].met
  /\ \A o, p \in Operator : (report[o].status # "none" /\ ~ report[o].of.met) => ~ Busy(p)
  /\ \A o \in Operator : (Busy(o) /\ ~ script[o].met) => Knows(script[o])
  /\ SuccessIsTrue

-----------------------------------------------------------------------------
LEMMA StepsAre ==
  /\ DOMAIN StepsOf = {"deploy", "backup", "restore", "upgrade"}
  /\ StepsOf["deploy"] = <<"compose", "health", "extension", "revision">>
  /\ StepsOf["backup"] = <<"open", "dump", "files">>
  /\ StepsOf["restore"] = <<"choose", "health", "count", "drop", "load", "health", "revision", "verify", "files">>
  /\ StepsOf["upgrade"] = <<"version", "count", "health", "extension", "migrate", "revision",
                            "health", "extension", "verify">>
BY DEF StepsOf

LEMMA LengthsAre ==
  /\ DOMAIN StepsOf = {"deploy", "backup", "restore", "upgrade"}
  /\ Len(StepsOf["deploy"]) = 4 /\ Len(StepsOf["backup"]) = 3
  /\ Len(StepsOf["restore"]) = 9 /\ Len(StepsOf["upgrade"]) = 9
BY StepsAre

\* Where each step is met.
LEMMA PlacesAre ==
  ASSUME NEW k \in DOMAIN StepsOf, NEW n \in 1..Len(StepsOf[k]), NEW step, step = StepsOf[k][n]
  PROVE  /\ step = "open" => k = "backup" /\ n = 1
         /\ step = "dump" => k = "backup" /\ n = 2
         /\ step = "files" => (k = "backup" /\ n = 3) \/ (k = "restore" /\ n = 9)
         /\ step = "choose" => k = "restore" /\ n = 1
         /\ step = "drop" => k = "restore" /\ n = 4
         /\ step = "load" => k = "restore" /\ n = 5
         /\ step = "health" => (k = "deploy" /\ n = 2) \/ (k = "restore" /\ n \in {2, 6})
                               \/ (k = "upgrade" /\ n \in {3, 7})
         /\ step = "count" => (k = "restore" /\ n = 3) \/ (k = "upgrade" /\ n = 2)
         /\ step = "verify" => (k = "restore" /\ n = 8) \/ (k = "upgrade" /\ n = 9)
         /\ step = "revision" => (k = "deploy" /\ n = 4) \/ (k = "restore" /\ n = 7)
                                 \/ (k = "upgrade" /\ n = 6)
         /\ step = "version" => k = "upgrade" /\ n = 1
         /\ step = "compose" => k = "deploy" /\ n = 1
         /\ step = "extension" => (k = "deploy" /\ n = 3) \/ (k = "upgrade" /\ n \in {4, 8})
         /\ step = "migrate" => k = "upgrade" /\ n = 5
<1>1. CASE k = "deploy"
  <2>1. n \in 1..4
    BY <1>1, LengthsAre
  <2>2. step = <<"compose", "health", "extension", "revision">>[n]
    BY <1>1, StepsAre
  <2> QED BY <1>1, <2>1, <2>2
<1>2. CASE k = "backup"
  <2>1. n \in 1..3
    BY <1>2, LengthsAre
  <2>2. step = <<"open", "dump", "files">>[n]
    BY <1>2, StepsAre
  <2> QED BY <1>2, <2>1, <2>2
<1>3. CASE k = "restore"
  <2>1. n \in 1..9
    BY <1>3, LengthsAre
  <2>2. step = <<"choose", "health", "count", "drop", "load", "health", "revision", "verify", "files">>[n]
    BY <1>3, StepsAre
  <2> QED BY <1>3, <2>1, <2>2
<1>4. CASE k = "upgrade"
  <2>1. n \in 1..9
    BY <1>4, LengthsAre
  <2>2. step = <<"version", "count", "health", "extension", "migrate", "revision",
                 "health", "extension", "verify">>[n]
    BY <1>4, StepsAre
  <2> QED BY <1>4, <2>1, <2>2
<1> QED BY <1>1, <1>2, <1>3, <1>4, StepsAre

LEMMA WorstIs ==
  ASSUME NEW a \in Results, NEW b \in Results
  PROVE  /\ Worst(a, b) \in Results
         /\ Worst(a, b) = "pass" => a = "pass" /\ b = "pass"
         /\ StatusOf(Worst(a, b)) \in {"success", "degraded", "failure"}
         /\ StatusOf(Worst(a, b)) = "success" => Worst(a, b) = "pass"
<1>1. CASE a = "degraded" \/ b = "degraded"
  BY <1>1 DEF Worst, StatusOf, Results
<1>2. CASE a # "degraded" /\ b # "degraded" /\ (a = "failure" \/ b = "failure")
  BY <1>2 DEF Worst, StatusOf, Results
<1>3. CASE a = "pass" /\ b = "pass"
  BY <1>3 DEF Worst, StatusOf, Results
<1> QED BY <1>1, <1>2, <1>3 DEF Results

LEMMA RowsFinite ==
  ASSUME OperationsFit
  PROVE  /\ \A rows \in SUBSET (1..written) : IsFiniteSet(rows) /\ Cardinality(rows) \in Nat
         /\ Counts \subseteq Nat /\ (Counts = {} \/ Counts = {Cardinality(db.rows)})
<1>1. IsFiniteSet(1..written)
  <2>1. 1 \in Int /\ written \in Int
    BY DEF OperationsFit
  <2> QED BY <2>1, FS_Interval
<1>2. \A rows \in SUBSET (1..written) : IsFiniteSet(rows) /\ Cardinality(rows) \in Nat
  BY <1>1, FS_Subset, FS_CardinalityType
<1> QED BY <1>2 DEF OperationsFit, Counts

\* A script is at a step that is its own.
LEMMA AtStep ==
  ASSUME OperationsFit, NEW o \in Operator, NEW step, At(o, step)
  PROVE  /\ script[o] \in Scripts /\ script[o].kind \in DOMAIN StepsOf
         /\ script[o].at \in 1..Len(StepsOf[script[o].kind])
         /\ step = StepsOf[script[o].kind][script[o].at]
<1>1. script[o] \in Scripts /\ Placed(script[o]) /\ script[o].kind # "none"
  BY DEF OperationsFit, At, Busy
<1> QED BY <1>1, StepsAre DEF Placed, Scripts, At

\* What a script that runs alone may know of the others and of what was reported.
LEMMA OthersAreIdle ==
  ASSUME OperationsInv, NEW o \in Operator, Busy(o)
  PROVE  /\ \A p \in Operator : p # o /\ Busy(p) => script[p].met
         /\ \A p \in Operator : report[p].status # "none" => report[p].of.met
         /\ \A p \in Operator : ~ script[o].met /\ Busy(p) => p = o
BY DEF OperationsInv


\* Reports of scripts that met another promise nothing.
LEMMA NothingIsPromised ==
  (\A p \in Operator : report'[p].status # "none" => report'[p].of.met) => SuccessIsTrue'
BY DEF SuccessIsTrue, BackupIsWhole, RestoreIsComplete, UpgradeLosesNothing, Succeeded

\* t is the script s at its next step, after the result.
NextOf(t, s, result) ==
  /\ t \in Scripts /\ t.kind = s.kind /\ t.at = s.at + 1 /\ t.entry = s.entry /\ t.before = s.before
  /\ t.expected = s.expected /\ t.wrote = s.wrote /\ t.met = s.met
  /\ t.worst = "pass" => s.worst = "pass" /\ result = "pass"

LEMMA ScriptGoesOn ==
  ASSUME OperationsInv, NEW o \in Operator, Busy(o), NEW s \in Scripts, s.kind = script[o].kind,
         s.met = script[o].met, s.kind \in DOMAIN StepsOf, s.at + 1 \in 1..Len(StepsOf[s.kind]),
         NEW result \in Results, Done(o, s, result), UNCHANGED <<head, written>>,
         db' \in Bases, db'.rows \subseteq 1..written,
         shelf' \in Seq(Dumps), DOMAIN shelf \subseteq DOMAIN shelf',
         \A i \in DOMAIN shelf' : shelf'[i].of.rows \subseteq 1..written,
         (s.kind = "backup" /\ s.at = 1) \/ (s.kind = "restore" /\ s.at \in 1..7) => s.entry \in DOMAIN shelf',
         \A t : NextOf(t, s, result) /\ ~ s.met => Knows(t)'
  PROVE  OperationsInv'
<1>1. PICK t : t = [s EXCEPT !.worst = Worst(@, result), !.at = s.at + 1]
  OBVIOUS
<1>2. s.worst \in Results /\ s.at \in Nat /\ Len(StepsOf[s.kind]) \in Nat
  BY StepsAre, LengthsAre DEF Scripts
<1>3. NextOf(t, s, result)
  <2>1. PICK w : w = Worst(s.worst, result)
    OBVIOUS
  <2>2. w \in Results /\ (w = "pass" => s.worst = "pass" /\ result = "pass")
    BY <1>2, <2>1, WorstIs
  <2>3. t = [s EXCEPT !.worst = w, !.at = s.at + 1] /\ s.at + 1 \in Nat
    BY <1>1, <1>2, <2>1
  <2> QED BY <2>2, <2>3 DEF NextOf, Scripts
<1>4. UNCHANGED report /\ script' = [script EXCEPT ![o] = t]
  <2>1. s.at < Len(StepsOf[s.kind])
    BY <1>2
  <2> QED BY <1>1, <2>1 DEF Done
<1>5. /\ script' \in [Operator -> Scripts] /\ script'[o] = t
      /\ \A p \in Operator : p # o => script'[p] = script[p]
  BY <1>3, <1>4 DEF OperationsInv, OperationsFit, NextOf
<1>6. OperationsFit'
  <2>1. \A p \in Operator : Placed(script[p])'
    <3> TAKE p \in Operator
    <3>1. CASE p = o
      <4>1. t.kind = s.kind /\ t.at = s.at + 1 /\ t.entry = s.entry
        BY <1>3 DEF NextOf
      <4>2. t.at = 2 => s.at = 1
        BY <1>2, <4>1
      <4>3. t.at \in 2..8 => s.at \in 1..7
        BY <1>2, <4>1
      <4> QED BY <1>5, <3>1, <4>1, <4>2, <4>3 DEF Placed
    <3>2. CASE p # o
      BY <1>5, <3>2 DEF Placed, OperationsInv, OperationsFit
    <3> QED BY <3>1, <3>2
  <2> QED BY <1>4, <1>5, <2>1 DEF OperationsInv, OperationsFit
<1>7. /\ \A p \in Operator : Busy(p)' <=> Busy(p)
      /\ \A p \in Operator : script'[p].met = script[p].met
  BY <1>3, <1>5 DEF Busy, NextOf
<1>8. \A p \in Operator : report'[p].status # "none" => report'[p].of.met
  BY <1>4, OthersAreIdle
<1>9. SuccessIsTrue'
  BY <1>8, NothingIsPromised
<1>10. ASSUME NEW p \in Operator, Busy(p)', ~ script'[p].met PROVE Knows(script[p])'
  <2>1. p = o
    BY <1>7, <1>10, OthersAreIdle
  <2> QED BY <1>3, <1>5, <1>7, <1>10, <2>1
<1>11. \A p, q \in Operator : (Busy(p)' /\ Busy(q)' /\ p # q) => script'[p].met
  BY <1>7 DEF OperationsInv
<1> QED BY <1>6, <1>8, <1>9, <1>10, <1>11 DEF OperationsInv

\* What a script must have come to when it ends without a failure.
Right(s) ==
  /\ s.kind = "backup" => Dumped(s)
  /\ s.kind = "restore" => Loaded(s) /\ db.revision = head
  /\ (s.kind = "upgrade" /\ s.expected # {} /\ ~ s.wrote) => db.rows = s.before

LEMMA ScriptEnds ==
  ASSUME OperationsInv, NEW o \in Operator, Busy(o), NEW s \in Scripts, s.kind = script[o].kind,
         s.met = script[o].met, s.kind \in DOMAIN StepsOf, s.at = Len(StepsOf[s.kind]),
         NEW result \in Results, Done(o, s, result), UNCHANGED <<db, shelf, head, written, replaced>>,
         (s.worst = "pass" /\ result = "pass" /\ ~ s.met) => Right(s)
  PROVE  OperationsInv'
<1>1. PICK now, w, r : /\ w = Worst(s.worst, result) /\ now = [s EXCEPT !.worst = w]
                       /\ r = [status |-> StatusOf(w), of |-> now, db |-> db, head |-> head]
  OBVIOUS
<1>2. s.worst \in Results
  BY DEF Scripts
<1>3. /\ w \in Results /\ (w = "pass" => s.worst = "pass" /\ result = "pass")
      /\ StatusOf(w) \in {"success", "degraded", "failure"} /\ (StatusOf(w) = "success" => w = "pass")
  BY <1>1, <1>2, WorstIs
<1>4. /\ now \in Scripts /\ now.kind = s.kind /\ now.entry = s.entry /\ now.before = s.before
      /\ now.expected = s.expected /\ now.wrote = s.wrote /\ now.met = s.met /\ now.worst = w
  BY <1>1, <1>3 DEF Scripts
<1>5. /\ r \in Reports /\ r.of = now /\ r.db = db /\ r.head = head /\ r.status = StatusOf(w)
  BY <1>1, <1>3, <1>4 DEF OperationsInv, OperationsFit, Reports
<1>6. script' = [script EXCEPT ![o] = NoScript] /\ report' = [report EXCEPT ![o] = r]
  BY <1>1 DEF Done
<1>7. NoScript \in Scripts /\ NoScript.kind = "none"
  BY DEF NoScript, Scripts, Results
<1>8. /\ script' \in [Operator -> Scripts] /\ report' \in [Operator -> Reports]
      /\ script'[o] = NoScript /\ report'[o] = r
      /\ \A p \in Operator : p # o => script'[p] = script[p] /\ report'[p] = report[p]
  BY <1>5, <1>6, <1>7 DEF OperationsInv, OperationsFit
<1>9. OperationsFit'
  <2>1. \A p \in Operator : Placed(script[p])'
    BY <1>7, <1>8 DEF Placed, OperationsInv, OperationsFit
  <2> QED BY <1>8, <2>1 DEF OperationsInv, OperationsFit
<1>10. /\ \A p \in Operator : Busy(p)' => p # o /\ Busy(p) /\ script[p].met
       /\ \A p \in Operator : p # o => (report'[p].status # "none" => report'[p].of.met)
  BY <1>7, <1>8, OthersAreIdle DEF Busy
<1>11. ~ s.met => \A p \in Operator : ~ Busy(p)'
  BY <1>10, OthersAreIdle
<1>12. \A p, q \in Operator : (report'[p].status # "none" /\ ~ report'[p].of.met) => ~ Busy(q)'
  BY <1>4, <1>5, <1>8, <1>10, <1>11
<1>13. SuccessIsTrue'
  <2>1. \A p \in Operator : \A k : Succeeded(p, k)' => p = o /\ k = s.kind /\ Right(s)
    BY <1>3, <1>4, <1>5, <1>8, <1>10 DEF Succeeded
  <2>2. BackupIsWhole'
    <3> SUFFICES ASSUME Succeeded(o, "backup")'
                 PROVE  OnShelf(report[o].of.entry)'.file = "whole"
                        /\ report'[o].of.before \subseteq OnShelf(report[o].of.entry)'.of.rows \cup replaced'
      BY <2>1 DEF BackupIsWhole
    <3>1. Dumped(s)
      BY <2>1 DEF Right
    <3>2. OnShelf(report[o].of.entry)' = shelf[s.entry] /\ report'[o].of.before = s.before
      BY <1>4, <1>5, <1>8, <3>1 DEF OnShelf, Dumped
    <3> QED BY <3>1, <3>2 DEF Dumped
  <2>3. RestoreIsComplete'
    <3> SUFFICES ASSUME Succeeded(o, "restore")'
                 PROVE  /\ OnShelf(report[o].of.entry)'.file = "whole"
                        /\ report'[o].db.revision = report'[o].head
                        /\ OnShelf(report[o].of.entry)'.of.rows \subseteq report'[o].db.rows \cup replaced'
                        /\ report'[o].of.before \cap report'[o].db.rows
                             \subseteq OnShelf(report[o].of.entry)'.of.rows
      BY <2>1 DEF RestoreIsComplete
    <3>1. Loaded(s) /\ db.revision = head
      BY <2>1 DEF Right
    <3>2. OnShelf(report[o].of.entry)' = shelf[s.entry] /\ report'[o].of.before = s.before
      BY <1>4, <1>5, <1>8, <3>1 DEF OnShelf, Loaded
    <3> QED BY <1>5, <1>8, <3>1, <3>2 DEF Loaded
  <2>4. UpgradeLosesNothing'
    <3> SUFFICES ASSUME Succeeded(o, "upgrade")', report'[o].of.expected # {}, ~ report'[o].of.wrote
                 PROVE  report'[o].db.rows = report'[o].of.before
      BY <2>1 DEF UpgradeLosesNothing
    <3> QED BY <1>4, <1>5, <1>8, <2>1 DEF Right
  <2> QED BY <2>2, <2>3, <2>4 DEF SuccessIsTrue
<1>14. \A p, q \in Operator : (Busy(p)' /\ Busy(q)' /\ p # q) => script'[p].met
  BY <1>8, <1>10
<1>15. \A p \in Operator : (Busy(p)' /\ ~ script'[p].met) => Knows(script[p])'
  BY <1>8, <1>10
<1> QED BY <1>9, <1>12, <1>13, <1>14, <1>15 DEF OperationsInv


\* A step that only looks at things, but for the last of a script.
LEMMA LookingKeeps ==
  ASSUME OperationsInv, NEW o \in Operator, NEW step, At(o, step), NEW s \in Scripts,
         s.kind = script[o].kind, s.at = script[o].at, s.entry = script[o].entry,
         s.before = script[o].before, s.met = script[o].met, s.wrote = script[o].wrote,
         s.worst = script[o].worst, NEW result \in Results, Done(o, s, result),
         UNCHANGED <<db, up, head, shelf, written, replaced>>,
         step \in {"compose", "health", "extension", "version", "count", "revision", "verify", "files"},
         (s.expected # script[o].expected /\ ~ s.met /\ s.kind = "upgrade" /\ ~ s.wrote) =>
           s.expected \in {{}, {Cardinality(s.before)}},
         (step = "revision" /\ result = "pass") => db.revision = head,
         (step = "verify" /\ result = "pass") => s.expected \in {{}, Counts}
  PROVE  OperationsInv'
<1>1. /\ script[o].kind \in DOMAIN StepsOf /\ s.at \in 1..Len(StepsOf[s.kind])
      /\ step = StepsOf[s.kind][s.at]
  BY AtStep DEF OperationsInv
<1>2. Busy(o) /\ Len(StepsOf[s.kind]) \in Nat
  BY <1>1, StepsAre, LengthsAre DEF At
<1>3. ~ s.met => Knows(s)
  <2>1. ~ s.met => Knows(script[o])
    BY <1>2 DEF OperationsInv
  <2> QED BY <2>1 DEF Knows, Dumped, Loaded
<1>4. Placed(s)
  BY DEF OperationsInv, OperationsFit, Placed
<1>5. CASE s.at < Len(StepsOf[s.kind])
  <2>1. s.at \in Nat /\ s.at + 1 \in 1..Len(StepsOf[s.kind])
    BY <1>1, <1>2, <1>5
  <2>2. (s.kind = "backup" /\ s.at = 1) \/ (s.kind = "restore" /\ s.at \in 1..7) => s.entry \in DOMAIN shelf
    <3>1. ~ (s.kind = "backup" /\ s.at = 1) /\ ~ (s.kind = "restore" /\ s.at = 1)
      BY <1>1, StepsAre
    <3> QED BY <1>1, <1>4, <2>1, <3>1, StepsAre DEF Placed
  <2>3. ASSUME NEW t, NextOf(t, s, result), ~ s.met PROVE Knows(t)
    <3>1. t.kind = "backup" => t.at # 3
      BY <1>1, <2>1, <2>3, StepsAre DEF NextOf
    <3>2. t.kind = "restore" => t.at # 5 /\ (t.at \in 6..9 => s.at \in 6..8)
      BY <1>1, <2>1, <2>3, StepsAre, LengthsAre DEF NextOf
    <3>3. t.kind = "restore" /\ t.at \in 8..9 => s.at \in 7..8
      BY <2>1, <2>3 DEF NextOf
    <3>4. t.kind = "restore" /\ s.at = 7 => step = "revision"
      BY <1>1, <2>3, StepsAre DEF NextOf
    <3>5. t.kind = "upgrade" /\ t.at \in 1..5 => s.at \in 1..5
      BY <1>1, <2>1, <2>3 DEF NextOf
    <3>6. t.kind = s.kind /\ t.entry = s.entry /\ t.before = s.before /\ t.expected = s.expected
          /\ t.wrote = s.wrote /\ (t.worst = "pass" => s.worst = "pass" /\ result = "pass")
      BY <2>3 DEF NextOf
    <3>7. t.kind = "restore" /\ t.at \in 6..9 /\ t.worst = "pass" => Loaded(t)
      BY <1>3, <2>3, <3>2, <3>6 DEF Knows, Loaded
    <3>8. t.kind = "restore" /\ t.at \in 8..9 /\ t.worst = "pass" => db.revision = head
      BY <1>3, <2>3, <3>3, <3>4, <3>6 DEF Knows
    <3>9. t.kind = "upgrade" /\ ~ t.wrote =>
            /\ t.expected \in {{}, {Cardinality(t.before)}} /\ db.rows \subseteq t.before
            /\ t.at \in 1..5 => db.rows = t.before
      BY <1>3, <2>3, <3>5, <3>6 DEF Knows
    <3> QED BY <1>3, <2>3, <3>1, <3>2, <3>6, <3>7, <3>8, <3>9 DEF Knows
  <2>4. \A t : NextOf(t, s, result) /\ ~ s.met => Knows(t)'
    BY <2>3 DEF Knows, Dumped, Loaded
  <2> QED BY <1>1, <1>2, <2>1, <2>2, <2>4, ScriptGoesOn DEF OperationsInv, OperationsFit
<1>6. CASE s.at = Len(StepsOf[s.kind])
  <2>1. ASSUME s.worst = "pass", result = "pass", ~ s.met PROVE Right(s)
    <3>1. s.kind = "backup" => s.at = 3
      BY <1>6, LengthsAre
    <3>2. s.kind = "restore" => s.at = 9
      BY <1>6, LengthsAre
    <3>3. s.kind = "upgrade" => step = "verify"
      <4>1. StepsOf["upgrade"][9] = "verify"
        BY StepsAre
      <4> QED BY <1>1, <1>6, <4>1, LengthsAre
    <3>4. ASSUME s.kind = "upgrade", s.expected # {}, ~ s.wrote PROVE db.rows = s.before
      <4>1. s.expected \in {{}, Counts} /\ s.expected \in {{}, {Cardinality(s.before)}}
            /\ db.rows \subseteq s.before /\ s.before \subseteq 1..written
        BY <1>3, <2>1, <3>3, <3>4 DEF Knows
      <4>2. Cardinality(db.rows) = Cardinality(s.before) /\ IsFiniteSet(s.before)
        BY <3>4, <4>1, RowsFinite DEF OperationsInv
      <4> QED BY <4>1, <4>2, FS_Subset
    <3> QED BY <1>3, <2>1, <3>1, <3>2, <3>4 DEF Knows, Right
  <2> QED BY <1>1, <1>2, <1>6, <2>1, ScriptEnds
<1> QED BY <1>1, <1>2, <1>5, <1>6

LEMMA LookKeeps ==
  ASSUME OperationsInv, NEW o \in Operator, Look(o)
  PROVE  OperationsInv'
<1>1. PICK step \in {"compose", "extension", "files"}, result \in Results :
        At(o, step) /\ Done(o, script[o], result)
  BY DEF Look, Results
<1>2. UNCHANGED <<db, up, head, shelf, written, replaced>> /\ script[o] \in Scripts
  BY <1>1, AtStep DEF Look, OperationsInv
<1> QED BY <1>1, <1>2, LookingKeeps

LEMMA CheckHealthKeeps ==
  ASSUME OperationsInv, NEW o \in Operator, CheckHealth(o)
  PROVE  OperationsInv'
<1>1. PICK result \in Results : Done(o, script[o], result)
  BY DEF CheckHealth, Pass, Results
<1>2. At(o, "health") /\ UNCHANGED <<db, up, head, shelf, written, replaced>> /\ script[o] \in Scripts
  BY AtStep DEF CheckHealth, OperationsInv
<1> QED BY <1>1, <1>2, LookingKeeps

LEMMA CheckRevisionKeeps ==
  ASSUME OperationsInv, NEW o \in Operator, CheckRevision(o)
  PROVE  OperationsInv'
<1>1. PICK step \in {"version", "revision"}, result \in Results :
        At(o, step) /\ Done(o, script[o], result)
        /\ ((step = "revision" /\ result = "pass") => db.revision = head)
  BY DEF CheckRevision, Pass, Results
<1>2. UNCHANGED <<db, up, head, shelf, written, replaced>> /\ script[o] \in Scripts
  BY <1>1, AtStep DEF CheckRevision, OperationsInv
<1> QED BY <1>1, <1>2, LookingKeeps

LEMMA CountKeeps ==
  ASSUME OperationsInv, NEW o \in Operator, Count(o)
  PROVE  OperationsInv'
<1>1. PICK s : s = [script[o] EXCEPT !.expected = Counts]
  OBVIOUS
<1>2. At(o, "count") /\ UNCHANGED <<db, up, head, shelf, written, replaced>> /\ script[o] \in Scripts
      /\ script[o].kind \in DOMAIN StepsOf /\ script[o].at \in 1..Len(StepsOf[script[o].kind])
      /\ StepsOf[script[o].kind][script[o].at] = "count"
  BY AtStep DEF Count, OperationsInv
<1>3. Counts \in SUBSET Nat /\ (Counts = {} \/ Counts = {Cardinality(db.rows)})
  BY RowsFinite DEF OperationsInv
<1>4. /\ s \in Scripts /\ s.kind = script[o].kind /\ s.at = script[o].at /\ s.entry = script[o].entry
      /\ s.before = script[o].before /\ s.met = script[o].met /\ s.wrote = script[o].wrote
      /\ s.worst = script[o].worst /\ s.expected = Counts
  BY <1>1, <1>2, <1>3 DEF Scripts
<1>5. ASSUME ~ s.met, s.kind = "upgrade", ~ s.wrote PROVE s.expected \in {{}, {Cardinality(s.before)}}
  <2>1. script[o].at = 2
    BY <1>2, <1>4, <1>5, PlacesAre
  <2>2. Knows(script[o])
    BY <1>2, <1>4, <1>5 DEF OperationsInv, At
  <2> QED BY <1>3, <1>4, <1>5, <2>1, <2>2 DEF Knows
<1>6. Done(o, s, "pass") /\ "pass" \in Results
  BY <1>1 DEF Count, Results
<1> QED BY <1>2, <1>4, <1>5, <1>6, LookingKeeps

LEMMA VerifyKeeps ==
  ASSUME OperationsInv, NEW o \in Operator, Verify(o)
  PROVE  OperationsInv'
<1>1. PICK result \in Results : Done(o, script[o], result)
                                /\ (result = "pass" => script[o].expected \in {{}, Counts})
  BY DEF Verify, Pass, Results
<1>2. At(o, "verify") /\ UNCHANGED <<db, up, head, shelf, written, replaced>> /\ script[o] \in Scripts
  BY AtStep DEF Verify, OperationsInv
<1> QED BY <1>1, <1>2, LookingKeeps


LEMMA OpenDumpKeeps ==
  ASSUME OperationsInv, NEW o \in Operator, OpenDump(o)
  PROVE  OperationsInv'
<1>1. /\ script[o] \in Scripts /\ script[o].kind = "backup" /\ script[o].at = 1
      /\ UNCHANGED <<db, up, head, written, replaced>> /\ Busy(o)
  <2>1. At(o, "open") /\ UNCHANGED <<db, up, head, written, replaced>>
    BY DEF OpenDump
  <2> QED BY <2>1, AtStep, PlacesAre DEF OperationsInv, At
<1>2. OperationsFit /\ shelf \in Seq(Dumps) /\ Len(shelf) \in Nat /\ DOMAIN shelf = 1..Len(shelf)
  BY DEF OperationsInv, OperationsFit
<1>3. /\ Torn \in Dumps /\ Torn.of.rows = {} /\ NoFile \in Dumps /\ NoFile.of.rows = {}
  BY DEF Torn, NoFile, NoTables, Database, Dumps, Bases
<1>4. ASSUME NEW d \in Dumps, d.of.rows = {}, shelf' = Append(shelf, d)
      PROVE  /\ shelf' \in Seq(Dumps) /\ DOMAIN shelf' = 1..(Len(shelf) + 1) /\ DOMAIN shelf \subseteq DOMAIN shelf'
             /\ \A i \in DOMAIN shelf' : shelf'[i].of.rows \subseteq 1..written
  <2>1. /\ shelf' \in Seq(Dumps) /\ DOMAIN shelf' = 1..(Len(shelf) + 1)
        /\ shelf'[Len(shelf) + 1] = d /\ \A i \in 1..Len(shelf) : shelf'[i] = shelf[i]
    BY <1>2, <1>4
  <2>2. \A i \in DOMAIN shelf' : i = Len(shelf) + 1 \/ i \in DOMAIN shelf
    BY <1>2, <2>1
  <2>3. \A i \in DOMAIN shelf' : shelf'[i].of.rows \subseteq 1..written
    BY <1>2, <1>4, <2>1, <2>2 DEF OperationsFit
  <2> QED BY <1>2, <2>1, <2>3
<1>5. CASE shelf' = Append(shelf, Torn) /\ Done(o, [script[o] EXCEPT !.entry = Len(shelf) + 1], "pass")
  <2>1. PICK s : s = [script[o] EXCEPT !.entry = Len(shelf) + 1]
    OBVIOUS
  <2>2. /\ s \in Scripts /\ s.kind = "backup" /\ s.at = 1 /\ s.entry = Len(shelf) + 1
        /\ s.met = script[o].met /\ s.before = script[o].before
    BY <1>1, <1>2, <2>1 DEF Scripts
  <2>3. ASSUME NEW t, NextOf(t, s, "pass"), ~ s.met PROVE Knows(t)'
    <3>1. t.kind = "backup" /\ t.at = 2 /\ t.before = script[o].before
      BY <2>2, <2>3 DEF NextOf
    <3>2. Knows(script[o])
      BY <1>1, <2>2, <2>3 DEF OperationsInv
    <3> QED BY <1>1, <3>1, <3>2 DEF Knows
  <2>4. /\ Done(o, s, "pass") /\ "pass" \in Results
        /\ s.at + 1 \in 1..Len(StepsOf[s.kind]) /\ s.kind \in DOMAIN StepsOf
    <3>1. Done(o, s, "pass") /\ "pass" \in Results
      BY <1>5, <2>1 DEF Results
    <3>2. s.at + 1 = 2 /\ 2 \in 1..3
      BY <2>2
    <3> QED BY <2>2, <3>1, <3>2, LengthsAre
  <2>5. /\ shelf' \in Seq(Dumps) /\ DOMAIN shelf \subseteq DOMAIN shelf' /\ s.entry \in DOMAIN shelf'
        /\ \A i \in DOMAIN shelf' : shelf'[i].of.rows \subseteq 1..written
    BY <1>2, <1>3, <1>4, <1>5, <2>2
  <2>6. db' \in Bases /\ db'.rows \subseteq 1..written
    BY <1>1, <1>2 DEF OperationsFit
  <2> QED BY <1>1, <2>2, <2>3, <2>4, <2>5, <2>6, ScriptGoesOn
<1>6. CASE shelf' = Append(shelf, NoFile) /\ Done(o, [script[o] EXCEPT !.at = 2], "degraded")
  <2>1. PICK s : s = [script[o] EXCEPT !.at = 2]
    OBVIOUS
  <2>2. /\ s \in Scripts /\ s.kind = "backup" /\ s.at = 2
        /\ s.met = script[o].met /\ s.before = script[o].before
    BY <1>1, <2>1 DEF Scripts
  <2>3. ASSUME NEW t, NextOf(t, s, "degraded"), ~ s.met PROVE Knows(t)'
    <3>1. t.kind = "backup" /\ t.worst # "pass" /\ t.before = script[o].before
      BY <2>2, <2>3 DEF NextOf
    <3>2. Knows(script[o])
      BY <1>1, <2>2, <2>3 DEF OperationsInv
    <3> QED BY <1>1, <3>1, <3>2 DEF Knows
  <2>4. /\ Done(o, s, "degraded") /\ "degraded" \in Results
        /\ s.at + 1 \in 1..Len(StepsOf[s.kind]) /\ s.kind \in DOMAIN StepsOf
    <3>1. Done(o, s, "degraded") /\ "degraded" \in Results
      BY <1>6, <2>1 DEF Results
    <3>2. s.at + 1 = 3 /\ 3 \in 1..3
      BY <2>2
    <3> QED BY <2>2, <3>1, <3>2, LengthsAre
  <2>5. /\ shelf' \in Seq(Dumps) /\ DOMAIN shelf \subseteq DOMAIN shelf'
        /\ \A i \in DOMAIN shelf' : shelf'[i].of.rows \subseteq 1..written
    BY <1>2, <1>3, <1>4, <1>6
  <2>6. db' \in Bases /\ db'.rows \subseteq 1..written
    BY <1>1, <1>2 DEF OperationsFit
  <2> QED BY <1>1, <2>2, <2>3, <2>4, <2>5, <2>6, ScriptGoesOn
<1> QED BY <1>5, <1>6 DEF OpenDump

\* A script goes on without a change to the shelf, its own entry being what it was.
LEMMA BesideShelf ==
  ASSUME OperationsInv, NEW o \in Operator, Busy(o), NEW n \in Nat, NEW result \in Results,
         script[o].kind \in {"restore", "upgrade"}, script[o].at \in 2..5, n \in script[o].at..5,
         Done(o, [script[o] EXCEPT !.at = n], result), UNCHANGED <<head, written, shelf, replaced>>,
         db' \in Bases, db'.rows \subseteq 1..written,
         \A t : (/\ t.kind = script[o].kind /\ t.at = n + 1 /\ t.entry = script[o].entry
                 /\ t.before = script[o].before /\ t.expected = script[o].expected
                 /\ t.wrote = script[o].wrote /\ (t.worst = "pass" => result = "pass")
                 /\ Knows(script[o])) => Knows(t)'
  PROVE  OperationsInv'
<1>1. PICK s : s = [script[o] EXCEPT !.at = n]
  OBVIOUS
<1>2. script[o] \in Scripts /\ Placed(script[o]) /\ OperationsFit
  BY DEF OperationsInv, OperationsFit
<1>3. /\ s \in Scripts /\ s.kind = script[o].kind /\ s.at = n /\ s.entry = script[o].entry
      /\ s.before = script[o].before /\ s.expected = script[o].expected
      /\ s.wrote = script[o].wrote /\ s.met = script[o].met /\ Done(o, s, result)
  BY <1>1, <1>2 DEF Scripts
<1>4. s.kind \in DOMAIN StepsOf /\ s.at + 1 \in 1..Len(StepsOf[s.kind]) /\ s.at \in 2..5
  <2>1. s.at \in 2..5 /\ s.at + 1 \in 1..9
    BY <1>3
  <2>2. s.kind \in DOMAIN StepsOf /\ Len(StepsOf[s.kind]) = 9
    BY <1>3, LengthsAre
  <2> QED BY <2>1, <2>2
<1>5. s.kind = "restore" => s.entry \in DOMAIN shelf'
  BY <1>2, <1>3 DEF Placed
<1>6. ASSUME NEW t, NextOf(t, s, result), ~ s.met PROVE Knows(t)'
  <2>1. Knows(script[o])
    BY <1>3, <1>6 DEF OperationsInv
  <2> QED BY <1>3, <1>6, <2>1 DEF NextOf
<1>7. /\ shelf' \in Seq(Dumps) /\ DOMAIN shelf \subseteq DOMAIN shelf'
      /\ \A i \in DOMAIN shelf' : shelf'[i].of.rows \subseteq 1..written
  BY <1>2 DEF OperationsFit
<1>8. ~ (s.kind = "backup" /\ s.at = 1)
  BY <1>4
<1> QED BY <1>3, <1>4, <1>5, <1>6, <1>7, <1>8, ScriptGoesOn

LEMMA DumpKeeps ==
  ASSUME OperationsInv, NEW o \in Operator, Dump(o)
  PROVE  OperationsInv'
<1>1. /\ script[o] \in Scripts /\ script[o].kind = "backup" /\ script[o].at = 2
      /\ UNCHANGED <<db, up, head, written, replaced>> /\ Busy(o)
  <2>1. At(o, "dump") /\ UNCHANGED <<db, up, head, written, replaced>>
    BY DEF Dump
  <2> QED BY <2>1, AtStep, PlacesAre DEF OperationsInv, At
<1>2. /\ OperationsFit /\ shelf \in Seq(Dumps) /\ DOMAIN shelf = 1..Len(shelf) /\ Len(shelf) \in Nat
      /\ script[o].entry \in DOMAIN shelf
  BY <1>1 DEF OperationsInv, OperationsFit, Placed
<1>3. PICK result \in Results :
        /\ Done(o, script[o], result)
        /\ \/ shelf' = [shelf EXCEPT ![script[o].entry] = DumpOf(db)]
           \/ result # "pass" /\ shelf' = shelf
  BY DEF Dump, Pass, Results
<1>4. DumpOf(db) \in Dumps /\ DumpOf(db).file = "whole" /\ DumpOf(db).of = db
  BY <1>2 DEF DumpOf, Dumps, OperationsFit
<1>5. /\ shelf' \in Seq(Dumps) /\ DOMAIN shelf' = DOMAIN shelf
      /\ result = "pass" => shelf'[script[o].entry] = DumpOf(db)
      /\ \A i \in DOMAIN shelf : shelf'[i] = shelf[i] \/ shelf'[i] = DumpOf(db)
  <2>1. CASE shelf' = shelf /\ result # "pass"
    BY <1>2, <2>1
  <2>2. CASE shelf' = [shelf EXCEPT ![script[o].entry] = DumpOf(db)]
    BY <1>2, <1>4, <2>2
  <2> QED BY <1>3, <2>1, <2>2
<1>6. \A i \in DOMAIN shelf' : shelf'[i].of.rows \subseteq 1..written
  BY <1>2, <1>4, <1>5 DEF OperationsFit
<1>7. ASSUME NEW t, NextOf(t, script[o], result), ~ script[o].met PROVE Knows(t)'
  <2>1. t.kind = "backup" /\ t.at = 3 /\ t.before = script[o].before /\ t.entry = script[o].entry
        /\ (t.worst = "pass" => result = "pass")
    BY <1>1, <1>7 DEF NextOf
  <2>2. Knows(script[o])
    BY <1>1, <1>7 DEF OperationsInv
  <2>3. t.worst = "pass" => Dumped(t)'
    BY <1>1, <1>2, <1>4, <1>5, <2>1, <2>2 DEF Knows, Dumped
  <2> QED BY <1>1, <2>1, <2>2, <2>3 DEF Knows
<1>8. /\ script[o].at + 1 \in 1..Len(StepsOf[script[o].kind]) /\ script[o].kind \in DOMAIN StepsOf
      /\ db' \in Bases /\ db'.rows \subseteq 1..written
  BY <1>1, <1>2, LengthsAre DEF OperationsFit
<1> QED BY <1>1, <1>2, <1>3, <1>5, <1>6, <1>7, <1>8, ScriptGoesOn


LEMMA LeastOf ==
  ASSUME NEW S \in SUBSET Nat, S # {}
  PROVE  \E n \in S : \A m \in S : n <= m
<1> DEFINE Less == {p \in Nat \X Nat : p[1] < p[2]}
<1>1. IsWellFoundedOn(Less, Nat)
  BY NatLessThanWellFounded DEF OpToRel
<1>2. \A m, n \in Nat : m < n => <<m, n>> \in Less
  OBVIOUS
<1> HIDE DEF Less
<1>3. PICK n \in S : \A m \in S : ~ (<<m, n>> \in Less)
  BY <1>1, WFMin
<1>4. \A m \in S : ~ (m < n)
  BY <1>2, <1>3
<1>5. \A m \in S : m \in Nat
  OBVIOUS
<1> QED BY <1>3, <1>4, <1>5

LEMMA NewestOf ==
  ASSUME OperationsFit, WithFile # {}
  PROVE  Max(WithFile) \in DOMAIN shelf /\ Max(WithFile) \in Nat
<1>1. DOMAIN shelf = 1..Len(shelf) /\ Len(shelf) \in Nat
  BY DEF OperationsFit
<1>2. PICK S : S = {Len(shelf) - i : i \in WithFile}
  OBVIOUS
<1>3. WithFile \subseteq 1..Len(shelf)
  BY <1>1 DEF WithFile
<1>4. S \in SUBSET Nat /\ S # {}
  <2>1. \A i \in WithFile : Len(shelf) - i \in Nat
    BY <1>1, <1>3
  <2> QED BY <1>2, <2>1
<1>5. PICK n \in S : \A m \in S : n <= m
  BY <1>4, LeastOf
<1>6. PICK i \in WithFile : n = Len(shelf) - i
  BY <1>2
<1>7. \A j \in WithFile : i >= j
  <2> TAKE j \in WithFile
  <2>1. n <= Len(shelf) - j /\ i \in Nat /\ j \in Nat
    BY <1>1, <1>2, <1>3, <1>5
  <2> QED BY <1>1, <1>6, <2>1
<1>8. PICK m : m = Max(WithFile)
  OBVIOUS
<1>9. m \in WithFile
  BY <1>7, <1>8 DEF Max
<1>10. m \in DOMAIN shelf /\ m \in Nat
  BY <1>1, <1>3, <1>9
<1> QED BY <1>8, <1>10

LEMMA ChooseKeeps ==
  ASSUME OperationsInv, NEW o \in Operator, Choose(o)
  PROVE  OperationsInv'
<1>1. /\ script[o] \in Scripts /\ script[o].kind = "restore" /\ script[o].at = 1
      /\ UNCHANGED <<db, up, head, shelf, written, replaced>> /\ Busy(o)
  <2>1. At(o, "choose") /\ UNCHANGED <<db, up, head, shelf, written, replaced>>
    BY DEF Choose
  <2> QED BY <2>1, AtStep, PlacesAre DEF OperationsInv, At
<1>2. OperationsFit /\ Len(StepsOf["restore"]) = 9 /\ "restore" \in DOMAIN StepsOf
  BY LengthsAre DEF OperationsInv
<1>3. CASE WithFile # {}
  <2>1. PICK n : n = Max(WithFile)
    OBVIOUS
  <2>2. n \in DOMAIN shelf /\ n \in Nat
    BY <1>2, <1>3, <2>1, NewestOf
  <2>3. PICK s : s = [script[o] EXCEPT !.entry = n]
    OBVIOUS
  <2>4. /\ s \in Scripts /\ s.kind = "restore" /\ s.at = 1 /\ s.entry = n
        /\ s.met = script[o].met /\ s.before = script[o].before
    BY <1>1, <2>2, <2>3 DEF Scripts
  <2>5. Done(o, s, "pass") /\ "pass" \in Results
    BY <1>3, <2>1, <2>3 DEF Choose, Results
  <2>6. ASSUME NEW t, NextOf(t, s, "pass"), ~ s.met PROVE Knows(t)'
    <3>1. t.kind = "restore" /\ t.at = 2 /\ t.before = script[o].before
      BY <2>4, <2>6 DEF NextOf
    <3>2. Knows(script[o])
      BY <1>1, <2>4, <2>6 DEF OperationsInv
    <3> QED BY <1>1, <3>1, <3>2 DEF Knows
  <2>7. /\ db' \in Bases /\ db'.rows \subseteq 1..written /\ shelf' \in Seq(Dumps)
        /\ DOMAIN shelf \subseteq DOMAIN shelf' /\ s.entry \in DOMAIN shelf'
        /\ \A i \in DOMAIN shelf' : shelf'[i].of.rows \subseteq 1..written
    BY <1>1, <1>2, <2>2, <2>4 DEF OperationsFit
  <2>8. s.at + 1 \in 1..Len(StepsOf[s.kind]) /\ s.kind \in DOMAIN StepsOf /\ s.kind = script[o].kind
    <3>1. s.at + 1 = 2 /\ 2 \in 1..9
      BY <2>4
    <3> QED BY <1>1, <1>2, <2>4, <3>1
  <2> QED BY <1>1, <2>4, <2>5, <2>6, <2>7, <2>8, ScriptGoesOn
<1>4. CASE WithFile = {}
  <2>1. PICK s : s = [script[o] EXCEPT !.at = 9]
    OBVIOUS
  <2>2. s \in Scripts /\ s.kind = "restore" /\ s.at = 9 /\ s.met = script[o].met
    BY <1>1, <2>1 DEF Scripts
  <2>3. Done(o, s, "failure") /\ "failure" \in Results
    BY <1>2, <1>4, <2>1 DEF Choose, Results
  <2> QED BY <1>1, <1>2, <2>2, <2>3, ScriptEnds
<1> QED BY <1>3, <1>4

LEMMA PartsFit ==
  ASSUME NEW d \in Bases, NEW e \in Parts(d)
  PROVE  e \in Bases /\ e.rows \subseteq d.rows
<1>1. /\ e = [rows |-> e.rows, revision |-> e.revision, whole |-> e.whole]
      /\ e.rows \in SUBSET d.rows /\ e.revision \in {0, d.revision} /\ e.whole \in {FALSE}
  BY DEF Parts
<1>2. d.rows \in SUBSET Nat /\ d.revision \in Nat
  BY DEF Bases
<1>3. e.rows \in SUBSET Nat
  BY <1>1, <1>2
<1>4. e.revision \in Nat
  <2>1. PICK r : r = d.revision
    OBVIOUS
  <2> QED BY <1>1, <1>2, <2>1
<1>5. e.whole \in BOOLEAN
  BY <1>1
<1> QED BY <1>1, <1>3, <1>4, <1>5 DEF Bases

LEMMA DropKeeps ==
  ASSUME OperationsInv, NEW o \in Operator, Drop(o)
  PROVE  OperationsInv'
<1>1. /\ script[o] \in Scripts /\ script[o].kind = "restore" /\ script[o].at = 4
      /\ UNCHANGED <<up, head, shelf, written, replaced>> /\ Busy(o)
  <2>1. At(o, "drop") /\ UNCHANGED <<up, head, shelf, written, replaced>>
    BY DEF Drop
  <2> QED BY <2>1, AtStep, PlacesAre DEF OperationsInv, At
<1>2. PICK from : from = shelf[script[o].entry]
  OBVIOUS
<1>3. OperationsFit /\ script[o].entry \in DOMAIN shelf /\ from \in Dumps /\ from.of \in Bases
      /\ from.of.rows \subseteq 1..written
  <2>1. OperationsFit /\ script[o].entry \in DOMAIN shelf
    BY <1>1 DEF OperationsInv, OperationsFit, Placed
  <2>2. from \in Dumps /\ from.of.rows \subseteq 1..written
    BY <1>2, <2>1 DEF OperationsFit
  <2> QED BY <2>1, <2>2 DEF Dumps
<1>4. PICK n \in 4..5, result \in Results :
        /\ Done(o, [script[o] EXCEPT !.at = n], result)
        /\ n = 4 => from.file = "whole" /\ db' \in Parts(from.of)
        /\ n = 5 => result # "pass" /\ (db' = db \/ db' \in Parts(NoTables))
  <2>1. [script[o] EXCEPT !.at = @ + 1] = [script[o] EXCEPT !.at = 5]
        /\ script[o] = [script[o] EXCEPT !.at = 4]
    BY <1>1 DEF Scripts
  <2>2. \/ Done(o, script[o], "pass") /\ from.file = "whole" /\ db' \in Parts(from.of)
        \/ Done(o, [script[o] EXCEPT !.at = @ + 1], "failure") /\ (db' = db \/ db' \in Parts(NoTables))
        \/ Done(o, [script[o] EXCEPT !.at = @ + 1], "degraded") /\ db' = db
    BY <1>2 DEF Drop, Pass
  <2> QED BY <2>1, <2>2 DEF Results
<1>5. db' \in Bases /\ db'.rows \subseteq 1..written
  <2>1. NoTables \in Bases /\ NoTables.rows = {}
    BY DEF NoTables, Database, Bases
  <2> QED BY <1>3, <1>4, <2>1, PartsFit DEF OperationsFit
<1>6. ASSUME NEW t, t.kind = script[o].kind, t.at = n + 1, t.entry = script[o].entry,
             t.before = script[o].before, t.worst = "pass" => result = "pass", Knows(script[o])
      PROVE  Knows(t)'
  <2>1. n = 4 \/ (n = 5 /\ t.worst # "pass")
    BY <1>4, <1>6
  <2> QED BY <1>1, <1>2, <1>4, <1>6, <2>1 DEF Knows
<1>7. script[o].at \in 2..5 /\ n \in script[o].at..5 /\ n \in Nat
  BY <1>1
<1> QED BY <1>1, <1>4, <1>5, <1>6, <1>7, BesideShelf

LEMMA LoadRowsKeeps ==
  ASSUME OperationsInv, NEW o \in Operator, LoadRows(o)
  PROVE  OperationsInv'
<1>1. /\ script[o] \in Scripts /\ script[o].kind = "restore" /\ script[o].at = 5
      /\ UNCHANGED <<up, head, shelf, written, replaced>> /\ Busy(o)
  <2>1. At(o, "load") /\ UNCHANGED <<up, head, shelf, written, replaced>>
    BY DEF LoadRows
  <2> QED BY <2>1, AtStep, PlacesAre DEF OperationsInv, At
<1>2. PICK from : from = shelf[script[o].entry]
  OBVIOUS
<1>3. OperationsFit /\ script[o].entry \in DOMAIN shelf /\ from \in Dumps /\ from.of \in Bases
      /\ from.of.rows \subseteq 1..written
  <2>1. OperationsFit /\ script[o].entry \in DOMAIN shelf
    BY <1>1 DEF OperationsInv, OperationsFit, Placed
  <2>2. from \in Dumps /\ from.of.rows \subseteq 1..written
    BY <1>2, <2>1 DEF OperationsFit
  <2> QED BY <2>1, <2>2 DEF Dumps
<1>4. PICK result \in Results :
        /\ Done(o, [script[o] EXCEPT !.at = 5], result)
        /\ db' = from.of \/ (db' = db /\ result # "pass")
  <2>1. script[o] = [script[o] EXCEPT !.at = 5]
    BY <1>1 DEF Scripts
  <2>2. \/ Done(o, script[o], "pass") /\ db' = from.of
        \/ Done(o, script[o], "failure") /\ db' = db
    BY <1>2 DEF LoadRows, Pass
  <2> QED BY <2>1, <2>2 DEF Results
<1>5. db' \in Bases /\ db'.rows \subseteq 1..written
  BY <1>3, <1>4 DEF OperationsFit
<1>6. ASSUME NEW t, t.kind = script[o].kind, t.at = 6, t.entry = script[o].entry,
             t.before = script[o].before, t.worst = "pass" => result = "pass", Knows(script[o])
      PROVE  Knows(t)'
  <2>1. t.worst = "pass" => Loaded(t)'
    BY <1>1, <1>2, <1>3, <1>4, <1>6 DEF Knows, Loaded
  <2> QED BY <1>1, <1>6, <2>1 DEF Knows
<1>7. script[o].at \in 2..5 /\ 5 \in script[o].at..5 /\ 5 + 1 = 6
  BY <1>1
<1> QED BY <1>1, <1>4, <1>5, <1>6, <1>7, BesideShelf

LEMMA MigrateKeeps ==
  ASSUME OperationsInv, NEW o \in Operator, Migrate(o)
  PROVE  OperationsInv'
<1>1. /\ script[o] \in Scripts /\ script[o].kind = "upgrade" /\ script[o].at = 5
      /\ UNCHANGED <<up, head, shelf, written, replaced>> /\ Busy(o)
  <2>1. At(o, "migrate") /\ UNCHANGED <<up, head, shelf, written, replaced>>
    BY DEF Migrate
  <2> QED BY <2>1, AtStep, PlacesAre DEF OperationsInv, At
<1>2. PICK result \in Results :
        /\ Done(o, [script[o] EXCEPT !.at = 5], result)
        /\ db' = db \/ \E rows \in SUBSET db.rows : db' = Database(rows, head, TRUE)
  <2>1. script[o] = [script[o] EXCEPT !.at = 5]
    BY <1>1 DEF Scripts
  <2> QED BY <2>1 DEF Migrate, Pass, Results
<1>3. OperationsFit
  BY DEF OperationsInv
<1>4. db' \in Bases /\ db'.rows \subseteq db.rows /\ db.rows \subseteq 1..written
  <2>1. CASE db' = db
    BY <1>3, <2>1 DEF OperationsFit
  <2>2. ASSUME NEW rows \in SUBSET db.rows, db' = Database(rows, head, TRUE)
        PROVE  db' \in Bases /\ db'.rows \subseteq db.rows
    <3>1. db' = [rows |-> rows, revision |-> head, whole |-> TRUE] /\ rows \in SUBSET Nat /\ head \in Nat
      BY <1>3, <2>2 DEF OperationsFit, Database, Bases
    <3> QED BY <3>1 DEF Bases
  <2> QED BY <1>2, <1>3, <2>1, <2>2 DEF OperationsFit
<1>5. ASSUME NEW t, t.kind = script[o].kind, t.at = 6, t.expected = script[o].expected,
             t.before = script[o].before, t.wrote = script[o].wrote, Knows(script[o])
      PROVE  Knows(t)'
  BY <1>1, <1>4, <1>5 DEF Knows
<1>6. script[o].at \in 2..5 /\ 5 \in script[o].at..5 /\ 5 + 1 = 6
  BY <1>1
<1> QED BY <1>1, <1>2, <1>4, <1>5, <1>6, BesideShelf

LEMMA StartKeeps ==
  ASSUME OperationsInv, NEW o \in Operator, NEW kind \in DOMAIN StepsOf, Start(o, kind)
  PROVE  OperationsInv'
<1>1. PICK others, s : /\ others = {p \in Operator : Busy(p)}
                       /\ s = [NoScript EXCEPT !.kind = kind, !.at = 1, !.before = db.rows, !.met = others # {}]
  OBVIOUS
<1>2. /\ ~ Busy(o) /\ report' = [p \in Operator |-> NoReport]
      /\ UNCHANGED <<db, up, head, shelf, written, replaced>>
      /\ script' = [p \in Operator |-> IF p = o THEN s ELSE [script[p] EXCEPT !.met = @ \/ p \in others]]
  <2>1. \A p \in Operator :
          (CASE p = o -> s [] p # o -> [script[p] EXCEPT !.met = @ \/ p \in others])
            = IF p = o THEN s ELSE [script[p] EXCEPT !.met = @ \/ p \in others]
    OBVIOUS
  <2> QED BY <1>1, <2>1 DEF Start
<1>3. OperationsFit
  BY DEF OperationsInv
<1>4. /\ s \in Scripts /\ s.kind = kind /\ s.at = 1 /\ s.before = db.rows /\ s.met = (others # {})
      /\ s.expected = {} /\ s.entry = 0
  BY <1>1, <1>3, LengthsAre DEF NoScript, Scripts, Results, OperationsFit, Bases
<1>5. \A p \in Operator \ {o} :
        /\ script'[p] \in Scripts /\ script'[p].kind = script[p].kind /\ script'[p].at = script[p].at
        /\ script'[p].entry = script[p].entry /\ script'[p].met = (script[p].met \/ p \in others)
  <2> TAKE p \in Operator \ {o}
  <2>1. script[p] \in Scripts /\ script'[p] = [script[p] EXCEPT !.met = @ \/ p \in others]
    BY <1>2, <1>3 DEF OperationsFit
  <2> QED BY <2>1 DEF Scripts
<1>6. script'[o] = s /\ script' \in [Operator -> Scripts]
  BY <1>2, <1>4, <1>5
<1>7. NoReport \in Reports /\ NoReport.status = "none"
  BY DEF NoReport, Reports, NoScript, Scripts, Results, NoTables, Database, Bases
<1>8. report' \in [Operator -> Reports] /\ \A p \in Operator : report'[p].status = "none"
  BY <1>2, <1>7
<1>9. OperationsFit'
  <2>1. \A p \in Operator : Placed(script[p])'
    <3> TAKE p \in Operator
    <3>1. CASE p = o
      <4>1. 1 \in 1..Len(StepsOf[kind])
        <5>1. PICK n : n = Len(StepsOf[kind])
          OBVIOUS
        <5>2. n \in {3, 4, 9}
          BY <5>1, LengthsAre
        <5>3. 1 \in 1..n
          BY <5>2
        <5> QED BY <5>1, <5>3
      <4> QED BY <1>4, <1>6, <3>1, <4>1 DEF Placed
    <3>2. CASE p # o
      BY <1>2, <1>3, <1>5, <3>2 DEF Placed, OperationsFit
    <3> QED BY <3>1, <3>2
  <2> QED BY <1>2, <1>3, <1>6, <1>8, <2>1 DEF OperationsFit
<1>10. \A p \in Operator : Busy(p)' => p = o \/ (p \in others /\ script'[p].met)
  BY <1>1, <1>5 DEF Busy
<1>11. \A p, q \in Operator : (Busy(p)' /\ Busy(q)' /\ p # q) => script'[p].met
  BY <1>4, <1>6, <1>10
<1>12. ASSUME NEW p \in Operator, Busy(p)', ~ script'[p].met PROVE Knows(script[p])'
  <2>1. p = o
    BY <1>10, <1>12
  <2>2. s.before \subseteq 1..written
    BY <1>3, <1>4 DEF OperationsFit
  <2> QED BY <1>2, <1>4, <1>6, <2>1, <2>2 DEF Knows
<1>13. SuccessIsTrue'
  BY <1>8, NothingIsPromised
<1> QED BY <1>8, <1>9, <1>11, <1>12, <1>13 DEF OperationsInv

LEMMA WriteKeeps ==
  ASSUME OperationsInv, Write
  PROVE  OperationsInv'
<1>1. PICK old \in {{}} \cup {{r} : r \in db.rows} :
        /\ db' = [db EXCEPT !.rows = (@ \ old) \cup {written'}]
        /\ replaced' = replaced \cup old
  BY DEF Write
<1>2. /\ written' = written + 1 /\ UNCHANGED <<up, head, shelf, report>>
      /\ script' = [o \in Operator |-> IF Busy(o) THEN [script[o] EXCEPT !.wrote = TRUE] ELSE script[o]]
  BY DEF Write
<1>3. OperationsFit
  BY DEF OperationsInv
<1>4. written' \in Nat /\ 1..written \subseteq 1..written' /\ written' \in 1..written' /\ written' \notin 1..written
  BY <1>2, <1>3 DEF OperationsFit
<1>5. db' \in Bases /\ db'.rows = (db.rows \ old) \cup {written'} /\ db'.revision = db.revision
  BY <1>1, <1>3, <1>4 DEF OperationsFit, Bases
<1>6. \A p \in Operator :
        /\ script'[p] \in Scripts /\ script'[p].kind = script[p].kind /\ script'[p].at = script[p].at
        /\ script'[p].entry = script[p].entry /\ script'[p].met = script[p].met
        /\ script'[p].before = script[p].before /\ script'[p].worst = script[p].worst
        /\ Busy(p) => script'[p].wrote
  <2> TAKE p \in Operator
  <2>1. script[p] \in Scripts /\ script'[p] = IF Busy(p) THEN [script[p] EXCEPT !.wrote = TRUE] ELSE script[p]
    BY <1>2, <1>3 DEF OperationsFit
  <2> QED BY <2>1 DEF Scripts
<1>7. OperationsFit'
  <2>1. \A p \in Operator : Placed(script[p])'
    BY <1>2, <1>3, <1>6 DEF Placed, OperationsFit
  <2>2. script' \in [Operator -> Scripts]
    BY <1>2, <1>6
  <2> QED BY <1>2, <1>3, <1>4, <1>5, <2>1, <2>2 DEF OperationsFit
<1>8. \A p \in Operator : Busy(p)' <=> Busy(p)
  BY <1>6 DEF Busy
<1>9. ASSUME NEW p \in Operator, Busy(p)', ~ script'[p].met PROVE Knows(script[p])'
  <2>1. PICK s, t : s = script[p] /\ t = script'[p]
    OBVIOUS
  <2>2. Knows(s) /\ t.kind = s.kind /\ t.at = s.at /\ t.entry = s.entry /\ t.before = s.before
        /\ t.worst = s.worst /\ t.wrote
    BY <1>6, <1>8, <1>9, <2>1 DEF OperationsInv
  <2>3. Dumped(s) => Dumped(t)'
    BY <1>1, <1>2, <2>2 DEF Dumped
  <2>4. Loaded(s) => Loaded(t)'
    BY <1>1, <1>2, <1>4, <1>5, <2>2 DEF Loaded, Knows
  <2>5. Knows(t)'
    BY <1>1, <1>2, <1>4, <1>5, <2>2, <2>3, <2>4 DEF Knows
  <2> QED BY <2>1, <2>5 DEF Knows, Dumped, Loaded
<1>10. SuccessIsTrue'
  <2>1. BackupIsWhole => BackupIsWhole'
    BY <1>1, <1>2 DEF BackupIsWhole, Succeeded, OnShelf
  <2>2. RestoreIsComplete => RestoreIsComplete'
    BY <1>1, <1>2 DEF RestoreIsComplete, Succeeded, OnShelf
  <2>3. UpgradeLosesNothing => UpgradeLosesNothing'
    BY <1>2 DEF UpgradeLosesNothing, Succeeded
  <2> QED BY <2>1, <2>2, <2>3 DEF SuccessIsTrue, OperationsInv
<1>11. \A p, q \in Operator : (Busy(p)' /\ Busy(q)' /\ p # q) => script'[p].met
  BY <1>6, <1>8 DEF OperationsInv
<1> QED BY <1>2, <1>7, <1>8, <1>9, <1>10, <1>11 DEF OperationsInv

LEMMA ReleaseKeeps ==
  ASSUME OperationsInv, Release
  PROVE  OperationsInv'
<1>1. /\ head' = 2 /\ UNCHANGED <<db, shelf, script, report, written, replaced>>
      /\ \A p \in Operator : ~ Busy(p)
  BY DEF Release
<1>2. OperationsFit'
  BY <1>1 DEF OperationsInv, OperationsFit, Placed
<1>3. \A p \in Operator : ~ Busy(p)'
  BY <1>1 DEF Busy
<1>4. SuccessIsTrue'
  BY <1>1 DEF OperationsInv, SuccessIsTrue, BackupIsWhole, RestoreIsComplete, UpgradeLosesNothing,
              Succeeded, OnShelf
<1> QED BY <1>2, <1>3, <1>4 DEF OperationsInv

LEMMA OutagesKeep ==
  ASSUME OperationsInv, UNCHANGED <<db, head, shelf, script, report, written, replaced>>
  PROVE  OperationsInv'
<1>1. OperationsFit'
  BY DEF OperationsInv, OperationsFit, Placed
<1>2. \A p \in Operator : Busy(p)' <=> Busy(p)
  BY DEF Busy
<1>3. SuccessIsTrue'
  BY DEF OperationsInv, SuccessIsTrue, BackupIsWhole, RestoreIsComplete, UpgradeLosesNothing,
         Succeeded, OnShelf
<1>4. \A p \in Operator : Busy(p) /\ ~ script[p].met => Knows(script[p])'
  BY DEF OperationsInv, Knows, Dumped, Loaded
<1> QED BY <1>1, <1>2, <1>3, <1>4 DEF OperationsInv

LEMMA LoseKeeps ==
  ASSUME OperationsInv, Lose
  PROVE  OperationsInv'
<1>1. /\ db' = NoTables /\ UNCHANGED <<head, shelf, report, written, replaced>>
      /\ script' = [o \in Operator |-> IF Busy(o) THEN [script[o] EXCEPT !.met = TRUE] ELSE script[o]]
  BY DEF Lose
<1>2. NoTables \in Bases /\ NoTables.rows = {} /\ OperationsFit
  BY DEF NoTables, Database, Bases, OperationsInv
<1>3. \A p \in Operator :
        /\ script'[p] \in Scripts /\ script'[p].kind = script[p].kind /\ script'[p].at = script[p].at
        /\ script'[p].entry = script[p].entry
        /\ Busy(p) => script'[p].met
  <2> TAKE p \in Operator
  <2>1. script[p] \in Scripts /\ script'[p] = IF Busy(p) THEN [script[p] EXCEPT !.met = TRUE] ELSE script[p]
    BY <1>1, <1>2 DEF OperationsFit
  <2> QED BY <2>1 DEF Scripts
<1>4. OperationsFit'
  <2>1. \A p \in Operator : Placed(script[p])'
    BY <1>1, <1>2, <1>3 DEF Placed, OperationsFit
  <2>2. script' \in [Operator -> Scripts]
    BY <1>1, <1>3
  <2> QED BY <1>1, <1>2, <2>1, <2>2 DEF OperationsFit
<1>5. \A p \in Operator : Busy(p)' => Busy(p) /\ script'[p].met
  <2> SUFFICES ASSUME NEW p \in Operator, Busy(p)' PROVE Busy(p) /\ script'[p].met
    OBVIOUS
  <2>1. Busy(p)
    BY <1>3 DEF Busy
  <2> QED BY <1>3, <2>1
<1>6. SuccessIsTrue'
  BY <1>1 DEF OperationsInv, SuccessIsTrue, BackupIsWhole, RestoreIsComplete, UpgradeLosesNothing,
              Succeeded, OnShelf
<1> QED BY <1>1, <1>4, <1>5, <1>6 DEF OperationsInv

LEMMA OperationsInitially == OperationsInit => OperationsInv
<1> SUFFICES ASSUME OperationsInit PROVE OperationsInv
  OBVIOUS
<1>1. /\ NoScript \in Scripts /\ NoScript.kind = "none" /\ NoReport \in Reports /\ NoReport.status = "none"
      /\ Database({1}, 1, TRUE) \in Bases /\ Database({1}, 1, TRUE).rows = {1}
  BY DEF NoReport, Reports, NoScript, Scripts, Results, NoTables, Database, Bases
<1>2. /\ \A o \in Operator : script[o] = NoScript /\ report[o] = NoReport
      /\ script \in [Operator -> Scripts] /\ report \in [Operator -> Reports]
      /\ db = Database({1}, 1, TRUE) /\ head = 1 /\ shelf = << >> /\ written = 1
  BY <1>1 DEF OperationsInit
<1>3. OperationsFit
  <2>1. shelf \in Seq(Dumps) /\ DOMAIN shelf = {}
    BY <1>2
  <2>2. {1} \subseteq 1..1
    OBVIOUS
  <2>3. \A o \in Operator : Placed(script[o])
    BY <1>1, <1>2 DEF Placed
  <2> QED BY <1>1, <1>2, <2>1, <2>2, <2>3 DEF OperationsFit
<1>4. SuccessIsTrue
  BY <1>1, <1>2 DEF SuccessIsTrue, BackupIsWhole, RestoreIsComplete, UpgradeLosesNothing, Succeeded
<1> QED BY <1>1, <1>2, <1>3, <1>4 DEF OperationsInv, Busy

LEMMA OperationsKept == OperationsInv /\ [OperationsNext]_operationsVars => OperationsInv'
<1> SUFFICES ASSUME OperationsInv, [OperationsNext]_operationsVars PROVE OperationsInv'
  OBVIOUS
<1>1. ASSUME NEW o \in Operator, NEW kind \in DOMAIN StepsOf, Start(o, kind) PROVE OperationsInv'
  BY <1>1, StartKeeps
<1>2. ASSUME NEW o \in Operator,
             Look(o) \/ CheckHealth(o) \/ CheckRevision(o) \/ Count(o) \/ Verify(o)
             \/ OpenDump(o) \/ Dump(o) \/ Choose(o) \/ Drop(o) \/ LoadRows(o) \/ Migrate(o)
      PROVE  OperationsInv'
  BY <1>2, LookKeeps, CheckHealthKeeps, CheckRevisionKeeps, CountKeeps, VerifyKeeps, OpenDumpKeeps,
     DumpKeeps, ChooseKeeps, DropKeeps, LoadRowsKeeps, MigrateKeeps
<1>3. CASE Outage \/ Recover \/ UNCHANGED operationsVars
  BY <1>3, OutagesKeep DEF Outage, Recover, operationsVars
<1> QED BY <1>1, <1>2, <1>3, WriteKeeps, ReleaseKeeps, LoseKeeps DEF OperationsNext

\* Whatever fails under it, and however often the application writes: a script that says
\* it succeeded, and that no other ran beside, has a whole backup, has restored all of
\* one at the revision of the code, or has lost nothing it had counted.
THEOREM SuccessesAreTrue == OperationsSpec => []SuccessIsTrue
<1>1. OperationsInv => SuccessIsTrue
  BY DEF OperationsInv
<1> QED BY <1>1, OperationsInitially, OperationsKept, PTL DEF OperationsSpec

-----------------------------------------------------------------------------
(* Paged sources.                                                          *)

RangeOf(s) == {s[n] : n \in DOMAIN s}
Descends(s) == \A m, n \in DOMAIN s : m < n => s[m] > s[n]

\* Each entry of a list has its number of newer ones, from 0 on.
LEMMA Ranked ==
  ASSUME NEW S \in SUBSET Nat, IsFiniteSet(S)
  PROVE  /\ Cardinality(S) \in Nat
         /\ \A e \in S : Cardinality(Newer(e, S)) \in 0..Cardinality(S) - 1
         /\ \A e, f \in S : e > f => Cardinality(Newer(e, S)) < Cardinality(Newer(f, S))
         /\ \A n \in 0..Cardinality(S) - 1 : \E e \in S : Cardinality(Newer(e, S)) = n
<1> DEFINE k == Cardinality(S)
           F == [e \in S |-> Cardinality(Newer(e, S)) + 1]
<1>1. k \in Nat
  BY FS_CardinalityType
<1>2. ASSUME NEW e \in S PROVE IsFiniteSet(Newer(e, S)) /\ Cardinality(Newer(e, S)) \in 0..k - 1
  <2>1. Newer(e, S) \in SUBSET S /\ e \notin Newer(e, S)
    BY DEF Newer
  <2>2. Newer(e, S) # S
    BY <2>1
  <2>3. IsFiniteSet(Newer(e, S)) /\ Cardinality(Newer(e, S)) < k /\ Cardinality(Newer(e, S)) \in Nat
    BY <2>1, <2>2, FS_Subset, FS_CardinalityType
  <2> QED BY <1>1, <2>3
<1>3. ASSUME NEW e \in S, NEW f \in S, e > f PROVE Cardinality(Newer(e, S)) < Cardinality(Newer(f, S))
  <2> e \in Nat /\ f \in Nat /\ \A x \in S : x \in Nat
    OBVIOUS
  <2>1. ASSUME NEW x \in Newer(e, S) PROVE x \in Newer(f, S)
    <3>1. x \in S /\ x > e
      BY DEF Newer
    <3>2. x > f
      BY <1>3, <3>1
    <3> QED BY <3>1, <3>2 DEF Newer
  <2>2. e \in Newer(f, S) /\ e \notin Newer(e, S)
    BY <1>3 DEF Newer
  <2>3. Newer(e, S) \in SUBSET Newer(f, S) /\ Newer(e, S) # Newer(f, S)
    BY <2>1, <2>2
  <2> QED BY <1>2, <2>3, FS_Subset
<1>4. \A e, f \in S : F[e] = F[f] => e = f
  <2> SUFFICES ASSUME NEW e \in S, NEW f \in S, e > f PROVE Cardinality(Newer(e, S)) # Cardinality(Newer(f, S))
    BY <1>2
  <2>1. Cardinality(Newer(e, S)) < Cardinality(Newer(f, S))
    BY <1>3
  <2> QED BY <1>2, <2>1
<1>5. F \in [S -> 1..k]
  BY <1>1, <1>2
<1> HIDE DEF F
<1>6. F \in Injection(S, 1..k)
  BY <1>4, <1>5, Fun_IsInj
<1>7. IsFiniteSet(1..k) /\ Cardinality(1..k) = k
  BY <1>1, FS_Interval
<1>8. F \in Surjection(S, 1..k)
  BY <1>6, <1>7, FS_Injection
<1>9. \A n \in 1..k : \E e \in S : F[e] = n
  BY <1>8, Fun_SurjectionProperties
<1>10. ASSUME NEW n \in 0..k - 1 PROVE \E e \in S : Cardinality(Newer(e, S)) = n
  <2>1. n + 1 \in 1..k
    BY <1>1
  <2>2. PICK e \in S : F[e] = n + 1
    BY <1>9, <2>1
  <2>3. F[e] = Cardinality(Newer(e, S)) + 1
    BY DEF F
  <2> QED BY <1>1, <1>2, <2>2, <2>3
<1> QED BY <1>1, <1>2, <1>3, <1>10

LEMMA NewerGrows ==
  ASSUME NEW T \in SUBSET Nat, IsFiniteSet(T), NEW S \in SUBSET T, NEW e
  PROVE  /\ Cardinality(Newer(e, S)) <= Cardinality(Newer(e, T))
         /\ Cardinality(Newer(e, S)) \in Nat /\ Cardinality(Newer(e, T)) \in Nat
<1>1. Newer(e, S) \in SUBSET Newer(e, T) /\ Newer(e, T) \in SUBSET T
  BY DEF Newer
<1>2. IsFiniteSet(Newer(e, T))
  BY <1>1, FS_Subset
<1> QED BY <1>1, <1>2, FS_Subset, FS_CardinalityType

\* The first of a list are newer than the others, and as many as there should be.
LEMMA FirstOfIs ==
  ASSUME NEW S \in SUBSET Nat, IsFiniteSet(S), NEW n \in Nat
  PROVE  /\ FirstOf(S, n) \in SUBSET S /\ IsFiniteSet(FirstOf(S, n))
         /\ Cardinality(S) \in Nat /\ Cardinality(FirstOf(S, n)) \in 0..n
         /\ \A x \in FirstOf(S, n) : \A y \in S \ FirstOf(S, n) : x > y
         /\ FirstOf(S, n) # S => Cardinality(FirstOf(S, n)) = n
         /\ Cardinality(S) <= n => FirstOf(S, n) = S
         /\ Cardinality(S) > n => Cardinality(FirstOf(S, n)) = n
<1> DEFINE T == FirstOf(S, n)
           k == Cardinality(S)
<1>1. /\ k \in Nat
      /\ \A e \in S : Cardinality(Newer(e, S)) \in 0..k - 1
      /\ \A e, f \in S : e > f => Cardinality(Newer(e, S)) < Cardinality(Newer(f, S))
      /\ \A m \in 0..k - 1 : \E e \in S : Cardinality(Newer(e, S)) = m
  BY Ranked
<1>2. T \in SUBSET S /\ \A e \in S : e \in T <=> Cardinality(Newer(e, S)) < n
  BY DEF FirstOf
<1>3. IsFiniteSet(T) /\ Cardinality(T) \in Nat
  BY <1>2, FS_Subset, FS_CardinalityType
<1>4. ASSUME NEW x \in T, NEW y \in S \ T PROVE x > y
  <2>1. Cardinality(Newer(x, S)) < n /\ ~ (Cardinality(Newer(y, S)) < n) /\ x \in S /\ y \in S
    BY <1>2
  <2>2. Cardinality(Newer(x, S)) \in 0..k - 1 /\ Cardinality(Newer(y, S)) \in 0..k - 1
    BY <1>1, <2>1
  <2>3. x # y /\ ~ (y > x)
    BY <1>1, <2>1, <2>2
  <2> QED BY <2>1, <2>3
<1>5. k <= n => T = S
  <2>1. ASSUME k <= n, NEW e \in S PROVE e \in T
    BY <1>1, <1>2, <2>1
  <2> QED BY <1>2, <2>1
<1>6. k > n => Cardinality(T) = n
  <2> SUFFICES ASSUME k > n PROVE Cardinality(T) = n
    OBVIOUS
  <2> DEFINE F == [e \in T |-> Cardinality(Newer(e, S)) + 1]
  <2>0. ASSUME NEW e \in T
        PROVE  e \in S /\ e \in Nat /\ Cardinality(Newer(e, S)) \in Nat /\ Cardinality(Newer(e, S)) < n
    <3>1. e \in S /\ e \in Nat
      BY <1>2
    <3>2. Cardinality(Newer(e, S)) < n
      BY <1>2, <3>1
    <3>3. Cardinality(Newer(e, S)) \in Nat
      BY <1>1, <3>1
    <3> QED BY <3>1, <3>2, <3>3
  <2>1. F \in [T -> 1..n]
    BY <2>0
  <2>2. \A e, f \in T : F[e] = F[f] => e = f
    <3> SUFFICES ASSUME NEW e \in T, NEW f \in T, e > f PROVE Cardinality(Newer(e, S)) # Cardinality(Newer(f, S))
      BY <2>0
    <3>1. Cardinality(Newer(e, S)) < Cardinality(Newer(f, S))
      BY <1>1, <2>0
    <3> QED BY <2>0, <3>1
  <2>3. \A m \in 1..n : \E e \in T : F[e] = m
    <3> TAKE m \in 1..n
    <3>1. m - 1 \in 0..k - 1 /\ m - 1 < n
      BY <1>1
    <3>2. PICK e \in S : Cardinality(Newer(e, S)) = m - 1
      BY <1>1, <3>1
    <3>3. e \in T
      BY <1>2, <3>1, <3>2
    <3> QED BY <3>2, <3>3
  <2> HIDE DEF F
  <2>4. F \in Bijection(T, 1..n)
    <3>1. F \in Injection(T, 1..n)
      BY <2>1, <2>2, Fun_IsInj
    <3>2. F \in Surjection(T, 1..n)
      BY <2>1, <2>3, Fun_IsSurj
    <3> QED BY <3>1, <3>2 DEF Bijection
  <2>5. Cardinality(1..n) = n /\ IsFiniteSet(1..n)
    BY FS_Interval
  <2>6. ExistsBijection(T, 1..n)
    BY <2>4 DEF ExistsBijection
  <2> QED BY <1>3, <2>5, <2>6, FS_Bijection
<1>7. Cardinality(T) <= n
  BY <1>1, <1>3, <1>5, <1>6
<1>8. T # S => Cardinality(T) = n
  BY <1>1, <1>5, <1>6
<1> QED BY <1>1, <1>2, <1>3, <1>4, <1>5, <1>6, <1>7, <1>8

LEMMA NewestFirstIs ==
  ASSUME NEW S \in SUBSET Nat, IsFiniteSet(S)
  PROVE  /\ NewestFirst(S) \in Seq(S) /\ Len(NewestFirst(S)) = Cardinality(S)
         /\ DOMAIN NewestFirst(S) = 1..Cardinality(S) /\ Cardinality(S) \in Nat
         /\ RangeOf(NewestFirst(S)) = S /\ Descends(NewestFirst(S))
<1> DEFINE k == Cardinality(S)
           Nth(n) == CHOOSE e \in S : Cardinality(Newer(e, S)) = n - 1
<1>1. /\ k \in Nat
      /\ \A e \in S : Cardinality(Newer(e, S)) \in 0..k - 1
      /\ \A e, f \in S : e > f => Cardinality(Newer(e, S)) < Cardinality(Newer(f, S))
      /\ \A m \in 0..k - 1 : \E e \in S : Cardinality(Newer(e, S)) = m
  BY Ranked
<1>2. ASSUME NEW n \in 1..k PROVE Nth(n) \in S /\ Cardinality(Newer(Nth(n), S)) = n - 1
  <2>1. n - 1 \in 0..k - 1
    BY <1>1
  <2> QED BY <1>1, <2>1
<1>3. NewestFirst(S) = [n \in 1..k |-> Nth(n)]
  BY DEF NewestFirst
<1> HIDE DEF Nth
<1>4. NewestFirst(S) \in [1..k -> S] /\ \A n \in 1..k : Cardinality(Newer(NewestFirst(S)[n], S)) = n - 1
  BY <1>2, <1>3
<1>5. NewestFirst(S) \in Seq(S) /\ Len(NewestFirst(S)) = k /\ DOMAIN NewestFirst(S) = 1..k
  BY <1>1, <1>4
<1>6. \A e, f \in S : Cardinality(Newer(e, S)) = Cardinality(Newer(f, S)) => e = f
  <2> SUFFICES ASSUME NEW e \in S, NEW f \in S, e > f PROVE Cardinality(Newer(e, S)) # Cardinality(Newer(f, S))
    OBVIOUS
  <2>1. Cardinality(Newer(e, S)) < Cardinality(Newer(f, S))
    BY <1>1
  <2> QED BY <1>1, <2>1
<1>7. ASSUME NEW e \in S PROVE e \in RangeOf(NewestFirst(S))
  <2>1. PICK n \in 1..k : Cardinality(Newer(e, S)) = n - 1
    <3>1. Cardinality(Newer(e, S)) + 1 \in 1..k
      BY <1>1
    <3> QED BY <1>1, <3>1
  <2>2. NewestFirst(S)[n] = e
    BY <1>4, <1>6, <2>1
  <2> QED BY <1>5, <2>2 DEF RangeOf
<1>8. RangeOf(NewestFirst(S)) = S
  BY <1>4, <1>5, <1>7 DEF RangeOf
<1>9. Descends(NewestFirst(S))
  <2>1. ASSUME NEW m \in 1..k, NEW n \in 1..k, m < n PROVE NewestFirst(S)[m] > NewestFirst(S)[n]
    <3>1. PICK e \in S, f \in S : e = NewestFirst(S)[m] /\ f = NewestFirst(S)[n]
      BY <1>4
    <3>2. Cardinality(Newer(e, S)) = m - 1 /\ Cardinality(Newer(f, S)) = n - 1
      BY <1>4, <3>1
    <3>3. ~ (f > e) /\ e # f
      BY <1>1, <2>1, <3>2
    <3> QED BY <3>1, <3>3
  <2> QED BY <1>5, <2>1 DEF Descends
<1> QED BY <1>1, <1>5, <1>8, <1>9

LEMMA WiderList ==
  ASSUME NEW S, NEW T, S \subseteq T, NEW s \in Seq(S)
  PROVE  s \in Seq(T)
OBVIOUS

LEMMA JoinedLists ==
  ASSUME NEW S, NEW s \in Seq(S), NEW t \in Seq(S)
  PROVE  /\ s \o t \in Seq(S) /\ Len(s \o t) = Len(s) + Len(t)
         /\ DOMAIN (s \o t) = 1..(Len(s) + Len(t))
         /\ \A i \in 1..Len(s) : (s \o t)[i] = s[i]
         /\ \A i \in 1..Len(t) : (s \o t)[Len(s) + i] = t[i]
OBVIOUS

\* What is in a list that goes on with another one.
LEMMA JoinedRange ==
  ASSUME NEW S, NEW s \in Seq(S), NEW t \in Seq(S)
  PROVE  /\ s \o t \in Seq(S) /\ Len(s \o t) = Len(s) + Len(t) /\ Len(s) \in Nat /\ Len(t) \in Nat
         /\ RangeOf(s \o t) = RangeOf(s) \cup RangeOf(t)
         /\ \A i \in DOMAIN (s \o t) :
              \/ i \in DOMAIN s /\ (s \o t)[i] = s[i]
              \/ i - Len(s) \in DOMAIN t /\ (s \o t)[i] = t[i - Len(s)] /\ i > Len(s)
<1>1. DOMAIN s = 1..Len(s) /\ Len(s) \in Nat /\ DOMAIN t = 1..Len(t) /\ Len(t) \in Nat
  OBVIOUS
<1>2. /\ s \o t \in Seq(S) /\ Len(s \o t) = Len(s) + Len(t)
      /\ DOMAIN (s \o t) = 1..(Len(s) + Len(t))
      /\ \A i \in 1..Len(s) : (s \o t)[i] = s[i]
      /\ \A i \in 1..Len(t) : (s \o t)[Len(s) + i] = t[i]
  BY JoinedLists
<1> DEFINE u == s \o t
<1> HIDE DEF u
<1>3. ASSUME NEW i \in 1..(Len(s) + Len(t))
      PROVE  \/ i \in DOMAIN s /\ u[i] = s[i]
             \/ i - Len(s) \in DOMAIN t /\ u[i] = t[i - Len(s)] /\ i > Len(s)
  <2>1. CASE i <= Len(s)
    BY <1>1, <1>2, <2>1 DEF u
  <2>2. CASE i > Len(s)
    <3>1. i - Len(s) \in 1..Len(t) /\ Len(s) + (i - Len(s)) = i
      BY <1>1, <2>2
    <3>2. u[Len(s) + (i - Len(s))] = t[i - Len(s)]
      BY <1>2, <3>1 DEF u
    <3> QED BY <1>1, <2>2, <3>1, <3>2
  <2> QED BY <1>1, <2>1, <2>2
<1>4. \A x \in RangeOf(u) : x \in RangeOf(s) \cup RangeOf(t)
  BY <1>2, <1>3 DEF RangeOf, u
<1>5. \A x \in RangeOf(s) : x \in RangeOf(u)
  <2>1. \A i \in DOMAIN s : i \in DOMAIN u /\ u[i] = s[i]
    BY <1>1, <1>2 DEF u
  <2> QED BY <2>1 DEF RangeOf
<1>6. \A x \in RangeOf(t) : x \in RangeOf(u)
  <2>1. \A i \in DOMAIN t : Len(s) + i \in DOMAIN u /\ u[Len(s) + i] = t[i]
    BY <1>1, <1>2 DEF u
  <2> QED BY <2>1 DEF RangeOf
<1>7. RangeOf(u) = RangeOf(s) \cup RangeOf(t)
  BY <1>4, <1>5, <1>6
<1> QED BY <1>1, <1>2, <1>3, <1>7 DEF u

LEMMA JoinedDescends ==
  ASSUME NEW s \in Seq(Nat), NEW t \in Seq(Nat), Descends(s), Descends(t),
         \A x \in RangeOf(s) : \A y \in RangeOf(t) : x > y
  PROVE  Descends(s \o t)
<1>1. \A i \in DOMAIN (s \o t) :
        \/ i \in DOMAIN s /\ (s \o t)[i] = s[i]
        \/ i - Len(s) \in DOMAIN t /\ (s \o t)[i] = t[i - Len(s)] /\ i > Len(s)
  BY JoinedRange
<1>2. DOMAIN s = 1..Len(s) /\ Len(s) \in Nat /\ DOMAIN t = 1..Len(t) /\ Len(t) \in Nat
  OBVIOUS
<1>3. \A i \in DOMAIN s : \A j \in DOMAIN t : s[i] > t[j]
  BY DEF RangeOf
<1>4. DOMAIN (s \o t) = 1..(Len(s) + Len(t))
  BY JoinedLists
<1>5. PICK u : u = s \o t
  OBVIOUS
<1>6. ASSUME NEW m \in DOMAIN u, NEW n \in DOMAIN u, m < n PROVE u[m] > u[n]
  <2>1. m \in Nat /\ n \in Nat
    BY <1>2, <1>4, <1>5
  <2>2. CASE n \in DOMAIN s /\ u[n] = s[n]
    <3>1. m \in DOMAIN s /\ u[m] = s[m]
      BY <1>1, <1>2, <1>5, <1>6, <2>1, <2>2
    <3> QED BY <1>6, <2>2, <3>1 DEF Descends
  <2>3. CASE n - Len(s) \in DOMAIN t /\ u[n] = t[n - Len(s)] /\ n > Len(s)
    <3>1. CASE m \in DOMAIN s /\ u[m] = s[m]
      BY <1>3, <2>3, <3>1
    <3>2. CASE m - Len(s) \in DOMAIN t /\ u[m] = t[m - Len(s)]
      <4>1. m - Len(s) < n - Len(s)
        BY <1>2, <1>6, <2>1
      <4> QED BY <2>3, <3>2, <4>1 DEF Descends
    <3> QED BY <1>1, <1>5, <3>1, <3>2
  <2> QED BY <1>1, <1>5, <2>2, <2>3
<1> QED BY <1>5, <1>6 DEF Descends

LEMMA JoinedOnce ==
  ASSUME NEW s \in Seq(Nat), NEW t \in Seq(Nat),
         \A i, j \in DOMAIN s : s[i] = s[j] => i = j, \A i, j \in DOMAIN t : t[i] = t[j] => i = j,
         RangeOf(s) \cap RangeOf(t) = {}
  PROVE  \A i, j \in DOMAIN (s \o t) : (s \o t)[i] = (s \o t)[j] => i = j
<1>1. \A i \in DOMAIN (s \o t) :
        \/ i \in DOMAIN s /\ (s \o t)[i] = s[i]
        \/ i - Len(s) \in DOMAIN t /\ (s \o t)[i] = t[i - Len(s)] /\ i > Len(s)
  BY JoinedRange
<1>2. Len(s) \in Nat /\ DOMAIN (s \o t) = 1..(Len(s) + Len(t)) /\ Len(t) \in Nat
  BY JoinedLists
<1>3. \A i \in DOMAIN s : \A j \in DOMAIN t : s[i] # t[j]
  BY DEF RangeOf
<1>4. PICK u : u = s \o t
  OBVIOUS
<1>5. ASSUME NEW i \in DOMAIN u, NEW j \in DOMAIN u, u[i] = u[j] PROVE i = j
  <2>1. i \in Nat /\ j \in Nat
    BY <1>2, <1>4
  <2>2. CASE i \in DOMAIN s /\ u[i] = s[i]
    <3>1. j \in DOMAIN s /\ u[j] = s[j]
      BY <1>1, <1>3, <1>4, <1>5, <2>2
    <3> QED BY <1>5, <2>2, <3>1
  <2>3. CASE i - Len(s) \in DOMAIN t /\ u[i] = t[i - Len(s)]
    <3>1. j - Len(s) \in DOMAIN t /\ u[j] = t[j - Len(s)]
      BY <1>1, <1>3, <1>4, <1>5, <2>3
    <3>2. i - Len(s) = j - Len(s)
      BY <1>5, <2>3, <3>1
    <3> QED BY <1>2, <2>1, <3>2
  <2> QED BY <1>1, <1>4, <2>2, <2>3
<1> QED BY <1>4, <1>5

LEMMA LeastEntry ==
  ASSUME NEW S \in SUBSET Nat, S # {}
  PROVE  \E n \in S : \A m \in S : n <= m
<1> DEFINE Less == {p \in Nat \X Nat : p[1] < p[2]}
<1>1. IsWellFoundedOn(Less, Nat)
  BY NatLessThanWellFounded DEF OpToRel
<1>2. \A m, n \in Nat : m < n => <<m, n>> \in Less
  OBVIOUS
<1> HIDE DEF Less
<1>3. PICK n \in S : \A m \in S : ~ (<<m, n>> \in Less)
  BY <1>1, WFMin
<1>4. \A m \in S : ~ (m < n)
  BY <1>2, <1>3
<1>5. \A m \in S : m \in Nat
  OBVIOUS
<1> QED BY <1>4, <1>5

-----------------------------------------------------------------------------
(* What a source gathers.                                                  *)

Offset == setup.kind.next = "offset"
Trusted == ~ (Is(Microsoft365) /\ moves.lists # 0)

GatheringTypes ==
  /\ listing \in [Place -> SUBSET (Nat \ {0})]
  /\ \A p \in Place : \A e \in listing[p] : e <= MaxEntries + moves.appears
  /\ drives \in Seq(Place)
  /\ \E kind \in Kinds : setup \in Configured(kind)
  /\ reading \in [pc : {"page", "done", "failed"}, list : Seq(Place), place : Nat \ {0},
                  cursor : Nat, of : Place]
  /\ \A m, n \in DOMAIN reading.list : reading.list[m] = reading.list[n] => m = n
  /\ harvested \in [Place -> Seq(Nat \ {0})]
  /\ moves \in [appears : Nat, disappears : Nat, lists : Nat]

\* What has been gathered of a place is as it should be.
Neat(list) ==
  /\ \A x \in RangeOf(list) : x > setup.old
  /\ ~ Offset => Descends(list)
  /\ Offset /\ moves.appears = 0 => \A m, n \in DOMAIN list : list[m] = list[n] => m = n

\* A place that has been read to its end.
ReadWhole(p, list) ==
  \A e \in Wanted(p) :
    \/ e \in RangeOf(list)
    \/ Offset /\ moves.disappears # 0
    \/ Is(Discord) /\ Len(list) = setup.cap /\ \A x \in RangeOf(list) : x > e

\* A place that is being read: what was there throughout has been gathered or lies
\* behind the cursor, and what has been gathered lies before it.
ReadTo(p, list, cursor) ==
  /\ Is(Github) => cursor = 0
  /\ ~ Offset =>
       /\ cursor = 0 => list = << >>
       /\ cursor # 0 => \A x \in RangeOf(list) : x >= cursor
       /\ \A e \in Wanted(p) : cursor = 0 \/ e < cursor \/ e \in RangeOf(list)
       /\ Is(Discord) => Len(list) < setup.cap
  /\ Offset /\ moves.disappears = 0 =>
       \A e \in Wanted(p) : e \in RangeOf(list) \/ Cardinality(Newer(e, listing[p])) >= cursor
  /\ Offset /\ moves.appears = 0 =>
       \A x \in RangeOf(list) \cap listing[p] : Cardinality(Newer(x, listing[p])) < cursor

\* The place at hand, those before it and those after it.
ReadingFits ==
  Trusted =>
    /\ Is(Microsoft365) => drives = reading.list
    /\ reading.pc = "done" => reading.place > Len(reading.list)
    /\ \A i \in DOMAIN reading.list :
         /\ Neat(harvested[reading.list[i]])
         /\ i < reading.place => ReadWhole(reading.list[i], harvested[reading.list[i]])
         /\ i > reading.place => harvested[reading.list[i]] = << >>
         /\ i = reading.place /\ reading.pc = "page" =>
              /\ ReadTo(reading.list[i], harvested[reading.list[i]], reading.cursor)
              /\ reading.cursor # 0 => reading.of = reading.list[i]

FileOf(p) == [name |-> setup.file[p], place |-> p, entries |-> harvested[p]]

\* A place that has been read has its file, unless another file has taken its name.
StagedFits ==
  setup.kind.staging /\ reading.pc # "failed" =>
    /\ \A f \in staged :
         /\ f = FileOf(f.place)
         /\ \E i \in DOMAIN reading.list : i < reading.place /\ f.place = reading.list[i]
    /\ \A i \in DOMAIN reading.list :
         i < reading.place /\ harvested[reading.list[i]] # << >> =>
           \/ \E f \in staged : f.place = reading.list[i]
           \/ Shadowed(reading.list[i])

GatheringInv == GatheringTypes /\ ReadingFits /\ StagedFits

-----------------------------------------------------------------------------
(* What the sources are.                                                   *)

LEMMA SetupIs ==
  ASSUME GatheringTypes
  PROVE  /\ setup.size \in Nat \ {0} /\ setup.old \in Nat /\ setup.kind \in Kinds
         /\ Is(Discord) => setup.cap \in Nat \ {0}
         /\ setup.kind.next \in {"entry", "offset", "none"}
         /\ setup.kind.next = "none" <=> Is(Github)
         /\ Offset => ~ Is(Discord) /\ ~ Is(Slack) /\ setup.old = 0
         /\ Is(Github) => ~ Is(Discord) /\ ~ Is(Slack) /\ setup.old = 0 /\ ~ Offset
         /\ Is(Discord) => ~ Is(Slack) /\ ~ Offset
         /\ ~ Is(Discord) /\ ~ Is(Slack) => setup.old = 0
         /\ setup.kind.staging => ~ Is(Microsoft365)
<1>1. PICK kind \in Kinds : setup \in Configured(kind)
  BY DEF GatheringTypes
<1>2. /\ setup.kind = kind /\ setup.size \in PageSizes
      /\ setup.cap \in (IF kind = Discord THEN Caps ELSE {0})
      /\ setup.old \in (IF kind \in Channels THEN {0, 1} ELSE {0})
  BY <1>1 DEF Configured
<1>3. setup.size \in Nat \ {0} /\ setup.old \in Nat /\ (kind = Discord => setup.cap \in Nat \ {0})
  BY <1>2, GatheringAssumption
<1>4. kind # Discord /\ kind # Slack => setup.old = 0
  BY <1>2 DEF Channels
<1>5. /\ kind.next \in {"entry", "offset", "none"}
      /\ kind.next = "none" <=> kind = Github
      /\ kind.next = "offset" => kind # Discord /\ kind # Slack
      /\ kind = Github => kind # Discord /\ kind # Slack /\ kind.next # "offset"
      /\ kind = Discord => kind # Slack /\ kind.next # "offset"
      /\ kind.staging => kind # Microsoft365
  <2>1. /\ Slack.name = "slack" /\ Discord.name = "discord" /\ Github.name = "github"
        /\ Confluence.name = "confluence" /\ ByToken.name = "notion, feishu, google"
        /\ Microsoft365.name = "microsoft_365"
    BY DEF Slack, Discord, Github, Confluence, ByToken, Microsoft365, SourceKind
  <2>2. /\ Slack.next = "entry" /\ Discord.next = "entry" /\ Github.next = "none"
        /\ Confluence.next = "offset" /\ ByToken.next = "entry" /\ Microsoft365.next = "entry"
    BY DEF Slack, Discord, Github, Confluence, ByToken, Microsoft365, SourceKind
  <2>3. Confluence.staging = FALSE /\ ByToken.staging = FALSE /\ Microsoft365.staging = FALSE
    BY DEF Confluence, ByToken, Microsoft365, SourceKind
  <2>4. kind \in {Slack, Discord, Github, Confluence, ByToken, Microsoft365}
    BY <1>1 DEF Kinds
  <2>5. kind.next \in {"entry", "offset", "none"} /\ (kind.next = "none" <=> kind = Github)
    BY <2>2, <2>4
  <2>6. kind.next = "offset" => kind # Discord /\ kind # Slack
    BY <2>2
  <2>7. kind = Github => kind # Discord /\ kind # Slack /\ kind.next # "offset"
    BY <2>1, <2>2
  <2>8. kind = Discord => kind # Slack /\ kind.next # "offset"
    BY <2>1, <2>2
  <2>9. kind.staging => kind # Microsoft365
    BY <2>3
  <2> QED BY <2>5, <2>6, <2>7, <2>8, <2>9
<1> QED BY <1>1, <1>2, <1>3, <1>4, <1>5 DEF Is, Offset

LEMMA ListingIs ==
  ASSUME GatheringTypes, NEW p \in Place
  PROVE  /\ listing[p] \in SUBSET (Nat \ {0}) /\ listing[p] \in SUBSET Nat /\ IsFiniteSet(listing[p])
         /\ harvested[p] \in Seq(Nat \ {0}) /\ harvested[p] \in Seq(Nat) /\ Len(harvested[p]) \in Nat
         /\ RangeOf(harvested[p]) \subseteq Nat \ {0}
<1>1. listing[p] \in SUBSET (Nat \ {0}) /\ harvested[p] \in Seq(Nat \ {0}) /\ moves.appears \in Nat
  BY DEF GatheringTypes
<1>2. listing[p] \in SUBSET (1..(MaxEntries + moves.appears))
  BY <1>1, GatheringAssumption DEF GatheringTypes
<1>3. IsFiniteSet(1..(MaxEntries + moves.appears))
  BY <1>1, GatheringAssumption, FS_Interval
<1>4. IsFiniteSet(listing[p])
  BY <1>2, <1>3, FS_Subset
<1>5. harvested[p] \in Seq(Nat) /\ Len(harvested[p]) \in Nat /\ RangeOf(harvested[p]) \subseteq Nat \ {0}
  BY <1>1 DEF RangeOf
<1> QED BY <1>1, <1>4, <1>5

\* A page is of what is listed, and what is taken is of the page.
LEMMA PageIs ==
  ASSUME GatheringTypes, NEW S \in SUBSET Nat, IsFiniteSet(S)
  PROVE  /\ Rest(S) \in SUBSET S /\ IsFiniteSet(Rest(S))
         /\ OnePage(S) \in SUBSET S /\ IsFiniteSet(OnePage(S))
<1>1. Rest(S) \in SUBSET S
  BY DEF Rest
<1>2. IsFiniteSet(Rest(S))
  BY <1>1, FS_Subset
<1>3. setup.size \in Nat
  BY SetupIs
<1>4. FirstOf(Rest(S), setup.size) \in SUBSET Rest(S)
  BY DEF FirstOf
<1>5. OnePage(S) \in SUBSET S
  BY <1>1, <1>4 DEF OnePage
<1> QED BY <1>1, <1>2, <1>5, FS_Subset

LEMMA TakenIs ==
  ASSUME GatheringTypes, NEW p \in Place, NEW page \in SUBSET Nat, IsFiniteSet(page)
  PROVE  /\ Taken(p, page) \in SUBSET page /\ IsFiniteSet(Taken(p, page))
         /\ Cardinality(Taken(p, page)) \in Nat /\ Taken(p, page) \in SUBSET Nat
<1>1. Taken(p, page) \in SUBSET page
  BY DEF Taken, FirstOf
<1> QED BY <1>1, FS_Subset, FS_CardinalityType

\* If there is another page this one is not empty and names the next.
LEMMA NextCursorIs ==
  ASSUME GatheringTypes, NEW p \in Place, NEW S \in SUBSET (Nat \ {0}), IsFiniteSet(S),
         MorePages(S, p, OnePage(S))
  PROVE  /\ NextCursor(OnePage(S)) \in Nat
         /\ ~ Offset => NextCursor(OnePage(S)) \in OnePage(S) /\ NextCursor(OnePage(S)) # 0
                        /\ \A x \in OnePage(S) : x >= NextCursor(OnePage(S))
<1>1. /\ Rest(S) \in SUBSET S /\ IsFiniteSet(Rest(S))
      /\ OnePage(S) \in SUBSET S /\ IsFiniteSet(OnePage(S))
  BY PageIs
<1>2. Cardinality(OnePage(S)) \in Nat /\ reading.cursor \in Nat /\ setup.size \in Nat \ {0}
  BY <1>1, FS_CardinalityType, SetupIs DEF GatheringTypes
<1>3. CASE Offset
  BY <1>2, <1>3 DEF NextCursor, Offset
<1>4. CASE ~ Offset
  <2>1. setup.kind.next # "none"
    BY DEF MorePages
  <2>2. OnePage(S) = FirstOf(Rest(S), setup.size)
    BY <2>1 DEF OnePage
  <2>3. Cardinality(OnePage(S)) = setup.size
    <3>1. CASE Is(Discord)
      BY <2>1, <3>1 DEF MorePages
    <3>2. CASE ~ Is(Discord)
      <4>1. Cardinality(Rest(S)) > setup.size
        BY <2>1, <3>2 DEF MorePages
      <4> QED BY <1>1, <1>2, <2>2, <4>1, FirstOfIs
    <3> QED BY <3>1, <3>2
  <2>4. OnePage(S) # {} /\ OnePage(S) \in SUBSET Nat
    BY <1>1, <1>2, <2>3, FS_EmptySet
  <2>5. \E e \in OnePage(S) : \A x \in OnePage(S) : e <= x
    BY <2>4, LeastEntry
  <2>6. \E e \in OnePage(S) : \A x \in OnePage(S) : x >= e
    BY <2>4, <2>5
  <2>7. NextCursor(OnePage(S)) = CHOOSE e \in OnePage(S) : \A x \in OnePage(S) : x >= e
    BY <1>4 DEF NextCursor, Offset
  <2>8. NextCursor(OnePage(S)) \in OnePage(S) /\ \A x \in OnePage(S) : x >= NextCursor(OnePage(S))
    BY <2>6, <2>7
  <2> QED BY <1>1, <1>4, <2>8
<1> QED BY <1>3, <1>4

-----------------------------------------------------------------------------
(* What a page adds.                                                       *)

PageOf(p) == OnePage(listing[p])
NewOf(p) == NewestFirst(Taken(p, PageOf(p)))

LEMMA NewIs ==
  ASSUME GatheringTypes, NEW p \in Place
  PROVE  /\ PageOf(p) \in SUBSET listing[p] /\ PageOf(p) \in SUBSET Nat /\ IsFiniteSet(PageOf(p))
         /\ Rest(listing[p]) \in SUBSET listing[p] /\ Rest(listing[p]) \in SUBSET Nat
         /\ IsFiniteSet(Rest(listing[p]))
         /\ RangeOf(NewOf(p)) = Taken(p, PageOf(p)) /\ RangeOf(NewOf(p)) \subseteq PageOf(p)
         /\ NewOf(p) \in Seq(Nat) /\ NewOf(p) \in Seq(Nat \ {0}) /\ Descends(NewOf(p))
         /\ Len(NewOf(p)) = Cardinality(Taken(p, PageOf(p))) /\ Len(NewOf(p)) \in Nat
         /\ \A m, n \in DOMAIN NewOf(p) : NewOf(p)[m] = NewOf(p)[n] => m = n
<1>1. listing[p] \in SUBSET (Nat \ {0}) /\ listing[p] \in SUBSET Nat /\ IsFiniteSet(listing[p])
  BY ListingIs
<1>2. /\ PageOf(p) \in SUBSET listing[p] /\ IsFiniteSet(PageOf(p))
      /\ Rest(listing[p]) \in SUBSET listing[p] /\ IsFiniteSet(Rest(listing[p]))
  BY <1>1, PageIs DEF PageOf
<1>3. PageOf(p) \in SUBSET Nat /\ PageOf(p) \in SUBSET (Nat \ {0}) /\ Rest(listing[p]) \in SUBSET Nat
  BY <1>1, <1>2
<1>4. PICK t : t = Taken(p, PageOf(p))
  OBVIOUS
<1>5. t \in SUBSET PageOf(p) /\ IsFiniteSet(t) /\ Cardinality(t) \in Nat /\ t \in SUBSET Nat
  BY <1>2, <1>3, <1>4, TakenIs
<1>6. PICK new : new = NewestFirst(t)
  OBVIOUS
<1>7. /\ new \in Seq(t) /\ Len(new) = Cardinality(t) /\ DOMAIN new = 1..Cardinality(t)
      /\ RangeOf(new) = t /\ Descends(new)
  BY <1>5, <1>6, NewestFirstIs
<1>8. new = NewOf(p)
  BY <1>4, <1>6 DEF NewOf
<1>9. t \subseteq Nat \ {0}
  BY <1>3, <1>5
<1>10. new \in Seq(Nat) /\ new \in Seq(Nat \ {0})
  BY <1>5, <1>7, <1>9, WiderList
<1>11. ASSUME NEW m \in DOMAIN new, NEW n \in DOMAIN new, new[m] = new[n] PROVE m = n
  <2>1. m \in Nat /\ n \in Nat /\ new[m] \in Nat
    BY <1>5, <1>7, <1>10
  <2>2. ~ (m < n) /\ ~ (n < m)
    BY <1>7, <1>11, <2>1 DEF Descends
  <2> QED BY <2>1, <2>2
<1> QED BY <1>2, <1>3, <1>4, <1>5, <1>7, <1>8, <1>10, <1>11

\* Pages that are named by entries: a page is newer than what is behind it, and
\* older than what is before it.
LEMMA EntryPage ==
  ASSUME GatheringTypes, ~ Offset, ~ Is(Github), NEW p \in Place,
         ReadTo(p, harvested[p], reading.cursor)
  PROVE  /\ \A x \in PageOf(p) : /\ \A y \in RangeOf(harvested[p]) : y > x
                                 /\ \A y \in Rest(listing[p]) \ PageOf(p) : x > y
         /\ \A x \in RangeOf(NewOf(p)) : x > setup.old
         /\ \A e \in Wanted(p) : \/ e \in RangeOf(harvested[p])
                                 \/ /\ e \in Rest(listing[p]) /\ \A y \in RangeOf(harvested[p]) : y > e
         /\ Cardinality(PageOf(p)) \in Nat
         /\ PageOf(p) # Rest(listing[p]) => Cardinality(PageOf(p)) = setup.size
         /\ PageOf(p) # Rest(listing[p]) => Cardinality(Rest(listing[p])) > setup.size
<1> DEFINE S == listing[p]
           R == Rest(listing[p])
<1>1. /\ R \in SUBSET S /\ R \in SUBSET Nat /\ IsFiniteSet(R)
      /\ S \in SUBSET (Nat \ {0}) /\ RangeOf(harvested[p]) \subseteq Nat \ {0}
  BY NewIs, ListingIs
<1>2. /\ setup.size \in Nat /\ setup.old \in Nat /\ setup.kind.next # "none" /\ setup.kind.next # "offset"
      /\ Is(Discord) => ~ Is(Slack)
      /\ ~ Is(Discord) /\ ~ Is(Slack) => setup.old = 0
  BY SetupIs DEF Offset
<1>3. PageOf(p) = FirstOf(R, setup.size)
  BY <1>2 DEF PageOf, OnePage
<1>4. /\ PageOf(p) \in SUBSET R /\ Cardinality(R) \in Nat /\ Cardinality(PageOf(p)) \in Nat
      /\ \A x \in PageOf(p) : \A y \in R \ PageOf(p) : x > y
      /\ PageOf(p) # R => Cardinality(PageOf(p)) = setup.size
      /\ Cardinality(R) <= setup.size => PageOf(p) = R
  BY <1>1, <1>2, <1>3, FirstOfIs
<1>5. PageOf(p) # R => Cardinality(R) > setup.size
  BY <1>2, <1>4
<1>6. \A x \in R : (reading.cursor # 0 => x < reading.cursor) /\ (Is(Slack) => x > setup.old)
  BY <1>2 DEF Rest
<1>7. \A x \in S : (reading.cursor # 0 => x < reading.cursor) /\ x > setup.old => x \in R
  BY <1>2 DEF Rest
<1>8. /\ reading.cursor = 0 => harvested[p] = << >>
      /\ reading.cursor # 0 => \A x \in RangeOf(harvested[p]) : x >= reading.cursor
      /\ \A e \in Wanted(p) : reading.cursor = 0 \/ e < reading.cursor \/ e \in RangeOf(harvested[p])
  BY DEF ReadTo
<1>9. reading.cursor \in Nat /\ RangeOf(<< >>) = {}
  BY DEF GatheringTypes, RangeOf
<1>10. ASSUME NEW x \in Nat, reading.cursor # 0 => x < reading.cursor, NEW y \in RangeOf(harvested[p]) PROVE y > x
  <2>1. reading.cursor # 0 /\ y >= reading.cursor /\ y \in Nat
    BY <1>1, <1>8, <1>9
  <2> QED BY <1>9, <1>10, <2>1
<1>11. ASSUME NEW x \in PageOf(p), NEW y \in RangeOf(harvested[p]) PROVE y > x
  <2>1. x \in Nat /\ (reading.cursor # 0 => x < reading.cursor)
    BY <1>1, <1>4, <1>6
  <2> QED BY <1>10, <2>1
<1>12. ASSUME NEW x \in RangeOf(NewOf(p)) PROVE x > setup.old
  <2>1. x \in PageOf(p) /\ x \in Taken(p, PageOf(p))
    BY NewIs
  <2>2. x \in R /\ x \in Nat \ {0}
    BY <1>1, <1>4, <2>1
  <2>3. Is(Discord) => x > setup.old
    BY <2>1 DEF Taken, FirstOf
  <2>4. Is(Slack) => x > setup.old
    BY <1>6, <2>2
  <2>5. ~ Is(Discord) /\ ~ Is(Slack) => x > setup.old
    BY <1>2, <2>2
  <2> QED BY <2>3, <2>4, <2>5
<1>13. ASSUME NEW e \in Wanted(p), e \notin RangeOf(harvested[p])
       PROVE  e \in R /\ \A y \in RangeOf(harvested[p]) : y > e
  <2>1. e \in S /\ e > setup.old
    BY DEF Wanted
  <2>2. reading.cursor # 0 => e < reading.cursor
    BY <1>8, <1>13
  <2>3. e \in Nat
    BY <1>1, <2>1
  <2> QED BY <1>7, <1>10, <2>1, <2>2, <2>3
<1> QED BY <1>4, <1>5, <1>11, <1>12, <1>13

\* What is taken of a page of Discord's: all but the old, if there is room.
LEMMA TakenByDiscord ==
  ASSUME GatheringTypes, Is(Discord), NEW p \in Place, Len(harvested[p]) < setup.cap
  PROVE  /\ \A x \in RangeOf(NewOf(p)) : \A e \in PageOf(p) \ RangeOf(NewOf(p)) : e > setup.old => x > e
         /\ Len(harvested[p]) + Len(NewOf(p)) <= setup.cap
         /\ ~ Capped(p, PageOf(p)) => Len(harvested[p]) + Len(NewOf(p)) < setup.cap
         /\ Capped(p, PageOf(p)) => Len(harvested[p]) + Len(NewOf(p)) = setup.cap
         /\ ~ Capped(p, PageOf(p)) => \A e \in PageOf(p) : e > setup.old => e \in RangeOf(NewOf(p))
<1> DEFINE X == {e \in PageOf(p) : e > setup.old}
           room == setup.cap - Len(harvested[p])
<1>1. /\ PageOf(p) \in SUBSET Nat /\ IsFiniteSet(PageOf(p)) /\ RangeOf(NewOf(p)) = Taken(p, PageOf(p))
      /\ Len(NewOf(p)) = Cardinality(Taken(p, PageOf(p))) /\ Len(NewOf(p)) \in Nat
  BY NewIs
<1>2. Len(harvested[p]) \in Nat /\ setup.cap \in Nat /\ room \in Nat
  BY ListingIs, SetupIs
<1>3. X \in SUBSET Nat /\ IsFiniteSet(X)
  BY <1>1, FS_Subset
<1>4. Taken(p, PageOf(p)) = FirstOf(X, room)
  BY DEF Taken
<1>5. X \subseteq PageOf(p) /\ \A e \in PageOf(p) : e \in X <=> e > setup.old
  OBVIOUS
<1>6. room = setup.cap - Len(harvested[p])
  OBVIOUS
<1> HIDE DEF X, room
<1>7. /\ FirstOf(X, room) \in SUBSET X /\ Cardinality(FirstOf(X, room)) \in 0..room
      /\ \A x \in FirstOf(X, room) : \A y \in X \ FirstOf(X, room) : x > y
      /\ FirstOf(X, room) # X => Cardinality(FirstOf(X, room)) = room
  BY <1>2, <1>3, FirstOfIs
<1>8. Capped(p, PageOf(p)) <=> Len(harvested[p]) + Len(NewOf(p)) >= setup.cap
  BY <1>1 DEF Capped
<1>9. Len(NewOf(p)) \in 0..room /\ RangeOf(NewOf(p)) \subseteq X /\ (RangeOf(NewOf(p)) # X => Len(NewOf(p)) = room)
  BY <1>1, <1>4, <1>7
<1>10. \A x \in RangeOf(NewOf(p)) : \A e \in PageOf(p) \ RangeOf(NewOf(p)) : e > setup.old => x > e
  BY <1>1, <1>4, <1>7, <1>5
<1>11. ~ Capped(p, PageOf(p)) => RangeOf(NewOf(p)) = X
  BY <1>2, <1>8, <1>9, <1>6
<1>12. /\ Len(harvested[p]) + Len(NewOf(p)) <= setup.cap
       /\ ~ Capped(p, PageOf(p)) => Len(harvested[p]) + Len(NewOf(p)) < setup.cap
       /\ Capped(p, PageOf(p)) => Len(harvested[p]) + Len(NewOf(p)) = setup.cap
  BY <1>2, <1>8, <1>9, <1>6
<1>13. ~ Capped(p, PageOf(p)) => \A e \in PageOf(p) : e > setup.old => e \in RangeOf(NewOf(p))
  BY <1>11, <1>5
<1> QED BY <1>10, <1>12, <1>13

\* Pages that are named by an offset: a page takes up the numbers from the cursor on.
LEMMA OffsetPage ==
  ASSUME GatheringTypes, Offset, NEW p \in Place
  PROVE  /\ RangeOf(NewOf(p)) = PageOf(p) /\ NextCursor(PageOf(p)) = reading.cursor + Cardinality(PageOf(p))
         /\ MorePages(listing[p], p, PageOf(p)) <=> Cardinality(Rest(listing[p])) > setup.size
         /\ \A x \in PageOf(p) : Cardinality(Newer(x, listing[p])) >= reading.cursor
         /\ \A e \in listing[p] : Cardinality(Newer(e, listing[p])) >= reading.cursor => e \in Rest(listing[p])
         /\ ~ MorePages(listing[p], p, PageOf(p)) => PageOf(p) = Rest(listing[p])
         /\ MorePages(listing[p], p, PageOf(p)) =>
              /\ \A e \in Rest(listing[p]) \ PageOf(p) :
                   Cardinality(Newer(e, listing[p])) >= reading.cursor + Cardinality(PageOf(p))
              /\ \A x \in PageOf(p) :
                   Cardinality(Newer(x, listing[p])) < reading.cursor + Cardinality(PageOf(p))
              /\ Cardinality(PageOf(p)) \in Nat
<1>1. PICK S, c, R, page :
        S = listing[p] /\ c = reading.cursor /\ R = Rest(listing[p]) /\ page = PageOf(p)
  OBVIOUS
<1>2. S \in SUBSET Nat /\ IsFiniteSet(S) /\ c \in Nat
  BY <1>1, ListingIs DEF GatheringTypes
<1>3. /\ setup.size \in Nat \ {0} /\ setup.kind.next # "none" /\ setup.kind.next = "offset"
      /\ ~ Is(Discord) /\ ~ Is(Slack)
  BY SetupIs DEF Offset
<1>4. R = S \ FirstOf(S, c) /\ page = FirstOf(R, setup.size)
  BY <1>1, <1>3 DEF Rest, PageOf, OnePage
<1>5. /\ RangeOf(NewOf(p)) = page /\ NextCursor(page) = c + Cardinality(page)
      /\ MorePages(S, p, page) <=> Cardinality(R) > setup.size
  <2>1. RangeOf(NewOf(p)) = page
    BY <1>1, <1>3, NewIs DEF Taken
  <2>2. NextCursor(page) = c + Cardinality(page)
    BY <1>1, <1>3 DEF NextCursor
  <2>3. MorePages(S, p, page) <=> Cardinality(R) > setup.size
    BY <1>1, <1>3 DEF MorePages
  <2> QED BY <2>1, <2>2, <2>3
<1>6. /\ FirstOf(S, c) \in SUBSET S /\ IsFiniteSet(FirstOf(S, c))
      /\ \A x \in FirstOf(S, c) : \A y \in S \ FirstOf(S, c) : x > y
      /\ FirstOf(S, c) # S => Cardinality(FirstOf(S, c)) = c
  BY <1>2, FirstOfIs
<1>7. R \in SUBSET S /\ R \in SUBSET Nat /\ IsFiniteSet(R)
  BY <1>2, <1>4, FS_Subset
<1>8. /\ page \in SUBSET R /\ IsFiniteSet(page) /\ Cardinality(R) \in Nat /\ Cardinality(page) \in Nat
      /\ \A x \in page : \A y \in R \ page : x > y
      /\ Cardinality(R) <= setup.size => page = R
      /\ Cardinality(R) > setup.size => Cardinality(page) = setup.size
  <2>1. PICK n \in Nat : n = setup.size
    BY <1>3
  <2>2. /\ FirstOf(R, n) \in SUBSET R /\ IsFiniteSet(FirstOf(R, n))
        /\ Cardinality(R) \in Nat /\ Cardinality(FirstOf(R, n)) \in 0..n
        /\ \A x \in FirstOf(R, n) : \A y \in R \ FirstOf(R, n) : x > y
        /\ Cardinality(R) <= n => FirstOf(R, n) = R
        /\ Cardinality(R) > n => Cardinality(FirstOf(R, n)) = n
    BY <1>7, FirstOfIs
  <2>3. Cardinality(FirstOf(R, n)) \in Nat /\ page = FirstOf(R, n)
    BY <1>4, <2>1, <2>2
  <2> QED BY <2>1, <2>2, <2>3
<1>9. \A e \in S : /\ Cardinality(Newer(e, S)) \in Nat /\ IsFiniteSet(Newer(e, S))
                   /\ e \in FirstOf(S, c) <=> Cardinality(Newer(e, S)) < c
  <2> TAKE e \in S
  <2>1. Newer(e, S) \in SUBSET S
    BY DEF Newer
  <2>2. IsFiniteSet(Newer(e, S)) /\ Cardinality(Newer(e, S)) \in Nat
    BY <1>2, <2>1, FS_Subset, FS_CardinalityType
  <2> QED BY <2>2 DEF FirstOf
<1>10. \A x \in page : Cardinality(Newer(x, S)) >= c
  BY <1>2, <1>4, <1>7, <1>8, <1>9
<1>11. \A e \in S : Cardinality(Newer(e, S)) >= c => e \in R
  BY <1>2, <1>4, <1>9
<1>12. ASSUME Cardinality(R) > setup.size
       PROVE  /\ IsFiniteSet(FirstOf(S, c) \cup page)
              /\ Cardinality(FirstOf(S, c) \cup page) = c + Cardinality(page)
  <2>1. R # {}
    BY <1>3, <1>8, <1>12, FS_EmptySet
  <2>2. Cardinality(FirstOf(S, c)) = c
    BY <1>4, <1>6, <2>1
  <2>3. FirstOf(S, c) \cap page = {}
    BY <1>4, <1>8
  <2>4. /\ IsFiniteSet(FirstOf(S, c) \cup page)
        /\ Cardinality(FirstOf(S, c) \cup page) =
             Cardinality(FirstOf(S, c)) + Cardinality(page) - Cardinality(FirstOf(S, c) \cap page)
    BY <1>6, <1>8, FS_Union
  <2>5. Cardinality(FirstOf(S, c) \cap page) = 0
    BY <2>3, FS_EmptySet
  <2> QED BY <1>2, <1>8, <2>2, <2>4, <2>5
<1>13. ASSUME Cardinality(R) > setup.size, NEW e \in R \ page
       PROVE  Cardinality(Newer(e, S)) >= c + Cardinality(page)
  <2>1. \A x \in FirstOf(S, c) \cup page : x \in S /\ x > e
    BY <1>4, <1>6, <1>7, <1>8
  <2>2. FirstOf(S, c) \cup page \in SUBSET Newer(e, S)
    BY <2>1 DEF Newer
  <2>3. Cardinality(FirstOf(S, c) \cup page) <= Cardinality(Newer(e, S))
    BY <1>7, <1>9, <2>2, FS_Subset
  <2> QED BY <1>12, <1>13, <2>3
<1>14. ASSUME Cardinality(R) > setup.size, NEW x \in page
       PROVE  Cardinality(Newer(x, S)) < c + Cardinality(page)
  <2>1. x \in S /\ x \in Nat
    BY <1>7, <1>8
  <2>2. ASSUME NEW y \in Newer(x, S) PROVE y \in FirstOf(S, c) \cup page
    <3>1. y \in S /\ y > x /\ y \in Nat
      BY <1>2, <2>2 DEF Newer
    <3>2. y \in R => y \in page
      <4>1. y \in R \ page => x > y
        BY <1>8
      <4> QED BY <2>1, <3>1, <4>1
    <3> QED BY <1>4, <3>1, <3>2
  <2>3. x \notin Newer(x, S) /\ x \in FirstOf(S, c) \cup page
    BY <2>1 DEF Newer
  <2>4. PICK U : U = FirstOf(S, c) \cup page
    OBVIOUS
  <2>5. Newer(x, S) \in SUBSET U /\ Newer(x, S) # U
    BY <2>2, <2>3, <2>4
  <2>6. IsFiniteSet(U) /\ Cardinality(U) = c + Cardinality(page)
    BY <1>12, <1>14, <2>4
  <2>7. Cardinality(Newer(x, S)) <= Cardinality(U) /\ Cardinality(Newer(x, S)) # Cardinality(U)
    BY <2>5, <2>6, FS_Subset
  <2>8. Cardinality(Newer(x, S)) \in Nat
    BY <1>9, <2>1
  <2> QED BY <1>2, <1>8, <2>6, <2>7, <2>8
<1>15. ~ (Cardinality(R) > setup.size) => page = R
  BY <1>3, <1>8
<1> QED BY <1>1, <1>5, <1>8, <1>10, <1>11, <1>13, <1>14, <1>15

AllOf(p) == harvested[p] \o NewOf(p)

LEMMA AllIs ==
  ASSUME GatheringTypes, NEW p \in Place
  PROVE  /\ AllOf(p) \in Seq(Nat \ {0}) /\ Len(AllOf(p)) = Len(harvested[p]) + Len(NewOf(p))
         /\ RangeOf(AllOf(p)) = RangeOf(harvested[p]) \cup RangeOf(NewOf(p))
<1>1. harvested[p] \in Seq(Nat \ {0}) /\ NewOf(p) \in Seq(Nat \ {0})
  BY ListingIs, NewIs
<1> QED BY <1>1, JoinedRange DEF AllOf

\* A source whose pages are named by entries.
LEMMA EntryAdds ==
  ASSUME GatheringTypes, NEW p \in Place, Neat(harvested[p]), ReadTo(p, harvested[p], reading.cursor),
         ~ Offset, ~ Is(Github)
  PROVE  /\ Neat(AllOf(p))
         /\ MorePages(listing[p], p, PageOf(p)) => ReadTo(p, AllOf(p), NextCursor(PageOf(p)))
         /\ ~ MorePages(listing[p], p, PageOf(p)) => ReadWhole(p, AllOf(p))
<1>1. PICK S, h, R, page, new : /\ S = listing[p] /\ h = harvested[p] /\ R = Rest(listing[p])
                                /\ page = PageOf(p) /\ new = NewOf(p)
  OBVIOUS
<1>2. /\ \A x \in page : (\A y \in RangeOf(h) : y > x) /\ (\A y \in R \ page : x > y)
      /\ \A x \in RangeOf(new) : x > setup.old
      /\ \A e \in Wanted(p) : e \in RangeOf(h) \/ (e \in R /\ \A y \in RangeOf(h) : y > e)
      /\ Cardinality(page) \in Nat
      /\ page # R => Cardinality(page) = setup.size /\ Cardinality(R) > setup.size
  BY <1>1, EntryPage
<1>3. /\ page \in SUBSET S /\ page \in SUBSET Nat /\ R \in SUBSET Nat
      /\ RangeOf(new) = Taken(p, page) /\ RangeOf(new) \subseteq page
      /\ new \in Seq(Nat) /\ Descends(new) /\ Len(new) \in Nat
  BY <1>1, NewIs
<1>4. h \in Seq(Nat) /\ Len(h) \in Nat /\ RangeOf(h) \subseteq Nat \ {0} /\ S \in SUBSET (Nat \ {0})
  BY <1>1, ListingIs
<1>5. AllOf(p) = h \o new /\ RangeOf(AllOf(p)) = RangeOf(h) \cup RangeOf(new) /\ Len(AllOf(p)) = Len(h) + Len(new)
  BY <1>1, AllIs DEF AllOf
<1>6. setup.size \in Nat \ {0} /\ setup.old \in Nat /\ setup.kind.next # "none" /\ setup.kind.next # "offset"
  BY SetupIs DEF Offset
<1>7. \A x \in RangeOf(h) : x > setup.old
  BY <1>1 DEF Neat
<1>8. Neat(AllOf(p))
  <2>1. \A x \in RangeOf(h) : \A y \in RangeOf(new) : x > y
    BY <1>2, <1>3
  <2>2. Descends(h)
    BY <1>1 DEF Neat
  <2>3. Descends(AllOf(p))
    BY <1>3, <1>4, <1>5, <2>1, <2>2, JoinedDescends
  <2> QED BY <1>2, <1>5, <1>7, <2>3 DEF Neat
<1>9. Is(Discord) =>
        /\ \A x \in RangeOf(new) : \A e \in page \ RangeOf(new) : e > setup.old => x > e
        /\ ~ Capped(p, page) => Len(h) + Len(new) < setup.cap
        /\ Capped(p, page) => Len(h) + Len(new) = setup.cap
        /\ ~ Capped(p, page) => \A e \in page : e > setup.old => e \in RangeOf(new)
  <2>1. Is(Discord) => Len(h) < setup.cap
    BY <1>1 DEF ReadTo
  <2> QED BY <1>1, <2>1, TakenByDiscord
<1>10. ~ Is(Discord) => RangeOf(new) = page
  BY <1>3 DEF Taken
<1>11. \A e \in Wanted(p) : e > setup.old /\ e \in Nat
  BY <1>1, <1>4 DEF Wanted
<1>12. ASSUME MorePages(S, p, page) PROVE ReadTo(p, AllOf(p), NextCursor(page))
  <2>1. /\ NextCursor(page) \in page /\ NextCursor(page) # 0 /\ NextCursor(page) \in Nat
        /\ \A x \in page : x >= NextCursor(page)
    <3>1. S \in SUBSET (Nat \ {0}) /\ IsFiniteSet(S)
      BY <1>1, ListingIs
    <3> QED BY <1>1, <1>12, <3>1, NextCursorIs DEF PageOf
  <2>2. ASSUME NEW x \in RangeOf(AllOf(p)) PROVE x >= NextCursor(page)
    <3>1. CASE x \in RangeOf(h)
      <4>1. x > NextCursor(page) /\ x \in Nat
        BY <1>2, <1>4, <2>1, <3>1
      <4> QED BY <2>1, <4>1
    <3>2. CASE x \in RangeOf(new)
      BY <1>3, <2>1, <3>2
    <3> QED BY <1>5, <2>2, <3>1, <3>2
  <2>3. Is(Discord) => ~ Capped(p, page)
    BY <1>12 DEF MorePages
  <2>4. ASSUME NEW e \in Wanted(p) PROVE e < NextCursor(page) \/ e \in RangeOf(AllOf(p))
    <3>1. CASE e \in RangeOf(h)
      BY <1>5, <3>1
    <3>2. CASE e \in page
      <4>1. e \in RangeOf(new)
        BY <1>9, <1>10, <1>11, <2>3, <3>2
      <4> QED BY <1>5, <4>1
    <3>3. CASE e \in R \ page
      <4>1. NextCursor(page) > e
        BY <1>2, <2>1, <3>3
      <4> QED BY <1>11, <2>1, <4>1
    <3> QED BY <1>2, <3>1, <3>2, <3>3
  <2>5. Is(Discord) => Len(AllOf(p)) < setup.cap
    BY <1>5, <1>9, <2>3
  <2> QED BY <2>1, <2>2, <2>4, <2>5 DEF ReadTo
<1>13. ASSUME ~ MorePages(S, p, page) PROVE ReadWhole(p, AllOf(p))
  <2> SUFFICES ASSUME NEW e \in Wanted(p), e \notin RangeOf(AllOf(p))
               PROVE  /\ Is(Discord) /\ Len(AllOf(p)) = setup.cap
                      /\ \A x \in RangeOf(AllOf(p)) : x > e
    BY DEF ReadWhole
  <2>1. /\ e \in R /\ (\A y \in RangeOf(h) : y > e) /\ e \notin RangeOf(new)
        /\ e > setup.old /\ e \in Nat
    BY <1>2, <1>5, <1>11
  <2>2. page # R \/ Is(Discord)
    BY <1>10, <2>1
  <2>3. Is(Discord)
    <3>1. ASSUME ~ Is(Discord) PROVE FALSE
      <4>1. ~ (Cardinality(R) > setup.size)
        BY <1>1, <1>6, <1>13, <3>1 DEF MorePages
      <4> QED BY <1>2, <2>2, <3>1, <4>1
    <3> QED BY <3>1
  <2>4. Capped(p, page)
    <3>1. ASSUME ~ Capped(p, page) PROVE FALSE
      <4>1. e \notin page
        BY <1>9, <2>1, <2>3, <3>1
      <4>2. Cardinality(page) = setup.size
        BY <1>2, <2>1, <4>1
      <4>3. PICK y \in page : ~ (y > setup.old)
        BY <1>6, <1>13, <2>3, <3>1, <4>2 DEF MorePages
      <4>4. y > e /\ y \in Nat
        BY <1>2, <1>3, <2>1, <4>1
      <4> QED BY <1>6, <2>1, <4>3, <4>4
    <3> QED BY <3>1
  <2>5. ASSUME NEW x \in RangeOf(AllOf(p)) PROVE x > e
    <3>1. CASE x \in RangeOf(h)
      BY <2>1, <3>1
    <3>2. CASE x \in RangeOf(new)
      <4>1. CASE e \in page
        BY <1>9, <2>1, <2>3, <3>2, <4>1
      <4>2. CASE e \notin page
        BY <1>2, <1>3, <2>1, <3>2, <4>2
      <4> QED BY <4>1, <4>2
    <3> QED BY <1>5, <2>5, <3>1, <3>2
  <2> QED BY <1>5, <1>9, <2>3, <2>4, <2>5
<1> QED BY <1>1, <1>8, <1>12, <1>13

\* A source whose pages are named by an offset.
LEMMA OffsetAdds ==
  ASSUME GatheringTypes, NEW p \in Place, Neat(harvested[p]), ReadTo(p, harvested[p], reading.cursor),
         Offset
  PROVE  /\ Neat(AllOf(p))
         /\ MorePages(listing[p], p, PageOf(p)) => ReadTo(p, AllOf(p), NextCursor(PageOf(p)))
         /\ ~ MorePages(listing[p], p, PageOf(p)) => ReadWhole(p, AllOf(p))
<1>1. PICK S, h, page, new : S = listing[p] /\ h = harvested[p] /\ page = PageOf(p) /\ new = NewOf(p)
  OBVIOUS
<1>2. /\ RangeOf(new) = page /\ NextCursor(page) = reading.cursor + Cardinality(page)
      /\ \A x \in page : Cardinality(Newer(x, S)) >= reading.cursor
      /\ \A e \in S : Cardinality(Newer(e, S)) >= reading.cursor => e \in Rest(S)
      /\ ~ MorePages(S, p, page) => page = Rest(S)
      /\ MorePages(S, p, page) =>
           /\ \A e \in Rest(S) \ page : Cardinality(Newer(e, S)) >= reading.cursor + Cardinality(page)
           /\ \A x \in page : Cardinality(Newer(x, S)) < reading.cursor + Cardinality(page)
           /\ Cardinality(page) \in Nat
  BY <1>1, OffsetPage
<1>3. /\ page \in SUBSET S /\ new \in Seq(Nat)
      /\ \A m, n \in DOMAIN new : new[m] = new[n] => m = n
  BY <1>1, NewIs
<1>4. h \in Seq(Nat) /\ RangeOf(h) \subseteq Nat \ {0} /\ S \in SUBSET (Nat \ {0}) /\ S \in SUBSET Nat /\ IsFiniteSet(S)
  BY <1>1, ListingIs
<1>5. AllOf(p) = h \o new /\ RangeOf(AllOf(p)) = RangeOf(h) \cup page
  BY <1>1, <1>2, AllIs DEF AllOf
<1>6. setup.old = 0 /\ ~ Is(Github) /\ reading.cursor \in Nat
  BY SetupIs DEF GatheringTypes
<1>7. \A x \in S : Cardinality(Newer(x, S)) \in Nat
  BY <1>4, NewerGrows
<1>8. moves.appears = 0 => \A x \in RangeOf(h) \cap S : Cardinality(Newer(x, S)) < reading.cursor
  BY <1>1 DEF ReadTo
<1>9. moves.disappears = 0 =>
        \A e \in Wanted(p) : e \in RangeOf(h) \/ Cardinality(Newer(e, S)) >= reading.cursor
  BY <1>1 DEF ReadTo
<1>10. Wanted(p) \subseteq S
  BY <1>1 DEF Wanted
<1>11. Neat(AllOf(p))
  <2>1. ASSUME NEW x \in RangeOf(AllOf(p)) PROVE x > setup.old
    <3>1. x \in RangeOf(h) \/ x \in S
      BY <1>3, <1>5
    <3>2. x \in Nat \ {0}
      BY <1>4, <3>1
    <3> QED BY <1>6, <3>2
  <2>2. ASSUME moves.appears = 0
        PROVE  \A m, n \in DOMAIN AllOf(p) : AllOf(p)[m] = AllOf(p)[n] => m = n
    <3>1. \A m, n \in DOMAIN h : h[m] = h[n] => m = n
      BY <1>1, <2>2 DEF Neat
    <3>2. ASSUME NEW x \in RangeOf(h), x \in page PROVE FALSE
      <4>1. x \in S
        BY <1>3, <3>2
      <4>2. Cardinality(Newer(x, S)) < reading.cursor /\ Cardinality(Newer(x, S)) >= reading.cursor
        BY <1>2, <1>8, <2>2, <3>2, <4>1
      <4> QED BY <1>6, <1>7, <4>1, <4>2
    <3>3. RangeOf(h) \cap RangeOf(new) = {}
      BY <1>2, <3>2
    <3>4. \A m, n \in DOMAIN (h \o new) : (h \o new)[m] = (h \o new)[n] => m = n
      BY <1>3, <1>4, <3>1, <3>3, JoinedOnce
    <3> QED BY <1>5, <3>4
  <2> QED BY <2>1, <2>2 DEF Neat
<1>12. ASSUME MorePages(S, p, page) PROVE ReadTo(p, AllOf(p), NextCursor(page))
  <2>1. ASSUME moves.disappears = 0, NEW e \in Wanted(p), e \notin RangeOf(AllOf(p))
        PROVE  Cardinality(Newer(e, S)) >= NextCursor(page)
    <3>1. e \in Rest(S) \ page
      BY <1>2, <1>5, <1>9, <1>10, <2>1
    <3> QED BY <1>2, <1>12, <3>1
  <2>2. ASSUME moves.appears = 0, NEW x \in RangeOf(AllOf(p)) \cap S
        PROVE  Cardinality(Newer(x, S)) < NextCursor(page)
    <3>1. CASE x \in page
      BY <1>2, <1>12, <3>1
    <3>2. CASE x \in RangeOf(h)
      <4>1. Cardinality(Newer(x, S)) < reading.cursor /\ Cardinality(Newer(x, S)) \in Nat
        BY <1>7, <1>8, <2>2, <3>2
      <4> QED BY <1>2, <1>6, <1>12, <4>1
    <3> QED BY <1>5, <2>2, <3>1, <3>2
  <2> QED BY <1>1, <1>6, <2>1, <2>2 DEF ReadTo
<1>13. ASSUME ~ MorePages(S, p, page) PROVE ReadWhole(p, AllOf(p))
  <2> SUFFICES ASSUME NEW e \in Wanted(p), e \notin RangeOf(AllOf(p)) PROVE moves.disappears # 0
    BY DEF ReadWhole
  <2>1. e \in S /\ e \notin RangeOf(h) /\ e \notin page
    BY <1>5, <1>10
  <2>2. e \notin Rest(S)
    BY <1>2, <1>13, <2>1
  <2> QED BY <1>2, <1>9, <2>1, <2>2
<1> QED BY <1>1, <1>11, <1>12, <1>13

\* A file of a repository is one page.
LEMMA FileAdds ==
  ASSUME GatheringTypes, NEW p \in Place, ReadTo(p, harvested[p], reading.cursor), Is(Github)
  PROVE  /\ Neat(AllOf(p)) /\ ReadWhole(p, AllOf(p)) /\ ~ MorePages(listing[p], p, PageOf(p))
<1>1. setup.kind.next = "none" /\ ~ Offset /\ ~ Is(Discord) /\ setup.old = 0
  BY SetupIs
<1>2. PageOf(p) = listing[p] /\ RangeOf(NewOf(p)) = PageOf(p)
  BY <1>1, NewIs DEF PageOf, OnePage, Taken
<1>3. harvested[p] = << >> /\ RangeOf(<< >>) = {} /\ Descends(<< >>)
  BY <1>1 DEF ReadTo, RangeOf, Descends
<1>4. RangeOf(AllOf(p)) = listing[p]
  BY <1>2, <1>3, AllIs
<1>5. harvested[p] \in Seq(Nat) /\ NewOf(p) \in Seq(Nat) /\ Descends(NewOf(p))
  BY ListingIs, NewIs
<1>6. Descends(AllOf(p))
  BY <1>3, <1>5, JoinedDescends DEF AllOf
<1>7. \A x \in listing[p] : x > 0
  <2>1. listing[p] \in SUBSET (Nat \ {0})
    BY ListingIs
  <2> QED BY <2>1
<1>8. Neat(AllOf(p))
  BY <1>1, <1>4, <1>6, <1>7 DEF Neat
<1>9. ReadWhole(p, AllOf(p))
  BY <1>4 DEF ReadWhole, Wanted
<1> QED BY <1>1, <1>8, <1>9 DEF MorePages

LEMMA PageAdds ==
  ASSUME GatheringTypes, NEW p \in Place, Neat(harvested[p]), ReadTo(p, harvested[p], reading.cursor)
  PROVE  /\ Neat(AllOf(p))
         /\ MorePages(listing[p], p, PageOf(p)) => ReadTo(p, AllOf(p), NextCursor(PageOf(p)))
         /\ ~ MorePages(listing[p], p, PageOf(p)) => ReadWhole(p, AllOf(p))
<1>1. CASE Is(Github)
  BY <1>1, FileAdds
<1>2. CASE Offset
  BY <1>2, OffsetAdds
<1>3. CASE ~ Offset /\ ~ Is(Github)
  BY <1>3, EntryAdds
<1> QED BY <1>1, <1>2, <1>3

-----------------------------------------------------------------------------
(* What is kept while the service goes on.                                 *)

\* Entries come only as new ones, and go only where something has disappeared.
Moved ==
  /\ setup' = setup
  /\ moves'.disappears = 0 => moves.disappears = 0
  /\ moves'.appears = 0 => moves.appears = 0
  /\ \A p \in Place :
       /\ \A e \in listing'[p] : e <= MaxEntries => e \in listing[p]
       /\ moves'.disappears = 0 => listing[p] \subseteq listing'[p]
       /\ moves'.appears = 0 => listing'[p] \subseteq listing[p]

LEMMA WantedStill ==
  ASSUME Moved, NEW p \in Place
  PROVE  Wanted(p)' \subseteq Wanted(p)
BY DEF Moved, Wanted

LEMMA NeatStill ==
  ASSUME Moved, NEW list, Neat(list), NEW i, harvested'[reading'.list[i]] = list
  PROVE  Neat(harvested[reading.list[i]])'
BY DEF Moved, Neat, Offset

LEMMA WholeStill ==
  ASSUME Moved, NEW p \in Place, NEW list, ReadWhole(p, list),
         NEW i, reading'.list[i] = p, harvested'[p] = list
  PROVE  ReadWhole(reading.list[i], harvested[reading.list[i]])'
<1>1. \A e \in Wanted(reading.list[i])' : e \in Wanted(p)
  <2>1. Wanted(p)' \subseteq Wanted(p)
    BY WantedStill
  <2> QED BY <2>1 DEF Wanted
<1>2. /\ setup' = setup /\ (moves'.disappears = 0 => moves.disappears = 0)
  BY DEF Moved
<1>3. Offset' = Offset /\ Is(Discord)' = Is(Discord)
  BY <1>2 DEF Offset, Is
<1> QED BY <1>1, <1>2, <1>3 DEF ReadWhole

LEMMA ReadToStill ==
  ASSUME GatheringTypes, GatheringTypes', Moved, NEW p \in Place, NEW list, NEW cursor \in Nat,
         ReadTo(p, list, cursor),
         NEW i, reading'.list[i] = p, harvested'[p] = list, reading'.cursor = cursor
  PROVE  ReadTo(reading.list[i], harvested[reading.list[i]], reading.cursor)'
<1>1. \A e \in Wanted(reading.list[i])' : e \in Wanted(p)
  <2>1. Wanted(p)' \subseteq Wanted(p)
    BY WantedStill
  <2> QED BY <2>1 DEF Wanted
<1>2. /\ setup' = setup
      /\ moves'.disappears = 0 => moves.disappears = 0 /\ listing[p] \subseteq listing'[p]
      /\ moves'.appears = 0 => moves.appears = 0 /\ listing'[p] \subseteq listing[p]
  BY DEF Moved
<1>3. Offset' = Offset /\ Is(Discord)' = Is(Discord) /\ Is(Github)' = Is(Github)
  BY <1>2 DEF Offset, Is
<1>4. /\ IsFiniteSet(listing[p]) /\ IsFiniteSet(listing'[p])
      /\ listing[p] \in SUBSET Nat /\ listing'[p] \in SUBSET Nat
  <2>1. moves'.appears \in Nat /\ listing'[p] \in SUBSET (Nat \ {0})
        /\ \A e \in listing'[p] : e <= MaxEntries + moves'.appears
    BY DEF GatheringTypes
  <2>2. PICK k \in Nat : k = MaxEntries + moves'.appears
    BY <2>1, GatheringAssumption
  <2>3. listing'[p] \in SUBSET (1..k)
    BY <2>1, <2>2
  <2>4. IsFiniteSet(1..k)
    BY FS_Interval
  <2>5. IsFiniteSet(listing'[p])
    BY <2>3, <2>4, FS_Subset
  <2> QED BY <2>1, <2>5, ListingIs
<1>5. Offset' /\ moves'.disappears = 0 =>
        \A e \in Wanted(reading.list[i])' :
          e \in RangeOf(list) \/ Cardinality(Newer(e, listing'[p])) >= cursor
  <2> SUFFICES ASSUME Offset, moves'.disappears = 0, NEW e \in Wanted(p), e \notin RangeOf(list)
               PROVE  Cardinality(Newer(e, listing'[p])) >= cursor
    BY <1>1, <1>3
  <2>1. Cardinality(Newer(e, listing[p])) >= cursor
    BY <1>2 DEF ReadTo
  <2>2. /\ Cardinality(Newer(e, listing[p])) <= Cardinality(Newer(e, listing'[p]))
        /\ Cardinality(Newer(e, listing[p])) \in Nat /\ Cardinality(Newer(e, listing'[p])) \in Nat
    BY <1>2, <1>4, NewerGrows
  <2> QED BY <2>1, <2>2
<1>6. Offset' /\ moves'.appears = 0 =>
        \A x \in RangeOf(list) \cap listing'[p] : Cardinality(Newer(x, listing'[p])) < cursor
  <2> SUFFICES ASSUME Offset, moves'.appears = 0, NEW x \in RangeOf(list) \cap listing'[p]
               PROVE  Cardinality(Newer(x, listing'[p])) < cursor
    BY <1>3
  <2>1. Cardinality(Newer(x, listing[p])) < cursor
    BY <1>2 DEF ReadTo
  <2>2. /\ Cardinality(Newer(x, listing'[p])) <= Cardinality(Newer(x, listing[p]))
        /\ Cardinality(Newer(x, listing[p])) \in Nat /\ Cardinality(Newer(x, listing'[p])) \in Nat
    BY <1>2, <1>4, NewerGrows
  <2> QED BY <2>1, <2>2
<1>7. ~ Offset =>
        /\ cursor = 0 => list = << >>
        /\ cursor # 0 => \A x \in RangeOf(list) : x >= cursor
        /\ \A e \in Wanted(p) : cursor = 0 \/ e < cursor \/ e \in RangeOf(list)
        /\ Is(Discord) => Len(list) < setup.cap
  BY DEF ReadTo
<1>8. Is(Github) => cursor = 0
  BY DEF ReadTo
<1> QED BY <1>1, <1>2, <1>3, <1>5, <1>6, <1>7, <1>8 DEF ReadTo

-----------------------------------------------------------------------------
(* The steps.                                                              *)

LEMMA OrderIs ==
  ASSUME NEW some \in SUBSET Place, NEW order \in OrdersOf(some)
  PROVE  order \in Seq(Place) /\ \A m, n \in DOMAIN order : order[m] = order[n] => m = n
<1>1. IsFiniteSet(some)
  BY GatheringAssumption, FS_Subset
<1>2. PICK k \in Nat : k = Cardinality(some)
  BY <1>1, FS_CardinalityType
<1>3. order \in [1..k -> some] /\ \A m, n \in DOMAIN order : order[m] = order[n] => m = n
  BY <1>2 DEF OrdersOf
<1>4. order \in Seq(some)
  BY <1>2, <1>3
<1> QED BY <1>3, <1>4, WiderList

\* Of a place that has not been reached.
LEMMA NothingRead ==
  ASSUME GatheringTypes, NEW p \in Place
  PROVE  ReadTo(p, << >>, 0)
<1>1. RangeOf(<< >>) = {} /\ Len(<< >>) = 0
  BY DEF RangeOf
<1>2. \A e : Cardinality(Newer(e, listing[p])) >= 0
  BY ListingIs, NewerGrows
<1>3. Is(Discord) => 0 < setup.cap
  BY SetupIs
<1> QED BY <1>1, <1>2, <1>3 DEF ReadTo

LEMMA GatheringBegins ==
  ASSUME GatheringInit
  PROVE  GatheringInv
<1>1. PICK list \in Lists : reading = FromTheStart(list)
  BY DEF GatheringInit
<1>2. /\ reading.pc = "page" /\ reading.list = list /\ reading.place = 1 /\ reading.cursor = 0
      /\ reading.of \in Place
      /\ reading = [pc |-> "page", list |-> list, place |-> 1, cursor |-> 0, of |-> reading.of]
  BY <1>1, GatheringAssumption DEF FromTheStart
<1>3. /\ harvested = [p \in Place |-> << >>] /\ staged = {}
      /\ moves = [appears |-> 0, disappears |-> 0, lists |-> 0]
      /\ \E kind \in Kinds : setup \in Configured(kind)
      /\ drives \in OrdersOf(Place) /\ listing \in [Place -> {1..k : k \in 0..MaxEntries}]
  BY DEF GatheringInit
<1>4. drives \in Seq(Place) /\ \A m, n \in DOMAIN drives : drives[m] = drives[n] => m = n
  BY <1>3, OrderIs
<1>5. /\ list \in Seq(Place) /\ \A m, n \in DOMAIN list : list[m] = list[n] => m = n
      /\ Is(Microsoft365) => list = drives
  <2>1. CASE setup.kind.places = "one"
    <3>1. Github.places = "many" /\ Microsoft365.places = "drives"
      BY DEF Github, Microsoft365, SourceKind
    <3>2. ~ Is(Microsoft365) /\ ~ Is(Github)
      BY <2>1, <3>1 DEF Is
    <3>3. PICK p \in Place : list = <<p>>
      BY <2>1, <3>2 DEF Lists
    <3> QED BY <3>2, <3>3
  <2>2. CASE setup.kind.places # "one" /\ Is(Github)
    <3>1. list \in OrdersOf({p \in Place : listing[p] # {}})
      BY <2>2 DEF Lists
    <3>2. Github.places = "many" /\ Microsoft365.places = "drives"
      BY DEF Github, Microsoft365, SourceKind
    <3>3. ~ Is(Microsoft365)
      BY <2>2, <3>2 DEF Is
    <3>4. PICK some \in SUBSET Place : some = {p \in Place : listing[p] # {}}
      OBVIOUS
    <3> QED BY <3>1, <3>3, <3>4, OrderIs
  <2>3. CASE setup.kind.places # "one" /\ ~ Is(Github)
    BY <1>4, <2>3 DEF Lists
  <2> QED BY <2>1, <2>2, <2>3
<1>6. GatheringTypes
  <2>1. ASSUME NEW p \in Place
        PROVE  listing[p] \in SUBSET (Nat \ {0}) /\ \A e \in listing[p] : e <= MaxEntries
    <3>1. PICK k \in 0..MaxEntries : listing[p] = 1..k
      BY <1>3
    <3> QED BY <3>1, GatheringAssumption
  <2>2. listing \in [Place -> SUBSET (Nat \ {0})]
    BY <1>3, <2>1
  <2>3. \A p \in Place : \A e \in listing[p] : e <= MaxEntries + moves.appears
    <3>1. MaxEntries + moves.appears = MaxEntries
      BY <1>3, GatheringAssumption
    <3> QED BY <2>1, <3>1
  <2>4. reading \in [pc : {"page", "done", "failed"}, list : Seq(Place), place : Nat \ {0},
                     cursor : Nat, of : Place]
    BY <1>2, <1>5
  <2>5. harvested \in [Place -> Seq(Nat \ {0})] /\ moves \in [appears : Nat, disappears : Nat, lists : Nat]
    BY <1>3
  <2> QED BY <1>2, <1>3, <1>4, <1>5, <2>2, <2>3, <2>4, <2>5 DEF GatheringTypes
<1>7. RangeOf(<< >>) = {} /\ Descends(<< >>) /\ DOMAIN << >> = {} /\ Len(<< >>) = 0
  BY DEF RangeOf, Descends
<1>8. Neat(<< >>)
  BY <1>7 DEF Neat
<1>9. ASSUME NEW p \in Place PROVE ReadTo(p, << >>, 0)
  BY <1>6, NothingRead
<1>10. ReadingFits
  <2>1. \A i \in DOMAIN list : list[i] \in Place /\ harvested[list[i]] = << >> /\ i >= 1 /\ i \in Nat
    BY <1>3, <1>5
  <2> QED BY <1>2, <1>5, <1>8, <1>9, <2>1 DEF ReadingFits
<1>11. StagedFits
  <2>1. \A i \in DOMAIN list : ~ (i < 1)
    BY <1>5
  <2> QED BY <1>2, <1>3, <2>1 DEF StagedFits
<1> QED BY <1>6, <1>10, <1>11 DEF GatheringInv

\* Entries come and go, and drives are listed anew.
LEMMA ServiceMoves ==
  ASSUME GatheringTypes,
         \/ \E p \in Place : Appear(p) \/ \E e \in listing[p] : Disappear(p, e)
         \/ \E some \in SUBSET Place : \E order \in OrdersOf(some) : Relist(order)
  PROVE  /\ GatheringTypes' /\ Moved /\ reading.pc = "page"
         /\ UNCHANGED <<setup, reading, harvested, staged>>
         /\ Trusted' => Trusted /\ (Is(Microsoft365) => drives' = drives)
<1>1. /\ listing \in [Place -> SUBSET (Nat \ {0})]
      /\ \A p \in Place : \A e \in listing[p] : e <= MaxEntries + moves.appears
      /\ drives \in Seq(Place) /\ moves \in [appears : Nat, disappears : Nat, lists : Nat]
      /\ MaxEntries \in Nat
  BY GatheringAssumption DEF GatheringTypes
<1>2. ASSUME NEW p \in Place, Appear(p)
      PROVE  /\ GatheringTypes' /\ Moved /\ reading.pc = "page"
             /\ UNCHANGED <<setup, reading, harvested, staged>>
             /\ Trusted' => Trusted /\ (Is(Microsoft365) => drives' = drives)
  <2>1. PICK new \in Nat \ {0} : new = MaxEntries + 1 + moves.appears
    BY <1>1
  <2>2. /\ listing' = [listing EXCEPT ![p] = @ \cup {new}] /\ drives' = drives
        /\ moves' = [moves EXCEPT !.appears = @ + 1] /\ reading.pc = "page"
        /\ UNCHANGED <<setup, reading, harvested, staged>>
    BY <1>2, <2>1 DEF Appear, Happens
  <2>3. moves' \in [appears : Nat, disappears : Nat, lists : Nat] /\ moves'.appears = moves.appears + 1
        /\ moves'.disappears = moves.disappears /\ moves'.lists = moves.lists
    BY <1>1, <2>2
  <2>4. \A q \in Place : listing'[q] = IF q = p THEN listing[q] \cup {new} ELSE listing[q]
    BY <1>1, <2>2
  <2>5. listing' \in [Place -> SUBSET (Nat \ {0})]
    BY <1>1, <2>2
  <2>6. ASSUME NEW q \in Place, NEW e \in listing'[q]
        PROVE  e <= MaxEntries + moves'.appears /\ (e <= MaxEntries => e \in listing[q])
    <3>1. CASE e \in listing[q]
      <4>1. e <= MaxEntries + moves.appears /\ e \in Nat
        BY <1>1, <3>1
      <4> QED BY <1>1, <2>3, <3>1, <4>1
    <3>2. CASE e = new
      BY <1>1, <2>1, <2>3, <3>2
    <3> QED BY <2>4, <2>6, <3>1, <3>2
  <2>7. GatheringTypes'
    BY <2>2, <2>3, <2>5, <2>6 DEF GatheringTypes
  <2>8. Moved
    <3>1. moves'.appears # 0
      BY <1>1, <2>3
    <3> QED BY <2>2, <2>3, <2>4, <2>6, <3>1 DEF Moved
  <2> QED BY <2>2, <2>3, <2>7, <2>8 DEF Trusted, Is
<1>3. ASSUME NEW p \in Place, NEW e \in listing[p], Disappear(p, e)
      PROVE  /\ GatheringTypes' /\ Moved /\ reading.pc = "page"
             /\ UNCHANGED <<setup, reading, harvested, staged>>
             /\ Trusted' => Trusted /\ (Is(Microsoft365) => drives' = drives)
  <2>1. /\ listing' = [listing EXCEPT ![p] = @ \ {e}] /\ drives' = drives
        /\ moves' = [moves EXCEPT !.disappears = @ + 1] /\ reading.pc = "page"
        /\ UNCHANGED <<setup, reading, harvested, staged>>
    BY <1>3 DEF Disappear, Happens
  <2>2. moves' \in [appears : Nat, disappears : Nat, lists : Nat] /\ moves'.appears = moves.appears
        /\ moves'.disappears = moves.disappears + 1 /\ moves'.lists = moves.lists
    BY <1>1, <2>1
  <2>3. \A q \in Place : listing'[q] \subseteq listing[q]
    BY <1>1, <2>1
  <2>4. listing' \in [Place -> SUBSET (Nat \ {0})]
    BY <1>1, <2>1
  <2>5. GatheringTypes'
    BY <1>1, <2>1, <2>2, <2>3, <2>4 DEF GatheringTypes
  <2>6. Moved
    <3>1. moves'.disappears # 0
      BY <1>1, <2>2
    <3> QED BY <2>1, <2>2, <2>3, <3>1 DEF Moved
  <2> QED BY <2>1, <2>2, <2>5, <2>6 DEF Trusted, Is
<1>4. ASSUME NEW some \in SUBSET Place, NEW order \in OrdersOf(some), Relist(order)
      PROVE  /\ GatheringTypes' /\ Moved /\ reading.pc = "page"
             /\ UNCHANGED <<setup, reading, harvested, staged>>
             /\ Trusted' => Trusted /\ (Is(Microsoft365) => drives' = drives)
  <2>1. /\ listing' = listing /\ drives' = order
        /\ moves' = [moves EXCEPT !.lists = @ + 1] /\ reading.pc = "page"
        /\ UNCHANGED <<setup, reading, harvested, staged>>
    BY <1>4 DEF Relist, Happens
  <2>2. moves' \in [appears : Nat, disappears : Nat, lists : Nat] /\ moves'.appears = moves.appears
        /\ moves'.disappears = moves.disappears /\ moves'.lists # 0
    BY <1>1, <2>1
  <2>3. drives' \in Seq(Place)
    BY <2>1, OrderIs
  <2>4. GatheringTypes'
    BY <1>1, <2>1, <2>2, <2>3 DEF GatheringTypes
  <2>5. Moved
    BY <2>1, <2>2 DEF Moved
  <2>6. Trusted' => ~ Is(Microsoft365)
    BY <2>1, <2>2 DEF Trusted, Is
  <2>7. ~ Is(Microsoft365) => Trusted
    BY DEF Trusted
  <2> QED BY <2>1, <2>4, <2>5, <2>6, <2>7
<1> QED BY <1>2, <1>3, <1>4

LEMMA ServiceKeeps ==
  ASSUME GatheringInv,
         \/ \E p \in Place : Appear(p) \/ \E e \in listing[p] : Disappear(p, e)
         \/ \E some \in SUBSET Place : \E order \in OrdersOf(some) : Relist(order)
  PROVE  GatheringInv'
<1>1. GatheringTypes /\ ReadingFits /\ StagedFits
  BY DEF GatheringInv
<1>2. /\ GatheringTypes' /\ Moved /\ reading.pc = "page"
      /\ setup' = setup /\ reading' = reading /\ harvested' = harvested /\ staged' = staged
      /\ Trusted' => Trusted /\ (Is(Microsoft365) => drives' = drives)
  BY <1>1, ServiceMoves
<1>3. ReadingFits'
  <2> SUFFICES ASSUME Trusted'
               PROVE  /\ Is(Microsoft365)' => drives' = reading'.list
                      /\ \A i \in DOMAIN reading'.list :
                           /\ Neat(harvested[reading.list[i]])'
                           /\ i < reading'.place => ReadWhole(reading.list[i], harvested[reading.list[i]])'
                           /\ i > reading'.place => harvested'[reading'.list[i]] = << >>
                           /\ i = reading'.place =>
                                /\ ReadTo(reading.list[i], harvested[reading.list[i]], reading.cursor)'
                                /\ reading'.cursor # 0 => reading'.of = reading'.list[i]
    BY <1>2 DEF ReadingFits
  <2>1. Is(Microsoft365)' => drives' = reading'.list
    BY <1>1, <1>2 DEF ReadingFits, Is
  <2>2. ASSUME NEW i \in DOMAIN reading.list
        PROVE  /\ Neat(harvested[reading.list[i]])'
               /\ i < reading.place => ReadWhole(reading.list[i], harvested[reading.list[i]])'
               /\ i > reading.place => harvested[reading.list[i]] = << >>
               /\ i = reading.place =>
                    /\ ReadTo(reading.list[i], harvested[reading.list[i]], reading.cursor)'
                    /\ reading.cursor # 0 => reading.of = reading.list[i]
    <3>1. PICK p, list, cursor : p = reading.list[i] /\ list = harvested[p] /\ cursor = reading.cursor
      OBVIOUS
    <3>2. p \in Place /\ cursor \in Nat
      BY <1>1, <3>1 DEF GatheringTypes
    <3>3. /\ Neat(list)
          /\ i < reading.place => ReadWhole(p, list)
          /\ i > reading.place => list = << >>
          /\ i = reading.place => ReadTo(p, list, cursor) /\ (cursor # 0 => reading.of = p)
      BY <1>1, <1>2, <3>1 DEF ReadingFits
    <3>4. reading'.list[i] = p /\ harvested'[p] = list /\ reading'.cursor = cursor /\ harvested'[reading'.list[i]] = list
      BY <1>2, <3>1
    <3>5. Neat(harvested[reading.list[i]])'
      BY <1>2, <3>3, <3>4, NeatStill
    <3>6. i < reading.place => ReadWhole(reading.list[i], harvested[reading.list[i]])'
      BY <1>2, <3>2, <3>3, <3>4, WholeStill
    <3>7. i = reading.place => ReadTo(reading.list[i], harvested[reading.list[i]], reading.cursor)'
      BY <1>1, <1>2, <3>2, <3>3, <3>4, ReadToStill
    <3> QED BY <3>1, <3>3, <3>5, <3>6, <3>7
  <2> QED BY <1>2, <2>1, <2>2
<1>4. StagedFits'
  BY <1>1, <1>2 DEF StagedFits, FileOf, Shadowed
<1> QED BY <1>2, <1>3, <1>4 DEF GatheringInv

LEMMA ReadPageIs ==
  ASSUME GatheringTypes, ReadPage
  PROVE  /\ reading.pc = "page" /\ reading.place \in DOMAIN Places
         /\ UNCHANGED <<listing, drives, setup, moves>>
         /\ \E p, from \in Place, new \in Seq(Nat \ {0}) :
              /\ p = Places[reading.place]
              /\ from = IF reading.cursor = 0 THEN p ELSE reading.of
              /\ new = NewestFirst(Taken(p, OnePage(listing[from])))
              /\ harvested' = [harvested EXCEPT ![p] = harvested[p] \o new]
              /\ \/ /\ MorePages(listing[from], p, OnePage(listing[from]))
                    /\ NextCursor(OnePage(listing[from])) \in Nat
                    /\ reading' = [reading EXCEPT !.cursor = NextCursor(OnePage(listing[from])), !.of = from]
                    /\ staged' = staged
                 \/ /\ ~ MorePages(listing[from], p, OnePage(listing[from]))
                    /\ reading' = NextPlace /\ staged' = Staged(p, harvested[p] \o new)
<1>1. /\ reading.pc = "page" /\ reading.place <= Len(Places)
      /\ UNCHANGED <<listing, drives, setup, moves>>
  BY DEF ReadPage
<1>2. Places \in Seq(Place) /\ reading.place \in Nat \ {0} /\ reading.of \in Place
  BY DEF GatheringTypes, Places
<1>3. reading.place \in DOMAIN Places
  BY <1>1, <1>2
<1>4. PICK p \in Place : p = Places[reading.place]
  BY <1>2, <1>3
<1>5. PICK from \in Place : from = IF reading.cursor = 0 THEN p ELSE reading.of
  BY <1>2
<1>6. PICK page : page = OnePage(listing[from])
  OBVIOUS
<1>7. PICK new : new = NewestFirst(Taken(p, page))
  OBVIOUS
<1>8. /\ harvested' = [harvested EXCEPT ![p] = harvested[p] \o new]
      /\ IF MorePages(listing[from], p, page)
         THEN reading' = [reading EXCEPT !.cursor = NextCursor(page), !.of = from] /\ staged' = staged
         ELSE reading' = NextPlace /\ staged' = Staged(p, harvested[p] \o new)
  BY <1>4, <1>5, <1>6, <1>7 DEF ReadPage
<1>9. listing[from] \in SUBSET (Nat \ {0}) /\ listing[from] \in SUBSET Nat /\ IsFiniteSet(listing[from])
  BY ListingIs
<1>10. page \in SUBSET listing[from] /\ IsFiniteSet(page) /\ page \in SUBSET Nat
  BY <1>6, <1>9, PageIs
<1>11. new \in Seq(Nat \ {0})
  <2>1. PICK t : t = Taken(p, page)
    OBVIOUS
  <2>2. t \in SUBSET page /\ IsFiniteSet(t) /\ t \in SUBSET Nat
    BY <1>10, <2>1, TakenIs
  <2>3. new \in Seq(t)
    BY <1>7, <2>1, <2>2, NewestFirstIs
  <2>4. t \subseteq Nat \ {0}
    BY <1>9, <1>10, <2>2
  <2> QED BY <2>3, <2>4, WiderList
<1>12. MorePages(listing[from], p, page) => NextCursor(page) \in Nat
  BY <1>6, <1>9, NextCursorIs
<1> QED BY <1>1, <1>3, <1>4, <1>5, <1>6, <1>7, <1>8, <1>11, <1>12

LEMMA ReadPageTypes ==
  ASSUME GatheringTypes, ReadPage
  PROVE  GatheringTypes' /\ Moved
<1>1. UNCHANGED <<listing, drives, setup, moves>>
  BY ReadPageIs
<1>2. Moved
  BY <1>1 DEF Moved
<1>3. PICK p \in Place, from \in Place, new \in Seq(Nat \ {0}), cursor \in Nat :
        /\ harvested' = [harvested EXCEPT ![p] = harvested[p] \o new]
        /\ \/ reading' = [reading EXCEPT !.cursor = cursor, !.of = from]
           \/ reading' = NextPlace
  <2>1. PICK p, from \in Place, new \in Seq(Nat \ {0}) :
          /\ harvested' = [harvested EXCEPT ![p] = harvested[p] \o new]
          /\ \/ /\ NextCursor(OnePage(listing[from])) \in Nat
                /\ reading' = [reading EXCEPT !.cursor = NextCursor(OnePage(listing[from])), !.of = from]
             \/ reading' = NextPlace
    BY ReadPageIs
  <2>2. CASE reading' = NextPlace
    <3>1. 0 \in Nat
      OBVIOUS
    <3> QED BY <2>1, <2>2, <3>1
  <2>3. CASE /\ NextCursor(OnePage(listing[from])) \in Nat
             /\ reading' = [reading EXCEPT !.cursor = NextCursor(OnePage(listing[from])), !.of = from]
    BY <2>1, <2>3
  <2> QED BY <2>1, <2>2, <2>3
<1>4. reading \in [pc : {"page", "done", "failed"}, list : Seq(Place), place : Nat \ {0},
                   cursor : Nat, of : Place]
  BY DEF GatheringTypes
<1>5. reading' \in [pc : {"page", "done", "failed"}, list : Seq(Place), place : Nat \ {0},
                    cursor : Nat, of : Place]
      /\ reading'.list = reading.list
  <2>1. CASE reading' = [reading EXCEPT !.cursor = cursor, !.of = from]
    BY <1>4, <2>1
  <2>2. CASE reading' = NextPlace
    <3>1. PICK pc \in {"page", "done", "failed"} :
            pc = IF reading.place >= Len(Places) THEN "done" ELSE reading.pc
      BY <1>4
    <3>2. reading' = [pc |-> pc, list |-> reading.list, place |-> reading.place + 1,
                      cursor |-> 0, of |-> reading.of]
      BY <1>4, <2>2, <3>1 DEF NextPlace
    <3>3. reading.list \in Seq(Place) /\ reading.place + 1 \in Nat \ {0} /\ reading.of \in Place
      BY <1>4
    <3> QED BY <3>2, <3>3
  <2> QED BY <1>3, <2>1, <2>2
<1>6. harvested' \in [Place -> Seq(Nat \ {0})]
  <2>1. harvested \in [Place -> Seq(Nat \ {0})] /\ harvested[p] \o new \in Seq(Nat \ {0})
    BY ListingIs, JoinedRange DEF GatheringTypes
  <2> QED BY <1>3, <2>1
<1>7. GatheringTypes'
  BY <1>1, <1>5, <1>6 DEF GatheringTypes
<1> QED BY <1>2, <1>7

\* While the places are the same: the place that is read is the one at hand, and so
\* is the one the cursor belongs to.
LEMMA ReadPageHere ==
  ASSUME GatheringTypes, ReadingFits, Trusted, ReadPage
  PROVE  /\ reading.pc = "page" /\ Places = reading.list /\ reading.place \in DOMAIN reading.list
         /\ \E p \in Place :
              /\ p = reading.list[reading.place]
              /\ Neat(harvested[p]) /\ ReadTo(p, harvested[p], reading.cursor)
              /\ harvested' = [harvested EXCEPT ![p] = AllOf(p)]
              /\ \/ /\ MorePages(listing[p], p, PageOf(p))
                    /\ NextCursor(PageOf(p)) \in Nat
                    /\ reading' = [reading EXCEPT !.cursor = NextCursor(PageOf(p)), !.of = p]
                    /\ staged' = staged
                 \/ /\ ~ MorePages(listing[p], p, PageOf(p))
                    /\ reading' = NextPlace /\ staged' = Staged(p, AllOf(p))
<1>1. Places = reading.list
  BY DEF ReadingFits, Places
<1>2. reading.pc = "page" /\ reading.place \in DOMAIN reading.list
  BY <1>1, ReadPageIs
<1>3. PICK p, from \in Place, new \in Seq(Nat \ {0}) :
        /\ p = Places[reading.place]
        /\ from = IF reading.cursor = 0 THEN p ELSE reading.of
        /\ new = NewestFirst(Taken(p, OnePage(listing[from])))
        /\ harvested' = [harvested EXCEPT ![p] = harvested[p] \o new]
        /\ \/ /\ MorePages(listing[from], p, OnePage(listing[from]))
              /\ NextCursor(OnePage(listing[from])) \in Nat
              /\ reading' = [reading EXCEPT !.cursor = NextCursor(OnePage(listing[from])), !.of = from]
              /\ staged' = staged
           \/ /\ ~ MorePages(listing[from], p, OnePage(listing[from]))
              /\ reading' = NextPlace /\ staged' = Staged(p, harvested[p] \o new)
  BY ReadPageIs
<1>4. /\ p = reading.list[reading.place] /\ Neat(harvested[p]) /\ ReadTo(p, harvested[p], reading.cursor)
      /\ reading.cursor # 0 => reading.of = p
  BY <1>1, <1>2, <1>3 DEF ReadingFits
<1>5. from = p
  BY <1>3, <1>4
<1>6. harvested[p] \o new = AllOf(p) /\ OnePage(listing[p]) = PageOf(p)
  BY <1>3, <1>5 DEF AllOf, NewOf, PageOf
<1> QED BY <1>1, <1>2, <1>3, <1>4, <1>5, <1>6

LEMMA ReadPageFits ==
  ASSUME GatheringTypes, GatheringTypes', ReadingFits, ReadPage
  PROVE  ReadingFits'
<1>1. UNCHANGED <<listing, drives, setup, moves>> /\ Moved
  BY ReadPageIs, ReadPageTypes
<1>2. SUFFICES ASSUME Trusted PROVE ReadingFits'
  BY <1>1 DEF ReadingFits, Trusted, Is
<1>3. reading.pc = "page" /\ Places = reading.list /\ reading.place \in DOMAIN reading.list
  BY <1>2, ReadPageHere
<1>4. PICK p \in Place :
        /\ p = reading.list[reading.place]
        /\ Neat(harvested[p]) /\ ReadTo(p, harvested[p], reading.cursor)
        /\ harvested' = [harvested EXCEPT ![p] = AllOf(p)]
        /\ \/ /\ MorePages(listing[p], p, PageOf(p))
              /\ NextCursor(PageOf(p)) \in Nat
              /\ reading' = [reading EXCEPT !.cursor = NextCursor(PageOf(p)), !.of = p]
              /\ staged' = staged
           \/ /\ ~ MorePages(listing[p], p, PageOf(p))
              /\ reading' = NextPlace /\ staged' = Staged(p, AllOf(p))
  BY <1>2, ReadPageHere
<1>5. /\ Neat(AllOf(p))
      /\ MorePages(listing[p], p, PageOf(p)) => ReadTo(p, AllOf(p), NextCursor(PageOf(p)))
      /\ ~ MorePages(listing[p], p, PageOf(p)) => ReadWhole(p, AllOf(p))
  BY <1>4, PageAdds
<1>6. /\ reading \in [pc : {"page", "done", "failed"}, list : Seq(Place), place : Nat \ {0},
                      cursor : Nat, of : Place]
      /\ \A m, n \in DOMAIN reading.list : reading.list[m] = reading.list[n] => m = n
      /\ harvested \in [Place -> Seq(Nat \ {0})]
  BY DEF GatheringTypes
<1>7. /\ Is(Microsoft365) => drives = reading.list
      /\ \A i \in DOMAIN reading.list :
           /\ Neat(harvested[reading.list[i]])
           /\ i < reading.place => ReadWhole(reading.list[i], harvested[reading.list[i]])
           /\ i > reading.place => harvested[reading.list[i]] = << >>
  BY <1>2 DEF ReadingFits
<1>8. \A i \in DOMAIN reading.list :
        /\ i \in Nat /\ reading.list[i] \in Place
        /\ harvested'[reading.list[i]] = IF i = reading.place THEN AllOf(p) ELSE harvested[reading.list[i]]
  <2> TAKE i \in DOMAIN reading.list
  <2>1. i \in Nat /\ reading.list[i] \in Place
    BY <1>6
  <2>2. reading.list[i] = p <=> i = reading.place
    BY <1>3, <1>4, <1>6
  <2> QED BY <1>4, <1>6, <2>1, <2>2
<1>9. reading'.list = reading.list
  <2>1. NextPlace.list = reading.list
    BY <1>6 DEF NextPlace
  <2> QED BY <1>4, <1>6, <2>1
<1>10. ASSUME NEW i \in DOMAIN reading.list
       PROVE  /\ Neat(harvested[reading.list[i]])'
              /\ i < reading.place => ReadWhole(reading.list[i], harvested[reading.list[i]])'
              /\ i > reading.place => harvested'[reading.list[i]] = << >>
  <2>1. PICK q \in Place : q = reading.list[i]
    BY <1>8
  <2>2. PICK list : list = harvested'[q]
    OBVIOUS
  <2>3. Neat(list) /\ (i < reading.place => ReadWhole(q, list)) /\ (i > reading.place => list = << >>)
    BY <1>5, <1>6, <1>7, <1>8, <2>1, <2>2
  <2>4. reading'.list[i] = q /\ harvested'[q] = list /\ harvested'[reading'.list[i]] = list
    BY <1>9, <2>1, <2>2
  <2>5. Neat(harvested[reading.list[i]])'
    BY <1>1, <2>3, <2>4, NeatStill
  <2>6. i < reading.place => ReadWhole(reading.list[i], harvested[reading.list[i]])'
    BY <1>1, <2>3, <2>4, WholeStill
  <2> QED BY <2>1, <2>2, <2>3, <2>5, <2>6
<1>11. harvested'[p] = AllOf(p) /\ reading'.list[reading.place] = p
  BY <1>3, <1>4, <1>8, <1>9
<1>12. CASE /\ MorePages(listing[p], p, PageOf(p)) /\ NextCursor(PageOf(p)) \in Nat
            /\ reading' = [reading EXCEPT !.cursor = NextCursor(PageOf(p)), !.of = p]
  <2>1. PICK cursor \in Nat : cursor = NextCursor(PageOf(p))
    BY <1>12
  <2>2. /\ reading'.cursor = cursor /\ reading'.of = p /\ reading'.place = reading.place
        /\ reading'.pc = "page"
    BY <1>3, <1>6, <1>12, <2>1
  <2>3. ReadTo(reading.list[reading.place], harvested[reading.list[reading.place]], reading.cursor)'
    <3>1. PICK i, list : i = reading.place /\ list = AllOf(p)
      OBVIOUS
    <3>2. reading'.list[i] = p /\ harvested'[p] = list /\ ReadTo(p, list, cursor)
      BY <1>5, <1>11, <1>12, <2>1, <3>1
    <3>3. ReadTo(reading.list[i], harvested[reading.list[i]], reading.cursor)'
      BY <1>1, <2>2, <3>2, ReadToStill
    <3> QED BY <2>2, <3>1, <3>3
  <2> QED BY <1>1, <1>7, <1>9, <1>10, <1>11, <2>2, <2>3 DEF ReadingFits, Is
<1>13. CASE ~ MorePages(listing[p], p, PageOf(p)) /\ reading' = NextPlace
  <2>1. /\ reading'.cursor = 0 /\ reading'.place = reading.place + 1
        /\ reading'.pc = IF reading.place >= Len(reading.list) THEN "done" ELSE "page"
    BY <1>3, <1>6, <1>13 DEF NextPlace
  <2>2. \A i \in DOMAIN reading.list :
          i = reading.place => ReadWhole(reading.list[i], harvested[reading.list[i]])'
    <3> SUFFICES ASSUME NEW i \in DOMAIN reading.list, i = reading.place
                 PROVE  ReadWhole(reading.list[i], harvested[reading.list[i]])'
      OBVIOUS
    <3>1. PICK list : list = AllOf(p)
      OBVIOUS
    <3>2. reading'.list[i] = p /\ harvested'[p] = list /\ ReadWhole(p, list)
      BY <1>5, <1>11, <1>13, <3>1
    <3>3. ReadWhole(reading.list[i], harvested[reading.list[i]])'
      BY <1>1, <3>2, WholeStill
    <3> QED BY <3>3
  <2>3. ASSUME NEW i \in DOMAIN reading.list, i = reading.place + 1
        PROVE  ReadTo(reading.list[i], harvested[reading.list[i]], reading.cursor)'
    <3>1. PICK q \in Place : q = reading.list[i]
      BY <1>8
    <3>2. harvested'[q] = << >> /\ reading'.list[i] = q
      BY <1>3, <1>6, <1>9, <1>10, <2>3, <3>1
    <3>3. ReadTo(q, << >>, 0)
      BY NothingRead
    <3> QED BY <1>1, <2>1, <3>2, <3>3, ReadToStill
  <2>4. reading'.pc = "done" => reading'.place > Len(reading'.list)
    BY <1>6, <1>9, <2>1
  <2>5. reading.place \in Nat /\ (Is(Microsoft365)' => drives' = reading'.list)
    BY <1>1, <1>6, <1>7, <1>9 DEF Is
  <2>6. ASSUME NEW i \in DOMAIN reading'.list
        PROVE  /\ Neat(harvested[reading.list[i]])'
               /\ i < reading'.place => ReadWhole(reading.list[i], harvested[reading.list[i]])'
               /\ i > reading'.place => harvested'[reading'.list[i]] = << >>
               /\ i = reading'.place =>
                    /\ ReadTo(reading.list[i], harvested[reading.list[i]], reading.cursor)'
                    /\ reading'.cursor = 0
    <3>1. i \in DOMAIN reading.list /\ i \in Nat
      BY <1>8, <1>9, <2>6
    <3>2. /\ i < reading.place + 1 => i < reading.place \/ i = reading.place
          /\ i > reading.place + 1 => i > reading.place
      BY <2>5, <3>1
    <3> QED BY <1>9, <1>10, <2>1, <2>2, <2>3, <3>1, <3>2
  <2> QED BY <2>4, <2>5, <2>6 DEF ReadingFits
<1> QED BY <1>4, <1>12, <1>13

\* A file stays until another one takes its name.
LEMMA ReadPageStages ==
  ASSUME GatheringTypes, GatheringTypes', ReadingFits, StagedFits, ReadPage
  PROVE  StagedFits'
<1>1. UNCHANGED <<listing, drives, setup, moves>> /\ reading.pc = "page"
  BY ReadPageIs
<1>2. SUFFICES ASSUME setup.kind.staging
               PROVE  /\ \A f \in staged' :
                           /\ f = FileOf(f.place)'
                           /\ \E i \in DOMAIN reading'.list : i < reading'.place /\ f.place = reading'.list[i]
                      /\ \A i \in DOMAIN reading'.list :
                           i < reading'.place /\ harvested'[reading'.list[i]] # << >> =>
                             \/ \E f \in staged' : f.place = reading'.list[i]
                             \/ Shadowed(reading.list[i])'
  BY <1>1 DEF StagedFits
<1>3. Trusted
  BY <1>2, SetupIs DEF Trusted
<1>4. Places = reading.list /\ reading.place \in DOMAIN reading.list
  BY <1>3, ReadPageHere
<1>5. PICK p \in Place :
        /\ p = reading.list[reading.place]
        /\ harvested' = [harvested EXCEPT ![p] = AllOf(p)]
        /\ \/ /\ reading' = [reading EXCEPT !.cursor = NextCursor(PageOf(p)), !.of = p]
              /\ staged' = staged
           \/ reading' = NextPlace /\ staged' = Staged(p, AllOf(p))
  BY <1>3, ReadPageHere
<1>6. /\ reading \in [pc : {"page", "done", "failed"}, list : Seq(Place), place : Nat \ {0},
                      cursor : Nat, of : Place]
      /\ \A m, n \in DOMAIN reading.list : reading.list[m] = reading.list[n] => m = n
      /\ harvested \in [Place -> Seq(Nat \ {0})]
  BY DEF GatheringTypes
<1>7. /\ \A f \in staged :
           /\ f = FileOf(f.place)
           /\ \E i \in DOMAIN reading.list : i < reading.place /\ f.place = reading.list[i]
      /\ \A i \in DOMAIN reading.list :
           i < reading.place /\ harvested[reading.list[i]] # << >> =>
             \/ \E f \in staged : f.place = reading.list[i]
             \/ Shadowed(reading.list[i])
  BY <1>1, <1>2 DEF StagedFits
<1>8. \A i \in DOMAIN reading.list :
        /\ i \in Nat /\ reading.list[i] \in Place
        /\ i < reading.place => reading.list[i] # p
        /\ harvested'[reading.list[i]] = IF i = reading.place THEN AllOf(p) ELSE harvested[reading.list[i]]
  <2> TAKE i \in DOMAIN reading.list
  <2>1. i \in Nat /\ reading.list[i] \in Place
    BY <1>6
  <2>2. reading.list[i] = p <=> i = reading.place
    BY <1>4, <1>5, <1>6
  <2> QED BY <1>5, <1>6, <2>1, <2>2
<1>9. ASSUME NEW f \in staged
      PROVE  f = FileOf(f.place)' /\ f.place # p
             /\ \E i \in DOMAIN reading.list : i < reading.place /\ f.place = reading.list[i]
  <2>1. PICK i \in DOMAIN reading.list : i < reading.place /\ f.place = reading.list[i]
    BY <1>7, <1>9
  <2>2. f.place # p /\ harvested'[f.place] = harvested[f.place]
    BY <1>8, <2>1
  <2>3. f = FileOf(f.place)
    BY <1>7, <1>9
  <2>4. f = FileOf(f.place)'
    BY <1>1, <2>2, <2>3 DEF FileOf
  <2> QED BY <2>1, <2>2, <2>4
<1>10. ASSUME NEW q PROVE Shadowed(q) => Shadowed(q)'
  BY <1>1 DEF Shadowed
<1>11. ASSUME NEW i \in DOMAIN reading.list, i < reading.place,
              harvested'[reading.list[i]] # << >>
       PROVE  (\E f \in staged : f.place = reading.list[i]) \/ Shadowed(reading.list[i])
  <2>1. harvested[reading.list[i]] # << >>
    BY <1>8, <1>11
  <2> QED BY <1>7, <1>11, <2>1
<1>12. reading.place \in Nat
  BY <1>6
<1>13. CASE reading' = [reading EXCEPT !.cursor = NextCursor(PageOf(p)), !.of = p] /\ staged' = staged
  <2>1. reading'.list = reading.list /\ reading'.place = reading.place
    BY <1>6, <1>13
  <2>2. \A i \in DOMAIN reading.list : Shadowed(reading.list[i]) => Shadowed(reading.list[i])'
    BY <1>1, <2>1 DEF Shadowed
  <2> QED BY <1>9, <1>11, <1>13, <2>1, <2>2
<1>14. CASE reading' = NextPlace /\ staged' = Staged(p, AllOf(p))
  <2>1. reading'.list = reading.list /\ reading'.place = reading.place + 1
    BY <1>6, <1>14 DEF NextPlace
  <2>2. \A i \in DOMAIN reading.list : Shadowed(reading.list[i]) => Shadowed(reading.list[i])'
    BY <1>1, <2>1 DEF Shadowed
  <2>3. \A i \in DOMAIN reading.list : i < reading.place + 1 <=> i < reading.place \/ i = reading.place
    BY <1>8, <1>12
  <2>4. CASE AllOf(p) = << >>
    <3>1. staged' = staged
      BY <1>14, <2>4 DEF Staged
    <3>2. \A i \in DOMAIN reading.list : i = reading.place => harvested'[reading.list[i]] = << >>
      BY <1>8, <2>4
    <3> QED BY <1>9, <1>11, <2>1, <2>2, <2>3, <3>1, <3>2
  <2>5. CASE AllOf(p) # << >>
    <3>1. PICK new : new = [name |-> setup.file[p], place |-> p, entries |-> AllOf(p)]
      OBVIOUS
    <3>2. staged' = {f \in staged : f.name # setup.file[p]} \cup {new}
      BY <1>2, <1>14, <2>5, <3>1 DEF Staged
    <3>3. new.place = p /\ new = FileOf(new.place)' /\ new \in staged'
      <4>1. harvested'[p] = AllOf(p)
        BY <1>5, <1>6
      <4> QED BY <1>1, <3>1, <3>2, <4>1 DEF FileOf
    <3>4. ASSUME NEW f \in staged'
          PROVE  /\ f = FileOf(f.place)'
                 /\ \E i \in DOMAIN reading'.list : i < reading'.place /\ f.place = reading'.list[i]
      <4>1. CASE f \in staged
        BY <1>9, <2>1, <2>3, <4>1
      <4>2. CASE f = new
        BY <1>4, <1>5, <2>1, <2>3, <3>3, <4>2
      <4> QED BY <3>2, <4>1, <4>2
    <3>5. ASSUME NEW i \in DOMAIN reading.list, i < reading.place, harvested'[reading.list[i]] # << >>
          PROVE  (\E f \in staged' : f.place = reading.list[i]) \/ Shadowed(reading.list[i])'
      <4>1. CASE Shadowed(reading.list[i])
        BY <2>2, <4>1
      <4>2. CASE \E f \in staged : f.place = reading.list[i]
        <5>1. PICK f \in staged : f.place = reading.list[i]
          BY <4>2
        <5>2. CASE f.name # setup.file[p]
          BY <3>2, <5>1, <5>2
        <5>3. CASE f.name = setup.file[p]
          <6>1. f.name = setup.file[f.place]
            <7>1. FileOf(f.place).name = setup.file[f.place]
              BY DEF FileOf
            <7> QED BY <1>7, <7>1
          <6>2. p \in Place \ {reading.list[i]}
            BY <1>8, <3>5
          <6>3. Shadowed(reading.list[i])
            BY <5>1, <5>3, <6>1, <6>2 DEF Shadowed
          <6> QED BY <2>2, <6>3
        <5> QED BY <5>2, <5>3
      <4> QED BY <1>11, <3>5, <4>1, <4>2
    <3>6. \E f \in staged' : f.place = reading.list[reading.place]
      BY <1>5, <3>3
    <3> QED BY <2>1, <2>3, <3>4, <3>5, <3>6
  <2> QED BY <2>4, <2>5
<1> QED BY <1>5, <1>13, <1>14

\* A scan that ends because there is no place left.
LEMMA NoMorePlacesKeeps ==
  ASSUME GatheringInv, NoMorePlaces
  PROVE  GatheringInv'
<1>1. GatheringTypes /\ ReadingFits /\ StagedFits
  BY DEF GatheringInv
<1>2. /\ reading.pc = "page" /\ reading.place > Len(Places)
      /\ reading' = [reading EXCEPT !.pc = "done"]
      /\ UNCHANGED <<listing, drives, setup, harvested, staged, moves>>
  BY DEF NoMorePlaces
<1>3. /\ reading \in [pc : {"page", "done", "failed"}, list : Seq(Place), place : Nat \ {0},
                      cursor : Nat, of : Place]
  BY <1>1 DEF GatheringTypes
<1>4. /\ reading' = [pc |-> "done", list |-> reading.list, place |-> reading.place,
                     cursor |-> reading.cursor, of |-> reading.of]
      /\ reading'.list = reading.list /\ reading'.place = reading.place
      /\ reading'.pc = "done"
  BY <1>2, <1>3
<1>5. GatheringTypes'
  <2>1. reading' \in [pc : {"page", "done", "failed"}, list : Seq(Place), place : Nat \ {0},
                      cursor : Nat, of : Place]
    BY <1>3, <1>4
  <2> QED BY <1>1, <1>2, <1>4, <2>1 DEF GatheringTypes
<1>6. Moved
  BY <1>2 DEF Moved
<1>7. ReadingFits'
  <2> SUFFICES ASSUME Trusted
               PROVE  /\ Is(Microsoft365)' => drives' = reading'.list
                      /\ reading'.place > Len(reading'.list)
                      /\ \A i \in DOMAIN reading'.list :
                           /\ Neat(harvested[reading.list[i]])'
                           /\ i < reading'.place => ReadWhole(reading.list[i], harvested[reading.list[i]])'
                           /\ i > reading'.place => harvested'[reading'.list[i]] = << >>
    BY <1>2, <1>4 DEF ReadingFits, Trusted, Is
  <2>1. Places = reading.list
    BY <1>1 DEF ReadingFits, Places
  <2>2. Is(Microsoft365)' => drives' = reading'.list
    BY <1>1, <1>2, <1>4 DEF ReadingFits, Is
  <2>3. ASSUME NEW i \in DOMAIN reading.list
        PROVE  /\ Neat(harvested[reading.list[i]])'
               /\ i < reading.place => ReadWhole(reading.list[i], harvested[reading.list[i]])'
               /\ i > reading.place => harvested'[reading.list[i]] = << >>
    <3>1. PICK p \in Place : p = reading.list[i]
      BY <1>3
    <3>2. PICK list : list = harvested[p]
      OBVIOUS
    <3>3. Neat(list) /\ (i < reading.place => ReadWhole(p, list)) /\ (i > reading.place => list = << >>)
      BY <1>1, <3>1, <3>2 DEF ReadingFits
    <3>4. reading'.list[i] = p /\ harvested'[p] = list /\ harvested'[reading'.list[i]] = list
      BY <1>2, <1>4, <3>1, <3>2
    <3>5. Neat(harvested[reading.list[i]])'
      BY <1>6, <3>3, <3>4, NeatStill
    <3>6. i < reading.place => ReadWhole(reading.list[i], harvested[reading.list[i]])'
      BY <1>6, <3>3, <3>4, WholeStill
    <3> QED BY <3>1, <3>2, <3>3, <3>4, <3>5, <3>6
  <2> QED BY <1>2, <1>4, <2>1, <2>2, <2>3
<1>8. StagedFits'
  BY <1>1, <1>2, <1>4 DEF StagedFits, FileOf, Shadowed
<1> QED BY <1>5, <1>7, <1>8 DEF GatheringInv

\* An error leaves nothing to hand on.
LEMMA RequestFailsKeeps ==
  ASSUME GatheringInv, RequestFails
  PROVE  GatheringInv'
<1>1. GatheringTypes /\ ReadingFits /\ StagedFits
  BY DEF GatheringInv
<1>2. /\ reading.pc = "page" /\ setup.kind.staging
      /\ reading' = [reading EXCEPT !.pc = "failed"] /\ staged' = {}
      /\ UNCHANGED <<listing, drives, setup, harvested, moves>>
  BY DEF RequestFails
<1>3. /\ reading \in [pc : {"page", "done", "failed"}, list : Seq(Place), place : Nat \ {0},
                      cursor : Nat, of : Place]
  BY <1>1 DEF GatheringTypes
<1>4. /\ reading' = [pc |-> "failed", list |-> reading.list, place |-> reading.place,
                     cursor |-> reading.cursor, of |-> reading.of]
      /\ reading'.list = reading.list /\ reading'.place = reading.place
      /\ reading'.pc = "failed"
  BY <1>2, <1>3
<1>5. GatheringTypes'
  <2>1. reading' \in [pc : {"page", "done", "failed"}, list : Seq(Place), place : Nat \ {0},
                      cursor : Nat, of : Place]
    BY <1>3, <1>4
  <2> QED BY <1>1, <1>2, <1>4, <2>1 DEF GatheringTypes
<1>6. Moved
  BY <1>2 DEF Moved
<1>7. ReadingFits'
  <2> SUFFICES ASSUME Trusted
               PROVE  /\ Is(Microsoft365)' => drives' = reading'.list
                      /\ \A i \in DOMAIN reading'.list :
                           /\ Neat(harvested[reading.list[i]])'
                           /\ i < reading'.place => ReadWhole(reading.list[i], harvested[reading.list[i]])'
                           /\ i > reading'.place => harvested'[reading'.list[i]] = << >>
    BY <1>2, <1>4 DEF ReadingFits, Trusted, Is
  <2>2. Is(Microsoft365)' => drives' = reading'.list
    BY <1>1, <1>2, <1>4 DEF ReadingFits, Is
  <2>3. ASSUME NEW i \in DOMAIN reading.list
        PROVE  /\ Neat(harvested[reading.list[i]])'
               /\ i < reading.place => ReadWhole(reading.list[i], harvested[reading.list[i]])'
               /\ i > reading.place => harvested'[reading.list[i]] = << >>
    <3>1. PICK p \in Place : p = reading.list[i]
      BY <1>3
    <3>2. PICK list : list = harvested[p]
      OBVIOUS
    <3>3. Neat(list) /\ (i < reading.place => ReadWhole(p, list)) /\ (i > reading.place => list = << >>)
      BY <1>1, <3>1, <3>2 DEF ReadingFits
    <3>4. reading'.list[i] = p /\ harvested'[p] = list /\ harvested'[reading'.list[i]] = list
      BY <1>2, <1>4, <3>1, <3>2
    <3>5. Neat(harvested[reading.list[i]])'
      BY <1>6, <3>3, <3>4, NeatStill
    <3>6. i < reading.place => ReadWhole(reading.list[i], harvested[reading.list[i]])'
      BY <1>6, <3>3, <3>4, WholeStill
    <3> QED BY <3>1, <3>2, <3>3, <3>4, <3>5, <3>6
  <2> QED BY <1>2, <1>4, <2>2, <2>3
<1>8. StagedFits'
  BY <1>4 DEF StagedFits
<1> QED BY <1>5, <1>7, <1>8 DEF GatheringInv

-----------------------------------------------------------------------------
(* What is handed on.                                                      *)

LEMMA TimesIs ==
  ASSUME NEW list \in Seq(Nat), NEW e
  PROVE  /\ Times(e, list) = 0 => e \notin RangeOf(list)
         /\ Times(e, list) > 1 => \E m, n \in DOMAIN list : m # n /\ list[m] = list[n]
<1>1. PICK at : at = {n \in DOMAIN list : list[n] = e}
  OBVIOUS
<1>2. PICK k \in Nat : DOMAIN list = 1..k
  <2>1. Len(list) \in Nat /\ DOMAIN list = 1..Len(list)
    OBVIOUS
  <2> QED BY <2>1
<1>3. IsFiniteSet(at) /\ Cardinality(at) \in Nat
  <2>1. IsFiniteSet(1..k) /\ at \in SUBSET (1..k)
    BY <1>1, <1>2, FS_Interval
  <2> QED BY <2>1, FS_Subset, FS_CardinalityType
<1>4. Times(e, list) = Cardinality(at)
  BY <1>1 DEF Times
<1>5. ASSUME Times(e, list) = 0 PROVE e \notin RangeOf(list)
  <2>1. at = {}
    BY <1>3, <1>4, <1>5, FS_EmptySet
  <2> QED BY <1>1, <2>1 DEF RangeOf
<1>6. ASSUME Times(e, list) > 1
      PROVE  \E m, n \in DOMAIN list : m # n /\ list[m] = list[n]
  <2>1. Cardinality(at) # 0 /\ Cardinality(at) # 1
    BY <1>3, <1>4, <1>6
  <2>2. PICK m : m \in at
    BY <1>3, <2>1, FS_EmptySet
  <2>3. Cardinality({m}) = 1
    BY FS_Singleton
  <2>4. at # {m}
    BY <2>1, <2>3
  <2>5. PICK n \in at : n # m
    BY <2>2, <2>4
  <2> QED BY <1>1, <2>2, <2>5
<1> QED BY <1>5, <1>6

\* Of a place it is what was gathered there, unless another file took its name.
LEMMA HandedOnIs ==
  ASSUME GatheringInv, Trusted, reading.pc = "done", NEW i \in DOMAIN reading.list
  PROVE  \/ HandedOn(reading.list[i]) = harvested[reading.list[i]]
         \/ HandedOn(reading.list[i]) = << >> /\ Shadowed(reading.list[i])
<1>1. GatheringTypes /\ ReadingFits /\ StagedFits
  BY DEF GatheringInv
<1>2. i < reading.place
  <2>1. i \in Nat /\ i <= Len(reading.list) /\ reading.place \in Nat /\ Len(reading.list) \in Nat
    BY <1>1 DEF GatheringTypes
  <2>2. reading.place > Len(reading.list)
    BY <1>1 DEF ReadingFits
  <2> QED BY <2>1, <2>2
<1>3. PICK p : p = reading.list[i]
  OBVIOUS
<1>4. CASE ~ setup.kind.staging
  BY <1>4 DEF HandedOn
<1>5. CASE setup.kind.staging /\ \E f \in staged : f.place = p
  <2>1. PICK file : file = CHOOSE f \in staged : f.place = p
    OBVIOUS
  <2>2. file \in staged /\ file.place = p
    BY <1>5, <2>1
  <2>3. file = FileOf(p)
    BY <1>1, <1>5, <2>2 DEF StagedFits
  <2>4. HandedOn(p) = file.entries
    BY <1>5, <2>1 DEF HandedOn
  <2>5. file.entries = harvested[p]
    BY <2>3 DEF FileOf
  <2> QED BY <1>3, <2>4, <2>5
<1>6. CASE setup.kind.staging /\ ~ (\E f \in staged : f.place = p)
  <2>1. HandedOn(p) = << >>
    BY <1>6 DEF HandedOn
  <2>2. harvested[p] = << >> \/ Shadowed(p)
    BY <1>1, <1>2, <1>3, <1>6 DEF StagedFits
  <2> QED BY <1>3, <2>1, <2>2
<1> QED BY <1>4, <1>5, <1>6

LEMMA GatheredSafe ==
  ASSUME GatheringInv
  PROVE  GatheredWhole
<1>1. SUFFICES ASSUME Trusted, reading.pc = "done", NEW i \in DOMAIN reading.list,
                      NEW p, p = reading.list[i], NEW list, list = HandedOn(p)
               PROVE  /\ \A e \in Wanted(p) :
                           /\ Times(e, list) = 0 =>
                                \/ Offset /\ moves.disappears # 0
                                \/ Shadowed(p)
                                \/ Is(Discord) /\ Len(list) = setup.cap /\ \A n \in DOMAIN list : list[n] > e
                           /\ Times(e, list) > 1 => Offset /\ moves.appears # 0
                      /\ \A m, n \in DOMAIN list : m < n /\ ~ Offset => list[m] > list[n]
                      /\ \A n \in DOMAIN list : list[n] > setup.old
  BY DEF GatheredWhole, Trusted, Offset
<1>2. GatheringTypes /\ ReadingFits
  BY DEF GatheringInv
<1>3. i < reading.place /\ p \in Place
  <2>1. /\ i \in Nat /\ i <= Len(reading.list) /\ reading.place \in Nat /\ Len(reading.list) \in Nat
        /\ reading.list[i] \in Place
    BY <1>2 DEF GatheringTypes
  <2>2. reading.place > Len(reading.list)
    BY <1>1, <1>2 DEF ReadingFits
  <2> QED BY <1>1, <2>1, <2>2
<1>4. CASE list = harvested[p]
  <2>1. list \in Seq(Nat)
    BY <1>2, <1>3, <1>4, ListingIs
  <2>2. Neat(list) /\ ReadWhole(p, list)
    BY <1>1, <1>2, <1>3, <1>4 DEF ReadingFits
  <2>3. \A n \in DOMAIN list : list[n] \in RangeOf(list) /\ list[n] \in Nat /\ n \in Nat
    BY <2>1 DEF RangeOf
  <2>4. ASSUME NEW e \in Wanted(p), Times(e, list) = 0
        PROVE  \/ Offset /\ moves.disappears # 0
               \/ Is(Discord) /\ Len(list) = setup.cap /\ \A n \in DOMAIN list : list[n] > e
    <3>1. e \notin RangeOf(list)
      BY <2>1, <2>4, TimesIs
    <3> QED BY <2>2, <2>3, <3>1 DEF ReadWhole
  <2>5. ASSUME NEW e, Times(e, list) > 1
        PROVE  Offset /\ moves.appears # 0
    <3>1. PICK m, n \in DOMAIN list : m # n /\ list[m] = list[n]
      BY <2>1, <2>5, TimesIs
    <3>2. CASE ~ Offset
      <4>1. Descends(list)
        BY <2>2, <3>2 DEF Neat
      <4>2. (m < n => list[m] > list[n]) /\ (n < m => list[n] > list[m])
        BY <3>1, <4>1 DEF Descends
      <4>3. (m < n \/ n < m) /\ ~ (list[m] > list[n]) /\ ~ (list[n] > list[m])
        BY <2>3, <3>1
      <4> QED BY <4>2, <4>3
    <3>3. CASE Offset /\ moves.appears = 0
      BY <2>2, <3>1, <3>3 DEF Neat
    <3> QED BY <3>2, <3>3
  <2>6. \A m, n \in DOMAIN list : m < n /\ ~ Offset => list[m] > list[n]
    BY <2>2 DEF Neat, Descends
  <2>7. \A n \in DOMAIN list : list[n] > setup.old
    BY <2>2, <2>3 DEF Neat
  <2> QED BY <2>4, <2>5, <2>6, <2>7
<1>5. CASE list = << >> /\ Shadowed(p)
  <2>1. \A e : Times(e, list) = 0
    <3>1. \A e : {n \in DOMAIN << >> : << >>[n] = e} = {}
      OBVIOUS
    <3> QED BY <1>5, <3>1, FS_EmptySet DEF Times
  <2>2. DOMAIN list = {}
    BY <1>5
  <2>3. \A e : ~ (Times(e, list) > 1)
    BY <2>1
  <2> QED BY <1>5, <2>2, <2>3
<1> QED BY <1>1, <1>4, <1>5, HandedOnIs

\* Whatever appears and disappears meanwhile, a scan that is over has gathered what
\* was there throughout, once and newest first, with the exceptions that the
\* property names, and for any number of places, pages, entries and changes.
\* (slack, discord and github connectors, and the scanners of the others)
THEOREM ScansGatherAll == GatheringSpec => []GatheredWhole
<1>1. GatheringInit => GatheringInv
  BY GatheringBegins
<1>2. GatheringInv /\ [GatheringNext]_gatheringVars => GatheringInv'
  <2> SUFFICES ASSUME GatheringInv, [GatheringNext]_gatheringVars
               PROVE  GatheringInv'
    OBVIOUS
  <2>1. CASE ReadPage
    <3>1. GatheringTypes /\ ReadingFits /\ StagedFits
      BY DEF GatheringInv
    <3>2. GatheringTypes'
      BY <2>1, <3>1, ReadPageTypes
    <3>3. ReadingFits' /\ StagedFits'
      BY <2>1, <3>1, <3>2, ReadPageFits, ReadPageStages
    <3> QED BY <3>2, <3>3 DEF GatheringInv
  <2>2. CASE NoMorePlaces
    BY <2>2, NoMorePlacesKeeps
  <2>3. CASE RequestFails
    BY <2>3, RequestFailsKeeps
  <2>4. CASE \/ \E p \in Place : Appear(p) \/ \E e \in listing[p] : Disappear(p, e)
             \/ \E some \in SUBSET Place : \E order \in OrdersOf(some) : Relist(order)
    BY <2>4, ServiceKeeps
  <2>5. CASE UNCHANGED gatheringVars
    BY <2>5 DEF gatheringVars, GatheringInv, GatheringTypes, ReadingFits, StagedFits, Trusted, Is,
                Neat, ReadWhole, ReadTo, Wanted, Offset, FileOf, Shadowed
  <2> QED BY <2>1, <2>2, <2>3, <2>4, <2>5 DEF GatheringNext
<1>3. GatheringInv => GatheredWhole
  BY GatheredSafe
<1> QED BY <1>1, <1>2, <1>3, PTL DEF GatheringSpec
=============================================================================
