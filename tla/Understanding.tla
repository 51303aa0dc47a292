--------------------------- MODULE Understanding ---------------------------
(***************************************************************************)
(* The understanding of document versions by a language model.             *)
(*                                                                         *)
(* A request generates the record of one version; a batch visits every     *)
(* version of a knowledge base, skips those whose record is fresh and      *)
(* generates the others, and leaves a run record.  A record is written     *)
(* under a row lock, the provider is called while the lock is held, and    *)
(* the outcome is committed, once for each version.  The hash of a         *)
(* record's input is determined by the provider and the model, the texts   *)
(* of versions being fixed.                                                *)
(***************************************************************************)
EXTENDS Naturals, Sequences

CONSTANTS
  Last,         \* the versions are 1..Last, by their time of creation
  Worker,       \* threads that serve requests
  Provider, Model,
  MaxRequests,  \* bound on requests
  MaxEnded     \* bound on threads that end in the middle

ASSUME LastAssumption == Last \in Nat \ {0}
ASSUME UnderstandingBoundsAssumption == MaxRequests \in Nat /\ MaxEnded \in Nat

V == 1..Last
Choice == [provider: Provider, model: Model]
NoChoice == [provider |-> CHOOSE p \in Provider : TRUE, model |-> CHOOSE m \in Model : TRUE]

\* document_understandings; input is what input_hash is the hash of.
Understood == [status: {"absent", "processing", "failed", "completed"},
        provider: Provider, model: Model, input: Choice]
Absent == [status |-> "absent", provider |-> NoChoice.provider, model |-> NoChoice.model,
           input |-> NoChoice]

\* understanding_runs.
Run == [status: {"processing", "success", "partial_failure", "all_failure"},
        created: Nat, skipped: Nat, failed: Nat]

VARIABLES
  row,       \* the records of the versions, as committed
  work,      \* the threads
  runs,      \* the run records, as committed
  requests,  \* requests so far
  ended,    \* threads ended so far
  overlapped \* history: two requests have been under way at a time

understandingVars == <<row, work, runs, requests, ended, overlapped>>

WorkState ==
  [pc: {"idle", "look", "read", "save", "call"},
   batch: BOOLEAN,
   choice: Choice,       \* of the request
   todo: SUBSET V,       \* versions not dealt with
   at: V,                \* the version in hand
   mem: Understood,             \* its record as loaded
   run: Nat,             \* the run record; 0 before its first commit
   created: 0..Last, skipped: 0..Last, failed: 0..Last]
Idle ==
  [pc |-> "idle", batch |-> FALSE, choice |-> NoChoice, todo |-> {}, at |-> 1, mem |-> Absent,
   run |-> 0, created |-> 0, skipped |-> 0, failed |-> 0]

UnderstandingInit ==
  /\ row = [v \in V |-> Absent]
  /\ work = [w \in Worker |-> Idle]
  /\ runs = << >>
  /\ requests = 0 /\ ended = 0 /\ overlapped = FALSE

-----------------------------------------------------------------------------
(* Plausible slips in the definitions below, used to see that the          *)
(* properties notice them; no specification refers to one.                 *)

SameInputNever(e, c) == FALSE

-----------------------------------------------------------------------------
(* What the code computes.                                                 *)

SameInput(e, c) == e.status # "absent" /\ e.input = c

Fresh(e, c) == e.status = "completed" /\ e.input = c

NextVersion(w) == CHOOSE v \in work[w].todo : \A u \in work[w].todo : v <= u

\* The row of the version in hand is written by another thread, uncommitted.
Locked(w) == \E q \in Worker \ {w} : work[q].pc = "call" /\ work[q].at = work[w].at

\* The row as committed: of a record that was loaded, an UPDATE sets the
\* columns whose value differs from the value that was loaded.
Written(w, status) ==
  LET s == work[w]
      old == row[s.at]
  IN  [status   |-> status,
       provider |-> IF s.mem.status # "absent" /\ s.mem.provider = s.choice.provider
                    THEN old.provider ELSE s.choice.provider,
       model    |-> IF s.mem.status # "absent" /\ s.mem.model = s.choice.model
                    THEN old.model ELSE s.choice.model,
       input    |-> s.choice]

\* A generation that found a record of the same input, whatever its status,
\* counts as created.
Counted(w) ==
  [work[w] EXCEPT !.pc = "look", !.todo = @ \ {work[w].at}, !.created = @ + 1]

BatchOutcome(w) ==
  IF work[w].failed = 0 THEN "success"
  ELSE IF work[w].failed = Last THEN "all_failure" ELSE "partial_failure"

RunRow(w, status) ==
  [status |-> status, created |-> work[w].created, skipped |-> work[w].skipped,
   failed |-> work[w].failed]
\* The run record of a batch is flushed at its start; a commit of its session
\* makes it visible.
Pending == [status |-> "processing", created |-> 0, skipped |-> 0, failed |-> 0]
RunsCommitted(w) ==
  IF work[w].batch /\ work[w].run = 0 THEN Append(runs, Pending) ELSE runs
RunIndex(w) ==
  IF work[w].batch /\ work[w].run = 0 THEN Len(runs) + 1 ELSE work[w].run

-----------------------------------------------------------------------------
(* Requests.                                                               *)

Overlap(w) ==
  overlapped' = (overlapped \/ \E q \in Worker \ {w} : work[q].pc # "idle")

\* generate_document_understanding for one version.
Single(w, v, c) ==
  /\ work[w].pc = "idle"
  /\ requests < MaxRequests
  /\ requests' = requests + 1
  /\ Overlap(w)
  /\ work' = [work EXCEPT ![w] = [Idle EXCEPT !.pc = "read", !.choice = c, !.todo = {v}, !.at = v]]
  /\ UNCHANGED <<row, runs, ended>>

\* understand_all_versions, to the listing of the versions.
Batch(w, c) ==
  /\ work[w].pc = "idle"
  /\ requests < MaxRequests
  /\ requests' = requests + 1
  /\ Overlap(w)
  /\ work' = [work EXCEPT ![w] = [Idle EXCEPT !.pc = "look", !.batch = TRUE, !.choice = c,
                                             !.todo = V]]
  /\ UNCHANGED <<row, runs, ended>>

\* The batch looks at the next version: fresh, or to be generated.
SkipFresh(w) ==
  /\ work[w].pc = "look" /\ work[w].todo # {}
  /\ Fresh(row[NextVersion(w)], work[w].choice)
  /\ work' = [work EXCEPT ![w].todo = @ \ {NextVersion(w)}, ![w].skipped = @ + 1]
  /\ UNCHANGED <<row, runs, requests, ended, overlapped>>

Take(w) ==
  /\ work[w].pc = "look" /\ work[w].todo # {}
  /\ ~ Fresh(row[NextVersion(w)], work[w].choice)
  /\ work' = [work EXCEPT ![w].pc = "read", ![w].at = NextVersion(w),
                          ![w].mem = row[NextVersion(w)]]
  /\ UNCHANGED <<row, runs, requests, ended, overlapped>>

\* The record is read; one the session has loaded before keeps its values.
Loaded(w) == IF work[w].mem.status = "absent" THEN row[work[w].at] ELSE work[w].mem

ReturnExisting(w) ==
  /\ work[w].pc = "read"
  /\ SameInput(Loaded(w), work[w].choice)
  /\ work' = [work EXCEPT ![w] = IF work[w].batch THEN Counted(w) ELSE Idle]
  /\ UNCHANGED <<row, runs, requests, ended, overlapped>>

Read(w) ==
  /\ work[w].pc = "read"
  /\ ~ SameInput(Loaded(w), work[w].choice)
  /\ work' = [work EXCEPT ![w].pc = "save", ![w].mem = Loaded(w)]
  /\ UNCHANGED <<row, runs, requests, ended, overlapped>>

\* The record is inserted or updated, which waits for a lock.
Save(w) ==
  /\ work[w].pc = "save"
  /\ ~ Locked(w)
  /\ work[w].mem.status = "absent" => row[work[w].at].status = "absent"
  /\ work' = [work EXCEPT ![w].pc = "call"]
  /\ UNCHANGED <<row, runs, requests, ended, overlapped>>

\* Another thread has inserted the record since: the unique key is violated,
\* and nothing catches it.
Clash(w) ==
  /\ work[w].pc = "save"
  /\ ~ Locked(w)
  /\ work[w].mem.status = "absent" /\ row[work[w].at].status # "absent"
  /\ work' = [work EXCEPT ![w] = Idle]
  /\ UNCHANGED <<row, runs, requests, ended, overlapped>>

\* The provider has answered or failed, and the session is committed.
Settle(w, status) ==
  LET s == work[w]
  IN  /\ s.pc = "call"
      /\ row' = [row EXCEPT ![s.at] = Written(w, status)]
      /\ runs' = RunsCommitted(w)
      /\ UNCHANGED <<requests, ended, overlapped>>
Generated(w) ==
  /\ Settle(w, "completed")
  /\ work' = [work EXCEPT ![w] =
       IF work[w].batch
       THEN [work[w] EXCEPT !.pc = "look", !.todo = @ \ {work[w].at}, !.run = RunIndex(w),
                            !.created = @ + 1]
       ELSE Idle]
ProviderFails(w) ==
  /\ Settle(w, "failed")
  /\ work' = [work EXCEPT ![w] =
       IF work[w].batch
       THEN [work[w] EXCEPT !.pc = "look", !.todo = @ \ {work[w].at}, !.run = RunIndex(w),
                            !.failed = @ + 1]
       ELSE Idle]

\* All versions have been dealt with: the run record is completed.
Finish(w) ==
  /\ work[w].pc = "look" /\ work[w].todo = {}
  /\ runs' = [RunsCommitted(w) EXCEPT ![RunIndex(w)] = RunRow(w, BatchOutcome(w))]
  /\ work' = [work EXCEPT ![w] = Idle]
  /\ UNCHANGED <<row, requests, ended, overlapped>>

\* The process ends, or its connection: what is not committed is lost.
Crash(w) ==
  /\ work[w].pc # "idle"
  /\ ended < MaxEnded
  /\ ended' = ended + 1
  /\ work' = [work EXCEPT ![w] = Idle]
  /\ UNCHANGED <<row, runs, requests, overlapped>>

WorkerStep(w) ==
  \/ SkipFresh(w) \/ Take(w) \/ ReturnExisting(w) \/ Read(w) \/ Save(w) \/ Clash(w)
  \/ Generated(w) \/ ProviderFails(w) \/ Finish(w)

UnderstandingNext ==
  \E w \in Worker :
    \/ WorkerStep(w)
    \/ Crash(w)
    \/ \E c \in Choice : Batch(w, c) \/ \E v \in V : Single(w, v, c)

UnderstandingSpec == UnderstandingInit /\ [][UnderstandingNext]_understandingVars

-----------------------------------------------------------------------------
(* Properties.                                                             *)

\* The variables keep their types, and a row has one writer.
UnderstandingTypeOK ==
  /\ row \in [V -> Understood]
  /\ work \in [Worker -> WorkState]
  /\ runs \in Seq(Run)
  /\ requests \in 0..MaxRequests /\ ended \in 0..MaxEnded /\ overlapped \in BOOLEAN
  /\ \A w, q \in Worker :
       w # q /\ work[w].pc = "call" /\ work[q].pc = "call" => work[w].at # work[q].at

\* docs/specs/ragrig-document-understanding-p2-spec.md:142: "Fresh (hash match
\* + completed status) records are never re-processed": as long as requests come
\* one at a time, a completed record is replaced only by the outcome for another
\* input (service.py:114, 278-283).
FreshKept ==
  [][~ overlapped => \A v \in V : row[v].status = "completed" /\ row'[v] # row[v]
       => row'[v].input # row[v].input]_understandingVars
=============================================================================
