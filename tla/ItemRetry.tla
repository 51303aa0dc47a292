------------------------------ MODULE ItemRetry ------------------------------
(***************************************************************************)
(* Retries of the failed items of a finished pipeline run, one at a time   *)
(* or all at once, by requests that share nothing but the database.        *)
(*                                                                         *)
(* Every item is its own document.  A request keeps the rows it loaded in  *)
(* its session, which does not expire them at a commit and writes back     *)
(* only the columns whose value it changed: a retry that fails "sets" the  *)
(* status it loaded and so leaves the row's status alone.                  *)
(***************************************************************************)
EXTENDS Integers, FiniteSets

CONSTANTS
  Item,         \* the items of the run
  Requester,    \* requests that can be under way together
  RunType,      \* the kinds of run: "audited", "silent" (azure and gcs)
  MaxRequests,  \* bound on requests
  MaxLost     \* bound on requests broken off by a lost connection or process

ASSUME ItemRetryItems == IsFiniteSet(Item) /\ Item # {}
ASSUME ItemRetryRunTypes == RunType \subseteq {"audited", "silent"} /\ RunType # {}
ASSUME ItemRetryBounds == MaxRequests \in Nat /\ MaxLost \in Nat

\* pipeline_run_items: status, metadata_json.retry_version_number (0 if it is
\* not set) and whether error_message is set.
ItemRow == [status: {"failed", "success"}, version: Nat, error: BOOLEAN]
\* pipeline_runs.failure_count and success_count.
Counts == [failure: Nat, success: Nat]

\* What the retry_start and retry_complete events are about: an item, or the run.
Whole == "run"
Subject == Item \cup {Whole}
ASSUME ItemRetrySubjects == Whole \notin Item

VARIABLES
  items,     \* the items, as committed
  counts,    \* the counters of the run, as committed
  top,       \* the newest version_number of each item's document
  runType,   \* the kind of run
  expired,   \* 24 hours have passed since the run finished
  unanswered,\* retry_start events without their retry_complete, of each subject
  retried,   \* history: the items that were retried with success
  overlapped,\* history: two requests have been under way at a time
  req,       \* the requests
  requests,  \* requests so far
  lost       \* broken off so far

itemRetryVars == <<items, counts, top, runType, expired, unanswered, retried, overlapped,
          req, requests, lost>>

Request ==
  [pc: {"idle", "collect", "next", "parse", "store", "answer"},
   whole: BOOLEAN,      \* retry_pipeline_run, or retry_pipeline_run_item
   item: Item,          \* the item being retried
   todo: SUBSET Item,   \* the failed items it collected and has not come to
   mem: Counts,         \* the run's counters in its session
   next: Nat]           \* the version number it read

Idle == [pc |-> "idle", whole |-> FALSE, item |-> CHOOSE i \in Item : TRUE,
         todo |-> {}, mem |-> [failure |-> 0, success |-> 0], next |-> 0]

Failed == {i \in Item : items[i].status = "failed"}
Succeeded == Item \ Failed

ItemRetryInit ==
  /\ items \in [Item -> {[status |-> "failed", version |-> 0, error |-> TRUE],
                       [status |-> "success", version |-> 0, error |-> FALSE]}]
  /\ counts = [failure |-> Cardinality(Failed), success |-> Cardinality(Succeeded)]
  /\ top = [i \in Item |-> IF items[i].status = "success" THEN 1 ELSE 0]
  /\ runType \in RunType
  /\ expired = FALSE
  /\ unanswered = [s \in Subject |-> 0]
  /\ retried = {} /\ overlapped = FALSE
  /\ req = [r \in Requester |-> Idle]
  /\ requests = 0 /\ lost = 0

-----------------------------------------------------------------------------
(* Plausible slips in the definitions below, used to see that the          *)
(* properties notice them; no specification refers to one.                 *)

FailureWritesRow(i) == {[items[i] EXCEPT !.status = "failed", !.error = TRUE]}
CountedAsSuccess(c) == [failure |-> c.failure, success |-> c.success + 1]
NeverTaken(r) == FALSE

-----------------------------------------------------------------------------
(* What the code computes.                                                 *)

\* _check_retry_guardrails of an item just loaded.  Its duplicate_retry follows
\* the test of the status and cannot hold; retry_in_progress is set nowhere.
MayRetry(i) == items[i].status = "failed" /\ ~ expired

\* _check_run_retry_guardrails.
MayRetryRun == Failed # {} => ~ expired

\* The counters after a success, from those in the session.
Counted(c) ==
  [failure |-> IF c.failure = 0 THEN 0 ELSE c.failure - 1, success |-> c.success + 1]

\* The row a failure leaves: "failed" is what the session had loaded, so only
\* the message is written, unless that too is the one it had loaded.
AfterFailure(i) == {items[i], [items[i] EXCEPT !.error = TRUE]}

\* Where a request is when it is done with its item.
DoneWithItem(r) == IF req[r].whole THEN [req[r] EXCEPT !.pc = "next"] ELSE Idle

\* uq_document_versions_doc_version: the version number the request read is
\* no longer free.
Taken(r) == req[r].next <= top[req[r].item]

-----------------------------------------------------------------------------
(* The request for one item and the request for the run.                   *)

Overlap(r) ==
  overlapped' = (overlapped \/ \E q \in Requester \ {r} : req[q].pc # "idle")

\* retry_pipeline_run_item to its first commit: the rows, the guardrails,
\* retry_start.
StartItem(r, i) ==
  /\ req[r].pc = "idle"
  /\ requests < MaxRequests
  /\ MayRetry(i)
  /\ requests' = requests + 1
  /\ req' = [req EXCEPT ![r] = [Idle EXCEPT !.pc = "parse", !.item = i, !.mem = counts]]
  /\ unanswered' = [unanswered EXCEPT ![i] = @ + 1]
  /\ Overlap(r)
  /\ UNCHANGED <<items, counts, top, runType, expired, retried, lost>>

\* retry_pipeline_run to its first commit.
StartRun(r) ==
  /\ req[r].pc = "idle"
  /\ requests < MaxRequests
  /\ MayRetryRun
  /\ requests' = requests + 1
  /\ req' = [req EXCEPT ![r] = [Idle EXCEPT !.pc = "collect", !.whole = TRUE, !.mem = counts]]
  /\ unanswered' = [unanswered EXCEPT ![Whole] = @ + 1]
  /\ Overlap(r)
  /\ UNCHANGED <<items, counts, top, runType, expired, retried, lost>>

\* The failed items, loaded once.
Collect(r) ==
  /\ req[r].pc = "collect"
  /\ req' = [req EXCEPT ![r].pc = "next", ![r].todo = Failed]
  /\ UNCHANGED <<items, counts, top, runType, expired, unanswered, retried,
                 overlapped, requests, lost>>

\* The next of them.  The session still has the item as failed, whatever became
\* of it since; only the age of the run is looked at afresh.
RetryNext(r, i) ==
  /\ req[r].pc = "next"
  /\ i \in req[r].todo
  /\ ~ expired
  /\ req' = [req EXCEPT ![r].pc = "parse", ![r].item = i, ![r].todo = @ \ {i}]
  /\ unanswered' = [unanswered EXCEPT ![i] = @ + 1]
  /\ UNCHANGED <<items, counts, top, runType, expired, retried, overlapped,
                 requests, lost>>

DenyNext(r, i) ==
  /\ req[r].pc = "next"
  /\ i \in req[r].todo
  /\ expired
  /\ req' = [req EXCEPT ![r].todo = @ \ {i}]
  /\ UNCHANGED <<items, counts, top, runType, expired, unanswered, retried,
                 overlapped, requests, lost>>

\* All items done, or none found: retry_complete of the run.
CompleteRun(r) ==
  /\ req[r].pc = "next"
  /\ req[r].todo = {}
  /\ req' = [req EXCEPT ![r] = Idle]
  /\ unanswered' = [unanswered EXCEPT ![Whole] = @ - 1]
  /\ UNCHANGED <<items, counts, top, runType, expired, retried, overlapped,
                 requests, lost>>

-----------------------------------------------------------------------------
(* One item.                                                               *)

\* The file cannot be fetched, found or parsed; the failure is committed.  The
\* azure and gcs branches return without a retry_complete event.
Fail(r) ==
  /\ req[r].pc = "parse"
  /\ items' \in {[items EXCEPT ![req[r].item] = after] : after \in AfterFailure(req[r].item)}
  /\ req' = [req EXCEPT ![r] = IF runType = "silent" THEN DoneWithItem(r)
                                                     ELSE [req[r] EXCEPT !.pc = "answer"]]
  /\ UNCHANGED <<counts, top, runType, expired, unanswered, retried, overlapped,
                 requests, lost>>

\* The file is parsed and the next version number read.  The azure and gcs
\* branches never come here: they use NamedTemporaryFile, which only the other
\* branches import.
Read(r) ==
  /\ req[r].pc = "parse"
  /\ runType = "audited"
  /\ req' = [req EXCEPT ![r].pc = "store", ![r].next = top[req[r].item] + 1]
  /\ UNCHANGED <<items, counts, top, runType, expired, unanswered, retried,
                 overlapped, requests, lost>>

\* The version, the item and the run are flushed and committed together; the
\* UPDATE of the document's row makes one request wait for another's commit.
Store(r) ==
  LET i == req[r].item
  IN  /\ req[r].pc = "store"
      /\ ~ Taken(r)
      /\ top' = [top EXCEPT ![i] = IF @ < req[r].next THEN req[r].next ELSE @]
      /\ items' = [items EXCEPT ![i] = [status |-> "success", version |-> req[r].next, error |-> FALSE]]
      /\ counts' = Counted(req[r].mem)
      /\ req' = [req EXCEPT ![r].pc = "answer", ![r].mem = counts']
      /\ retried' = retried \cup {i}
      /\ UNCHANGED <<runType, expired, overlapped, unanswered, requests, lost>>

\* The version number was taken meanwhile: the INSERT fails, and the handler's
\* commit raises in the session that has not been rolled back.  The request is
\* over, the rest of its items included.
Conflict(r) ==
  /\ req[r].pc = "store"
  /\ Taken(r)
  /\ req' = [req EXCEPT ![r] = Idle]
  /\ UNCHANGED <<items, counts, top, runType, expired, unanswered, retried,
                 overlapped, requests, lost>>

\* retry_complete of the item, in a commit of its own.
Answer(r) ==
  /\ req[r].pc = "answer"
  /\ req' = [req EXCEPT ![r] = DoneWithItem(r)]
  /\ unanswered' = [unanswered EXCEPT ![req[r].item] = @ - 1]
  /\ UNCHANGED <<items, counts, top, runType, expired, retried, overlapped,
                 requests, lost>>

\* The request is broken off and what it has not committed is rolled back.
LoseRetry(r) ==
  /\ req[r].pc # "idle"
  /\ lost < MaxLost
  /\ lost' = lost + 1
  /\ req' = [req EXCEPT ![r] = Idle]
  /\ UNCHANGED <<items, counts, top, runType, expired, unanswered, retried,
                 overlapped, requests>>

\* The run grows older than the 24 hours its snapshot is good for.
Expire ==
  /\ ~ expired
  /\ expired' = TRUE
  /\ UNCHANGED <<items, counts, top, runType, unanswered, retried, overlapped,
                 req, requests, lost>>

Progress(r) ==
  \/ Collect(r) \/ CompleteRun(r)
  \/ Fail(r) \/ Read(r) \/ Store(r) \/ Conflict(r) \/ Answer(r)
  \/ \E i \in Item : RetryNext(r, i) \/ DenyNext(r, i)

ItemRetryNext ==
  \/ \E r \in Requester : StartRun(r) \/ Progress(r) \/ LoseRetry(r)
  \/ \E r \in Requester, i \in Item : StartItem(r, i)
  \/ Expire

ItemRetrySpec == ItemRetryInit /\ [][ItemRetryNext]_itemRetryVars

-----------------------------------------------------------------------------
(* Properties.                                                             *)

\* The variables keep their types; no retry_complete is written twice.
ItemRetryTypeOK ==
  /\ items \in [Item -> ItemRow]
  /\ counts \in Counts
  /\ top \in [Item -> Nat]
  /\ runType \in RunType
  /\ expired \in BOOLEAN
  /\ unanswered \in [Subject -> Nat]
  /\ retried \subseteq Item /\ overlapped \in BOOLEAN
  /\ req \in [Requester -> Request]
  /\ requests \in 0..MaxRequests
  /\ lost \in 0..MaxLost

\* Whatever retries overlap, and however stale the counters they write, the run
\* never claims fewer failures than it has items that failed and its counters
\* add up to its items; as long as retries come one at a time they are exact
\* (counts written at web_console.py:3439-3440).
FailuresNotHidden ==
  /\ counts.failure >= Cardinality(Failed)
  /\ counts.failure + counts.success = Cardinality(Item)
  /\ ~ overlapped => counts.failure = Cardinality(Failed)

\* A retry that fails never takes back the success another retry has recorded,
\* although it "sets" the status to failed (item.status at 3467).
SuccessIsKept ==
  [][\A i \in Item : items[i].status = "success" => items'[i].status = "success"]_itemRetryVars

\* An item that was retried names the newest version of its document, also when
\* requests read the same version number (get_next_version_number at 3425) or
\* commit in another order than they read it.
NewestVersionNamed ==
  \A i \in retried : items[i].version = top[i]

=============================================================================
