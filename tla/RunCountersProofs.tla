------------------------- MODULE RunCountersProofs --------------------------
(***************************************************************************)
(* Proofs about three handlers that report through the counters of a run:  *)
(* the retries of ItemRetry, for any number of items, requests that        *)
(* overlap and requests broken off, the exports of Exports, for any number *)
(* of exporters, artifacts and tries of a put, and the imports of          *)
(* WebImport, for any pages, lists and requests that overlap:              *)
(*                                                                         *)
(*   FailuresAreNotHidden - the run's counters add up and never claim      *)
(*                          fewer failures than there are;                 *)
(*   RetriedNamesNewest   - a retried item names its newest version;       *)
(*   SuccessStays         - no retry takes back a success;                 *)
(*   ExportsAreAccounted  - an export's row and the record of it in the    *)
(*                          store tell what is in the store;               *)
(*   ImportsAreAccounted  - an import's run has an item for every page of  *)
(*                          its list, or the import is lost for a reason.  *)
(*                                                                         *)
(* A request counts down from the counters its session holds, which may be *)
(* stale.  They are never too low, for they were loaded when the items the *)
(* request has yet to bring to success had all failed (Covers): what       *)
(* others have done since is missing from its count, not counted twice.    *)
(*                                                                         *)
(* An export counts an artifact when it leaves it (SumsFit).  What it      *)
(* counts as uploaded is there, and what is there it has counted, or a put *)
(* of it was answered by an error although it took effect (ObjectsFit).    *)
(* pipeline_runs is the last artifact, so that nothing is counted between  *)
(* its being stated and the end of the run (StatementFits).                *)
(*                                                                         *)
(* An import has an item for every page it is past, and what is past and   *)
(* what is to come are the list (PassedOver); in a list without repeats    *)
(* these cannot meet, by their numbers.  An import no other has overlapped *)
(* with finds the tables as it has read them (ImportAlone).                *)
(***************************************************************************)
EXTENDS ItemRetry, Exports, WebImport, FiniteSetTheorems, FunctionTheorems, WellFoundedInduction,
        TLAPS

\* A request under way, and the items it may still bring to success.
Busy(q) == q.pc # "idle"
Ahead(q) == IF q.pc \in {"parse", "store"} THEN q.todo \cup {q.item} ELSE q.todo

\* Every item counts once, as a failure or as a success.
AddsUp(c) == c.failure + c.success = Cardinality(Item)

\* What a request counts down from covers the items that failed and those it
\* may still bring to success, though others may have brought them there.
Covers(q) ==
  /\ AddsUp(q.mem)
  /\ q.mem.failure >= Cardinality(Failed \cup Ahead(q))
  /\ q.pc \in {"parse", "store"} => q.item \notin q.todo
  /\ q.pc \in {"collect", "next"} => q.whole

\* As long as no two requests overlap the one under way is alone, and knows the
\* counters and the failures as they are.
AloneIsExact ==
  ~ overlapped =>
    /\ counts.failure = Cardinality(Failed)
    /\ \A r \in Requester : Busy(req[r]) =>
         /\ req[r].mem = counts /\ Ahead(req[r]) \subseteq Failed
         /\ \A x \in Requester : Busy(req[x]) => x = r

\* The retry_complete events requests have yet to write.
Owes(q, s) ==
  \/ s = Whole /\ Busy(q) /\ q.whole
  \/ s = q.item /\ q.pc \in {"parse", "store", "answer"}
Open(s) == {r \in Requester : Owes(req[r], s)}
AnswersOwed ==
  \A s \in Subject : IsFiniteSet(Open(s)) /\ Cardinality(Open(s)) <= unanswered[s]

RetryInv ==
  /\ ItemRetryTypeOK
  /\ AddsUp(counts) /\ counts.failure >= Cardinality(Failed)
  /\ \A r \in Requester : Busy(req[r]) => Covers(req[r])
  /\ AloneIsExact
  /\ AnswersOwed
  /\ NewestVersionNamed

-----------------------------------------------------------------------------
(* Sets of items and of requests.                                          *)

\* A part of the items is finite, and smaller for each item less.
LEMMA ItemSets ==
  ASSUME NEW S \in SUBSET Item
  PROVE  /\ IsFiniteSet(S) /\ Cardinality(S) \in Nat
         /\ \A T \in SUBSET S : Cardinality(T) <= Cardinality(S)
         /\ \A i \in S : Cardinality(S \ {i}) = Cardinality(S) - 1
<1>1. IsFiniteSet(S)
  BY ItemRetryItems, FS_Subset
<1>2. Cardinality(S) \in Nat
  BY <1>1, FS_CardinalityType
<1>3. \A T \in SUBSET S : Cardinality(T) <= Cardinality(S)
  BY <1>1, FS_Subset
<1>4. \A i \in S : Cardinality(S \ {i}) = Cardinality(S) - 1
  BY <1>1, FS_RemoveElement
<1> QED
  BY <1>1, <1>2, <1>3, <1>4

\* A set of no more than n members, and one with one more, or one less.
LEMMA Bounded ==
  ASSUME NEW S, IsFiniteSet(S), NEW n \in Nat, Cardinality(S) <= n, NEW r, NEW T
  PROVE  /\ T \subseteq S => IsFiniteSet(T) /\ Cardinality(T) <= n
         /\ T \subseteq S \cup {r} => IsFiniteSet(T) /\ Cardinality(T) <= n + 1
         /\ r \in S /\ T \subseteq S \ {r} =>
              IsFiniteSet(T) /\ Cardinality(T) <= n - 1 /\ n - 1 \in Nat
<1>1. Cardinality(S) \in Nat
  BY FS_CardinalityType
<1>2. ASSUME T \subseteq S PROVE IsFiniteSet(T) /\ Cardinality(T) <= n
  <2>1. IsFiniteSet(T) /\ Cardinality(T) <= Cardinality(S)
    BY <1>2, FS_Subset
  <2>2. Cardinality(T) \in Nat
    BY <2>1, FS_CardinalityType
  <2> QED
    BY <1>1, <2>1, <2>2
<1>3. ASSUME T \subseteq S \cup {r} PROVE IsFiniteSet(T) /\ Cardinality(T) <= n + 1
  <2>1. /\ IsFiniteSet(S \cup {r})
        /\ Cardinality(S \cup {r}) = Cardinality(S) \/ Cardinality(S \cup {r}) = Cardinality(S) + 1
    BY FS_AddElement
  <2>2. IsFiniteSet(T) /\ Cardinality(T) <= Cardinality(S \cup {r})
    BY <1>3, <2>1, FS_Subset
  <2>3. Cardinality(T) \in Nat
    BY <2>2, FS_CardinalityType
  <2> QED
    BY <1>1, <2>1, <2>2, <2>3
<1>4. ASSUME r \in S, T \subseteq S \ {r}
      PROVE  IsFiniteSet(T) /\ Cardinality(T) <= n - 1 /\ n - 1 \in Nat
  <2>1. IsFiniteSet(S \ {r}) /\ Cardinality(S \ {r}) = Cardinality(S) - 1
    BY <1>4, FS_RemoveElement
  <2>2. IsFiniteSet(T) /\ Cardinality(T) <= Cardinality(S \ {r})
    BY <1>4, <2>1, FS_Subset
  <2>3. Cardinality(T) \in Nat /\ Cardinality(S \ {r}) \in Nat
    BY <2>1, <2>2, FS_CardinalityType
  <2> QED
    BY <1>1, <2>1, <2>2, <2>3
<1> QED
  BY <1>2, <1>3, <1>4

-----------------------------------------------------------------------------
(* What a step begins with and what it has to show.                        *)

\* Types, and what the invariant says of one request.
LEMMA RetryAt ==
  ASSUME RetryInv, NEW r \in Requester
  PROVE  /\ req \in [Requester -> Request] /\ req[r] \in Request
         /\ req[r].mem \in Counts /\ req[r].todo \subseteq Item /\ req[r].item \in Item
         /\ req[r].next \in Nat /\ req[r].whole \in BOOLEAN
         /\ counts \in Counts /\ counts.failure \in Nat /\ counts.success \in Nat
         /\ unanswered \in [Subject -> Nat]
         /\ items \in [Item -> ItemRow] /\ top \in [Item -> Nat]
         /\ requests \in 0..MaxRequests /\ lost \in 0..MaxLost
         /\ MaxRequests \in Nat /\ MaxLost \in Nat
         /\ Failed \subseteq Item
BY ItemRetryBounds DEF RetryInv, ItemRetryTypeOK, Request, Counts, Failed

\* Nobody's request.
LEMMA IdleRequest ==
  /\ Idle \in Request /\ Idle.pc = "idle" /\ Idle.todo = {} /\ Idle.whole = FALSE
  /\ Idle.item \in Item /\ ~ Busy(Idle) /\ \A s : ~ Owes(Idle, s)
<1>1. (CHOOSE i \in Item : TRUE) \in Item
  BY ItemRetryItems
<1> QED
  BY <1>1 DEF Idle, Request, Counts, Busy, Owes

\* A request may owe an answer more when one is announced, and has to owe one
\* less when one is given.
LEMMA OwedAfter ==
  ASSUME RetryInv, NEW r \in Requester, NEW q, req' = [req EXCEPT ![r] = q],
         \A s \in Subject :
           \/ unanswered'[s] = unanswered[s] /\ (Owes(q, s) => Owes(req[r], s))
           \/ unanswered'[s] = unanswered[s] + 1
           \/ unanswered'[s] = unanswered[s] - 1 /\ Owes(req[r], s) /\ ~ Owes(q, s)
  PROVE  AnswersOwed' /\ \A s \in Subject : unanswered'[s] \in Nat
<1> SUFFICES ASSUME NEW s \in Subject
             PROVE  /\ IsFiniteSet(Open(s)') /\ Cardinality(Open(s)') <= unanswered'[s]
                    /\ unanswered'[s] \in Nat
  BY DEF AnswersOwed
<1>1. req \in [Requester -> Request] /\ unanswered[s] \in Nat
  BY RetryAt
<1>2. \A x \in Requester : req'[x] = IF x = r THEN q ELSE req[x]
  BY <1>1
<1>3. PICK T : T = Open(s)'
  OBVIOUS
<1>4. \A x \in T : x \in Requester /\ Owes(req'[x], s)
  BY <1>3 DEF Open, Owes, Busy
<1>5. \A x \in Requester : Owes(req[x], s) => x \in Open(s)
  BY DEF Open
<1>6. T \subseteq Open(s) \cup {r} /\ (~ Owes(q, s) => T \subseteq Open(s) \ {r})
  BY <1>2, <1>4, <1>5
<1>7. IsFiniteSet(Open(s)) /\ Cardinality(Open(s)) <= unanswered[s]
  BY DEF RetryInv, AnswersOwed
<1>8. CASE unanswered'[s] = unanswered[s] /\ (Owes(q, s) => Owes(req[r], s))
  <2>1. T \subseteq Open(s)
    BY <1>5, <1>6, <1>8
  <2> QED
    BY <1>1, <1>3, <1>7, <1>8, <2>1, Bounded
<1>9. CASE unanswered'[s] = unanswered[s] + 1
  BY <1>1, <1>3, <1>6, <1>7, <1>9, Bounded
<1>10. CASE unanswered'[s] = unanswered[s] - 1 /\ Owes(req[r], s) /\ ~ Owes(q, s)
  <2>1. r \in Open(s) /\ T \subseteq Open(s) \ {r}
    BY <1>5, <1>6, <1>10
  <2> QED
    BY <1>1, <1>3, <1>7, <1>10, <2>1, Bounded
<1> QED
  BY <1>8, <1>9, <1>10

\* A step of a request that brings no item to success.
LEMMA RequestMoves ==
  ASSUME RetryInv, NEW r \in Requester, NEW q \in Request, req' = [req EXCEPT ![r] = q],
         items' \in [Item -> ItemRow], Failed' = Failed, NewestVersionNamed',
         UNCHANGED <<counts, top, runType, expired, retried>>,
         requests' \in 0..MaxRequests, lost' \in 0..MaxLost, overlapped' \in BOOLEAN,
         unanswered' \in [Subject -> Nat], AnswersOwed',
         Busy(q) => Covers(q),
         ~ overlapped' => /\ ~ overlapped
                          /\ Busy(q) => /\ q.mem = counts /\ Ahead(q) \subseteq Failed
                                        /\ \A x \in Requester \ {r} : ~ Busy(req[x])
  PROVE  RetryInv'
<1>1. req \in [Requester -> Request]
  BY RetryAt
<1>2. \A x \in Requester : req'[x] = IF x = r THEN q ELSE req[x]
  BY <1>1
<1>3. ItemRetryTypeOK'
  BY <1>1 DEF RetryInv, ItemRetryTypeOK
<1>4. AddsUp(counts)' /\ (counts.failure >= Cardinality(Failed))'
  BY DEF RetryInv, AddsUp
<1>5. \A x \in Requester : Busy(req[x])' => Covers(req[x])'
  <2>1. \A p : Busy(p) /\ Covers(p) => Covers(p)'
    BY DEF Covers, Ahead, AddsUp
  <2>2. \A x \in Requester : Busy(req'[x]) => Covers(req'[x])
    BY <1>2 DEF RetryInv
  <2> QED
    BY <2>1, <2>2 DEF Busy, Covers, Ahead, AddsUp
<1>6. AloneIsExact'
  <2> SUFFICES ASSUME ~ overlapped' PROVE
        /\ counts.failure = Cardinality(Failed)
        /\ \A x \in Requester : Busy(req'[x]) =>
             /\ req'[x].mem = counts /\ Ahead(req'[x]) \subseteq Failed
             /\ \A y \in Requester : Busy(req'[y]) => y = x
    BY DEF AloneIsExact, Busy, Ahead
  <2>1. counts.failure = Cardinality(Failed)
    BY DEF RetryInv, AloneIsExact
  <2>2. \A x \in Requester \ {r} : Busy(req[x]) =>
          /\ req[x].mem = counts /\ Ahead(req[x]) \subseteq Failed
          /\ \A y \in Requester : Busy(req[y]) => y = x
    BY DEF RetryInv, AloneIsExact
  <2> QED
    BY <1>2, <2>1, <2>2
<1> QED
  BY <1>3, <1>4, <1>5, <1>6 DEF RetryInv

\* A request that goes on with less before it, or with what has failed by now.
LEMMA RequestGoesOn ==
  ASSUME RetryInv, NEW r \in Requester, NEW q \in Request, req' = [req EXCEPT ![r] = q],
         items' \in [Item -> ItemRow], Failed' = Failed, NewestVersionNamed',
         UNCHANGED <<counts, top, runType, expired, retried, overlapped, requests>>,
         lost' \in 0..MaxLost,
         unanswered' \in [Subject -> Int],
         \A s \in Subject :
           \/ unanswered'[s] = unanswered[s] /\ (Owes(q, s) => Owes(req[r], s))
           \/ unanswered'[s] = unanswered[s] + 1
           \/ unanswered'[s] = unanswered[s] - 1 /\ Owes(req[r], s) /\ ~ Owes(q, s),
         Busy(q) => /\ Busy(req[r]) /\ q.mem = req[r].mem
                    /\ Ahead(q) \subseteq Ahead(req[r]) \cup Failed
                    /\ q.pc \in {"parse", "store"} => q.item \notin q.todo
                    /\ q.pc \in {"collect", "next"} => q.whole
  PROVE  RetryInv'
<1>1. AnswersOwed' /\ unanswered' \in [Subject -> Nat]
  <2>1. AnswersOwed' /\ \A s \in Subject : unanswered'[s] \in Nat
    BY OwedAfter
  <2> QED
    BY <2>1
<1>2. requests' \in 0..MaxRequests /\ overlapped' \in BOOLEAN
  BY DEF RetryInv, ItemRetryTypeOK
<1>3. ASSUME Busy(q) PROVE Covers(q)
  <2>1. Covers(req[r])
    BY <1>3 DEF RetryInv
  <2>2. PICK S : S = Failed \cup Ahead(req[r])
    OBVIOUS
  <2>3. S \subseteq Item /\ Failed \cup Ahead(q) \subseteq S
    BY <1>3, <2>2, RetryAt DEF Ahead
  <2>4. Cardinality(Failed \cup Ahead(q)) <= Cardinality(S)
    BY <2>3, ItemSets
  <2>5. /\ q.mem.failure >= Cardinality(S) /\ AddsUp(q.mem) /\ q.mem.failure \in Nat
    BY <1>3, <2>1, <2>2, RetryAt DEF Covers, Counts
  <2>6. Cardinality(S) \in Nat /\ Cardinality(Failed \cup Ahead(q)) \in Nat
    BY <2>3, ItemSets
  <2> QED
    BY <1>3, <2>4, <2>5, <2>6 DEF Covers
<1>4. ASSUME ~ overlapped', Busy(q)
      PROVE  /\ q.mem = counts /\ Ahead(q) \subseteq Failed
             /\ \A x \in Requester \ {r} : ~ Busy(req[x])
  BY <1>4 DEF RetryInv, AloneIsExact
<1> QED
  BY <1>1, <1>2, <1>3, <1>4, RequestMoves

-----------------------------------------------------------------------------
(* The steps.                                                              *)

\* A request that starts with the counters as they are, and with items before
\* it that have failed.
LEMMA StartStep ==
  ASSUME RetryInv, NEW r \in Requester,
         StartRun(r) \/ \E i \in Item : StartItem(r, i)
  PROVE  RetryInv'
<1>1. PICK s, q :
        /\ s \in Subject
        /\ \/ s = Whole /\ q = [Idle EXCEPT !.pc = "collect", !.whole = TRUE, !.mem = counts]
           \/ s \in Failed /\ q = [Idle EXCEPT !.pc = "parse", !.item = s, !.mem = counts]
        /\ req' = [req EXCEPT ![r] = q]
        /\ unanswered' = [unanswered EXCEPT ![s] = @ + 1]
        /\ requests < MaxRequests /\ requests' = requests + 1
        /\ Overlap(r)
        /\ UNCHANGED <<items, counts, top, runType, expired, retried, lost>>
  BY DEF StartRun, StartItem, Subject, MayRetry, Failed
<1>2. /\ counts \in Counts /\ unanswered \in [Subject -> Nat] /\ Failed \subseteq Item
      /\ requests' \in 0..MaxRequests /\ lost' \in 0..MaxLost
  BY <1>1, RetryAt
<1>3. /\ q \in Request /\ q.mem = counts /\ Busy(q) /\ Ahead(q) \subseteq Failed
      /\ q.pc \in {"parse", "store"} => q.item \notin q.todo
      /\ q.pc \in {"collect", "next"} => q.whole
  BY <1>1, <1>2, IdleRequest DEF Request, Busy, Ahead
<1>4. \A t \in Subject : t # s => ~ Owes(q, t)
  <2>1. CASE s = Whole
    BY <1>1, <2>1, IdleRequest DEF Owes, Request
  <2>2. CASE s \in Failed /\ q = [Idle EXCEPT !.pc = "parse", !.item = s, !.mem = counts]
    BY <2>2, IdleRequest DEF Owes, Request
  <2> QED
    BY <1>1, <2>1, <2>2
<1>5. \A t \in Subject : unanswered'[t] = IF t = s THEN unanswered[t] + 1 ELSE unanswered[t]
  BY <1>1, <1>2
<1>6. AnswersOwed' /\ \A t \in Subject : unanswered'[t] \in Nat
  <2>1. \A t \in Subject : \/ unanswered'[t] = unanswered[t] /\ (Owes(q, t) => Owes(req[r], t))
                           \/ unanswered'[t] = unanswered[t] + 1
    BY <1>4, <1>5
  <2> QED
    BY <1>1, <2>1, OwedAfter
<1>7. unanswered' \in [Subject -> Nat]
  BY <1>1, <1>2
<1>8. Covers(q)
  <2>1. Failed \cup Ahead(q) = Failed
    BY <1>3
  <2> QED
    BY <1>3, <2>1 DEF Covers, RetryInv
<1>9. overlapped' \in BOOLEAN /\ (~ overlapped' => ~ overlapped
                                   /\ \A x \in Requester \ {r} : ~ Busy(req[x]))
  BY <1>1 DEF Overlap, Busy, RetryInv, ItemRetryTypeOK
<1>10. Failed' = Failed /\ NewestVersionNamed' /\ items' \in [Item -> ItemRow]
  BY <1>1, RetryAt DEF Failed, NewestVersionNamed, RetryInv
<1> QED
  BY <1>1, <1>2, <1>3, <1>6, <1>7, <1>8, <1>9, <1>10, RequestMoves

\* What a step that leaves the items alone keeps.
LEMMA ItemsAlone ==
  ASSUME RetryInv, UNCHANGED <<items, top, retried>>
  PROVE  Failed' = Failed /\ NewestVersionNamed' /\ items' \in [Item -> ItemRow]
BY DEF RetryInv, ItemRetryTypeOK, Failed, NewestVersionNamed

\* A request for the run collects what has failed, and goes from one item to
\* the next.
LEMMA CollectStep ==
  ASSUME RetryInv, NEW r \in Requester,
         Collect(r) \/ \E i \in Item : DenyNext(r, i)
  PROVE  RetryInv'
<1>1. PICK todo \in SUBSET Item :
        /\ todo \subseteq Failed \cup req[r].todo
        /\ req[r].pc \in {"collect", "next"}
        /\ req' = [req EXCEPT ![r].pc = "next", ![r].todo = todo]
        /\ UNCHANGED <<items, counts, top, runType, expired, unanswered, retried,
                       overlapped, requests, lost>>
  <2>1. CASE Collect(r)
    BY <2>1, RetryAt DEF Collect
  <2>2. CASE \E i \in Item : DenyNext(r, i)
    <3>1. PICK i \in Item : DenyNext(r, i)
      BY <2>2
    <3>2. req' = [req EXCEPT ![r].pc = "next", ![r].todo = @ \ {i}]
      <4>1. req[r] = [req[r] EXCEPT !.pc = "next"]
        BY <3>1, RetryAt DEF DenyNext, Request
      <4> QED
        BY <3>1, <4>1, RetryAt DEF DenyNext, Request
    <3>3. PICK todo : todo = req[r].todo \ {i}
      OBVIOUS
    <3>4. req' = [req EXCEPT ![r].pc = "next", ![r].todo = todo]
      BY <3>2, <3>3, RetryAt DEF Request
    <3>5. todo \in SUBSET Item /\ todo \subseteq Failed \cup req[r].todo
      BY <3>3, RetryAt
    <3> QED
      BY <3>1, <3>4, <3>5 DEF DenyNext
  <2> QED
    BY <2>1, <2>2
<1>2. PICK q : q = [req[r] EXCEPT !.pc = "next", !.todo = todo]
  OBVIOUS
<1>3. req[r] \in Request /\ req \in [Requester -> Request]
  BY RetryAt
<1>4. /\ q \in Request /\ q.pc = "next" /\ q.todo = todo /\ q.mem = req[r].mem
      /\ q.whole = req[r].whole /\ q.item = req[r].item
  BY <1>2, <1>3 DEF Request
<1>5. req' = [req EXCEPT ![r] = q]
  BY <1>1, <1>2, <1>3 DEF Request
<1>6. Busy(req[r]) /\ Covers(req[r]) /\ req[r].whole
  BY <1>1 DEF Busy, RetryInv, Covers
<1>7. Ahead(q) \subseteq Ahead(req[r]) \cup Failed
  BY <1>1, <1>4 DEF Ahead
<1>8. \A s \in Subject : Owes(q, s) => Owes(req[r], s)
  BY <1>4, <1>6 DEF Owes
<1>9. unanswered' \in [Subject -> Int] /\ lost' \in 0..MaxLost
  BY <1>1, RetryAt
<1> QED
  BY <1>1, <1>4, <1>5, <1>6, <1>7, <1>8, <1>9, ItemsAlone, RequestGoesOn

\* The next item, whatever became of it since it was collected.
LEMMA NextStep ==
  ASSUME RetryInv, NEW r \in Requester, NEW i \in Item, RetryNext(r, i)
  PROVE  RetryInv'
<1>1. PICK todo : todo = req[r].todo \ {i}
  OBVIOUS
<1>2. PICK q : q = [req[r] EXCEPT !.pc = "parse", !.item = i, !.todo = todo]
  OBVIOUS
<1>3. req[r] \in Request /\ req \in [Requester -> Request] /\ req[r].todo \subseteq Item
  BY RetryAt
<1>4. /\ q \in Request /\ q.pc = "parse" /\ q.todo = todo /\ q.mem = req[r].mem
      /\ q.whole = req[r].whole /\ q.item = i
  BY <1>1, <1>2, <1>3 DEF Request
<1>5. req' = [req EXCEPT ![r] = q]
  BY <1>1, <1>2, <1>3 DEF RetryNext, Request
<1>6. Busy(req[r]) /\ i \in req[r].todo /\ req[r].pc = "next"
  BY DEF Busy, RetryNext
<1>7. Ahead(q) \subseteq Ahead(req[r]) \cup Failed
  BY <1>1, <1>4, <1>6 DEF Ahead
<1>8. \A s \in Subject : s # i => (Owes(q, s) => Owes(req[r], s))
  BY <1>4, <1>6 DEF Owes
<1>9. /\ unanswered \in [Subject -> Nat] /\ i \in Subject
      /\ unanswered' = [unanswered EXCEPT ![i] = @ + 1]
  BY RetryAt DEF RetryNext, Subject
<1>10. \A s \in Subject : \/ unanswered'[s] = unanswered[s] /\ (Owes(q, s) => Owes(req[r], s))
                          \/ unanswered'[s] = unanswered[s] + 1
  BY <1>8, <1>9
<1>11. unanswered' \in [Subject -> Int] /\ lost' \in 0..MaxLost
  BY <1>9, RetryAt DEF RetryNext
<1>12. UNCHANGED <<items, counts, top, runType, expired, retried, overlapped, requests>>
  BY DEF RetryNext
<1> QED
  BY <1>1, <1>4, <1>5, <1>6, <1>7, <1>10, <1>11, <1>12, ItemsAlone, RequestGoesOn

\* The version number is read.
LEMMA ReadStep ==
  ASSUME RetryInv, NEW r \in Requester, Read(r)
  PROVE  RetryInv'
<1>1. PICK n \in Nat : n = top[req[r].item] + 1
  BY RetryAt
<1>2. PICK q : q = [req[r] EXCEPT !.pc = "store", !.next = n]
  OBVIOUS
<1>3. req[r] \in Request /\ req \in [Requester -> Request]
  BY RetryAt
<1>4. /\ q \in Request /\ q.pc = "store" /\ q.todo = req[r].todo /\ q.mem = req[r].mem
      /\ q.whole = req[r].whole /\ q.item = req[r].item
  BY <1>2, <1>3 DEF Request
<1>5. req' = [req EXCEPT ![r] = q]
  BY <1>1, <1>2, <1>3 DEF Read, Request
<1>6. Busy(req[r]) /\ req[r].pc = "parse" /\ req[r].item \notin req[r].todo
  BY DEF Busy, Read, RetryInv, Covers
<1>7. Ahead(q) = Ahead(req[r]) /\ \A s \in Subject : Owes(q, s) => Owes(req[r], s)
  BY <1>4, <1>6 DEF Ahead, Owes, Busy
<1>8. /\ unanswered' \in [Subject -> Int] /\ lost' \in 0..MaxLost
      /\ UNCHANGED <<items, counts, top, runType, expired, unanswered, retried,
                     overlapped, requests>>
  BY RetryAt DEF Read
<1> QED
  BY <1>4, <1>5, <1>6, <1>7, <1>8, ItemsAlone, RequestGoesOn

\* A request that is over, whatever it was at, and owes nothing more.
LEMMA EndStep ==
  ASSUME RetryInv, NEW r \in Requester, CompleteRun(r) \/ Conflict(r) \/ LoseRetry(r)
  PROVE  RetryInv'
<1>1. /\ req' = [req EXCEPT ![r] = Idle]
      /\ UNCHANGED <<items, counts, top, runType, expired, retried, overlapped, requests>>
  BY DEF CompleteRun, Conflict, LoseRetry
<1>2. lost' \in 0..MaxLost /\ unanswered \in [Subject -> Nat]
  BY RetryAt DEF CompleteRun, Conflict, LoseRetry
<1>3. CASE CompleteRun(r)
  <2>1. Owes(req[r], Whole) /\ Whole \in Subject
    BY <1>3 DEF CompleteRun, Owes, Busy, RetryInv, Covers, Subject
  <2>2. unanswered' = [unanswered EXCEPT ![Whole] = @ - 1]
    BY <1>3 DEF CompleteRun
  <2>3. /\ unanswered' \in [Subject -> Int]
        /\ \A s \in Subject :
             \/ unanswered'[s] = unanswered[s] /\ s # Whole
             \/ unanswered'[s] = unanswered[s] - 1 /\ s = Whole
    BY <1>2, <2>1, <2>2
  <2>4. \A s \in Subject :
          \/ unanswered'[s] = unanswered[s] /\ (Owes(Idle, s) => Owes(req[r], s))
          \/ unanswered'[s] = unanswered[s] - 1 /\ Owes(req[r], s) /\ ~ Owes(Idle, s)
    BY <2>1, <2>3, IdleRequest
  <2>5. Idle \in Request /\ ~ Busy(Idle)
    BY IdleRequest
  <2>6. Failed' = Failed /\ NewestVersionNamed' /\ items' \in [Item -> ItemRow]
    BY <1>1, ItemsAlone
  <2> QED
    BY <1>1, <1>2, <2>3, <2>4, <2>5, <2>6, RequestGoesOn
<1>4. CASE Conflict(r) \/ LoseRetry(r)
  <2>1. unanswered' = unanswered /\ unanswered' \in [Subject -> Int]
    BY <1>2, <1>4 DEF Conflict, LoseRetry
  <2> QED
    BY <1>1, <1>2, <2>1, IdleRequest, ItemsAlone, RequestGoesOn
<1> QED
  BY <1>3, <1>4

\* Where a request is when it is done with its item: it has less before it and
\* does not owe the item's answer.
LEMMA DoneRequest ==
  ASSUME RetryInv, NEW r \in Requester, req[r].pc \in {"parse", "answer"},
         NEW q, q = DoneWithItem(r)
  PROVE  /\ q \in Request /\ ~ Owes(q, req[r].item)
         /\ \A s \in Subject : Owes(q, s) => Owes(req[r], s)
         /\ Busy(q) => /\ q.mem = req[r].mem /\ Ahead(q) \subseteq Ahead(req[r])
                       /\ q.pc = "next" /\ q.whole
<1>1. req[r] \in Request /\ req[r].item \in Item /\ Whole \notin Item
  BY RetryAt, ItemRetrySubjects
<1>2. CASE req[r].whole
  <2>1. q = [req[r] EXCEPT !.pc = "next"]
    BY <1>2 DEF DoneWithItem
  <2>2. /\ q \in Request /\ q.pc = "next" /\ q.mem = req[r].mem /\ q.whole
        /\ q.todo = req[r].todo /\ q.item = req[r].item
    BY <1>1, <1>2, <2>1 DEF Request
  <2> QED
    BY <1>1, <1>2, <2>2 DEF Owes, Busy, Ahead
<1>3. CASE ~ req[r].whole
  BY <1>3, IdleRequest DEF DoneWithItem
<1> QED
  BY <1>2, <1>3

\* retry_complete of the item.
LEMMA AnswerStep ==
  ASSUME RetryInv, NEW r \in Requester, Answer(r)
  PROVE  RetryInv'
<1>1. PICK q : q = DoneWithItem(r)
  OBVIOUS
<1>2. PICK i : i = req[r].item
  OBVIOUS
<1>3. /\ q \in Request /\ ~ Owes(q, i) /\ \A s \in Subject : Owes(q, s) => Owes(req[r], s)
      /\ Busy(q) => /\ q.mem = req[r].mem /\ Ahead(q) \subseteq Ahead(req[r])
                    /\ q.pc = "next" /\ q.whole
  BY <1>1, <1>2, DoneRequest DEF Answer
<1>4. /\ i \in Subject /\ unanswered \in [Subject -> Nat] /\ lost \in 0..MaxLost
      /\ Owes(req[r], i) /\ Busy(req[r])
  BY <1>2, RetryAt DEF Subject, Answer, Owes, Busy
<1>5. /\ req' = [req EXCEPT ![r] = q] /\ unanswered' = [unanswered EXCEPT ![i] = @ - 1]
      /\ UNCHANGED <<items, counts, top, runType, expired, retried, overlapped, requests, lost>>
  BY <1>1, <1>2 DEF Answer
<1>6. /\ unanswered' \in [Subject -> Int]
      /\ \A s \in Subject :
           \/ unanswered'[s] = unanswered[s] /\ (Owes(q, s) => Owes(req[r], s))
           \/ unanswered'[s] = unanswered[s] - 1 /\ Owes(req[r], s) /\ ~ Owes(q, s)
  BY <1>3, <1>4, <1>5
<1>7. Failed' = Failed /\ NewestVersionNamed' /\ items' \in [Item -> ItemRow]
  BY <1>5, ItemsAlone
<1>8. Busy(q) => /\ Busy(req[r]) /\ q.mem = req[r].mem
                 /\ Ahead(q) \subseteq Ahead(req[r]) \cup Failed
                 /\ q.pc \notin {"parse", "store"} /\ q.whole
  BY <1>3, <1>4
<1>9. lost' \in 0..MaxLost
  BY <1>4, <1>5
<1> QED
  BY <1>3, <1>5, <1>6, <1>7, <1>8, <1>9, RequestGoesOn

\* A retry that fails leaves the status that others may have given the item.
LEMMA FailStep ==
  ASSUME RetryInv, NEW r \in Requester, Fail(r)
  PROVE  RetryInv'
<1>1. /\ req[r] \in Request /\ req[r].item \in Item /\ req[r].pc = "parse"
      /\ unanswered \in [Subject -> Nat] /\ lost \in 0..MaxLost
      /\ items \in [Item -> ItemRow] /\ req \in [Requester -> Request]
  BY RetryAt DEF Fail
<1>2. PICK q :
        /\ \/ q = DoneWithItem(r)
           \/ q = [req[r] EXCEPT !.pc = "answer"]
        /\ req' = [req EXCEPT ![r] = q]
  BY DEF Fail
<1>3. /\ q \in Request /\ \A s \in Subject : Owes(q, s) => Owes(req[r], s)
      /\ Busy(q) => /\ q.mem = req[r].mem /\ Ahead(q) \subseteq Ahead(req[r])
                    /\ q.pc \notin {"parse", "store"} /\ (q.pc \in {"collect", "next"} => q.whole)
  <2>1. CASE q = DoneWithItem(r)
    BY <1>1, <2>1, DoneRequest
  <2>2. CASE q = [req[r] EXCEPT !.pc = "answer"]
    <3>1. /\ q \in Request /\ q.pc = "answer" /\ q.mem = req[r].mem
          /\ q.todo = req[r].todo /\ q.item = req[r].item /\ q.whole = req[r].whole
      BY <1>1, <2>2 DEF Request
    <3> QED
      BY <1>1, <3>1 DEF Owes, Busy, Ahead
  <2> QED
    BY <1>2, <2>1, <2>2
<1>4. PICK after \in AfterFailure(req[r].item) : items' = [items EXCEPT ![req[r].item] = after]
  BY DEF Fail
<1>5. /\ after \in ItemRow /\ after.status = items[req[r].item].status
      /\ after.version = items[req[r].item].version
  BY <1>1, <1>4 DEF AfterFailure, ItemRow
<1>6. \A i \in Item : items'[i].status = items[i].status /\ items'[i].version = items[i].version
  BY <1>1, <1>4, <1>5
<1>7. UNCHANGED <<counts, top, runType, expired, unanswered, retried, overlapped,
                  requests, lost>>
  BY DEF Fail
<1>8. /\ items' \in [Item -> ItemRow] /\ Failed' = Failed
  BY <1>1, <1>4, <1>5, <1>6 DEF Failed
<1>9. NewestVersionNamed'
  BY <1>6, <1>7 DEF NewestVersionNamed, RetryInv, ItemRetryTypeOK
<1>10. Busy(req[r]) /\ unanswered' \in [Subject -> Int]
  BY <1>1, <1>7 DEF Busy
<1> QED
  BY <1>1, <1>2, <1>3, <1>7, <1>8, <1>9, <1>10, RequestGoesOn

\* A retry that succeeds counts one down, from what covered the failures and
\* its own items: what is left covers the rest of both.
LEMMA StoreStep ==
  ASSUME RetryInv, NEW r \in Requester, Store(r)
  PROVE  RetryInv'
<1>1. PICK i \in Item : i = req[r].item
  BY RetryAt
<1>2. /\ req[r] \in Request /\ req \in [Requester -> Request] /\ req[r].mem \in Counts
      /\ req[r].todo \subseteq Item /\ req[r].next \in Nat /\ Failed \subseteq Item
      /\ items \in [Item -> ItemRow] /\ top \in [Item -> Nat]
      /\ unanswered \in [Subject -> Nat]
  BY RetryAt
<1>3. req[r].pc = "store" /\ Busy(req[r]) /\ Covers(req[r]) /\ i \notin req[r].todo
  BY <1>1 DEF Store, Busy, RetryInv, Covers
<1>4. PICK n \in Nat : n = req[r].next
  BY <1>2
<1>5. PICK c : c = Counted(req[r].mem)
  OBVIOUS
<1>6. PICK q : q = [req[r] EXCEPT !.pc = "answer", !.mem = c]
  OBVIOUS
<1>7. /\ top[i] < n /\ top' = [top EXCEPT ![i] = n]
      /\ items' = [items EXCEPT ![i] = [status |-> "success", version |-> n, error |-> FALSE]]
      /\ counts' = c /\ retried' = retried \cup {i}
      /\ UNCHANGED <<runType, expired, overlapped, unanswered, requests, lost>>
  <2>1. ~ (n <= top[i]) /\ top[i] \in Nat
    BY <1>1, <1>2, <1>4 DEF Store, Taken
  <2>2. top' = [top EXCEPT ![i] = IF top[i] < n THEN n ELSE top[i]]
    BY <1>1, <1>4 DEF Store
  <2>3. top[i] < n
    BY <2>1
  <2>4. items' = [items EXCEPT ![i] = [status |-> "success", version |-> n, error |-> FALSE]]
    BY <1>1, <1>4 DEF Store
  <2>5. counts' = c /\ retried' = retried \cup {i}
    BY <1>1, <1>5 DEF Store
  <2>6. UNCHANGED <<runType, expired, overlapped, unanswered, requests, lost>>
    BY DEF Store
  <2>7. top' = [top EXCEPT ![i] = n]
    BY <2>2, <2>3
  <2> QED
    BY <2>3, <2>4, <2>5, <2>6, <2>7
<1>8. \A x \in Item : /\ items'[x].status = IF x = i THEN "success" ELSE items[x].status
                      /\ items'[x].version = IF x = i THEN n ELSE items[x].version
                      /\ top'[x] = IF x = i THEN n ELSE top[x]
  BY <1>2, <1>7
<1>9. Failed' = Failed \ {i}
  BY <1>8 DEF Failed
<1> DEFINE todo == req[r].todo
<1>10. PICK S \in SUBSET Item : S = Failed \cup todo \cup {i}
  BY <1>2
<1>11. /\ Ahead(req[r]) = todo \cup {i} /\ Failed \cup Ahead(req[r]) = S
       /\ (Failed \ {i}) \cup todo = S \ {i}
  BY <1>1, <1>3, <1>10 DEF Ahead
<1>12. /\ Cardinality(S \ {i}) = Cardinality(S) - 1 /\ Cardinality(S) \in Nat
       /\ Cardinality(S \ {i}) \in Nat
  BY <1>10, ItemSets
<1>13. /\ req[r].mem.failure >= Cardinality(S) /\ AddsUp(req[r].mem)
       /\ req[r].mem.failure \in Nat /\ req[r].mem.success \in Nat
  BY <1>2, <1>3, <1>11 DEF Covers, Counts
<1>14. c = [failure |-> req[r].mem.failure - 1, success |-> req[r].mem.success + 1]
  BY <1>5, <1>12, <1>13 DEF Counted
<1>15. /\ c \in Counts /\ AddsUp(c) /\ c.failure \in Nat /\ c.failure >= Cardinality(S \ {i})
  BY <1>12, <1>13, <1>14, ItemSets DEF Counts, AddsUp
<1>16. /\ q \in Request /\ q.pc = "answer" /\ q.mem = c /\ q.todo = todo /\ q.item = i
       /\ q.whole = req[r].whole
  BY <1>1, <1>2, <1>6, <1>15 DEF Request
<1>17. req' = [req EXCEPT ![r] = q]
  BY <1>2, <1>5, <1>6, <1>7 DEF Store, Request
<1>18. \A x \in Requester : req'[x] = IF x = r THEN q ELSE req[x]
  BY <1>2, <1>17
<1>19. ItemRetryTypeOK'
  BY <1>2, <1>7, <1>15, <1>16, <1>17 DEF RetryInv, ItemRetryTypeOK, ItemRow
<1>20. AnswersOwed'
  <2>1. \A s \in Subject : Owes(q, s) => Owes(req[r], s)
    BY <1>1, <1>3, <1>16 DEF Owes, Busy
  <2> QED
    BY <1>7, <1>17, <2>1, OwedAfter
<1>21. AddsUp(counts)' /\ (counts.failure >= Cardinality(Failed))'
  <2>1. Cardinality(Failed \ {i}) <= Cardinality(S \ {i}) /\ Cardinality(Failed \ {i}) \in Nat
    <3>1. Failed \ {i} \subseteq S \ {i} /\ S \ {i} \in SUBSET Item /\ Failed \ {i} \in SUBSET Item
      BY <1>10
    <3> QED
      BY <3>1, ItemSets
  <2> QED
    BY <1>7, <1>9, <1>12, <1>15, <2>1 DEF AddsUp
<1>22. ASSUME NEW x \in Requester, Busy(req'[x]) PROVE Covers(req[x])'
  <2>1. CASE x = r
    <3>1. Ahead(q) = todo /\ req'[x] = q
      BY <1>16, <1>18, <2>1 DEF Ahead
    <3>2. q.mem.failure >= Cardinality(Failed' \cup Ahead(q))
      BY <1>9, <1>11, <1>15, <1>16, <3>1
    <3> QED
      BY <1>15, <1>16, <3>1, <3>2 DEF Covers, AddsUp, Ahead
  <2>2. CASE x # r
    <3>1. PICK p : p = req[x]
      OBVIOUS
    <3>2. Busy(p) /\ Covers(p) /\ req'[x] = p
      BY <1>18, <1>22, <2>2, <3>1 DEF RetryInv
    <3>3. p.todo \subseteq Item /\ p.item \in Item /\ p.mem.failure \in Nat
      BY <3>1, RetryAt DEF Counts
    <3>4. PICK B \in SUBSET Item : B = Failed \cup Ahead(p)
      BY <1>2, <3>3 DEF Ahead
    <3>5. PICK A \in SUBSET Item : A = (Failed \ {i}) \cup Ahead(p)
      BY <1>2, <3>3 DEF Ahead
    <3>6. Cardinality(A) <= Cardinality(B) /\ Cardinality(A) \in Nat /\ Cardinality(B) \in Nat
      <4>1. A \subseteq B
        BY <3>4, <3>5
      <4> QED
        BY <4>1, ItemSets
    <3>7. p.mem.failure >= Cardinality(B)
      BY <3>2, <3>4 DEF Covers
    <3>8. p.mem.failure >= Cardinality(A)
      BY <3>3, <3>6, <3>7
    <3>9. p.mem.failure >= Cardinality(Failed' \cup Ahead(p))
      BY <1>9, <3>5, <3>8
    <3> QED
      BY <3>2, <3>9 DEF Covers, AddsUp, Ahead
  <2> QED
    BY <2>1, <2>2
<1>23. AloneIsExact'
  <2> SUFFICES ASSUME ~ overlapped
               PROVE  /\ c.failure = Cardinality(Failed \ {i})
                      /\ \A x \in Requester : Busy(req'[x]) =>
                           /\ req'[x].mem = c /\ Ahead(req'[x]) \subseteq Failed \ {i}
                           /\ \A y \in Requester : Busy(req'[y]) => y = x
    BY <1>7, <1>9 DEF AloneIsExact, Busy, Ahead
  <2>1. /\ counts.failure = Cardinality(Failed) /\ req[r].mem = counts
        /\ Ahead(req[r]) \subseteq Failed /\ \A x \in Requester : Busy(req[x]) => x = r
    BY <1>3 DEF RetryInv, AloneIsExact
  <2>2. i \in Failed /\ todo \subseteq Failed \ {i}
    BY <1>3, <1>11, <2>1
  <2>3. Cardinality(Failed \ {i}) = Cardinality(Failed) - 1
    BY <1>2, <2>2, ItemSets
  <2>4. c.failure = Cardinality(Failed \ {i})
    BY <1>14, <2>1, <2>3
  <2>5. Ahead(q) = todo
    BY <1>16 DEF Ahead
  <2> QED
    BY <1>16, <1>18, <2>1, <2>2, <2>4, <2>5
<1>24. NewestVersionNamed'
  BY <1>7, <1>8 DEF NewestVersionNamed, RetryInv, ItemRetryTypeOK
<1> QED
  BY <1>19, <1>20, <1>21, <1>22, <1>23, <1>24 DEF RetryInv, Busy

\* Nothing but the age of the run changes.
LEMMA ExpireStep ==
  ASSUME RetryInv, Expire \/ UNCHANGED itemRetryVars
  PROVE  RetryInv'
<1>1. /\ UNCHANGED <<items, counts, top, runType, unanswered, retried, overlapped,
                     req, requests, lost>>
      /\ expired' \in BOOLEAN
  BY DEF Expire, itemRetryVars, RetryInv, ItemRetryTypeOK
<1>2. Failed' = Failed /\ NewestVersionNamed' /\ ItemRetryTypeOK'
  BY <1>1, ItemsAlone DEF RetryInv, ItemRetryTypeOK
<1>3. (\A r \in Requester : Busy(req[r]) => Covers(req[r]))'
  BY <1>1, <1>2 DEF RetryInv, Busy, Covers, Ahead, AddsUp
<1>4. AloneIsExact'
  BY <1>1, <1>2 DEF RetryInv, AloneIsExact, Busy, Ahead
<1>5. AnswersOwed'
  BY <1>1 DEF RetryInv, AnswersOwed, Open, Owes, Busy
<1> QED
  BY <1>1, <1>2, <1>3, <1>4, <1>5 DEF RetryInv, AddsUp

\* Every step keeps the invariant.
LEMMA RetryStep == RetryInv /\ [ItemRetryNext]_itemRetryVars => RetryInv'
<1> SUFFICES ASSUME RetryInv, [ItemRetryNext]_itemRetryVars PROVE RetryInv'
  OBVIOUS
<1>1. ASSUME NEW r \in Requester, Progress(r) PROVE RetryInv'
  BY <1>1, CollectStep, EndStep, FailStep, ReadStep, StoreStep, AnswerStep, NextStep
     DEF Progress
<1>2. ASSUME NEW r \in Requester, StartRun(r) \/ LoseRetry(r) PROVE RetryInv'
  BY <1>2, StartStep, EndStep
<1>3. ASSUME NEW r \in Requester, NEW i \in Item, StartItem(r, i) PROVE RetryInv'
  BY <1>3, StartStep
<1>4. CASE Expire \/ UNCHANGED itemRetryVars
  BY <1>4, ExpireStep
<1> QED
  BY <1>1, <1>2, <1>3, <1>4 DEF ItemRetryNext

\* At first the counters are exact and nothing is under way.
LEMMA RetryInit == ItemRetryInit => RetryInv
<1> SUFFICES ASSUME ItemRetryInit PROVE RetryInv
  OBVIOUS
<1>1. /\ Failed \in SUBSET Item /\ Succeeded = Item \ Failed
      /\ items \in [Item -> ItemRow] /\ \A r \in Requester : req[r] = Idle
  <2>1. Failed \in SUBSET Item /\ Succeeded = Item \ Failed
    BY DEF Failed, Succeeded
  <2>2. /\ [status |-> "failed", version |-> 0, error |-> TRUE] \in ItemRow
        /\ [status |-> "success", version |-> 0, error |-> FALSE] \in ItemRow
    BY DEF ItemRow
  <2>3. items \in [Item -> ItemRow]
    BY <2>2 DEF ItemRetryInit
  <2>4. \A r \in Requester : req[r] = Idle
    BY DEF ItemRetryInit
  <2> QED
    BY <2>1, <2>3, <2>4
<1>2. /\ Cardinality(Failed) \in Nat /\ Cardinality(Succeeded) \in Nat
      /\ IsFiniteSet(Item) /\ IsFiniteSet(Failed)
  BY <1>1, ItemSets, ItemRetryItems
<1>3. Cardinality(Failed) + Cardinality(Succeeded) = Cardinality(Item)
  <2>1. PICK F \in SUBSET Item : F = Failed
    BY <1>1
  <2>2. Item \cap F = F
    OBVIOUS
  <2>3. Cardinality(Item \ F) = Cardinality(Item) - Cardinality(F)
    BY <1>2, <2>2, FS_Difference
  <2>4. Cardinality(Item) \in Nat
    BY <1>2, FS_CardinalityType
  <2> QED
    BY <1>1, <1>2, <2>1, <2>3, <2>4
<1>4. ItemRetryTypeOK
  <2>1. req \in [Requester -> Request] /\ counts \in Counts
    BY <1>2, IdleRequest DEF ItemRetryInit, Counts
  <2>2. top \in [Item -> Nat] /\ unanswered \in [Subject -> Nat]
    BY DEF ItemRetryInit
  <2>3. requests \in 0..MaxRequests /\ lost \in 0..MaxLost /\ runType \in RunType
    BY ItemRetryBounds DEF ItemRetryInit
  <2>4. expired \in BOOLEAN /\ retried \subseteq Item /\ overlapped \in BOOLEAN
    BY DEF ItemRetryInit
  <2> QED
    BY <1>1, <2>1, <2>2, <2>3, <2>4 DEF ItemRetryTypeOK
<1>5. AddsUp(counts) /\ counts.failure = Cardinality(Failed)
  BY <1>3 DEF ItemRetryInit, AddsUp
<1>6. \A r \in Requester : ~ Busy(req[r])
  BY <1>1, IdleRequest
<1>7. AnswersOwed
  <2>1. \A s \in Subject : Open(s) = {} /\ unanswered[s] = 0
    BY <1>1, IdleRequest DEF Open, ItemRetryInit
  <2> QED
    BY <2>1, FS_EmptySet DEF AnswersOwed
<1>8. NewestVersionNamed
  BY DEF ItemRetryInit, NewestVersionNamed
<1> QED
  BY <1>2, <1>4, <1>5, <1>6, <1>7, <1>8 DEF RetryInv, AloneIsExact

-----------------------------------------------------------------------------
(* Theorems.                                                               *)

\* The rows, counters and requests keep their types; no retry_complete is
\* written without its retry_start, however many requests are broken off
\* (web_console.py:3257-3716).
THEOREM ItemRetryTypes == ItemRetrySpec => []ItemRetryTypeOK
<1>1. RetryInv => ItemRetryTypeOK
  BY DEF RetryInv
<1> QED
  BY <1>1, RetryInit, RetryStep, PTL DEF ItemRetrySpec

\* The counters of a run add up to its items and claim no fewer failures than
\* there are, however stale the counters that are written; they are exact as
\* long as retries come one at a time (web_console.py:3439-3440).
THEOREM FailuresAreNotHidden == ItemRetrySpec => []FailuresNotHidden
<1>1. RetryInv => FailuresNotHidden
  BY DEF RetryInv, FailuresNotHidden, AddsUp, AloneIsExact
<1> QED
  BY <1>1, RetryInit, RetryStep, PTL DEF ItemRetrySpec

\* An item that was retried names the newest version of its document, whichever
\* request read which version number (web_console.py:3425).
THEOREM RetriedNamesNewest == ItemRetrySpec => []NewestVersionNamed
<1>1. RetryInv => NewestVersionNamed
  BY DEF RetryInv
<1> QED
  BY <1>1, RetryInit, RetryStep, PTL DEF ItemRetrySpec

\* No retry that fails takes back the success of another
\* (web_console.py:3467).
THEOREM SuccessStays == ItemRetrySpec => SuccessIsKept
<1> DEFINE Stays == \A i \in Item : items[i].status = "success" => items'[i].status = "success"
<1>1. ASSUME RetryInv, [ItemRetryNext]_itemRetryVars PROVE [Stays]_itemRetryVars
  <2>1. items \in [Item -> ItemRow] /\ \A r \in Requester : req[r].item \in Item
    BY <1>1, RetryAt DEF RetryInv, ItemRetryTypeOK
  <2>2. CASE UNCHANGED items
    BY <2>2
  <2>3. ASSUME NEW r \in Requester, Fail(r) PROVE Stays
    BY <2>1, <2>3 DEF Fail, AfterFailure, ItemRow
  <2>4. ASSUME NEW r \in Requester, Store(r) PROVE Stays
    BY <2>1, <2>4 DEF Store, ItemRow
  <2> QED
    BY <1>1, <2>2, <2>3, <2>4
       DEF ItemRetryNext, Progress, itemRetryVars, StartRun, StartItem, Collect, CompleteRun,
           Read, Conflict, Answer, RetryNext, DenyNext, LoseRetry, Expire
<1> QED
  BY <1>1, RetryInit, RetryStep, PTL DEF ItemRetrySpec, SuccessIsKept

-----------------------------------------------------------------------------
(* Exports.                                                                *)

RowState == [status: {"none", "completed", "completed_with_failures", "failed"},
             success: Nat, failure: Nat]
ExportState ==
  [pc: {"idle", "check", "look", "put", "close", "planned", "done", "gone"},
   client: {"s3", "azure"}, overwrite: BOOLEAN, at: Artifacts, tries: 0..MaxTries,
   uploaded: Nat, skipped: Nat, failed: Nat, stated: RowState, unsure: SUBSET Artifacts]

ExportTypes ==
  /\ perRun \in BOOLEAN
  /\ export \in [Exporter -> ExportState] /\ runRow \in [Exporter -> RowState]
  /\ \A k \in DOMAIN bucket : bucket[k].by \in Exporter /\ k \in Keys(bucket[k].by)

\* The export is under way, or closed by itself.
Accounts(e) ==
  \/ export[e].pc \in {"look", "put", "close"}
  \/ export[e].pc = "done" /\ runRow[e].status # "failed"

\* The artifacts behind it, and those in the store of which it knows.
Behind(e) == {a \in Artifacts : export[e].pc \in {"look", "put"} => a < export[e].at}
Sure(e) == There(e) \ export[e].unsure

\* The row of a run is there when the run has ended, and says how it has.
RowsFit(e) ==
  /\ (runRow[e] # NoRow) <=> export[e].pc \in {"planned", "done"}
  /\ export[e].pc = "done" /\ runRow[e].status # "failed" => runRow[e] = Closed(e)
  /\ export[e].pc = "planned" => runRow[e].status = "completed"
  /\ export[e].pc \in {"idle", "check"} =>
       /\ export[e].uploaded = 0 /\ export[e].skipped = 0 /\ export[e].failed = 0
       /\ export[e].at = 1 /\ export[e].stated = NoRow /\ export[e].unsure = {}

\* Each artifact that is behind has been counted once, and is in the store if
\* nothing has failed.
SumOf(e) == export[e].uploaded + export[e].skipped + export[e].failed
SumsFit(e) ==
  /\ Accounts(e) => SumOf(e) = IF export[e].pc \in {"look", "put"} THEN export[e].at - 1 ELSE Planned
  /\ Accounts(e) /\ export[e].failed = 0 => Behind(e) \subseteq There(e)
  /\ SumOf(e) <= Planned

\* An export with a directory of its own finds nothing there but what it has
\* put; what it counts is there, and what is there it counts or is unsure of.
ObjectsFit(e) ==
  perRun =>
    /\ export[e].pc \in {"idle", "check"} => There(e) = {}
    /\ Accounts(e) =>
       /\ export[e].skipped = 0
       /\ \A a \in There(e) \ Behind(e) :
            export[e].pc = "put" /\ a = export[e].at /\ a \in export[e].unsure
       /\ Cardinality(Sure(e)) <= export[e].uploaded
       /\ export[e].uploaded <= Cardinality(There(e) \cap Behind(e))

\* pipeline_runs is the export's own.
Mine(e) == KeyOf(e, Planned) \in DOMAIN bucket /\ bucket[KeyOf(e, Planned)].by = e
StatementFits(e) ==
  /\ export[e].pc = "put" /\ IsLast(e) => export[e].stated = Projected(e, FALSE)
  /\ Mine(e) /\ Planned \notin export[e].unsure =>
       /\ export[e].pc \in {"close", "done", "gone"}
       /\ export[e].pc \in {"close", "done"} => bucket[KeyOf(e, Planned)].says = Closed(e)
       /\ export[e].pc = "done" => runRow[e] = Closed(e)

ExportInv ==
  /\ ExportTypes
  /\ \A e \in Exporter : RowsFit(e) /\ SumsFit(e) /\ ObjectsFit(e) /\ StatementFits(e)

-----------------------------------------------------------------------------

LEMMA PlanFacts ==
  /\ Planned \in Nat \ {0} /\ MaxTries \in Nat \ {0} /\ Artifacts \subseteq Nat
  /\ 1 \in Artifacts /\ Planned \in Artifacts /\ \A a \in Artifacts : 1 <= a /\ a <= Planned
  /\ IsFiniteSet(Artifacts)
BY ExportPlan, FS_Interval DEF Artifacts

\* Objects are named apart.
LEMMA KeysDiffer ==
  ASSUME perRun \in BOOLEAN, NEW e, NEW f, NEW a, NEW b, KeyOf(e, a) = KeyOf(f, b)
  PROVE  a = b /\ (perRun => e = f)
BY DEF KeyOf

LEMMA RowTypes ==
  /\ NoRow \in RowState
  /\ \A n, m \in Nat : Row("completed", n, m) \in RowState
  /\ \A n, m \in Nat, s \in {"completed", "completed_with_failures", "failed"} :
       Row(s, n, m) \in RowState /\ Row(s, n, m) # NoRow /\ Row(s, n, m).status = s
  /\ \A n : Outcome(n) \in {"completed", "completed_with_failures"}
  /\ \A n \in Nat : Outcome(n) = "completed" => n = 0
  /\ \A r \in RowState : [r EXCEPT !.status = "failed"] \in RowState
                         /\ [r EXCEPT !.status = "failed"].status = "failed"
                         /\ [r EXCEPT !.status = "failed"] # NoRow
<1>1. NoRow \in RowState
  BY DEF NoRow, Row, RowState
<1>2. \A n, m \in Nat, s \in {"completed", "completed_with_failures", "failed"} :
        Row(s, n, m) \in RowState /\ Row(s, n, m) # NoRow /\ Row(s, n, m).status = s
  BY DEF NoRow, Row, RowState
<1>3. \A n : Outcome(n) \in {"completed", "completed_with_failures"}
  BY DEF Outcome
<1>4. \A n \in Nat : Outcome(n) = "completed" => n = 0
  BY DEF Outcome
<1>5. ASSUME NEW r \in RowState
      PROVE  /\ [r EXCEPT !.status = "failed"] \in RowState
             /\ [r EXCEPT !.status = "failed"].status = "failed"
             /\ [r EXCEPT !.status = "failed"] # NoRow
  BY DEF NoRow, Row, RowState
<1> QED BY <1>1, <1>2, <1>3, <1>4, <1>5

LEMMA ExportStarts == ExportInit => ExportInv
<1> SUFFICES ASSUME ExportInit PROVE ExportInv
  OBVIOUS
<1>1. /\ perRun \in BOOLEAN /\ DOMAIN bucket = {}
      /\ runRow = [e \in Exporter |-> NoRow] /\ export = [e \in Exporter |-> Unstarted]
  BY DEF ExportInit
<1>2. Unstarted \in ExportState
  BY PlanFacts, RowTypes DEF Unstarted, ExportState
<1>3. ExportTypes
  BY <1>1, <1>2, RowTypes DEF ExportTypes
<1>4. ASSUME NEW e \in Exporter
      PROVE  RowsFit(e) /\ SumsFit(e) /\ ObjectsFit(e) /\ StatementFits(e)
  <2>1. export[e] = Unstarted /\ runRow[e] = NoRow /\ There(e) = {}
    BY <1>1, <1>4 DEF There
  <2>2. RowsFit(e)
    BY <2>1 DEF RowsFit, Unstarted
  <2>3. SumsFit(e)
    BY <2>1, PlanFacts DEF SumsFit, Accounts, SumOf, Unstarted
  <2>4. ObjectsFit(e)
    BY <2>1 DEF ObjectsFit, Accounts, Unstarted
  <2>5. StatementFits(e)
    BY <1>1, <2>1 DEF StatementFits, Mine, Unstarted
  <2> QED BY <2>2, <2>3, <2>4, <2>5
<1> QED BY <1>3, <1>4 DEF ExportInv

-----------------------------------------------------------------------------

\* What a put does to the bucket.
LEMMA StoredObjects ==
  ASSUME ExportTypes, NEW e \in Exporter, bucket' = Stored(e), UNCHANGED perRun
  PROVE  /\ DOMAIN bucket' = DOMAIN bucket \cup {Here(e)}
         /\ bucket'[Here(e)].by = e /\ bucket'[Here(e)].says = export[e].stated
         /\ \A k \in DOMAIN bucket : k # Here(e) => bucket'[k] = bucket[k]
         /\ \A k \in DOMAIN bucket' : bucket'[k].by \in Exporter /\ k \in Keys(bucket'[k].by)
         /\ There(e)' = There(e) \cup {export[e].at}
<1>1. bucket' = [k \in DOMAIN bucket \cup {Here(e)} |->
                   IF k = Here(e) THEN [by |-> e, says |-> export[e].stated] ELSE bucket[k]]
  BY DEF Stored
<1>2. /\ DOMAIN bucket' = DOMAIN bucket \cup {Here(e)}
      /\ bucket'[Here(e)].by = e /\ bucket'[Here(e)].says = export[e].stated
      /\ \A k \in DOMAIN bucket : k # Here(e) => bucket'[k] = bucket[k]
  BY <1>1
<1>3. export[e].at \in Artifacts /\ perRun \in BOOLEAN
  BY DEF ExportTypes, ExportState
<1>4. Here(e) \in Keys(e) /\ \A f : Keys(f)' = Keys(f)
  BY <1>3 DEF Here, Keys, KeyOf
<1>5. \A k \in DOMAIN bucket' : bucket'[k].by \in Exporter /\ k \in Keys(bucket'[k].by)
  BY <1>2, <1>4 DEF ExportTypes
<1>6. There(e)' = There(e) \cup {export[e].at}
  <2>1. \A a : KeyOf(e, a)' = KeyOf(e, a)
    BY DEF KeyOf
  <2>2. \A a \in Artifacts : KeyOf(e, a) = Here(e) <=> a = export[e].at
    BY <1>3, KeysDiffer DEF Here
  <2>3. There(e)' = {a \in Artifacts : KeyOf(e, a) \in DOMAIN bucket'}
    BY <2>1 DEF There
  <2> QED BY <1>2, <1>3, <2>2, <2>3 DEF There
<1> QED BY <1>2, <1>5, <1>6

\* What one export does leaves what is said of another as it is.
LEMMA OthersKeep ==
  ASSUME ExportInv, NEW e \in Exporter, NEW f \in Exporter, f # e,
         export'[f] = export[f], runRow'[f] = runRow[f],
         bucket' = bucket \/ bucket' = Stored(e), UNCHANGED perRun
  PROVE  RowsFit(f)' /\ SumsFit(f)' /\ ObjectsFit(f)' /\ StatementFits(f)'
<1>0. ExportTypes /\ RowsFit(f) /\ SumsFit(f) /\ ObjectsFit(f) /\ StatementFits(f)
  BY DEF ExportInv
<1>1. \A g, a : KeyOf(g, a)' = KeyOf(g, a)
  BY DEF KeyOf
<1>2. There(f) \subseteq There(f)' /\ (perRun => There(f)' = There(f))
  <2>1. CASE bucket' = bucket
    BY <1>1, <2>1 DEF There
  <2>2. CASE bucket' = Stored(e)
    <3>1. DOMAIN bucket' = DOMAIN bucket \cup {Here(e)}
      BY <1>0, <2>2, StoredObjects
    <3>2. perRun => \A a \in Artifacts : KeyOf(f, a) # Here(e)
      BY <1>0, KeysDiffer DEF Here, ExportTypes
    <3>3. There(f)' = {a \in Artifacts : KeyOf(f, a) \in DOMAIN bucket'}
      BY <1>1 DEF There
    <3> QED BY <3>1, <3>2, <3>3 DEF There
  <2> QED BY <2>1, <2>2
<1>3. Mine(f)' => Mine(f) /\ bucket'[KeyOf(f, Planned)] = bucket[KeyOf(f, Planned)]
  <2>1. CASE bucket' = bucket
    BY <1>1, <2>1 DEF Mine
  <2>2. CASE bucket' = Stored(e)
    <3>1. /\ DOMAIN bucket' = DOMAIN bucket \cup {Here(e)} /\ bucket'[Here(e)].by = e
          /\ \A k \in DOMAIN bucket : k # Here(e) => bucket'[k] = bucket[k]
      BY <1>0, <2>2, StoredObjects
    <3> QED BY <1>1, <3>1 DEF Mine
  <2> QED BY <2>1, <2>2
<1>4. Behind(f)' = Behind(f) /\ (Accounts(f)' <=> Accounts(f)) /\ Closed(f)' = Closed(f)
      /\ SumOf(f)' = SumOf(f)
  BY DEF Behind, Accounts, Closed, SumOf
<1>5. RowsFit(f)'
  BY <1>0, <1>4 DEF RowsFit
<1>6. SumsFit(f)'
  BY <1>0, <1>2, <1>4 DEF SumsFit
<1>7. ObjectsFit(f)'
  BY <1>0, <1>2, <1>4 DEF ObjectsFit, Sure
<1>8. StatementFits(f)'
  <2>1. Projected(f, FALSE)' = Projected(f, FALSE) /\ (IsLast(f)' <=> IsLast(f))
    BY DEF Projected, IsLast
  <2> QED BY <1>0, <1>1, <1>3, <1>4, <2>1 DEF StatementFits
<1> QED BY <1>5, <1>6, <1>7, <1>8

-----------------------------------------------------------------------------

\* A step of one export: what must be shown.
LEMMA ExportStep ==
  ASSUME ExportInv, NEW e \in Exporter, NEW x \in ExportState, NEW r \in RowState,
         export' = [export EXCEPT ![e] = x], runRow' = [runRow EXCEPT ![e] = r],
         bucket' = bucket \/ bucket' = Stored(e), UNCHANGED perRun,
         RowsFit(e)' /\ SumsFit(e)' /\ ObjectsFit(e)' /\ StatementFits(e)'
  PROVE  ExportInv'
<1>0. ExportTypes
  BY DEF ExportInv
<1>1. export' \in [Exporter -> ExportState] /\ runRow' \in [Exporter -> RowState]
      /\ \A f \in Exporter : f # e => export'[f] = export[f] /\ runRow'[f] = runRow[f]
  BY <1>0 DEF ExportTypes
<1>2. \A k \in DOMAIN bucket' : bucket'[k].by \in Exporter /\ k \in Keys(bucket'[k].by)
  <2>1. CASE bucket' = bucket
    BY <1>0, <2>1 DEF ExportTypes
  <2>2. CASE bucket' = Stored(e)
    BY <1>0, <2>2, StoredObjects
  <2> QED BY <2>1, <2>2
<1>3. ExportTypes'
  <2>1. \A k, f : k \in Keys(f) => \E a \in Artifacts :
          k = IF perRun THEN <<f, a>> ELSE <<a>>
    BY DEF Keys, KeyOf
  <2>2. \A k \in DOMAIN bucket' : \E a \in Artifacts :
          k = IF perRun' THEN <<bucket'[k].by, a>> ELSE <<a>>
    BY <1>2, <2>1
  <2>3. (\A k \in DOMAIN bucket : k \in Keys(bucket[k].by))'
    BY <2>2 DEF Keys, KeyOf
  <2> QED BY <1>0, <1>1, <1>2, <2>3 DEF ExportTypes
<1>4. ASSUME NEW f \in Exporter
      PROVE  RowsFit(f)' /\ SumsFit(f)' /\ ObjectsFit(f)' /\ StatementFits(f)'
  <2>1. CASE f = e
    BY <2>1
  <2>2. CASE f # e
    BY <1>1, <2>2, OthersKeep
  <2> QED BY <2>1, <2>2
<1> QED BY <1>3, <1>4 DEF ExportInv

\* What an export is, and what holds of it.
LEMMA ExportFacts ==
  ASSUME ExportInv, NEW e \in Exporter
  PROVE  /\ ExportTypes /\ perRun \in BOOLEAN /\ export[e] \in ExportState /\ runRow[e] \in RowState
         /\ export[e].at \in Artifacts /\ export[e].stated \in RowState
         /\ export[e].uploaded \in Nat /\ export[e].skipped \in Nat /\ export[e].failed \in Nat
         /\ RowsFit(e) /\ SumsFit(e) /\ ObjectsFit(e) /\ StatementFits(e)
<1>1. ExportTypes /\ RowsFit(e) /\ SumsFit(e) /\ ObjectsFit(e) /\ StatementFits(e)
  BY DEF ExportInv
<1>2. perRun \in BOOLEAN /\ export[e] \in ExportState /\ runRow[e] \in RowState
  BY <1>1 DEF ExportTypes
<1> QED BY <1>1, <1>2 DEF ExportState

\* The export ends with a run that has failed, or without one; nothing is
\* counted by then.
LEMMA EndsKeep ==
  ASSUME ExportInv, NEW e \in Exporter, NEW x \in ExportState, NEW r \in RowState,
         export[e].pc \in {"idle", "check", "look", "put", "close"},
         export' = [export EXCEPT ![e] = x], runRow' = [runRow EXCEPT ![e] = r],
         \/ x.pc = "done" /\ r.status = "failed" /\ r # NoRow /\ export[e].pc # "close"
         \/ x.pc = "gone" /\ r = NoRow,
         x.uploaded = export[e].uploaded, x.skipped = export[e].skipped,
         x.failed = export[e].failed,
         export[e].unsure \subseteq x.unsure,
         bucket' = bucket \/ (bucket' = Stored(e) /\ export[e].at \in x.unsure),
         UNCHANGED perRun
  PROVE  ExportInv'
<1>0. /\ ExportTypes /\ RowsFit(e) /\ SumsFit(e) /\ ObjectsFit(e) /\ StatementFits(e)
      /\ export[e].at \in Artifacts
  BY ExportFacts
<1>1. export'[e] = x /\ runRow'[e] = r
  BY <1>0 DEF ExportTypes
<1>2. ~ Accounts(e)'
  BY <1>1 DEF Accounts
<1>3. RowsFit(e)'
  BY <1>1 DEF RowsFit
<1>4. SumsFit(e)'
  <2>1. SumOf(e)' = SumOf(e)
    BY <1>1 DEF SumOf
  <2> QED BY <1>0, <1>2, <2>1 DEF SumsFit
<1>5. ObjectsFit(e)'
  BY <1>1, <1>2 DEF ObjectsFit
<1>6. StatementFits(e)'
  <2>1. ASSUME Mine(e)', Planned \notin x.unsure
        PROVE  Mine(e) /\ Planned \notin export[e].unsure
    <3>1. CASE bucket' = bucket
      BY <2>1, <3>1 DEF Mine, KeyOf
    <3>2. CASE bucket' = Stored(e) /\ export[e].at \in x.unsure
      <4>1. /\ DOMAIN bucket' = DOMAIN bucket \cup {Here(e)}
            /\ \A k \in DOMAIN bucket : k # Here(e) => bucket'[k] = bucket[k]
        BY <1>0, <3>2, StoredObjects
      <4>2. KeyOf(e, Planned) # Here(e) /\ KeyOf(e, Planned)' = KeyOf(e, Planned)
        <5>1. Planned # export[e].at
          BY <2>1, <3>2
        <5> QED BY <1>0, <5>1, KeysDiffer DEF Here, ExportTypes, KeyOf
      <4> QED BY <2>1, <4>1, <4>2 DEF Mine
    <3> QED BY <3>1, <3>2
  <2>2. x.pc = "done" => ~ (Mine(e)' /\ Planned \notin x.unsure)
    BY <1>0, <2>1 DEF StatementFits
  <2> QED BY <1>1, <2>2 DEF StatementFits
<1> QED BY <1>3, <1>4, <1>5, <1>6, ExportStep

\* One more artifact is behind the export, counted once.
LEMMA OnwardKeeps ==
  ASSUME ExportInv, NEW e \in Exporter, NEW x \in ExportState,
         export[e].pc \in {"look", "put"},
         export' = [export EXCEPT ![e] = x],
         x.pc = IF IsLast(e) THEN "close" ELSE "look",
         x.at = IF IsLast(e) THEN export[e].at ELSE export[e].at + 1,
         x.uploaded + x.skipped + x.failed = SumOf(e) + 1,
         x.failed = 0 => export[e].failed = 0 /\ export[e].at \in There(e)',
         bucket' = bucket \/ bucket' = Stored(e), UNCHANGED <<perRun, runRow>>,
         perRun => /\ x.skipped = 0
                   /\ Cardinality(There(e)' \ x.unsure) <= x.uploaded
                   /\ x.uploaded <= Cardinality(There(e)' \cap (Behind(e) \cup {export[e].at})),
         (Mine(e) /\ Planned \notin export[e].unsure)' =>
           IsLast(e) /\ bucket'[KeyOf(e, Planned)].says = Closed(e)'
  PROVE  ExportInv'
<1>0. /\ ExportTypes /\ RowsFit(e) /\ SumsFit(e) /\ ObjectsFit(e) /\ StatementFits(e)
      /\ export[e].at \in Artifacts /\ runRow[e] \in RowState
      /\ export[e].at \in 1..Planned /\ Planned \in Nat
  BY ExportFacts, PlanFacts DEF Artifacts
<1>1. export'[e] = x /\ runRow' = [runRow EXCEPT ![e] = runRow[e]] /\ runRow'[e] = runRow[e]
  BY <1>0 DEF ExportTypes
<1>2. Behind(e)' = Behind(e) \cup {export[e].at}
  <2>1. Behind(e) = {a \in Artifacts : a < export[e].at}
    BY DEF Behind
  <2>2. CASE IsLast(e)
    <3>1. Behind(e)' = Artifacts
      BY <1>1, <2>2 DEF Behind
    <3>2. \A a \in Artifacts : a < export[e].at \/ a = export[e].at
      <4>1. export[e].at = Planned
        BY <2>2 DEF IsLast
      <4>2. ASSUME NEW a \in Artifacts PROVE a < Planned \/ a = Planned
        <5>1. a \in Nat /\ Planned \in Nat /\ a <= Planned
          BY PlanFacts
        <5> QED BY <5>1
      <4> QED BY <4>1, <4>2
    <3> QED BY <1>0, <2>1, <3>1, <3>2
  <2>3. CASE ~ IsLast(e)
    <3>1. Behind(e)' = {a \in Artifacts : a < export[e].at + 1}
      BY <1>1, <2>3 DEF Behind
    <3>2. \A a \in Artifacts : a < export[e].at + 1 <=> a < export[e].at \/ a = export[e].at
      BY <1>0, PlanFacts
    <3> QED BY <1>0, <2>1, <3>1, <3>2
  <2> QED BY <2>2, <2>3
<1>3. Accounts(e)
  BY DEF Accounts
<1>4. There(e) \subseteq There(e)' /\ There(e)' \subseteq There(e) \cup {export[e].at}
  <2>1. CASE bucket' = bucket
    BY <2>1 DEF There, KeyOf
  <2>2. CASE bucket' = Stored(e)
    BY <1>0, <2>2, StoredObjects
  <2> QED BY <2>1, <2>2
<1>5. RowsFit(e)'
  BY <1>0, <1>1 DEF RowsFit
<1>6. SumsFit(e)'
  <2>1. SumOf(e)' = SumOf(e) + 1
    BY <1>1 DEF SumOf
  <2>2. SumOf(e) = export[e].at - 1
    BY <1>0, <1>3 DEF SumsFit
  <2>3. SumOf(e)' = export[e].at
    BY <1>0, <2>1, <2>2
  <2>4. SumOf(e)' = (IF x.pc \in {"look", "put"} THEN x.at - 1 ELSE Planned) /\ SumOf(e)' <= Planned
    BY <1>0, <2>3 DEF IsLast
  <2>5. x.failed = 0 => Behind(e)' \subseteq There(e)'
    BY <1>0, <1>2, <1>3, <1>4 DEF SumsFit
  <2> QED BY <1>1, <2>4, <2>5 DEF SumsFit
<1>7. ObjectsFit(e)'
  <2> SUFFICES ASSUME perRun' PROVE ObjectsFit(e)'
    BY DEF ObjectsFit
  <2>1. perRun
    OBVIOUS
  <2>2. There(e) \subseteq Behind(e) \cup {export[e].at}
    BY <1>0, <1>3, <2>1 DEF ObjectsFit
  <2>3. There(e)' \ Behind(e)' = {}
    BY <1>2, <1>4, <2>2
  <2>4. Sure(e)' = There(e)' \ x.unsure
    BY <1>1 DEF Sure
  <2> QED BY <1>1, <1>2, <2>1, <2>3, <2>4 DEF ObjectsFit
<1>8. StatementFits(e)'
  <2>1. (Mine(e) /\ Planned \notin export[e].unsure)' =>
          x.pc = "close" /\ bucket'[KeyOf(e, Planned)].says = Closed(e)'
    OBVIOUS
  <2>2. KeyOf(e, Planned)' = KeyOf(e, Planned)
    BY DEF KeyOf
  <2>3. x.pc # "put" /\ x.pc # "done"
    OBVIOUS
  <2> QED BY <1>1, <2>1, <2>2, <2>3 DEF StatementFits
<1> QED BY <1>0, <1>1, <1>5, <1>6, <1>7, <1>8, ExportStep

\* The counts of an export in its directory, after one more artifact.
LEMMA CountsFinite ==
  ASSUME NEW e
  PROVE  /\ IsFiniteSet(There(e)) /\ IsFiniteSet(There(e) \cap Behind(e)) /\ IsFiniteSet(Sure(e))
BY PlanFacts, FS_Subset DEF There, Sure

-----------------------------------------------------------------------------

\* While the bucket stays as it is.
LEMMA SameObjects ==
  ASSUME UNCHANGED <<perRun, bucket>>, NEW e
  PROVE  There(e)' = There(e) /\ (Mine(e)' <=> Mine(e)) /\ KeyOf(e, Planned)' = KeyOf(e, Planned)
BY DEF There, Mine, KeyOf

\* A put that may have taken effect is no statement of the export's.
LEMMA UnsureIsNotMine ==
  ASSUME ExportTypes, NEW e \in Exporter, NEW U, export[e].unsure \subseteq U,
         bucket' = bucket \/ (bucket' = Stored(e) /\ export[e].at \in U), UNCHANGED perRun,
         Mine(e)', Planned \notin U
  PROVE  Mine(e) /\ Planned \notin export[e].unsure
<1>1. CASE bucket' = bucket
  BY <1>1 DEF Mine, KeyOf
<1>2. CASE bucket' = Stored(e) /\ export[e].at \in U
  <2>1. /\ DOMAIN bucket' = DOMAIN bucket \cup {Here(e)}
        /\ \A k \in DOMAIN bucket : k # Here(e) => bucket'[k] = bucket[k]
    BY <1>2, StoredObjects
  <2>2. KeyOf(e, Planned) # Here(e) /\ KeyOf(e, Planned)' = KeyOf(e, Planned)
    <3>1. Planned # export[e].at
      BY <1>2
    <3> QED BY <3>1, KeysDiffer DEF Here, ExportTypes, KeyOf
  <2> QED BY <2>1, <2>2 DEF Mine
<1> QED BY <1>1, <1>2

\* On with the next artifact.
LEMMA OnwardIs ==
  ASSUME NEW r \in ExportState
  PROVE  /\ Onward(r) \in ExportState
         /\ Onward(r).pc = IF r.at = Planned THEN "close" ELSE "look"
         /\ Onward(r).at = IF r.at = Planned THEN r.at ELSE r.at + 1
         /\ Onward(r).uploaded = r.uploaded /\ Onward(r).skipped = r.skipped
         /\ Onward(r).failed = r.failed /\ Onward(r).unsure = r.unsure
<1>1. r.at \in Artifacts /\ r.at \in Nat /\ r.at <= Planned /\ Planned \in Nat /\ 1 <= r.at
  BY PlanFacts DEF ExportState
<1>2. (IF r.at = Planned THEN r.at ELSE r.at + 1) \in Artifacts
  BY <1>1 DEF Artifacts
<1>3. 0 \in 0..MaxTries
  BY PlanFacts
<1> QED BY <1>2, <1>3 DEF Onward, ExportState

\* What pipeline_runs says of a run is a row.
LEMMA StatedIsRow ==
  ASSUME ExportInv, NEW e \in Exporter, NEW skipping \in BOOLEAN
  PROVE  StatedAt(e, skipping) \in RowState
<1>1. export[e].stated \in RowState /\ export[e].uploaded \in Nat /\ export[e].failed \in Nat
  BY ExportFacts
<1>2. \A n \in {0, 1} : export[e].uploaded + n \in Nat
  BY <1>1
<1>3. Projected(e, skipping) \in RowState
  <2>1. Outcome(export[e].failed) \in {"completed", "completed_with_failures", "failed"}
    BY RowTypes
  <2> QED BY <1>1, <1>2, <2>1, RowTypes DEF Projected
<1> QED BY <1>1, <1>3 DEF StatedAt

LEMMA FailExportKeeps ==
  ASSUME ExportInv, NEW e \in Exporter, FailExport(e),
         export[e].pc \in {"idle", "check", "look"}, UNCHANGED <<perRun, bucket>>
  PROVE  ExportInv'
<1>0. export[e] \in ExportState /\ export[e].stated \in RowState
  BY ExportFacts
<1>1. PICK x : x = [export[e] EXCEPT !.pc = "done"]
  OBVIOUS
<1>2. PICK r : r = [export[e].stated EXCEPT !.status = "failed"]
  OBVIOUS
<1>3. x \in ExportState /\ x.pc = "done" /\ x.uploaded = export[e].uploaded
      /\ x.skipped = export[e].skipped /\ x.failed = export[e].failed
      /\ x.unsure = export[e].unsure
  BY <1>0, <1>1 DEF ExportState
<1>4. r \in RowState /\ r.status = "failed" /\ r # NoRow
  BY <1>0, <1>2, RowTypes
<1>5. export' = [export EXCEPT ![e] = x] /\ runRow' = [runRow EXCEPT ![e] = r]
  BY <1>1, <1>2 DEF FailExport, To
<1> QED BY <1>3, <1>4, <1>5, EndsKeep

LEMMA EscapeKeeps ==
  ASSUME ExportInv, NEW e \in Exporter, Escape(e),
         export[e].pc \in {"check", "look", "put", "close"}, UNCHANGED <<perRun, bucket>>
  PROVE  ExportInv'
<1>0. export[e] \in ExportState /\ runRow[e] \in RowState /\ RowsFit(e) /\ ExportTypes
  BY ExportFacts
<1>1. PICK x : x = [export[e] EXCEPT !.pc = "gone"]
  OBVIOUS
<1>2. x \in ExportState /\ x.pc = "gone" /\ x.uploaded = export[e].uploaded
      /\ x.skipped = export[e].skipped /\ x.failed = export[e].failed
      /\ x.unsure = export[e].unsure
  BY <1>0, <1>1 DEF ExportState
<1>3. runRow[e] = NoRow
  BY <1>0 DEF RowsFit
<1>4. PICK r : r = NoRow
  OBVIOUS
<1>5. export' = [export EXCEPT ![e] = x] /\ runRow' = [runRow EXCEPT ![e] = r]
  <2>1. export' = [export EXCEPT ![e] = x] /\ runRow' = runRow
    BY <1>1 DEF Escape, To
  <2>2. runRow = [runRow EXCEPT ![e] = runRow[e]]
    BY <1>0 DEF ExportTypes
  <2> QED BY <1>3, <1>4, <2>1, <2>2
<1>6. r \in RowState
  BY <1>4, RowTypes
<1> QED BY <1>2, <1>4, <1>5, <1>6, EndsKeep

LEMMA PutFailsKeeps ==
  ASSUME ExportInv, NEW e \in Exporter, NEW applied \in BOOLEAN, PutFails(e, applied)
  PROVE  ExportInv'
<1>0. export[e] \in ExportState /\ export[e].stated \in RowState /\ export[e].at \in Artifacts
  BY ExportFacts
<1>1. PICK x : x = [export[e] EXCEPT !.pc = "done", !.unsure =
                      export[e].unsure \cup (IF applied THEN {export[e].at} ELSE {})]
  OBVIOUS
<1>2. PICK r : r = [export[e].stated EXCEPT !.status = "failed"]
  OBVIOUS
<1>3. x \in ExportState /\ x.pc = "done" /\ x.uploaded = export[e].uploaded
      /\ x.skipped = export[e].skipped /\ x.failed = export[e].failed
      /\ x.unsure = export[e].unsure \cup (IF applied THEN {export[e].at} ELSE {})
  BY <1>0, <1>1 DEF ExportState
<1>4. r \in RowState /\ r.status = "failed" /\ r # NoRow
  BY <1>0, <1>2, RowTypes
<1>5. export' = [export EXCEPT ![e] = x] /\ runRow' = [runRow EXCEPT ![e] = r]
  BY <1>1, <1>2 DEF PutFails
<1>6. bucket' = bucket \/ (bucket' = Stored(e) /\ export[e].at \in x.unsure)
  BY <1>3 DEF PutFails
<1>7. export[e].pc = "put" /\ UNCHANGED perRun /\ export[e].unsure \subseteq x.unsure
  BY <1>3 DEF PutFails
<1> QED BY <1>3, <1>4, <1>5, <1>6, <1>7, EndsKeep

-----------------------------------------------------------------------------

LEMMA BeginExportKeeps ==
  ASSUME ExportInv, NEW e \in Exporter, NEW c \in {"s3", "azure"}, NEW overwrite \in BOOLEAN,
         BeginExport(e, c, overwrite)
  PROVE  ExportInv'
<1>0. /\ ExportTypes /\ export[e] \in ExportState /\ runRow[e] \in RowState
      /\ RowsFit(e) /\ SumsFit(e) /\ ObjectsFit(e) /\ StatementFits(e)
  BY ExportFacts
<1>1. PICK x : x = [export[e] EXCEPT !.pc = "check", !.client = c, !.overwrite = overwrite]
  OBVIOUS
<1>2. x \in ExportState /\ x.pc = "check" /\ x.uploaded = export[e].uploaded
      /\ x.skipped = export[e].skipped /\ x.failed = export[e].failed /\ x.at = export[e].at
      /\ x.unsure = export[e].unsure /\ x.stated = export[e].stated
  BY <1>0, <1>1 DEF ExportState
<1>3. export' = [export EXCEPT ![e] = x] /\ runRow' = [runRow EXCEPT ![e] = runRow[e]]
      /\ UNCHANGED <<perRun, bucket>> /\ export[e].pc = "idle"
  BY <1>0, <1>1 DEF BeginExport, ExportTypes
<1>4. export'[e] = x /\ runRow'[e] = runRow[e]
  BY <1>0, <1>3 DEF ExportTypes
<1>5. There(e)' = There(e) /\ (Mine(e)' <=> Mine(e))
  BY <1>3, SameObjects
<1>6. RowsFit(e)'
  BY <1>0, <1>2, <1>3, <1>4 DEF RowsFit
<1>7. SumsFit(e)'
  BY <1>0, <1>2, <1>4 DEF SumsFit, Accounts, SumOf
<1>8. ObjectsFit(e)'
  BY <1>0, <1>2, <1>3, <1>4, <1>5 DEF ObjectsFit, Accounts
<1>9. StatementFits(e)'
  BY <1>0, <1>2, <1>3, <1>4, <1>5 DEF StatementFits
<1> QED BY <1>0, <1>2, <1>3, <1>6, <1>7, <1>8, <1>9, ExportStep

LEMMA DryRunKeeps ==
  ASSUME ExportInv, NEW e \in Exporter, DryRun(e)
  PROVE  ExportInv'
<1>0. /\ ExportTypes /\ export[e] \in ExportState
      /\ RowsFit(e) /\ SumsFit(e) /\ ObjectsFit(e) /\ StatementFits(e)
  BY ExportFacts
<1>1. PICK x : x = [export[e] EXCEPT !.pc = "planned"]
  OBVIOUS
<1>2. x \in ExportState /\ x.pc = "planned" /\ x.uploaded = export[e].uploaded
      /\ x.skipped = export[e].skipped /\ x.failed = export[e].failed
      /\ x.unsure = export[e].unsure
  BY <1>0, <1>1 DEF ExportState
<1>3. PICK r : r = Row("completed", 0, 0)
  OBVIOUS
<1>4. r \in RowState /\ r # NoRow /\ r.status = "completed"
  BY <1>3, RowTypes
<1>5. export' = [export EXCEPT ![e] = x] /\ runRow' = [runRow EXCEPT ![e] = r]
      /\ UNCHANGED <<perRun, bucket>> /\ export[e].pc = "idle"
  BY <1>1, <1>3 DEF DryRun, To
<1>6. export'[e] = x /\ runRow'[e] = r
  BY <1>0, <1>5 DEF ExportTypes
<1>7. RowsFit(e)'
  BY <1>2, <1>4, <1>6 DEF RowsFit
<1>8. SumsFit(e)'
  BY <1>0, <1>2, <1>6 DEF SumsFit, Accounts, SumOf
<1>9. ObjectsFit(e)'
  BY <1>2, <1>6 DEF ObjectsFit, Accounts
<1>10. StatementFits(e)'
  <2>1. Mine(e)' <=> Mine(e)
    BY <1>5, SameObjects
  <2> QED BY <1>0, <1>2, <1>5, <1>6, <2>1 DEF StatementFits
<1> QED BY <1>2, <1>4, <1>5, <1>7, <1>8, <1>9, <1>10, ExportStep

LEMMA CheckBucketKeeps ==
  ASSUME ExportInv, NEW e \in Exporter, CheckBucket(e)
  PROVE  ExportInv'
<1>0. /\ ExportTypes /\ export[e] \in ExportState /\ runRow[e] \in RowState
      /\ RowsFit(e) /\ SumsFit(e) /\ ObjectsFit(e) /\ StatementFits(e)
  BY ExportFacts
<1>1. export[e].pc = "check" /\ UNCHANGED <<perRun, bucket>>
  BY DEF CheckBucket
<1>2. CASE To(e, "look") /\ UNCHANGED runRow
  <2>1. PICK x : x = [export[e] EXCEPT !.pc = "look"]
    OBVIOUS
  <2>2. x \in ExportState /\ x.pc = "look" /\ x.uploaded = export[e].uploaded
        /\ x.skipped = export[e].skipped /\ x.failed = export[e].failed /\ x.at = export[e].at
        /\ x.unsure = export[e].unsure
    BY <1>0, <2>1 DEF ExportState
  <2>3. export' = [export EXCEPT ![e] = x] /\ runRow' = [runRow EXCEPT ![e] = runRow[e]]
    BY <1>0, <1>2, <2>1 DEF To, ExportTypes
  <2>4. export'[e] = x /\ runRow'[e] = runRow[e]
    BY <1>0, <2>3 DEF ExportTypes
  <2>5. There(e)' = There(e) /\ (Mine(e)' <=> Mine(e))
    BY <1>1, SameObjects
  <2>6. export[e].uploaded = 0 /\ export[e].skipped = 0 /\ export[e].failed = 0
        /\ export[e].at = 1 /\ export[e].unsure = {}
    BY <1>0, <1>1 DEF RowsFit
  <2>7. Behind(e)' = {}
    <3>1. Behind(e)' = {a \in Artifacts : a < 1}
      BY <2>2, <2>4, <2>6 DEF Behind
    <3>2. \A a \in Artifacts : ~ (a < 1)
      <4>1. ASSUME NEW a \in Artifacts PROVE ~ (a < 1)
        <5>1. a \in Nat /\ 1 <= a
          BY PlanFacts
        <5> QED BY <5>1
      <4> QED BY <4>1
    <3> QED BY <3>1, <3>2
  <2>8. RowsFit(e)'
    BY <1>0, <1>1, <2>2, <2>4 DEF RowsFit
  <2>9. SumsFit(e)'
    BY <2>2, <2>4, <2>6, <2>7, PlanFacts DEF SumsFit, Accounts, SumOf
  <2>10. ObjectsFit(e)'
    <3> SUFFICES ASSUME perRun PROVE ObjectsFit(e)'
      BY <1>1 DEF ObjectsFit
    <3>1. There(e)' = {} /\ Sure(e)' = {} /\ There(e)' \cap Behind(e)' = {}
      BY <1>0, <1>1, <2>5 DEF ObjectsFit, Sure
    <3>2. Cardinality({}) = 0
      BY FS_EmptySet
    <3> QED BY <2>2, <2>4, <2>6, <3>1, <3>2 DEF ObjectsFit
  <2>11. StatementFits(e)'
    BY <1>0, <1>1, <2>2, <2>4, <2>5 DEF StatementFits
  <2> QED BY <1>0, <1>1, <2>2, <2>3, <2>8, <2>9, <2>10, <2>11, ExportStep
<1>3. CASE FailExport(e)
  BY <1>1, <1>3, FailExportKeeps
<1>4. CASE Escape(e)
  BY <1>1, <1>4, EscapeKeeps
<1> QED BY <1>2, <1>3, <1>4 DEF CheckBucket

-----------------------------------------------------------------------------

\* An export with a directory of its own skips nothing.
LEMMA SkipExistingKeeps ==
  ASSUME ExportInv, NEW e \in Exporter, SkipExisting(e)
  PROVE  ExportInv'
<1>0. /\ ExportTypes /\ perRun \in BOOLEAN /\ export[e] \in ExportState
      /\ export[e].at \in Artifacts /\ export[e].at \in Nat
      /\ export[e].uploaded \in Nat /\ export[e].skipped \in Nat /\ export[e].failed \in Nat
      /\ ObjectsFit(e) /\ StatementFits(e)
  BY ExportFacts, PlanFacts
<1>1. export[e].pc = "look" /\ Here(e) \in DOMAIN bucket /\ UNCHANGED <<perRun, bucket, runRow>>
  BY DEF SkipExisting
<1>2. PICK y : y = Onward(export[e])
  OBVIOUS
<1>3. PICK st : st = StatedAt(e, TRUE)
  OBVIOUS
<1>4. PICK x : x = [y EXCEPT !.skipped = y.skipped + 1, !.stated = st]
  OBVIOUS
<1>5. y \in ExportState /\ y.uploaded = export[e].uploaded /\ y.skipped = export[e].skipped
      /\ y.failed = export[e].failed /\ y.unsure = export[e].unsure
      /\ y.pc = (IF IsLast(e) THEN "close" ELSE "look")
      /\ y.at = (IF IsLast(e) THEN export[e].at ELSE export[e].at + 1)
  BY <1>0, <1>2, OnwardIs DEF IsLast
<1>6. st \in RowState
  BY <1>3, StatedIsRow
<1>7. y.skipped + 1 \in Nat
  BY <1>0, <1>5
<1>8. x \in ExportState /\ x.uploaded = y.uploaded /\ x.skipped = y.skipped + 1
      /\ x.failed = y.failed /\ x.unsure = y.unsure /\ x.pc = y.pc /\ x.at = y.at
  BY <1>4, <1>5, <1>6, <1>7 DEF ExportState
<1>9. export' = [export EXCEPT ![e] = x]
  BY <1>2, <1>3, <1>4, <1>5 DEF SkipExisting
<1>10. export'[e] = x
  BY <1>0, <1>9 DEF ExportTypes
<1>11. There(e)' = There(e) /\ (Mine(e)' <=> Mine(e)) /\ export[e].at \in There(e)
  <2>1. There(e)' = There(e) /\ (Mine(e)' <=> Mine(e))
    BY <1>1, SameObjects
  <2>2. export[e].at \in There(e)
    BY <1>0, <1>1 DEF There, Here
  <2> QED BY <2>1, <2>2
<1>12. ~ perRun
  <2>1. ~ (export[e].at < export[e].at)
    BY <1>0
  <2>2. export[e].at \notin Behind(e)
    BY <1>1, <2>1 DEF Behind
  <2> QED BY <1>1, <1>11, <2>2, <1>0 DEF ObjectsFit, Accounts
<1>13. ~ (Mine(e) /\ Planned \notin export[e].unsure)'
  BY <1>0, <1>1, <1>5, <1>8, <1>10, <1>11 DEF StatementFits
<1>14. x.uploaded + x.skipped + x.failed = SumOf(e) + 1
  BY <1>0, <1>5, <1>8 DEF SumOf
<1> QED BY <1>1, <1>5, <1>8, <1>9, <1>11, <1>12, <1>13, <1>14, OnwardKeeps

LEMMA MissingKeeps ==
  ASSUME ExportInv, NEW e \in Exporter, Missing(e)
  PROVE  ExportInv'
<1>0. /\ ExportTypes /\ export[e] \in ExportState /\ runRow[e] \in RowState
      /\ RowsFit(e) /\ SumsFit(e) /\ ObjectsFit(e) /\ StatementFits(e)
  BY ExportFacts
<1>1. export[e].pc = "look" /\ UNCHANGED <<perRun, bucket, runRow>>
  BY DEF Missing
<1>2. PICK st : st = StatedAt(e, FALSE)
  OBVIOUS
<1>3. st \in RowState
  BY <1>2, StatedIsRow
<1>4. PICK x : x = [export[e] EXCEPT !.pc = "put", !.stated = st]
  OBVIOUS
<1>5. x \in ExportState /\ x.pc = "put" /\ x.uploaded = export[e].uploaded
      /\ x.skipped = export[e].skipped /\ x.failed = export[e].failed /\ x.at = export[e].at
      /\ x.unsure = export[e].unsure /\ x.stated = st
  BY <1>0, <1>3, <1>4 DEF ExportState
<1>6. export' = [export EXCEPT ![e] = x]
  BY <1>2, <1>4 DEF Missing
<1>7. runRow' = [runRow EXCEPT ![e] = runRow[e]]
  BY <1>0, <1>1 DEF ExportTypes
<1>8. export'[e] = x /\ runRow'[e] = runRow[e]
  BY <1>0, <1>1, <1>6 DEF ExportTypes
<1>9. There(e)' = There(e) /\ (Mine(e)' <=> Mine(e))
  BY <1>1, SameObjects
<1>10. Behind(e)' = Behind(e) /\ SumOf(e)' = SumOf(e) /\ Accounts(e) /\ Accounts(e)'
       /\ Sure(e)' = Sure(e)
  <2>1. Behind(e)' = Behind(e)
    BY <1>1, <1>5, <1>8 DEF Behind
  <2>2. SumOf(e)' = SumOf(e)
    BY <1>5, <1>8 DEF SumOf
  <2>3. Accounts(e) /\ Accounts(e)'
    BY <1>1, <1>5, <1>8 DEF Accounts
  <2>4. Sure(e)' = Sure(e)
    BY <1>5, <1>8, <1>9 DEF Sure
  <2> QED BY <2>1, <2>2, <2>3, <2>4
<1>11. RowsFit(e)'
  BY <1>0, <1>1, <1>5, <1>8 DEF RowsFit
<1>12. SumsFit(e)'
  BY <1>0, <1>1, <1>5, <1>8, <1>9, <1>10 DEF SumsFit
<1>13. ObjectsFit(e)'
  <2> SUFFICES ASSUME perRun PROVE ObjectsFit(e)'
    BY <1>1 DEF ObjectsFit
  <2>1. There(e) \ Behind(e) = {}
    BY <1>0, <1>1, <1>10 DEF ObjectsFit
  <2>2. export[e].skipped = 0 /\ Cardinality(Sure(e)) <= export[e].uploaded
        /\ export[e].uploaded <= Cardinality(There(e) \cap Behind(e))
    BY <1>0, <1>10 DEF ObjectsFit
  <2> QED BY <1>5, <1>8, <1>9, <1>10, <2>1, <2>2 DEF ObjectsFit
<1>14. StatementFits(e)'
  <2>1. IsLast(e)' => st = Projected(e, FALSE)
    BY <1>2, <1>5, <1>8 DEF IsLast, StatedAt
  <2>2. Projected(e, FALSE)' = Projected(e, FALSE)
    BY <1>5, <1>8 DEF Projected
  <2>3. ~ (Mine(e) /\ Planned \notin export[e].unsure)'
    BY <1>0, <1>1, <1>5, <1>8, <1>9 DEF StatementFits
  <2> QED BY <1>5, <1>8, <2>1, <2>2, <2>3 DEF StatementFits
<1> QED BY <1>0, <1>1, <1>5, <1>6, <1>7, <1>11, <1>12, <1>13, <1>14, ExportStep

LEMMA LookFailsKeeps ==
  ASSUME ExportInv, NEW e \in Exporter, LookFails(e)
  PROVE  ExportInv'
<1>0. /\ ExportTypes /\ export[e] \in ExportState
      /\ export[e].at \in Artifacts /\ export[e].at \in Nat
      /\ export[e].uploaded \in Nat /\ export[e].skipped \in Nat /\ export[e].failed \in Nat
      /\ ObjectsFit(e) /\ StatementFits(e)
  BY ExportFacts, PlanFacts
<1>1. export[e].pc = "look" /\ UNCHANGED <<perRun, bucket>>
  BY DEF LookFails
<1>2. CASE /\ ~ IsLast(e) /\ UNCHANGED runRow
           /\ export' = [export EXCEPT ![e] = [Onward(export[e]) EXCEPT
                           !.failed = export[e].failed + 1]]
  <2>1. PICK y : y = Onward(export[e])
    OBVIOUS
  <2>2. PICK x : x = [y EXCEPT !.failed = y.failed + 1]
    OBVIOUS
  <2>3. y \in ExportState /\ y.uploaded = export[e].uploaded /\ y.skipped = export[e].skipped
        /\ y.failed = export[e].failed /\ y.unsure = export[e].unsure
        /\ y.pc = (IF IsLast(e) THEN "close" ELSE "look")
        /\ y.at = (IF IsLast(e) THEN export[e].at ELSE export[e].at + 1)
    BY <1>0, <2>1, OnwardIs DEF IsLast
  <2>4. y.failed + 1 \in Nat
    BY <1>0, <2>3
  <2>5. x \in ExportState /\ x.uploaded = y.uploaded /\ x.skipped = y.skipped
        /\ x.failed = y.failed + 1 /\ x.unsure = y.unsure /\ x.pc = y.pc /\ x.at = y.at
    BY <2>2, <2>3, <2>4 DEF ExportState
  <2>6. export' = [export EXCEPT ![e] = x]
    BY <1>2, <2>1, <2>2, <2>3
  <2>7. export'[e] = x
    BY <1>0, <2>6 DEF ExportTypes
  <2>8. There(e)' = There(e) /\ (Mine(e)' <=> Mine(e))
    BY <1>1, SameObjects
  <2>9. perRun => /\ x.skipped = 0
                  /\ Cardinality(There(e)' \ x.unsure) <= x.uploaded
                  /\ x.uploaded <= Cardinality(There(e)' \cap (Behind(e) \cup {export[e].at}))
    <3> SUFFICES ASSUME perRun
                 PROVE  /\ x.skipped = 0
                        /\ Cardinality(There(e)' \ x.unsure) <= x.uploaded
                        /\ x.uploaded <= Cardinality(There(e)' \cap (Behind(e) \cup {export[e].at}))
      OBVIOUS
    <3>1. /\ export[e].skipped = 0 /\ There(e) \ Behind(e) = {}
          /\ Cardinality(Sure(e)) <= export[e].uploaded
          /\ export[e].uploaded <= Cardinality(There(e) \cap Behind(e))
      BY <1>0, <1>1 DEF ObjectsFit, Accounts
    <3>2. There(e)' \cap (Behind(e) \cup {export[e].at}) = There(e) \cap Behind(e)
      BY <2>8, <3>1
    <3>3. There(e)' \ x.unsure = Sure(e)
      BY <2>3, <2>5, <2>8 DEF Sure
    <3> QED BY <2>3, <2>5, <3>1, <3>2, <3>3
  <2>10. ~ (Mine(e) /\ Planned \notin export[e].unsure)'
    BY <1>0, <1>1, <2>3, <2>5, <2>7, <2>8 DEF StatementFits
  <2>11. x.uploaded + x.skipped + x.failed = SumOf(e) + 1 /\ x.failed # 0
    BY <1>0, <2>3, <2>5 DEF SumOf
  <2>12. runRow' = runRow
    BY <1>2
  <2> QED BY <1>1, <2>3, <2>5, <2>6, <2>9, <2>10, <2>11, <2>12, OnwardKeeps
<1>3. CASE FailExport(e)
  BY <1>1, <1>3, FailExportKeeps
<1>4. CASE Escape(e)
  BY <1>1, <1>4, EscapeKeeps
<1> QED BY <1>2, <1>3, <1>4 DEF LookFails

-----------------------------------------------------------------------------

LEMMA PutKeeps ==
  ASSUME ExportInv, NEW e \in Exporter, Put(e)
  PROVE  ExportInv'
<1>0. /\ ExportTypes /\ perRun \in BOOLEAN /\ export[e] \in ExportState
      /\ export[e].at \in Artifacts /\ export[e].at \in Nat
      /\ export[e].uploaded \in Nat /\ export[e].skipped \in Nat /\ export[e].failed \in Nat
      /\ ObjectsFit(e) /\ StatementFits(e)
  BY ExportFacts, PlanFacts
<1>1. export[e].pc = "put" /\ bucket' = Stored(e) /\ UNCHANGED <<perRun, runRow>>
  BY DEF Put
<1>2. PICK y : y = Onward(export[e])
  OBVIOUS
<1>3. PICK x : x = [y EXCEPT !.uploaded = y.uploaded + 1]
  OBVIOUS
<1>4. y \in ExportState /\ y.uploaded = export[e].uploaded /\ y.skipped = export[e].skipped
      /\ y.failed = export[e].failed /\ y.unsure = export[e].unsure
      /\ y.pc = (IF IsLast(e) THEN "close" ELSE "look")
      /\ y.at = (IF IsLast(e) THEN export[e].at ELSE export[e].at + 1)
  BY <1>0, <1>2, OnwardIs DEF IsLast
<1>5. y.uploaded + 1 \in Nat
  BY <1>0, <1>4
<1>6. x \in ExportState /\ x.uploaded = y.uploaded + 1 /\ x.skipped = y.skipped
      /\ x.failed = y.failed /\ x.unsure = y.unsure /\ x.pc = y.pc /\ x.at = y.at
  BY <1>3, <1>4, <1>5 DEF ExportState
<1>7. export' = [export EXCEPT ![e] = x]
  BY <1>2, <1>3, <1>4 DEF Put
<1>8. export'[e] = x
  BY <1>0, <1>7 DEF ExportTypes
<1>9. There(e)' = There(e) \cup {export[e].at}
  BY <1>0, <1>1, StoredObjects
<1>10. perRun => /\ x.skipped = 0
                 /\ Cardinality(There(e)' \ x.unsure) <= x.uploaded
                 /\ x.uploaded <= Cardinality(There(e)' \cap (Behind(e) \cup {export[e].at}))
  <2> SUFFICES ASSUME perRun
               PROVE  /\ x.skipped = 0
                      /\ Cardinality(There(e)' \ x.unsure) <= x.uploaded
                      /\ x.uploaded <= Cardinality(There(e)' \cap (Behind(e) \cup {export[e].at}))
    OBVIOUS
  <2>1. /\ export[e].skipped = 0
        /\ Cardinality(Sure(e)) <= export[e].uploaded
        /\ export[e].uploaded <= Cardinality(There(e) \cap Behind(e))
    BY <1>0, <1>1 DEF ObjectsFit, Accounts
  <2>2. IsFiniteSet(There(e) \cap Behind(e)) /\ IsFiniteSet(Sure(e))
    BY CountsFinite
  <2>3. Cardinality(There(e)' \ x.unsure) <= Cardinality(Sure(e)) + 1
    <3>1. There(e)' \ x.unsure \subseteq Sure(e) \cup {export[e].at}
      BY <1>4, <1>6, <1>9 DEF Sure
    <3>2. IsFiniteSet(Sure(e) \cup {export[e].at})
          /\ Cardinality(Sure(e) \cup {export[e].at}) <= Cardinality(Sure(e)) + 1
          /\ Cardinality(Sure(e) \cup {export[e].at}) \in Nat /\ Cardinality(Sure(e)) \in Nat
      <4>1. IsFiniteSet(Sure(e) \cup {export[e].at})
            /\ Cardinality(Sure(e) \cup {export[e].at}) =
                 IF export[e].at \in Sure(e) THEN Cardinality(Sure(e)) ELSE Cardinality(Sure(e)) + 1
        BY <2>2, FS_AddElement
      <4>2. Cardinality(Sure(e)) \in Nat
        BY <2>2, FS_CardinalityType
      <4> QED BY <4>1, <4>2
    <3>3. IsFiniteSet(There(e)' \ x.unsure)
          /\ Cardinality(There(e)' \ x.unsure) <= Cardinality(Sure(e) \cup {export[e].at})
      BY <3>1, <3>2, FS_Subset
    <3>4. Cardinality(There(e)' \ x.unsure) \in Nat
      BY <3>3, FS_CardinalityType
    <3> QED BY <3>2, <3>3, <3>4
  <2>4. Cardinality(There(e)' \cap (Behind(e) \cup {export[e].at})) = Cardinality(There(e) \cap Behind(e)) + 1
    <3>1. export[e].at \notin Behind(e)
      BY <1>0, <1>1 DEF Behind
    <3>2. There(e)' \cap (Behind(e) \cup {export[e].at}) = (There(e) \cap Behind(e)) \cup {export[e].at}
      BY <1>9
    <3> QED BY <2>2, <3>1, <3>2, FS_AddElement
  <2>5. Cardinality(There(e) \cap Behind(e)) \in Nat /\ Cardinality(Sure(e)) \in Nat
        /\ Cardinality(There(e)' \ x.unsure) \in Nat
    <3>1. IsFiniteSet(There(e)' \ x.unsure)
      <4>1. IsFiniteSet(Sure(e) \cup {export[e].at})
        BY <2>2, FS_AddElement
      <4>2. There(e)' \ x.unsure \subseteq Sure(e) \cup {export[e].at}
        BY <1>4, <1>6, <1>9 DEF Sure
      <4> QED BY <4>1, <4>2, FS_Subset
    <3> QED BY <2>2, <3>1, FS_CardinalityType
  <2> QED BY <1>0, <1>4, <1>6, <2>1, <2>3, <2>4, <2>5
<1>11. (Mine(e) /\ Planned \notin export[e].unsure)' =>
          IsLast(e) /\ bucket'[KeyOf(e, Planned)].says = Closed(e)'
  <2> SUFFICES ASSUME (Mine(e) /\ Planned \notin export[e].unsure)'
               PROVE  IsLast(e) /\ bucket'[KeyOf(e, Planned)].says = Closed(e)'
    OBVIOUS
  <2>1. /\ DOMAIN bucket' = DOMAIN bucket \cup {Here(e)} /\ bucket'[Here(e)].says = export[e].stated
        /\ \A k \in DOMAIN bucket : k # Here(e) => bucket'[k] = bucket[k]
    BY <1>0, <1>1, StoredObjects
  <2>2. KeyOf(e, Planned)' = KeyOf(e, Planned)
    BY <1>1 DEF KeyOf
  <2>3. ASSUME ~ IsLast(e) PROVE FALSE
    <3>1. Planned # export[e].at
      BY <2>3 DEF IsLast
    <3>2. KeyOf(e, Planned) # Here(e)
      BY <1>0, <3>1, KeysDiffer DEF Here
    <3>3. Mine(e) /\ Planned \notin export[e].unsure
      BY <1>4, <1>6, <1>8, <2>1, <2>2, <3>2 DEF Mine
    <3> QED BY <1>0, <1>1, <3>3 DEF StatementFits
  <2>4. IsLast(e)
    BY <2>3
  <2>5. KeyOf(e, Planned) = Here(e)
    BY <2>4 DEF Here, IsLast
  <2>6. export[e].stated = Projected(e, FALSE)
    BY <1>0, <1>1, <2>4 DEF StatementFits
  <2>7. Closed(e)' = Projected(e, FALSE)
    BY <1>4, <1>6, <1>8 DEF Closed, Projected
  <2> QED BY <2>1, <2>4, <2>5, <2>6, <2>7
<1>12. x.uploaded + x.skipped + x.failed = SumOf(e) + 1
  BY <1>0, <1>4, <1>6 DEF SumOf
<1>13. x.failed = 0 => export[e].failed = 0 /\ export[e].at \in There(e)'
  BY <1>4, <1>6, <1>9
<1> QED BY <1>1, <1>4, <1>6, <1>7, <1>10, <1>11, <1>12, <1>13, OnwardKeeps

\* A put that is tried again, and one that is given up.
LEMMA PutRetriesKeeps ==
  ASSUME ExportInv, NEW e \in Exporter, NEW applied \in BOOLEAN, PutRetries(e, applied)
  PROVE  ExportInv'
<1>0. /\ ExportTypes /\ perRun \in BOOLEAN /\ export[e] \in ExportState /\ runRow[e] \in RowState
      /\ export[e].at \in Artifacts /\ export[e].at \in Nat
      /\ export[e].uploaded \in Nat /\ export[e].skipped \in Nat /\ export[e].failed \in Nat
      /\ RowsFit(e) /\ SumsFit(e) /\ ObjectsFit(e) /\ StatementFits(e)
  BY ExportFacts, PlanFacts
<1>1. export[e].pc = "put" /\ UNCHANGED <<perRun, runRow>>
      /\ bucket' = IF applied THEN Stored(e) ELSE bucket
  BY DEF PutRetries
<1>2. PICK U : U = export[e].unsure \cup (IF applied THEN {export[e].at} ELSE {})
  OBVIOUS
<1>3. PICK again : again = [export[e] EXCEPT !.tries = export[e].tries + 1, !.unsure = U]
  OBVIOUS
<1>4. export' = [export EXCEPT ![e] = IF again.tries < MaxTries THEN again
                                      ELSE [Onward(again) EXCEPT !.failed = again.failed + 1]]
  BY <1>2, <1>3 DEF PutRetries
<1>5. U \subseteq Artifacts /\ export[e].unsure \subseteq U
  BY <1>0, <1>2 DEF ExportState
<1>6. export[e].tries \in 0..MaxTries /\ MaxTries \in Nat
  BY <1>0, PlanFacts DEF ExportState
<1>7. again.tries = export[e].tries + 1 /\ again.pc = "put" /\ again.at = export[e].at
      /\ again.uploaded = export[e].uploaded /\ again.skipped = export[e].skipped
      /\ again.failed = export[e].failed /\ again.unsure = U /\ again.stated = export[e].stated
  BY <1>0, <1>1, <1>3 DEF ExportState
<1>8. bucket' = bucket \/ (bucket' = Stored(e) /\ export[e].at \in U)
  BY <1>1, <1>2
<1>9. There(e) \subseteq There(e)' /\ There(e)' \ U \subseteq Sure(e)
      /\ \A a \in There(e)' : a \in There(e) \/ (a = export[e].at /\ a \in U)
  <2>1. CASE bucket' = bucket
    BY <1>1, <1>5, <2>1, SameObjects DEF Sure
  <2>2. CASE bucket' = Stored(e) /\ export[e].at \in U
    <3>1. There(e)' = There(e) \cup {export[e].at}
      BY <1>0, <1>1, <2>2, StoredObjects
    <3> QED BY <1>5, <2>2, <3>1 DEF Sure
  <2> QED BY <1>8, <2>1, <2>2
<1>10. Mine(e)' => Planned \in U
  <2>1. ~ (Mine(e) /\ Planned \notin export[e].unsure)
    BY <1>0, <1>1 DEF StatementFits
  <2> QED BY <1>0, <1>1, <1>5, <1>8, <2>1, UnsureIsNotMine
<1>11. perRun => /\ export[e].skipped = 0
                 /\ Cardinality(There(e)' \ U) <= export[e].uploaded
                 /\ export[e].uploaded <= Cardinality(There(e)' \cap Behind(e))
                 /\ export[e].uploaded <= Cardinality(There(e)' \cap (Behind(e) \cup {export[e].at}))
  <2> SUFFICES ASSUME perRun
               PROVE  /\ export[e].skipped = 0
                      /\ Cardinality(There(e)' \ U) <= export[e].uploaded
                      /\ export[e].uploaded <= Cardinality(There(e)' \cap Behind(e))
                      /\ export[e].uploaded <= Cardinality(There(e)' \cap (Behind(e) \cup {export[e].at}))
    OBVIOUS
  <2>1. /\ export[e].skipped = 0
        /\ Cardinality(Sure(e)) <= export[e].uploaded
        /\ export[e].uploaded <= Cardinality(There(e) \cap Behind(e))
    BY <1>0, <1>1 DEF ObjectsFit, Accounts
  <2>2. IsFiniteSet(There(e) \cap Behind(e)) /\ IsFiniteSet(Sure(e))
    BY CountsFinite
  <2>3. IsFiniteSet(There(e)' \ U) /\ Cardinality(There(e)' \ U) <= Cardinality(Sure(e))
    BY <1>9, <2>2, FS_Subset
  <2>4. IsFiniteSet(There(e)' \cap Behind(e)) /\ IsFiniteSet(There(e)' \cap (Behind(e) \cup {export[e].at}))
    <3>1. There(e)' \subseteq Artifacts
      BY <1>0, <1>9 DEF There
    <3>2. There(e)' \cap Behind(e) \subseteq Artifacts
          /\ There(e)' \cap (Behind(e) \cup {export[e].at}) \subseteq Artifacts
      BY <3>1
    <3> QED BY <3>2, PlanFacts, FS_Subset
  <2>5. Cardinality(There(e) \cap Behind(e)) <= Cardinality(There(e)' \cap Behind(e))
    <3>1. There(e) \cap Behind(e) \subseteq There(e)' \cap Behind(e)
      BY <1>9
    <3> QED BY <2>4, <3>1, FS_Subset
  <2>6. Cardinality(There(e) \cap Behind(e)) <= Cardinality(There(e)' \cap (Behind(e) \cup {export[e].at}))
    <3>1. There(e) \cap Behind(e) \subseteq There(e)' \cap (Behind(e) \cup {export[e].at})
      BY <1>9
    <3> QED BY <2>4, <3>1, FS_Subset
  <2>7. /\ Cardinality(There(e) \cap Behind(e)) \in Nat /\ Cardinality(Sure(e)) \in Nat
        /\ Cardinality(There(e)' \ U) \in Nat /\ Cardinality(There(e)' \cap Behind(e)) \in Nat
        /\ Cardinality(There(e)' \cap (Behind(e) \cup {export[e].at})) \in Nat
    BY <2>2, <2>3, <2>4, FS_CardinalityType
  <2> QED BY <1>0, <2>1, <2>3, <2>5, <2>6, <2>7
<1>12. CASE again.tries < MaxTries
  <2>1. again \in ExportState
    <3>1. again.tries \in 0..MaxTries
      BY <1>6, <1>7, <1>12
    <3> QED BY <1>0, <1>3, <1>5, <1>7, <3>1 DEF ExportState
  <2>2. export' = [export EXCEPT ![e] = again]
    BY <1>4, <1>12
  <2>3. runRow' = [runRow EXCEPT ![e] = runRow[e]]
    BY <1>0, <1>1 DEF ExportTypes
  <2>4. export'[e] = again /\ runRow'[e] = runRow[e]
    BY <1>0, <1>1, <2>2 DEF ExportTypes
  <2>5. Behind(e)' = Behind(e) /\ SumOf(e)' = SumOf(e) /\ Accounts(e) /\ Accounts(e)'
        /\ Sure(e)' = There(e)' \ U
    <3>1. Behind(e)' = Behind(e)
      BY <1>1, <1>7, <2>4 DEF Behind
    <3>2. SumOf(e)' = SumOf(e)
      BY <1>7, <2>4 DEF SumOf
    <3>3. Accounts(e) /\ Accounts(e)'
      BY <1>1, <1>7, <2>4 DEF Accounts
    <3>4. Sure(e)' = There(e)' \ U
      BY <1>7, <2>4 DEF Sure
    <3> QED BY <3>1, <3>2, <3>3, <3>4
  <2>6. RowsFit(e)'
    BY <1>0, <1>1, <1>7, <2>4 DEF RowsFit
  <2>7. SumsFit(e)'
    BY <1>0, <1>1, <1>7, <1>9, <2>4, <2>5 DEF SumsFit
  <2>8. ObjectsFit(e)'
    <3> SUFFICES ASSUME perRun PROVE ObjectsFit(e)'
      BY <1>1 DEF ObjectsFit
    <3>1. \A a \in There(e) \ Behind(e) : a = export[e].at /\ a \in export[e].unsure
      BY <1>0, <2>5 DEF ObjectsFit
    <3>2. \A a \in There(e)' \ Behind(e)' : a = export[e].at /\ a \in U
      BY <1>5, <1>9, <2>5, <3>1
    <3> QED BY <1>7, <1>11, <2>4, <2>5, <3>2 DEF ObjectsFit
  <2>9. StatementFits(e)'
    <3>1. (IsLast(e)' <=> IsLast(e)) /\ Projected(e, FALSE)' = Projected(e, FALSE)
      BY <1>7, <2>4 DEF IsLast, Projected
    <3> QED BY <1>0, <1>1, <1>7, <1>10, <2>4, <3>1 DEF StatementFits
  <2>10. bucket' = bucket \/ bucket' = Stored(e)
    BY <1>8
  <2> QED BY <1>0, <1>1, <2>1, <2>2, <2>3, <2>6, <2>7, <2>8, <2>9, <2>10, ExportStep
<1>13. CASE ~ (again.tries < MaxTries)
  <2>1. PICK given : given = [export[e] EXCEPT !.tries = 0, !.unsure = U]
    OBVIOUS
  <2>2. PICK y : y = Onward(given)
    OBVIOUS
  <2>3. PICK x : x = [y EXCEPT !.failed = again.failed + 1]
    OBVIOUS
  <2>4. y \in ExportState /\ y.uploaded = export[e].uploaded /\ y.skipped = export[e].skipped
        /\ y.failed = export[e].failed /\ y.unsure = U
        /\ y.pc = (IF IsLast(e) THEN "close" ELSE "look")
        /\ y.at = (IF IsLast(e) THEN export[e].at ELSE export[e].at + 1)
    <3>1. given \in ExportState /\ given.at = export[e].at /\ given.uploaded = export[e].uploaded
          /\ given.skipped = export[e].skipped /\ given.failed = export[e].failed
          /\ given.unsure = U
      <4>1. 0 \in 0..MaxTries
        BY <1>6
      <4> QED BY <1>0, <1>5, <2>1, <4>1 DEF ExportState
    <3> QED BY <2>2, <3>1, OnwardIs DEF IsLast
  <2>5. again.failed + 1 \in Nat
    BY <1>0, <1>7
  <2>6. x \in ExportState /\ x.uploaded = y.uploaded /\ x.skipped = y.skipped
        /\ x.failed = again.failed + 1 /\ x.unsure = y.unsure /\ x.pc = y.pc /\ x.at = y.at
    BY <2>3, <2>4, <2>5 DEF ExportState
  <2>7. export' = [export EXCEPT ![e] = x]
    <3>1. Onward(again) = Onward(given)
      BY <1>0, <1>3, <2>1 DEF Onward, ExportState
    <3> QED BY <1>4, <1>13, <2>2, <2>3, <3>1
  <2>8. export'[e] = x
    BY <1>0, <2>7 DEF ExportTypes
  <2>9. perRun => /\ x.skipped = 0
                  /\ Cardinality(There(e)' \ x.unsure) <= x.uploaded
                  /\ x.uploaded <= Cardinality(There(e)' \cap (Behind(e) \cup {export[e].at}))
    BY <1>11, <2>4, <2>6
  <2>10. ~ (Mine(e) /\ Planned \notin export[e].unsure)'
    BY <1>10, <2>4, <2>6, <2>8
  <2>11. x.uploaded + x.skipped + x.failed = SumOf(e) + 1 /\ x.failed # 0
    BY <1>0, <1>7, <2>4, <2>6 DEF SumOf
  <2>12. bucket' = bucket \/ bucket' = Stored(e)
    BY <1>8
  <2> QED BY <1>1, <2>4, <2>6, <2>7, <2>9, <2>10, <2>11, <2>12, OnwardKeeps
<1> QED BY <1>12, <1>13

LEMMA CloseExportKeeps ==
  ASSUME ExportInv, NEW e \in Exporter, CloseExport(e)
  PROVE  ExportInv'
<1>0. /\ ExportTypes /\ export[e] \in ExportState
      /\ export[e].uploaded \in Nat /\ export[e].failed \in Nat
      /\ RowsFit(e) /\ SumsFit(e) /\ ObjectsFit(e) /\ StatementFits(e)
  BY ExportFacts
<1>1. export[e].pc = "close" /\ UNCHANGED <<perRun, bucket>>
  BY DEF CloseExport
<1>2. PICK x : x = [export[e] EXCEPT !.pc = "done"]
  OBVIOUS
<1>3. PICK r : r = Closed(e)
  OBVIOUS
<1>4. x \in ExportState /\ x.pc = "done" /\ x.uploaded = export[e].uploaded
      /\ x.skipped = export[e].skipped /\ x.failed = export[e].failed
      /\ x.unsure = export[e].unsure
  BY <1>0, <1>2 DEF ExportState
<1>5. r \in RowState /\ r # NoRow /\ r.status # "failed"
  <2>1. Outcome(export[e].failed) \in {"completed", "completed_with_failures"}
    BY RowTypes
  <2> QED BY <1>0, <1>3, <2>1, RowTypes DEF Closed
<1>6. export' = [export EXCEPT ![e] = x] /\ runRow' = [runRow EXCEPT ![e] = r]
  BY <1>2, <1>3 DEF CloseExport, To
<1>7. export'[e] = x /\ runRow'[e] = r
  BY <1>0, <1>6 DEF ExportTypes
<1>8. There(e)' = There(e) /\ (Mine(e)' <=> Mine(e)) /\ KeyOf(e, Planned)' = KeyOf(e, Planned)
  BY <1>1, SameObjects
<1>9. Behind(e)' = Behind(e) /\ SumOf(e)' = SumOf(e) /\ Accounts(e) /\ Accounts(e)'
      /\ Sure(e)' = Sure(e) /\ Closed(e)' = r
  <2>1. Behind(e)' = Behind(e)
    BY <1>1, <1>4, <1>7 DEF Behind
  <2>2. SumOf(e)' = SumOf(e)
    BY <1>4, <1>7 DEF SumOf
  <2>3. Accounts(e) /\ Accounts(e)'
    BY <1>1, <1>4, <1>5, <1>7 DEF Accounts
  <2>4. Sure(e)' = Sure(e)
    BY <1>4, <1>7, <1>8 DEF Sure
  <2>5. Closed(e)' = r
    BY <1>3, <1>4, <1>7 DEF Closed
  <2> QED BY <2>1, <2>2, <2>3, <2>4, <2>5
<1>10. RowsFit(e)'
  BY <1>4, <1>5, <1>7, <1>9 DEF RowsFit
<1>11. SumsFit(e)'
  BY <1>0, <1>1, <1>4, <1>7, <1>8, <1>9 DEF SumsFit
<1>12. ObjectsFit(e)'
  <2> SUFFICES ASSUME perRun PROVE ObjectsFit(e)'
    BY <1>1 DEF ObjectsFit
  <2>1. There(e) \ Behind(e) = {}
    BY <1>0, <1>1, <1>9 DEF ObjectsFit
  <2>2. export[e].skipped = 0 /\ Cardinality(Sure(e)) <= export[e].uploaded
        /\ export[e].uploaded <= Cardinality(There(e) \cap Behind(e))
    BY <1>0, <1>9 DEF ObjectsFit
  <2> QED BY <1>4, <1>7, <1>8, <1>9, <2>1, <2>2 DEF ObjectsFit
<1>13. StatementFits(e)'
  <2>1. Mine(e) /\ Planned \notin export[e].unsure => bucket[KeyOf(e, Planned)].says = r
    BY <1>0, <1>1, <1>3 DEF StatementFits
  <2> QED BY <1>1, <1>4, <1>7, <1>8, <1>9, <2>1 DEF StatementFits
<1> QED BY <1>1, <1>4, <1>5, <1>6, <1>10, <1>11, <1>12, <1>13, ExportStep

-----------------------------------------------------------------------------

LEMMA ExportKeeps == ExportInv /\ [ExportNext]_exportVars => ExportInv'
<1>1. ASSUME ExportInv, NEW e \in Exporter, Exporting(e) PROVE ExportInv'
  <2>1. CASE \E c \in {"s3", "azure"}, overwrite \in BOOLEAN : BeginExport(e, c, overwrite)
    BY <1>1, <2>1, BeginExportKeeps
  <2>2. CASE DryRun(e)
    BY <1>1, <2>2, DryRunKeeps
  <2>3. CASE WithoutPyarrow(e)
    BY <1>1, <2>3, FailExportKeeps DEF WithoutPyarrow
  <2>4. CASE CheckBucket(e)
    BY <1>1, <2>4, CheckBucketKeeps
  <2>5. CASE SkipExisting(e)
    BY <1>1, <2>5, SkipExistingKeeps
  <2>6. CASE Missing(e)
    BY <1>1, <2>6, MissingKeeps
  <2>7. CASE LookFails(e)
    BY <1>1, <2>7, LookFailsKeeps
  <2>8. CASE Put(e)
    BY <1>1, <2>8, PutKeeps
  <2>9. CASE \E applied \in BOOLEAN : PutRetries(e, applied) \/ PutFails(e, applied)
    BY <1>1, <2>9, PutRetriesKeeps, PutFailsKeeps
  <2>10. CASE CloseExport(e)
    BY <1>1, <2>10, CloseExportKeeps
  <2>11. CASE ExportBreaksOff(e)
    BY <1>1, <2>11, EscapeKeeps DEF ExportBreaksOff
  <2> QED BY <1>1, <2>1, <2>2, <2>3, <2>4, <2>5, <2>6, <2>7, <2>8, <2>9, <2>10, <2>11 DEF Exporting
<1>2. ASSUME ExportInv, UNCHANGED exportVars PROVE ExportInv'
  <2> USE <1>2 DEF exportVars
  <2>1. ExportTypes'
    BY DEF ExportInv, ExportTypes, Keys, KeyOf
  <2>2. ASSUME NEW e \in Exporter
        PROVE  RowsFit(e)' /\ SumsFit(e)' /\ ObjectsFit(e)' /\ StatementFits(e)'
    <3>1. RowsFit(e) /\ SumsFit(e) /\ ObjectsFit(e) /\ StatementFits(e)
      BY DEF ExportInv
    <3>2. There(e)' = There(e) /\ (Mine(e)' <=> Mine(e)) /\ KeyOf(e, Planned)' = KeyOf(e, Planned)
      BY SameObjects
    <3>3. Behind(e)' = Behind(e) /\ (Accounts(e)' <=> Accounts(e)) /\ Closed(e)' = Closed(e)
          /\ SumOf(e)' = SumOf(e) /\ Projected(e, FALSE)' = Projected(e, FALSE)
          /\ (IsLast(e)' <=> IsLast(e))
      BY DEF Behind, Accounts, Closed, SumOf, Projected, IsLast
    <3>4. RowsFit(e)' /\ SumsFit(e)'
      BY <3>1, <3>2, <3>3 DEF RowsFit, SumsFit
    <3>5. ObjectsFit(e)' /\ StatementFits(e)'
      BY <3>1, <3>2, <3>3 DEF ObjectsFit, Sure, StatementFits
    <3> QED BY <3>4, <3>5
  <2> QED BY <2>1, <2>2 DEF ExportInv
<1> QED BY <1>1, <1>2 DEF ExportNext

LEMMA ExportInvHolds == ExportSpec => []ExportInv
BY ExportStarts, ExportKeeps, PTL DEF ExportSpec

\* Every object is one that an export puts, every export is at an artifact that
\* was planned and counts none twice, and the row of its run is there when and
\* only when the run has ended (_create_run to the commits of
\* export_to_object_storage).
THEOREM ExportTypesHold == ExportSpec => []ExportTypeOK
<1>1. ExportInv => ExportTypeOK
  <2> SUFFICES ASSUME ExportInv PROVE ExportTypeOK
    OBVIOUS
  <2>1. \A k \in DOMAIN bucket : k \in UNION {Keys(e) : e \in Exporter} /\ bucket[k].by \in Exporter
    BY DEF ExportInv, ExportTypes
  <2>2. ASSUME NEW e \in Exporter
        PROVE  /\ export[e].at \in Artifacts /\ export[e].tries \in 0..MaxTries
               /\ export[e].uploaded + export[e].skipped + export[e].failed <= Planned
               /\ (runRow[e] # NoRow) <=> export[e].pc \in {"planned", "done"}
    <3>1. export[e] \in ExportState /\ RowsFit(e) /\ SumsFit(e)
      BY ExportFacts
    <3>2. export[e].at \in Artifacts /\ export[e].tries \in 0..MaxTries
      BY <3>1 DEF ExportState
    <3>3. export[e].uploaded + export[e].skipped + export[e].failed <= Planned
      BY <3>1 DEF SumsFit, SumOf
    <3> QED BY <3>1, <3>2, <3>3 DEF RowsFit
  <2> QED BY <2>1, <2>2 DEF ExportTypeOK
<1> QED BY <1>1, ExportInvHolds, PTL

\* However often a put fails, is tried again or is answered too late: the run as
\* it is kept, and as pipeline_runs states it before it has ended, both tell what
\* is in the store (export_to_object_storage, _upload_with_retries).
THEOREM ExportsAreAccounted == ExportSpec => []ExportAccounted
<1>1. ExportInv => ExportAccounted
  <2> SUFFICES ASSUME ExportInv, NEW e \in Exporter
               PROVE  CompleteIsThere(e) /\ CountsTrue(e) /\ StatementTrue(e)
    BY DEF ExportAccounted
  <2>0. /\ export[e] \in ExportState
        /\ export[e].uploaded \in Nat /\ export[e].skipped \in Nat /\ export[e].failed \in Nat
        /\ RowsFit(e) /\ SumsFit(e) /\ ObjectsFit(e) /\ StatementFits(e)
    BY ExportFacts
  <2>1. ASSUME export[e].pc = "done", runRow[e].status # "failed"
        PROVE  /\ runRow[e] = Closed(e) /\ Accounts(e)
               /\ Behind(e) = Artifacts /\ SumOf(e) = Planned
    <3>1. runRow[e] = Closed(e) /\ Accounts(e) /\ Behind(e) = Artifacts
      BY <2>0, <2>1 DEF RowsFit, Accounts, Behind
    <3> QED BY <2>0, <2>1, <3>1 DEF SumsFit
  <2>2. CompleteIsThere(e)
    <3> SUFFICES ASSUME runRow[e].status = "completed", export[e].pc = "done"
                 PROVE  There(e) = Artifacts
      BY DEF CompleteIsThere
    <3>1. Outcome(export[e].failed) = "completed"
      BY <2>1 DEF Closed, Row
    <3>2. export[e].failed = 0
      BY <2>0, <3>1, RowTypes
    <3> QED BY <2>0, <2>1, <3>2 DEF SumsFit, There
  <2>3. CountsTrue(e)
    <3> SUFFICES ASSUME perRun, export[e].pc = "done", runRow[e].status # "failed"
                 PROVE  /\ runRow[e].success + runRow[e].failure = Planned
                        /\ Cardinality(There(e)) \in
                             runRow[e].success .. (runRow[e].success + Cardinality(export[e].unsure))
      BY DEF CountsTrue
    <3>1. runRow[e].success = export[e].uploaded /\ runRow[e].failure = export[e].failed
      BY <2>1 DEF Closed, Row
    <3>2. /\ export[e].skipped = 0
          /\ Cardinality(Sure(e)) <= export[e].uploaded
          /\ export[e].uploaded <= Cardinality(There(e) \cap Behind(e))
      BY <2>0, <2>1 DEF ObjectsFit
    <3>3. There(e) \cap Behind(e) = There(e)
      BY <2>1 DEF There
    <3>4. IsFiniteSet(There(e)) /\ IsFiniteSet(Sure(e))
      BY CountsFinite
    <3>5. IsFiniteSet(export[e].unsure)
      <4>1. export[e].unsure \subseteq Artifacts
        BY <2>0 DEF ExportState
      <4> QED BY <4>1, PlanFacts, FS_Subset
    <3>6. Cardinality(There(e)) <= Cardinality(Sure(e)) + Cardinality(export[e].unsure)
      <4>1. There(e) \subseteq Sure(e) \cup export[e].unsure
        BY DEF Sure
      <4>2. /\ IsFiniteSet(Sure(e) \cup export[e].unsure)
            /\ Cardinality(Sure(e) \cup export[e].unsure) =
                 Cardinality(Sure(e)) + Cardinality(export[e].unsure)
                   - Cardinality(Sure(e) \cap export[e].unsure)
        BY <3>4, <3>5, FS_Union
      <4>3. Sure(e) \cap export[e].unsure = {}
        BY DEF Sure
      <4>4. Cardinality(Sure(e) \cap export[e].unsure) = 0
        BY <4>3, FS_EmptySet
      <4>5. Cardinality(There(e)) <= Cardinality(Sure(e) \cup export[e].unsure)
        BY <4>1, <4>2, FS_Subset
      <4>6. Cardinality(Sure(e)) \in Nat /\ Cardinality(export[e].unsure) \in Nat
            /\ Cardinality(There(e)) \in Nat
        BY <3>4, <3>5, FS_CardinalityType
      <4> QED BY <4>2, <4>4, <4>5, <4>6
    <3>7. Cardinality(Sure(e)) \in Nat /\ Cardinality(export[e].unsure) \in Nat
          /\ Cardinality(There(e)) \in Nat
      BY <3>4, <3>5, FS_CardinalityType
    <3>8. runRow[e].success + runRow[e].failure = Planned
      BY <2>0, <2>1, <3>1, <3>2 DEF SumOf
    <3>9. Cardinality(There(e)) \in
            runRow[e].success .. (runRow[e].success + Cardinality(export[e].unsure))
      <4>1. export[e].uploaded <= Cardinality(There(e))
        BY <3>2, <3>3
      <4> QED BY <2>0, <3>1, <3>2, <3>6, <3>7, <4>1
    <3> QED BY <3>8, <3>9
  <2>4. StatementTrue(e)
    BY <2>0 DEF StatementTrue, StatementFits, Mine
  <2> QED BY <2>2, <2>3, <2>4
<1> QED BY <1>1, ExportInvHolds, PTL

-----------------------------------------------------------------------------
(* Web import.                                                             *)

Configs == [urls: Seq(Page), sitemap: BOOLEAN] \cup {NoConfig}
Hashes == {Unset, "page", "failed"}
Became == {Unset, "success", "failed"}
Imports ==
  [pc: {"idle", "refused", "fetch", "source", "document", "version", "commit", "lost", "done"},
   list: Seq(Page), source: SourceName, config: Configs, seen: Configs,
   todo: SUBSET [place: Nat, outcome: {"page", "failed"}], number: Nat, named: BOOLEAN,
   wrote: [Page -> [source: SourceName, hash: Hashes]], added: [Page -> Nat],
   items: [Page -> Became], success: Nat, failure: Nat, overlapped: BOOLEAN]
ImportRuns ==
  [items: [Page -> Became], success: Nat, failure: Nat,
   status: {Unset, "completed", "completed_with_failures"}]

WebTypes ==
  /\ sources \in [SourceName -> Configs]
  /\ pages \in [Page -> [source: SourceName, hash: Hashes]]
  /\ numbers \in [Page -> Nat]
  /\ imported \in [Importer -> ImportRuns]
  /\ import \in [Importer -> Imports]

\* What a run has of the list it is over: an item for each page it is past, and the
\* places still to come.
OfRun(r, o) == {p \in Page : r.items[p] = o}
Listed(list) == {list[k] : k \in DOMAIN list}
Coming(list, todo) == {list[a.place] : a \in todo}
ItemCounts(r, list, left) ==
  /\ IsFiniteSet(OfRun(r, "success")) /\ r.success = Cardinality(OfRun(r, "success"))
  /\ IsFiniteSet(OfRun(r, "failed")) /\ r.failure = Cardinality(OfRun(r, "failed"))
  /\ r.success + r.failure + left = Len(list)

PassedOver(r) ==
  /\ IsFiniteSet(r.todo) /\ \A a \in r.todo : a.place \in DOMAIN r.list
  /\ ItemCounts(r, r.list, Cardinality(r.todo))
  /\ Listed(r.list) = OfRun(r, "success") \cup OfRun(r, "failed") \cup Coming(r.list, r.todo)
  /\ \A p \in OfRun(r, "success") : r.added[p] > 0

ImportFits(r) ==
  /\ r.pc \in {"idle", "fetch"} =>
       r.items = [p \in Page |-> Unset] /\ r.success = 0 /\ r.failure = 0
  /\ r.pc \in InTransaction => PassedOver(r)
  /\ r.pc \in {"document", "version"} => r.todo # {}
  /\ r.pc = "commit" => r.todo = {}

\* An import no other has overlapped with is alone, and what it read is so.
ImportAlone(i) ==
  ~ import[i].overlapped =>
    /\ UnderWay(i) => \A j \in Others(i) : ~ UnderWay(j)
    /\ import[i].pc = "source" => import[i].seen = sources[import[i].source]
    /\ import[i].pc = "version" => import[i].number = NextNumber(i, NextPage(i))

ImportEnded(i) ==
  /\ import[i].pc = "done" =>
       /\ ItemCounts(imported[i], import[i].list, 0)
       /\ Listed(import[i].list) = OfRun(imported[i], "success") \cup OfRun(imported[i], "failed")
       /\ \A p \in OfRun(imported[i], "success") : numbers[p] > 0
  /\ import[i].pc = "lost" => Repeats(import[i].list) \/ import[i].overlapped

ImportKnows == \A i \in Importer : ImportFits(import[i]) /\ ImportAlone(i) /\ ImportEnded(i)
WebInv == WebTypes /\ ImportKnows

LEMMA LeastOf ==
  ASSUME NEW S \in SUBSET Nat, S # {}
  PROVE  \E n \in S : \A m \in S : n <= m
<1> DEFINE Less == {p \in Nat \X Nat : p[1] < p[2]}
<1>1. IsWellFoundedOn(Less, Nat)
  BY NatLessThanWellFounded DEF OpToRel
<1>2. \A m, n \in Nat : m < n => <<m, n>> \in Less
  OBVIOUS
<1> HIDE DEF Less
<1>3. PICK n \in S : \A m \in S : ~ (<<m, n>> \in Less)
  BY <1>1, WFMin
<1>4. \A m \in S : ~ (m < n)
  BY <1>2, <1>3
<1>5. \A m \in S : m \in Nat
  OBVIOUS
<1> QED BY <1>3, <1>4, <1>5


FetchedPages == [place: Nat, outcome: {"page", "failed"}]

LEMMA FirstIsThere ==
  ASSUME NEW todo \in SUBSET FetchedPages, todo # {}
  PROVE  First(todo) \in todo
<1> DEFINE pagesOf == {a \in todo : a.outcome = "page"}
           leading == IF pagesOf = {} THEN todo ELSE pagesOf
           places == {a.place : a \in leading}
<1>1. places \in SUBSET Nat /\ places # {} /\ leading \subseteq todo
  BY DEF FetchedPages
<1>2. PICK n \in places : \A m \in places : n <= m
  BY <1>1, LeastOf
<1>3. PICK a \in leading : a.place = n
  BY <1>2
<1>4. \A b \in todo \ {a} : Before(a, b)
  <2> TAKE b \in todo \ {a}
  <2>1. a \in FetchedPages /\ b \in FetchedPages
    BY <1>1, <1>3
  <2>2. CASE a.outcome = b.outcome
    <3>1. b \in leading
      BY <1>3, <2>2
    <3>2. a.place <= b.place
      BY <1>2, <1>3, <3>1
    <3>3. a.place # b.place
      BY <2>1, <2>2 DEF FetchedPages
    <3> QED BY <2>1, <2>2, <3>2, <3>3 DEF Before, FetchedPages
  <2>3. CASE a.outcome # b.outcome
    <3>1. a.outcome = "page"
      BY <1>3, <2>1, <2>3 DEF FetchedPages
    <3> QED BY <2>3, <3>1 DEF Before
  <2> QED BY <2>2, <2>3
<1>5. a \in todo
  BY <1>1, <1>3
<1> QED BY <1>4, <1>5 DEF First

\* Places are many as there are of them, and name no more pages than there are.
LEMMA ComingFinite ==
  ASSUME NEW list, NEW todo, IsFiniteSet(todo)
  PROVE  IsFiniteSet(Coming(list, todo)) /\ Cardinality(Coming(list, todo)) <= Cardinality(todo)
<1> DEFINE f == [a \in todo |-> list[a.place]]
<1>1. f \in [todo -> Coming(list, todo)] /\ \A p \in Coming(list, todo) : \E a \in todo : f[a] = p
  BY DEF Coming
<1>2. f \in Surjection(todo, Coming(list, todo))
  BY <1>1, Fun_IsSurj
<1> QED BY <1>2, FS_Surjection

LEMMA ListedIndices ==
  ASSUME NEW list \in Seq(Page)
  PROVE  IsFiniteSet(1..Len(list)) /\ Cardinality(1..Len(list)) = Len(list)
<1>1. 1 \in Int /\ Len(list) \in Int /\ Len(list) >= 0
  OBVIOUS
<1> QED BY <1>1, FS_Interval

LEMMA ListedIs ==
  ASSUME NEW list \in Seq(Page)
  PROVE  /\ IsFiniteSet(Listed(list))
         /\ ~ Repeats(list) => Cardinality(Listed(list)) = Len(list)
<1>1. DOMAIN list = 1..Len(list) /\ Len(list) \in Nat
  OBVIOUS
<1>2. IsFiniteSet(1..Len(list)) /\ Cardinality(1..Len(list)) = Len(list)
  BY ListedIndices
<1> DEFINE f == [k \in 1..Len(list) |-> list[k]]
<1>3. f \in [1..Len(list) -> Listed(list)] /\ \A p \in Listed(list) : \E k \in 1..Len(list) : f[k] = p
  BY <1>1 DEF Listed
<1>4. f \in Surjection(1..Len(list), Listed(list))
  BY <1>3, Fun_IsSurj
<1>5. ASSUME ~ Repeats(list) PROVE \A j, k \in 1..Len(list) : f[j] = f[k] => j = k
  BY <1>1, <1>5 DEF Repeats
<1>6. ASSUME ~ Repeats(list) PROVE f \in Injection(1..Len(list), Listed(list))
  BY <1>3, <1>5, <1>6, Fun_IsInj
<1> QED BY <1>2, <1>4, <1>6, FS_Surjection

LEMMA TodoIs ==
  ASSUME NEW list \in Seq(Page), NEW outcome \in [DOMAIN list -> {"page", "failed"}]
  PROVE  /\ Todo(list, outcome) \in SUBSET FetchedPages
         /\ IsFiniteSet(Todo(list, outcome)) /\ Cardinality(Todo(list, outcome)) = Len(list)
         /\ \A a \in Todo(list, outcome) : a.place \in DOMAIN list
         /\ Coming(list, Todo(list, outcome)) = Listed(list)
<1>1. DOMAIN list = 1..Len(list) /\ Len(list) \in Nat
  OBVIOUS
<1>2. IsFiniteSet(1..Len(list)) /\ Cardinality(1..Len(list)) = Len(list)
  BY ListedIndices
<1> DEFINE f == [k \in 1..Len(list) |-> Fetched(k, outcome[k])]
<1>3. /\ f \in [1..Len(list) -> Todo(list, outcome)]
      /\ \A a \in Todo(list, outcome) : \E k \in 1..Len(list) : f[k] = a
      /\ \A j, k \in 1..Len(list) : f[j] = f[k] => j = k
  BY <1>1 DEF Todo, Fetched
<1>4. f \in Surjection(1..Len(list), Todo(list, outcome)) /\ f \in Injection(1..Len(list), Todo(list, outcome))
  BY <1>3, Fun_IsSurj, Fun_IsInj
<1>5. IsFiniteSet(Todo(list, outcome)) /\ Cardinality(Todo(list, outcome)) = Len(list)
  BY <1>2, <1>4, FS_Surjection
<1>6. \A a \in Todo(list, outcome) : a.place \in DOMAIN list /\ a \in FetchedPages
  BY <1>1 DEF Todo, Fetched, FetchedPages
<1>7. Coming(list, Todo(list, outcome)) = Listed(list)
  <2>1. \A k \in DOMAIN list : f[k] \in Todo(list, outcome) /\ f[k].place = k
    BY <1>1, <1>3 DEF Fetched
  <2>2. ASSUME NEW k \in DOMAIN list PROVE list[k] \in Coming(list, Todo(list, outcome))
    <3>1. PICK a \in Todo(list, outcome) : a.place = k
      BY <2>1
    <3> QED BY <3>1 DEF Coming
  <2>3. Coming(list, Todo(list, outcome)) \subseteq Listed(list)
    BY <1>6 DEF Coming, Listed
  <2> QED BY <2>2, <2>3 DEF Listed
<1> QED BY <1>5, <1>6, <1>7

LEMMA StillComing ==
  ASSUME NEW r \in Imports, PassedOver(r), r.todo # {}
  PROVE  /\ First(r.todo) \in r.todo /\ r.list[First(r.todo).place] \in Page
         /\ IsFiniteSet(Left(r)) /\ Left(r) \in SUBSET FetchedPages
         /\ Cardinality(r.todo) = Cardinality(Left(r)) + 1 /\ Cardinality(Left(r)) \in Nat
         /\ Coming(r.list, r.todo) = Coming(r.list, Left(r)) \cup {r.list[First(r.todo).place]}
<1>1. r.todo \in SUBSET FetchedPages /\ r.list \in Seq(Page) /\ IsFiniteSet(r.todo)
  BY DEF Imports, FetchedPages, PassedOver
<1>2. First(r.todo) \in r.todo
  BY <1>1, FirstIsThere
<1>3. First(r.todo).place \in DOMAIN r.list
  BY <1>2 DEF PassedOver
<1>4. r.list[First(r.todo).place] \in Page
  BY <1>1, <1>3
<1>5. IsFiniteSet(Left(r)) /\ Cardinality(Left(r)) = Cardinality(r.todo) - 1
  BY <1>1, <1>2, FS_RemoveElement DEF Left
<1>6. Cardinality(Left(r)) \in Nat /\ Cardinality(r.todo) \in Nat
  BY <1>1, <1>5, FS_CardinalityType
<1>7. Coming(r.list, r.todo) = Coming(r.list, Left(r)) \cup {r.list[First(r.todo).place]}
  BY <1>2 DEF Coming, Left
<1> QED BY <1>1, <1>2, <1>4, <1>5, <1>6, <1>7 DEF Left

\* A list without repeats has an item at most of what is next.
LEMMA NothingYet ==
  ASSUME NEW r \in Imports, PassedOver(r), r.todo # {}, ~ Repeats(r.list)
  PROVE  r.items[r.list[First(r.todo).place]] = Unset
<1> DEFINE p == r.list[First(r.todo).place]
           past == OfRun(r, "success") \cup OfRun(r, "failed")
<1>1. /\ p \in Page /\ IsFiniteSet(Left(r)) /\ Cardinality(Left(r)) \in Nat
      /\ Cardinality(r.todo) = Cardinality(Left(r)) + 1
      /\ Coming(r.list, r.todo) = Coming(r.list, Left(r)) \cup {p}
  BY StillComing
<1>2. IsFiniteSet(Coming(r.list, Left(r))) /\ Cardinality(Coming(r.list, Left(r))) <= Cardinality(Left(r))
  BY <1>1, ComingFinite
<1>3. /\ IsFiniteSet(OfRun(r, "success")) /\ r.success = Cardinality(OfRun(r, "success"))
      /\ IsFiniteSet(OfRun(r, "failed")) /\ r.failure = Cardinality(OfRun(r, "failed"))
      /\ r.success + r.failure + Cardinality(r.todo) = Len(r.list)
      /\ r.success \in Nat /\ r.failure \in Nat
  BY DEF PassedOver, ItemCounts, Imports
<1>4. OfRun(r, "success") \cap OfRun(r, "failed") = {}
  BY DEF OfRun
<1>5. IsFiniteSet(past) /\ Cardinality(past) = r.success + r.failure
  <2>1. /\ IsFiniteSet(past)
        /\ Cardinality(past) = Cardinality(OfRun(r, "success")) + Cardinality(OfRun(r, "failed"))
                                 - Cardinality(OfRun(r, "success") \cap OfRun(r, "failed"))
    BY <1>3, FS_Union
  <2>2. Cardinality(OfRun(r, "success") \cap OfRun(r, "failed")) = 0
    BY <1>4, FS_EmptySet
  <2>3. IsFiniteSet(past) /\ Cardinality(past) = r.success + r.failure - 0
    BY <1>3, <2>1, <2>2
  <2> QED BY <1>3, <2>3
<1>6. SUFFICES ASSUME p \in past PROVE FALSE
  <2>1. r.items[p] \in Became
    BY <1>1 DEF Imports
  <2> QED BY <1>1, <1>6, <2>1 DEF OfRun, Became
<1>7. Listed(r.list) = past \cup Coming(r.list, Left(r))
  BY <1>1, <1>6 DEF PassedOver
<1>8. Cardinality(Listed(r.list)) = Len(r.list)
  BY ListedIs DEF Imports
<1>9. PICK both : both = past \cap Coming(r.list, Left(r))
  OBVIOUS
<1>10. IsFiniteSet(both) /\ Cardinality(both) \in Nat /\ Cardinality(Coming(r.list, Left(r))) \in Nat
  <2>1. both \in SUBSET past
    BY <1>9
  <2> QED BY <1>2, <1>5, <2>1, FS_Subset, FS_CardinalityType
<1>11. Cardinality(Listed(r.list)) =
         Cardinality(past) + Cardinality(Coming(r.list, Left(r))) - Cardinality(both)
  BY <1>2, <1>5, <1>7, <1>9, FS_Union
<1>12. PICK a, b, c \in Nat : /\ a = Cardinality(Left(r)) /\ b = Cardinality(both)
                              /\ c = Cardinality(Coming(r.list, Left(r)))
  BY <1>1, <1>10
<1>13. r.success + r.failure + (a + 1) = r.success + r.failure + c - b /\ c <= a
  BY <1>1, <1>2, <1>3, <1>5, <1>8, <1>11, <1>12
<1>14. \A x, y, d, e, f \in Nat : ~ (x + y + (d + 1) = x + y + f - e /\ f <= d)
  OBVIOUS
<1> QED BY <1>3, <1>12, <1>13, <1>14

\* An item more, and a place less to come.
LEMMA RecordedFits ==
  ASSUME NEW r \in Imports, PassedOver(r), r.todo # {},
         NEW p, p = r.list[First(r.todo).place], r.items[p] = Unset,
         NEW outcome \in {"success", "failed"},
         NEW q \in Imports, q.list = r.list, q.todo = Left(r), q.pc = Step(Left(r)),
         q.items = [r.items EXCEPT ![p] = outcome],
         q.success = IF outcome = "success" THEN r.success + 1 ELSE r.success,
         q.failure = IF outcome = "failed" THEN r.failure + 1 ELSE r.failure,
         \A x \in Page : q.added[x] >= r.added[x] \/ q.added[x] > 0,
         outcome = "success" => q.added[p] > 0
  PROVE  ImportFits(q)
<1>1. /\ p \in Page /\ IsFiniteSet(Left(r)) /\ Cardinality(Left(r)) \in Nat
      /\ Cardinality(r.todo) = Cardinality(Left(r)) + 1
      /\ Coming(r.list, r.todo) = Coming(r.list, Left(r)) \cup {p}
  BY StillComing
<1>2. PICK other : other \in {"success", "failed"} \ {outcome}
  OBVIOUS
<1>3. r.items \in [Page -> Became] /\ r.added \in [Page -> Nat] /\ q.added \in [Page -> Nat]
  BY DEF Imports
<1>4. OfRun(q, outcome) = OfRun(r, outcome) \cup {p} /\ p \notin OfRun(r, outcome)
  BY <1>1, <1>3 DEF OfRun, Unset
<1>5. OfRun(q, other) = OfRun(r, other)
  BY <1>1, <1>2, <1>3 DEF OfRun, Unset
<1>6. /\ IsFiniteSet(OfRun(r, "success")) /\ r.success = Cardinality(OfRun(r, "success"))
      /\ IsFiniteSet(OfRun(r, "failed")) /\ r.failure = Cardinality(OfRun(r, "failed"))
      /\ r.success + r.failure + Cardinality(r.todo) = Len(r.list)
      /\ r.success \in Nat /\ r.failure \in Nat
  BY DEF PassedOver, ItemCounts, Imports
<1>7. IsFiniteSet(OfRun(q, outcome)) /\ Cardinality(OfRun(q, outcome)) = Cardinality(OfRun(r, outcome)) + 1
  <2>1. IsFiniteSet(OfRun(r, outcome))
    BY <1>6
  <2>2. /\ IsFiniteSet(OfRun(r, outcome) \cup {p})
        /\ Cardinality(OfRun(r, outcome) \cup {p}) =
             IF p \in OfRun(r, outcome) THEN Cardinality(OfRun(r, outcome))
             ELSE Cardinality(OfRun(r, outcome)) + 1
    BY <2>1, FS_AddElement
  <2> QED BY <1>4, <2>2
<1>8. ItemCounts(q, q.list, Cardinality(q.todo))
  <2>1. CASE outcome = "success"
    BY <1>1, <1>2, <1>5, <1>6, <1>7, <2>1 DEF ItemCounts
  <2>2. CASE outcome = "failed"
    BY <1>1, <1>2, <1>5, <1>6, <1>7, <2>2 DEF ItemCounts
  <2> QED BY <2>1, <2>2
<1>9. Listed(q.list) = OfRun(q, "success") \cup OfRun(q, "failed") \cup Coming(q.list, q.todo)
  <2>1. Listed(r.list) = OfRun(r, outcome) \cup OfRun(r, other) \cup Coming(r.list, r.todo)
    BY <1>2 DEF PassedOver
  <2>2. Listed(q.list) = OfRun(q, outcome) \cup OfRun(q, other) \cup Coming(q.list, q.todo)
    BY <1>1, <1>4, <1>5, <2>1
  <2> QED BY <1>2, <2>2
<1>10. \A x \in OfRun(q, "success") : q.added[x] > 0
  <2> TAKE x \in OfRun(q, "success")
  <2>1. x \in OfRun(r, "success") \/ (x = p /\ outcome = "success")
    BY <1>2, <1>4, <1>5
  <2>2. x \in Page
    BY DEF OfRun
  <2>3. x \in OfRun(r, "success") => r.added[x] > 0
    BY DEF PassedOver
  <2> QED BY <1>3, <2>1, <2>2, <2>3
<1>11. \A a \in q.todo : a.place \in DOMAIN q.list
  BY DEF PassedOver, Left
<1>12. PassedOver(q)
  BY <1>1, <1>8, <1>9, <1>10, <1>11 DEF PassedOver
<1> QED BY <1>12 DEF ImportFits, Step, InTransaction

-----------------------------------------------------------------------------

LEMMA WebInitially == WebInit => WebInv
<1> SUFFICES ASSUME WebInit PROVE WebInv
  OBVIOUS
<1>1. Unasked \in Imports /\ NoImport \in ImportRuns
  BY DEF Unasked, Imports, NoImport, ImportRuns, Became, Configs, SourceName, Hashes, NoPage, Unset
<1>2. WebTypes
  BY <1>1 DEF WebInit, WebTypes, Configs, NoPage, SourceName, Hashes, Unset
<1>3. ASSUME NEW i \in Importer PROVE ImportFits(import[i]) /\ ImportAlone(i) /\ ImportEnded(i)
  <2>1. import[i] = Unasked
    BY DEF WebInit
  <2> QED BY <2>1 DEF ImportFits, ImportAlone, ImportEnded, Unasked, InTransaction, UnderWay
<1> QED BY <1>2, <1>3 DEF WebInv, ImportKnows

\* What a step of one import must show, and nothing else moves.
LEMMA ImportMoves ==
  ASSUME WebInv, NEW i \in Importer, NEW r \in Imports,
         import' = [import EXCEPT ![i] = r], UNCHANGED <<sources, pages, numbers, imported>>,
         r.overlapped = import[i].overlapped,
         r.pc \in InTransaction \cup {"fetch"} => UnderWay(i),
         ImportFits(r), r.pc # "done",
         ~ r.overlapped =>
           /\ r.pc = "source" => r.seen = sources[r.source]
           /\ r.pc = "version" =>
                LET p == r.list[First(r.todo).place] IN r.number = numbers[p] + r.added[p] + 1
           /\ r.pc = "lost" => Repeats(r.list)
  PROVE  WebInv'
<1>1. import \in [Importer -> Imports] /\ WebTypes /\ ImportKnows
  BY DEF WebInv, WebTypes
<1>2. import'[i] = r /\ \A j \in Importer \ {i} : import'[j] = import[j]
  BY <1>1
<1>3. WebTypes'
  BY <1>1 DEF WebTypes
<1>4. \A j \in Importer : UnderWay(j)' => UnderWay(j)
  BY <1>2 DEF UnderWay
<1>5. ASSUME NEW j \in Importer \ {i}
      PROVE  ImportFits(import[j])' /\ ImportAlone(j)' /\ ImportEnded(j)'
  <2>1. ImportFits(import[j]) /\ ImportAlone(j) /\ ImportEnded(j) /\ import'[j] = import[j]
    BY <1>1, <1>2 DEF ImportKnows
  <2>2. ImportFits(import[j])' /\ ImportEnded(j)'
    BY <2>1 DEF ImportFits, ImportEnded, PassedOver, InTransaction, ItemCounts
  <2>3. NextNumber(j, NextPage(j))' = NextNumber(j, NextPage(j))
    BY <2>1 DEF NextNumber, NextPage, Due
  <2>4. ImportAlone(j)'
    BY <1>4, <2>1, <2>3 DEF ImportAlone, Others
  <2> QED BY <2>2, <2>4
<1>6. ImportFits(import[i])' /\ ImportAlone(i)' /\ ImportEnded(i)'
  <2>1. ImportAlone(i)
    BY <1>1 DEF ImportKnows
  <2>2. ImportFits(import[i])'
    BY <1>2 DEF ImportFits, PassedOver, InTransaction, ItemCounts
  <2>3. NextNumber(i, NextPage(i))' =
          numbers[r.list[First(r.todo).place]] + r.added[r.list[First(r.todo).place]] + 1
    BY <1>2 DEF NextNumber, NextPage, Due
  <2>4. ImportAlone(i)'
    <3>1. (~ r.overlapped /\ UnderWay(i)') => \A j \in Others(i) : ~ UnderWay(j)'
      BY <1>2, <1>4, <2>1 DEF ImportAlone, Others, UnderWay
    <3> QED BY <1>2, <2>3, <3>1 DEF ImportAlone, Others
  <2>5. ImportEnded(i)'
    BY <1>2 DEF ImportEnded
  <2> QED BY <2>2, <2>4, <2>5
<1> QED BY <1>3, <1>5, <1>6 DEF WebInv, ImportKnows

LEMMA LostKeeps ==
  ASSUME WebInv, NEW i \in Importer, LoseImport(i), UNCHANGED <<sources, pages, numbers, imported>>,
         ~ import[i].overlapped => Repeats(import[i].list)
  PROVE  WebInv'
<1>1. import[i] \in Imports
  BY DEF WebInv, WebTypes
<1>2. PICK r : r = [Unasked EXCEPT !.pc = "lost", !.list = import[i].list, !.overlapped = import[i].overlapped]
  OBVIOUS
<1>3. r \in Imports
  BY <1>1, <1>2 DEF Imports, Unasked, Became, Configs, SourceName, Hashes, NoPage, Unset
<1>4. import' = [import EXCEPT ![i] = r]
  BY <1>2 DEF LoseImport
<1>5. r.pc = "lost" /\ r.list = import[i].list /\ r.overlapped = import[i].overlapped
  BY <1>2 DEF Unasked
<1>6. ImportFits(r)
  BY <1>5 DEF ImportFits, InTransaction
<1> QED BY <1>3, <1>4, <1>5, <1>6, ImportMoves DEF InTransaction

LEMMA RefuseKeeps ==
  ASSUME WebInv, NEW i \in Importer, Refuse(i)
  PROVE  WebInv'
<1>1. import[i] \in Imports
  BY DEF WebInv, WebTypes
<1>2. PICK r : r = [import[i] EXCEPT !.pc = "refused"]
  OBVIOUS
<1>3. r \in Imports /\ r.pc = "refused" /\ r.overlapped = import[i].overlapped
  BY <1>1, <1>2 DEF Imports
<1>4. import' = [import EXCEPT ![i] = r] /\ UNCHANGED <<sources, pages, numbers, imported>>
  BY <1>2 DEF Refuse
<1>5. ImportFits(r)
  BY <1>3 DEF ImportFits, InTransaction
<1> QED BY <1>3, <1>4, <1>5, ImportMoves DEF InTransaction

LEMMA FetchKeeps ==
  ASSUME WebInv, NEW i \in Importer, NEW outcome \in [DOMAIN import[i].list -> {"page", "failed"}],
         Fetch(i, outcome)
  PROVE  WebInv'
<1>1. import[i] \in Imports /\ sources \in [SourceName -> Configs] /\ import[i].pc = "fetch" /\ UnderWay(i)
  BY DEF WebInv, WebTypes, Fetch, UnderWay
<1>2. ImportFits(import[i])
  BY DEF WebInv, ImportKnows
<1>3. PICK r : r = [import[i] EXCEPT !.pc = "source", !.seen = sources[import[i].source],
                                     !.todo = Todo(import[i].list, outcome)]
  OBVIOUS
<1>4. import' = [import EXCEPT ![i] = r] /\ UNCHANGED <<sources, pages, numbers, imported>>
  BY <1>3 DEF Fetch
<1>5. import[i].list \in Seq(Page) /\ import[i].source \in SourceName
  BY <1>1 DEF Imports
<1>6. /\ Todo(import[i].list, outcome) \in SUBSET FetchedPages
      /\ IsFiniteSet(Todo(import[i].list, outcome))
      /\ Cardinality(Todo(import[i].list, outcome)) = Len(import[i].list)
      /\ \A a \in Todo(import[i].list, outcome) : a.place \in DOMAIN import[i].list
      /\ Coming(import[i].list, Todo(import[i].list, outcome)) = Listed(import[i].list)
  BY <1>5, TodoIs
<1>7. r \in Imports
  BY <1>1, <1>3, <1>5, <1>6 DEF Imports, FetchedPages
<1>8. /\ r.pc = "source" /\ r.seen = sources[r.source] /\ r.overlapped = import[i].overlapped
      /\ r.list = import[i].list /\ r.todo = Todo(import[i].list, outcome)
      /\ r.items = [p \in Page |-> Unset] /\ r.success = 0 /\ r.failure = 0
  BY <1>1, <1>2, <1>3 DEF Imports, ImportFits
<1>9. OfRun(r, "success") = {} /\ OfRun(r, "failed") = {}
  BY <1>8 DEF OfRun, Unset
<1>10. ItemCounts(r, r.list, Cardinality(r.todo))
  <2>1. Len(r.list) \in Nat /\ Cardinality(r.todo) = Len(r.list)
    BY <1>5, <1>6, <1>8
  <2>2. IsFiniteSet({}) /\ Cardinality({}) = 0
    BY FS_EmptySet
  <2>3. r.success + r.failure + Cardinality(r.todo) = Len(r.list)
    BY <1>8, <2>1
  <2> QED BY <1>8, <1>9, <2>2, <2>3 DEF ItemCounts
<1>11. PassedOver(r)
  BY <1>6, <1>8, <1>9, <1>10 DEF PassedOver
<1>12. ImportFits(r)
  BY <1>8, <1>11 DEF ImportFits
<1> QED BY <1>1, <1>4, <1>7, <1>8, <1>12, ImportMoves

LEMMA CollectKeeps ==
  ASSUME WebInv, NEW i \in Importer, NEW urls \in Seq(Page), NEW listed \in Seq(Page), CollectImports(i, urls, listed)
  PROVE  WebInv'
<1>1. import \in [Importer -> Imports] /\ WebTypes /\ ImportKnows /\ import[i].pc = "idle"
  BY DEF WebInv, WebTypes, CollectImports
<1>2. SourceOf(urls, listed) \in SourceName /\ Config(urls, listed) \in Configs /\ urls \o listed \in Seq(Page)
  BY DEF SourceOf, Config, SourceName, Configs
<1>3. PICK r : r = [import[i] EXCEPT !.pc = "fetch", !.list = urls \o listed,
                      !.source = SourceOf(urls, listed), !.config = Config(urls, listed),
                      !.overlapped = \E k \in Others(i) : UnderWay(k)]
  OBVIOUS
<1>4. /\ import'[i] = r
      /\ \A j \in Importer \ {i} :
           import'[j] = [import[j] EXCEPT !.overlapped = import[j].overlapped \/ UnderWay(j)]
      /\ import' = [j \in Importer |-> import'[j]]
      /\ UNCHANGED <<sources, pages, numbers, imported>>
  BY <1>3 DEF CollectImports
<1>5. r \in Imports
  <2>1. PICK b \in BOOLEAN : b = \E k \in Others(i) : UnderWay(k)
    OBVIOUS
  <2>2. PICK list \in Seq(Page), src \in SourceName, cfg \in Configs :
          list = urls \o listed /\ src = SourceOf(urls, listed) /\ cfg = Config(urls, listed)
    BY <1>2
  <2>3. r = [import[i] EXCEPT !.pc = "fetch", !.list = list, !.source = src, !.config = cfg, !.overlapped = b]
    BY <1>3, <2>1, <2>2
  <2>4. import[i] \in Imports
    BY <1>1
  <2> QED BY <2>3, <2>4 DEF Imports
<1>6. \A j \in Importer : import[j].overlapped \in BOOLEAN /\ UnderWay(j) \in BOOLEAN
  BY <1>1 DEF Imports, UnderWay
<1>7. \A j \in Importer : import'[j] \in Imports
  <2> TAKE j \in Importer
  <2>1. CASE j = i
    BY <1>4, <1>5, <2>1
  <2>2. CASE j # i
    <3>1. PICK b \in BOOLEAN : b = (import[j].overlapped \/ UnderWay(j))
      OBVIOUS
    <3>2. import'[j] = [import[j] EXCEPT !.overlapped = b]
      BY <1>4, <2>2, <3>1
    <3> QED BY <1>1, <3>2 DEF Imports
  <2> QED BY <2>1, <2>2
<1>8. WebTypes'
  BY <1>1, <1>4, <1>7 DEF WebTypes
<1>9. ASSUME NEW j \in Importer \ {i}
      PROVE  ImportFits(import[j])' /\ ImportAlone(j)' /\ ImportEnded(j)'
  <2>1. ImportFits(import[j]) /\ ImportAlone(j) /\ ImportEnded(j) /\ import[j] \in Imports
    BY <1>1 DEF ImportKnows
  <2>2. PICK q : q = [import[j] EXCEPT !.overlapped = import[j].overlapped \/ UnderWay(j)]
    OBVIOUS
  <2>3. /\ q.pc = import[j].pc /\ q.list = import[j].list /\ q.todo = import[j].todo /\ q.items = import[j].items
        /\ q.success = import[j].success /\ q.failure = import[j].failure /\ q.added = import[j].added
        /\ q.overlapped = (import[j].overlapped \/ UnderWay(j))
    BY <2>1, <2>2 DEF Imports
  <2>4. import'[j] = q
    BY <1>4, <2>2
  <2>5. ImportFits(import[j])'
    BY <2>1, <2>3, <2>4 DEF ImportFits, PassedOver, ItemCounts, OfRun, InTransaction
  <2>6. ImportEnded(j)'
    BY <1>4, <2>1, <2>3, <2>4 DEF ImportEnded, ItemCounts
  <2>7. ImportAlone(j)'
    BY <1>6, <2>1, <2>3, <2>4 DEF ImportAlone, UnderWay, InTransaction
  <2> QED BY <2>5, <2>6, <2>7
<1>10. ImportFits(import[i])' /\ ImportAlone(i)' /\ ImportEnded(i)'
  <2>1. ImportFits(import[i]) /\ import[i] \in Imports
    BY <1>1 DEF ImportKnows
  <2>2. /\ r.pc = "fetch" /\ r.items = import[i].items /\ r.success = import[i].success
        /\ r.failure = import[i].failure /\ r.overlapped = (\E k \in Others(i) : UnderWay(k))
    BY <1>3, <2>1 DEF Imports
  <2>3. ImportFits(r)
    BY <1>1, <2>1, <2>2 DEF ImportFits, InTransaction
  <2>4. ImportFits(import[i])'
    BY <1>4, <2>3 DEF ImportFits, PassedOver, ItemCounts, InTransaction
  <2>5. \A j \in Others(i) : import'[j].pc = import[j].pc
    BY <1>1, <1>4 DEF Others, Imports
  <2>6. (~ import[i].overlapped)' => \A j \in Others(i) : ~ UnderWay(j)'
    BY <1>4, <2>2, <2>5 DEF UnderWay
  <2>7. ImportAlone(i)' /\ ImportEnded(i)'
    BY <1>4, <2>2, <2>6 DEF ImportAlone, ImportEnded, Others
  <2> QED BY <2>4, <2>7
<1> QED BY <1>8, <1>9, <1>10 DEF WebInv, ImportKnows

LEMMA WriteSourceKeeps ==
  ASSUME WebInv, NEW i \in Importer, WriteSource(i)
  PROVE  WebInv'
<1>1. import[i] \in Imports /\ import[i].pc = "source" /\ UNCHANGED <<sources, pages, numbers, imported>>
  BY DEF WebInv, WebTypes, WriteSource
<1>2. ImportFits(import[i]) /\ ImportAlone(i) /\ UnderWay(i)
  BY <1>1 DEF WebInv, ImportKnows, UnderWay, InTransaction
<1>3. CASE import[i].seen = NoConfig /\ sources[import[i].source] # NoConfig
  <2>1. LoseImport(i)
    BY <1>3 DEF WriteSource
  <2>2. import[i].overlapped
    BY <1>1, <1>2, <1>3 DEF ImportAlone
  <2> QED BY <1>1, <2>1, <2>2, LostKeeps
<1>4. CASE ~ (import[i].seen = NoConfig /\ sources[import[i].source] # NoConfig)
  <2>1. PICK r : r = [import[i] EXCEPT !.pc = Step(import[i].todo), !.named = WritesSource(i)]
    OBVIOUS
  <2>2. import' = [import EXCEPT ![i] = r]
    BY <1>4, <2>1 DEF WriteSource
  <2>3. r \in Imports
    BY <1>1, <2>1 DEF Imports, Step, WritesSource
  <2>4. /\ r.pc = Step(import[i].todo) /\ r.list = import[i].list /\ r.todo = import[i].todo
        /\ r.items = import[i].items /\ r.success = import[i].success /\ r.failure = import[i].failure
        /\ r.added = import[i].added /\ r.overlapped = import[i].overlapped
    BY <1>1, <2>1 DEF Imports
  <2>5. r.pc \in {"document", "commit"} /\ (r.pc = "document" <=> r.todo # {})
    BY <2>4 DEF Step
  <2>6. PassedOver(import[i])
    BY <1>1, <1>2 DEF ImportFits, InTransaction
  <2>7. PassedOver(r)
    BY <2>4, <2>6 DEF PassedOver, ItemCounts, OfRun
  <2>8. ImportFits(r)
    BY <2>5, <2>7 DEF ImportFits
  <2> QED BY <1>1, <1>2, <2>2, <2>3, <2>4, <2>5, <2>8, ImportMoves
<1> QED BY <1>3, <1>4

\* What a request at a page of the list holds.
LEMMA AtPage ==
  ASSUME WebInv, NEW i \in Importer, import[i].pc \in {"document", "version"}
  PROVE  /\ import[i] \in Imports /\ UnderWay(i) /\ PassedOver(import[i]) /\ import[i].todo # {}
         /\ NextPage(i) \in Page /\ NextPage(i) = import[i].list[First(import[i].todo).place]
         /\ Left(import[i]) \in SUBSET FetchedPages /\ Step(Left(import[i])) \in {"document", "commit"}
         /\ numbers \in [Page -> Nat] /\ ImportAlone(i)
<1>1. import[i] \in Imports /\ numbers \in [Page -> Nat] /\ UnderWay(i)
  BY DEF WebInv, WebTypes, UnderWay, InTransaction
<1>2. PassedOver(import[i]) /\ import[i].todo # {} /\ ImportAlone(i)
  BY DEF WebInv, ImportKnows, ImportFits, InTransaction
<1>3. NextPage(i) = import[i].list[First(import[i].todo).place]
  BY DEF NextPage, Due
<1> QED BY <1>1, <1>2, <1>3, StillComing DEF Step

LEMMA WrittenIs ==
  ASSUME NEW i \in Importer, import[i] \in Imports, NEW p \in Page, NEW hash \in {"page", "failed"}
  PROVE  \E w \in [Page -> [source: SourceName, hash: Hashes]] :
           Written(i, p, hash) = [import[i] EXCEPT !.wrote = w]
<1>1. import[i].wrote \in [Page -> [source: SourceName, hash: Hashes]] /\ import[i].source \in SourceName
  BY DEF Imports
<1>2. CASE Sees(i, p) = PageRow(i, hash)
  <2>1. import[i] = [import[i] EXCEPT !.wrote = import[i].wrote]
    BY DEF Imports
  <2> QED BY <1>1, <1>2, <2>1 DEF Written
<1>3. CASE Sees(i, p) # PageRow(i, hash)
  <2>1. PICK w : w = [import[i].wrote EXCEPT ![p] = PageRow(i, hash)]
    OBVIOUS
  <2>2. PageRow(i, hash) \in [source: SourceName, hash: Hashes]
    BY <1>1 DEF PageRow, Hashes
  <2>3. w \in [Page -> [source: SourceName, hash: Hashes]]
    BY <1>1, <2>1, <2>2
  <2>4. Written(i, p, hash) = [import[i] EXCEPT !.wrote = w]
    BY <1>3, <2>1 DEF Written
  <2> QED BY <2>3, <2>4
<1> QED BY <1>2, <1>3

LEMMA WriteDocumentKeeps ==
  ASSUME WebInv, NEW i \in Importer, WriteDocument(i)
  PROVE  WebInv'
<1>1. import[i].pc = "document" /\ UNCHANGED <<sources, pages, numbers, imported>>
  BY DEF WriteDocument
<1>2. /\ import[i] \in Imports /\ UnderWay(i) /\ PassedOver(import[i]) /\ import[i].todo # {}
      /\ NextPage(i) \in Page /\ NextPage(i) = import[i].list[First(import[i].todo).place]
      /\ numbers \in [Page -> Nat] /\ ImportAlone(i)
  BY <1>1, AtPage
<1>3. PICK w \in [Page -> [source: SourceName, hash: Hashes]] :
        Written(i, NextPage(i), "page") = [import[i] EXCEPT !.wrote = w]
  BY <1>2, WrittenIs
<1>4. PICK n : n = NextNumber(i, NextPage(i))
  OBVIOUS
<1>5. import[i].added[NextPage(i)] \in Nat /\ numbers[NextPage(i)] \in Nat
  BY <1>2 DEF Imports
<1>6. n \in Nat
  BY <1>4, <1>5 DEF NextNumber
<1>7. PICK r : r = [import[i] EXCEPT !.wrote = w, !.pc = "version", !.number = n]
  OBVIOUS
<1>8. import' = [import EXCEPT ![i] = r]
  BY <1>3, <1>4, <1>7 DEF WriteDocument
<1>9. r \in Imports
  BY <1>2, <1>6, <1>7 DEF Imports
<1>10. /\ r.pc = "version" /\ r.list = import[i].list /\ r.todo = import[i].todo
       /\ r.items = import[i].items /\ r.success = import[i].success /\ r.failure = import[i].failure
       /\ r.added = import[i].added /\ r.overlapped = import[i].overlapped /\ r.number = n
  BY <1>2, <1>7 DEF Imports
<1>11. PassedOver(r)
  BY <1>2, <1>10 DEF PassedOver, ItemCounts, OfRun
<1>12. ImportFits(r)
  BY <1>2, <1>10, <1>11 DEF ImportFits
<1>13. r.number = numbers[r.list[First(r.todo).place]] + r.added[r.list[First(r.todo).place]] + 1
  BY <1>2, <1>4, <1>10 DEF NextNumber
<1> QED BY <1>1, <1>2, <1>8, <1>9, <1>10, <1>12, <1>13, ImportMoves

LEMMA WriteFailureKeeps ==
  ASSUME WebInv, NEW i \in Importer, WriteFailure(i)
  PROVE  WebInv'
<1>1. import[i].pc = "document" /\ UNCHANGED <<sources, pages, numbers, imported>>
  BY DEF WriteFailure
<1>2. /\ import[i] \in Imports /\ UnderWay(i) /\ PassedOver(import[i]) /\ import[i].todo # {}
      /\ NextPage(i) \in Page /\ NextPage(i) = import[i].list[First(import[i].todo).place]
      /\ Left(import[i]) \in SUBSET FetchedPages /\ Step(Left(import[i])) \in {"document", "commit"}
  BY <1>1, AtPage
<1>3. CASE import[i].items[NextPage(i)] # Unset
  <2>1. LoseImport(i)
    BY <1>3 DEF WriteFailure
  <2>2. Repeats(import[i].list)
    BY <1>2, <1>3, NothingYet
  <2> QED BY <1>1, <2>1, <2>2, LostKeeps
<1>4. CASE import[i].items[NextPage(i)] = Unset
  <2>1. PICK w \in [Page -> [source: SourceName, hash: Hashes]] :
          Written(i, NextPage(i), "failed") = [import[i] EXCEPT !.wrote = w]
    BY <1>2, WrittenIs
  <2>2. PICK s : s = [import[i] EXCEPT !.wrote = w]
    OBVIOUS
  <2>3. /\ s \in Imports /\ s.list = import[i].list /\ s.todo = import[i].todo
        /\ s.items = import[i].items /\ s.success = import[i].success /\ s.failure = import[i].failure
        /\ s.added = import[i].added /\ s.overlapped = import[i].overlapped
    BY <1>2, <2>2 DEF Imports
  <2>4. PassedOver(s)
    BY <1>2, <2>3 DEF PassedOver, ItemCounts, OfRun
  <2>5. PICK r : r = Recorded(s, NextPage(i), "failed")
    OBVIOUS
  <2>6. import' = [import EXCEPT ![i] = r]
    BY <1>4, <2>1, <2>2, <2>5 DEF WriteFailure
  <2>7. Left(s) = Left(import[i])
    BY <2>3 DEF Left
  <2>8. r \in Imports
    <3>1. s.failure + 1 \in Nat /\ s.items \in [Page -> Became]
      BY <2>3 DEF Imports
    <3>2. [s.items EXCEPT ![NextPage(i)] = "failed"] \in [Page -> Became]
      BY <1>2, <3>1 DEF Became
    <3> QED BY <1>2, <2>3, <2>5, <2>7, <3>1, <3>2 DEF Imports, Recorded, FetchedPages
  <2>9. /\ r.list = s.list /\ r.todo = Left(s) /\ r.pc = Step(Left(s))
        /\ r.items = [s.items EXCEPT ![NextPage(i)] = "failed"]
        /\ r.success = s.success /\ r.failure = s.failure + 1 /\ r.added = s.added
        /\ r.overlapped = import[i].overlapped
    BY <2>3, <2>5 DEF Recorded, Imports
  <2>10. \A x \in Page : r.added[x] >= s.added[x]
    BY <2>3, <2>9 DEF Imports
  <2>11. ImportFits(r)
    <3>1. /\ s.todo # {} /\ NextPage(i) = s.list[First(s.todo).place] /\ s.items[NextPage(i)] = Unset
          /\ s \in Imports /\ r.list = s.list
      BY <1>2, <1>4, <2>3, <2>9
    <3>2. /\ "failed" \in {"success", "failed"}
          /\ r.success = IF "failed" = "success" THEN s.success + 1 ELSE s.success
          /\ r.failure = IF "failed" = "failed" THEN s.failure + 1 ELSE s.failure
          /\ "failed" = "success" => r.added[NextPage(i)] > 0
      BY <2>9
    <3>3. \A x \in Page : r.added[x] >= s.added[x] \/ r.added[x] > 0
      BY <2>10
    <3> QED BY <2>4, <2>8, <2>9, <3>1, <3>2, <3>3, RecordedFits
  <2> QED BY <1>1, <1>2, <2>6, <2>7, <2>8, <2>9, <2>11, ImportMoves
<1> QED BY <1>3, <1>4

LEMMA WriteVersionKeeps ==
  ASSUME WebInv, NEW i \in Importer, WriteVersion(i)
  PROVE  WebInv'
<1>1. import[i].pc = "version" /\ UNCHANGED <<sources, pages, numbers, imported>>
  BY DEF WriteVersion
<1>2. /\ import[i] \in Imports /\ UnderWay(i) /\ PassedOver(import[i]) /\ import[i].todo # {}
      /\ NextPage(i) \in Page /\ NextPage(i) = import[i].list[First(import[i].todo).place]
      /\ Left(import[i]) \in SUBSET FetchedPages /\ Step(Left(import[i])) \in {"document", "commit"}
      /\ ImportAlone(i)
  BY <1>1, AtPage
<1>3. CASE import[i].number # NextNumber(i, NextPage(i)) \/ import[i].items[NextPage(i)] # Unset
  <2>1. LoseImport(i)
    BY <1>3 DEF WriteVersion
  <2>2. ~ import[i].overlapped => Repeats(import[i].list)
    BY <1>1, <1>2, <1>3, NothingYet DEF ImportAlone
  <2> QED BY <1>1, <2>1, <2>2, LostKeeps
<1>4. CASE ~ (import[i].number # NextNumber(i, NextPage(i)) \/ import[i].items[NextPage(i)] # Unset)
  <2> DEFINE s == import[i]
             p == NextPage(i)
             count == s.added[p] + 1
  <2>1. s.added \in [Page -> Nat] /\ s.items \in [Page -> Became] /\ s.success + 1 \in Nat
    BY <1>2 DEF Imports
  <2>2. count \in Nat /\ count > 0 /\ [s.items EXCEPT ![p] = "success"] \in [Page -> Became]
    BY <1>2, <2>1 DEF Became
  <2>3. PICK q : q = Recorded(s, p, "success")
    OBVIOUS
  <2>4. q \in Imports
    BY <1>2, <2>1, <2>2, <2>3 DEF Imports, Recorded, FetchedPages
  <2>5. /\ q.list = s.list /\ q.todo = Left(s) /\ q.pc = Step(Left(s))
        /\ q.items = [s.items EXCEPT ![p] = "success"]
        /\ q.success = s.success + 1 /\ q.failure = s.failure /\ q.added = s.added
        /\ q.overlapped = s.overlapped
    BY <1>2, <2>3 DEF Recorded, Imports
  <2>6. PICK added : added = [s.added EXCEPT ![p] = count]
    OBVIOUS
  <2>7. added \in [Page -> Nat] /\ added[p] = count /\ \A x \in Page : x # p => added[x] = s.added[x]
    BY <1>2, <2>1, <2>2, <2>6
  <2>8. PICK r : r = [q EXCEPT !.added = added]
    OBVIOUS
  <2>9. import' = [import EXCEPT ![i] = r]
    <3>1. import' = [import EXCEPT ![i] = [Recorded(s, p, "success") EXCEPT !.added[p] = @ + 1]]
      BY <1>4 DEF WriteVersion
    <3>2. [Recorded(s, p, "success") EXCEPT !.added[p] = @ + 1] = [q EXCEPT !.added[p] = q.added[p] + 1]
      BY <2>3
    <3>3. [q EXCEPT !.added[p] = q.added[p] + 1] = r
      BY <2>5, <2>6, <2>8
    <3> QED BY <3>1, <3>2, <3>3
  <2>10. r \in Imports
    BY <2>4, <2>7, <2>8 DEF Imports
  <2>11. /\ r.list = s.list /\ r.todo = Left(s) /\ r.pc = Step(Left(s))
         /\ r.items = [s.items EXCEPT ![p] = "success"]
         /\ r.success = s.success + 1 /\ r.failure = s.failure /\ r.added = added
         /\ r.overlapped = s.overlapped
    BY <2>4, <2>5, <2>8 DEF Imports
  <2>12. ImportFits(r)
    <3>1. \A x \in Page : r.added[x] >= s.added[x] \/ r.added[x] > 0
      BY <2>1, <2>2, <2>7, <2>11
    <3>2. /\ s.todo # {} /\ p = s.list[First(s.todo).place] /\ s.items[p] = Unset
          /\ s \in Imports /\ r.list = s.list /\ PassedOver(s)
      BY <1>2, <1>4, <2>11
    <3>3. /\ "success" \in {"success", "failed"}
          /\ r.success = IF "success" = "success" THEN s.success + 1 ELSE s.success
          /\ r.failure = IF "success" = "failed" THEN s.failure + 1 ELSE s.failure
          /\ "success" = "success" => r.added[p] > 0
      BY <2>2, <2>7, <2>11
    <3> HIDE DEF s, p
    <3> QED BY <2>10, <2>11, <3>1, <3>2, <3>3, RecordedFits
  <2> QED BY <1>1, <1>2, <2>9, <2>10, <2>11, <2>12, ImportMoves
<1> QED BY <1>3, <1>4

LEMMA DeadlockVictimKeeps ==
  ASSUME WebInv, NEW i \in Importer, DeadlockVictim(i)
  PROVE  WebInv'
<1>1. PICK j \in Others(i) : WaitsFor(i, j) /\ WaitsFor(j, i)
  BY DEF DeadlockVictim
<1>2. UnderWay(i) /\ UnderWay(j)
  BY <1>1 DEF WaitsFor, UnderWay, InTransaction
<1>3. ImportAlone(i)
  BY DEF WebInv, ImportKnows
<1>4. import[i].overlapped
  BY <1>1, <1>2, <1>3 DEF ImportAlone
<1> QED BY <1>4, LostKeeps DEF DeadlockVictim

LEMMA CommitImportKeeps ==
  ASSUME WebInv, NEW i \in Importer, CommitImport(i)
  PROVE  WebInv'
<1>1. import \in [Importer -> Imports] /\ WebTypes /\ ImportKnows /\ import[i].pc = "commit"
  BY DEF WebInv, WebTypes, CommitImport
<1>2. import[i] \in Imports /\ ImportFits(import[i]) /\ ImportAlone(i) /\ UnderWay(i)
  BY <1>1 DEF ImportKnows, UnderWay, InTransaction
<1>3. PassedOver(import[i]) /\ import[i].todo = {}
  BY <1>1, <1>2 DEF ImportFits, InTransaction
<1>4. PICK r : r = [Unasked EXCEPT !.pc = "done", !.list = import[i].list, !.overlapped = import[i].overlapped]
  OBVIOUS
<1>5. r \in Imports /\ r.pc = "done" /\ r.list = import[i].list /\ r.overlapped = import[i].overlapped
  BY <1>2, <1>4 DEF Imports, Unasked, Became, Configs, SourceName, Hashes, NoPage, Unset
<1>6. PICK m : m = [items |-> import[i].items, success |-> import[i].success, failure |-> import[i].failure,
                    status |-> IF import[i].failure > 0 THEN "completed_with_failures" ELSE "completed"]
  OBVIOUS
<1>7. /\ m \in ImportRuns /\ m.items = import[i].items /\ m.success = import[i].success
      /\ m.failure = import[i].failure
  BY <1>2, <1>6 DEF Imports, ImportRuns
<1>8. import' = [import EXCEPT ![i] = r] /\ imported' = [imported EXCEPT ![i] = m]
  BY <1>4, <1>6 DEF CommitImport
<1>9. numbers \in [Page -> Nat] /\ import[i].added \in [Page -> Nat] /\ imported \in [Importer -> ImportRuns]
  BY <1>1, <1>2 DEF WebTypes, Imports
<1>10. /\ numbers' \in [Page -> Nat]
       /\ \A p \in Page : numbers'[p] = numbers[p] + import[i].added[p] /\ numbers'[p] >= numbers[p]
  BY <1>9 DEF CommitImport
<1>11. WebTypes'
  <2>1. sources' \in [SourceName -> Configs]
    BY <1>1, <1>2 DEF CommitImport, WebTypes, Imports
  <2>2. pages' \in [Page -> [source: SourceName, hash: Hashes]]
    BY <1>1, <1>2 DEF CommitImport, WebTypes, Imports, Sees
  <2> QED BY <1>1, <1>5, <1>7, <1>8, <1>9, <1>10, <2>1, <2>2 DEF WebTypes
<1>12. ASSUME NEW j \in Importer \ {i}
       PROVE  ImportFits(import[j])' /\ ImportAlone(j)' /\ ImportEnded(j)'
  <2>1. /\ ImportFits(import[j]) /\ ImportAlone(j) /\ ImportEnded(j)
        /\ import'[j] = import[j] /\ imported'[j] = imported[j]
    BY <1>1, <1>8, <1>9 DEF ImportKnows
  <2>2. ImportFits(import[j])'
    BY <2>1 DEF ImportFits, PassedOver, InTransaction, ItemCounts
  <2>3. ImportEnded(j)'
    <3>1. \A p \in OfRun(imported[j], "success") : numbers[p] > 0 => numbers'[p] > 0
      BY <1>9, <1>10 DEF OfRun
    <3> QED BY <2>1, <3>1 DEF ImportEnded, ItemCounts
  <2>4. UnderWay(j) => import[j].overlapped
    BY <1>2, <2>1 DEF ImportAlone, Others
  <2>5. ImportAlone(j)'
    BY <2>1, <2>4 DEF ImportAlone, UnderWay, InTransaction
  <2> QED BY <2>2, <2>3, <2>5
<1>13. ImportFits(import[i])' /\ ImportAlone(i)' /\ ImportEnded(i)'
  <2>1. import'[i] = r /\ imported'[i] = m
    BY <1>1, <1>8, <1>9
  <2>2. ImportFits(import[i])' /\ ImportAlone(i)'
    BY <1>5, <2>1 DEF ImportFits, ImportAlone, UnderWay, InTransaction
  <2>3. OfRun(m, "success") = OfRun(import[i], "success") /\ OfRun(m, "failed") = OfRun(import[i], "failed")
    BY <1>7 DEF OfRun
  <2>4. ItemCounts(m, r.list, 0)
    BY <1>3, <1>5, <1>7, <2>3, FS_EmptySet DEF PassedOver, ItemCounts
  <2>5. Listed(r.list) = OfRun(m, "success") \cup OfRun(m, "failed")
    BY <1>3, <1>5, <2>3 DEF PassedOver, Coming
  <2>6. \A p \in OfRun(m, "success") : numbers'[p] > 0
    <3>1. \A p \in OfRun(import[i], "success") : import[i].added[p] > 0 /\ p \in Page
      BY <1>3 DEF PassedOver, OfRun
    <3> QED BY <1>9, <1>10, <2>3, <3>1
  <2>7. ImportEnded(i)'
    BY <1>5, <2>1, <2>4, <2>5, <2>6 DEF ImportEnded
  <2> QED BY <2>2, <2>7
<1> QED BY <1>11, <1>12, <1>13 DEF WebInv, ImportKnows

LEMMA WebKept == WebInv /\ [WebNext]_webVars => WebInv'
<1> SUFFICES ASSUME WebInv, [WebNext]_webVars PROVE WebInv'
  OBVIOUS
<1>1. CASE UNCHANGED webVars
  BY <1>1 DEF webVars, WebInv, WebTypes, ImportKnows, ImportFits, PassedOver, ItemCounts, ImportAlone,
     ImportEnded, InTransaction, UnderWay, NextNumber, NextPage, Due
<1>2. CASE WebNext
  <2>1. PICK i \in Importer :
          \/ Refuse(i)
          \/ \E list \in ListsUpTo(MaxUrls + 1), k \in 0..(MaxUrls + 1) :
               k <= Len(list) /\ CollectImports(i, SubSeq(list, 1, k), SubSeq(list, k + 1, Len(list)))
          \/ \E outcome \in [DOMAIN import[i].list -> {"page", "failed"}] : Fetch(i, outcome)
          \/ WriteSource(i) \/ WriteDocument(i) \/ WriteFailure(i) \/ WriteVersion(i)
          \/ DeadlockVictim(i) \/ CommitImport(i)
    BY <1>2 DEF WebNext
  <2>2. ASSUME NEW list \in ListsUpTo(MaxUrls + 1), NEW k \in 0..(MaxUrls + 1), k <= Len(list),
               CollectImports(i, SubSeq(list, 1, k), SubSeq(list, k + 1, Len(list)))
        PROVE  WebInv'
    <3>1. PICK n \in 0..(MaxUrls + 1) : list \in [1..n -> Page]
      BY DEF ListsUpTo
    <3>2. list \in Seq(Page) /\ Len(list) = n
      BY <3>1, WebImportAssumption
    <3>3. k \in Nat /\ n \in Nat
      BY <3>1, WebImportAssumption
    <3>4. SubSeq(list, 1, k) \in Seq(Page) /\ SubSeq(list, k + 1, Len(list)) \in Seq(Page)
      BY <2>2, <3>2, <3>3
    <3> QED BY <2>2, <3>4, CollectKeeps
  <2>3. CASE Refuse(i)
    BY <2>3, RefuseKeeps
  <2>4. CASE WriteSource(i) \/ WriteDocument(i) \/ WriteFailure(i)
    BY <2>4, WriteSourceKeeps, WriteDocumentKeeps, WriteFailureKeeps
  <2>5. CASE WriteVersion(i) \/ DeadlockVictim(i) \/ CommitImport(i)
    BY <2>5, WriteVersionKeeps, DeadlockVictimKeeps, CommitImportKeeps
  <2> QED BY <2>1, <2>2, <2>3, <2>4, <2>5, FetchKeeps
<1> QED BY <1>1, <1>2

LEMMA WebAccounts == WebInv => ImportAccounted
<1> SUFFICES ASSUME WebInv, NEW i \in Importer
             PROVE  ImportEnded(i) =>
                      /\ import[i].pc = "done" =>
                           LET Of(o) == {p \in Page : imported[i].items[p] = o}
                           IN  /\ Of("success") \cup Of("failed") = {import[i].list[k] : k \in DOMAIN import[i].list}
                               /\ imported[i].success = Cardinality(Of("success"))
                               /\ imported[i].failure = Cardinality(Of("failed"))
                               /\ imported[i].success + imported[i].failure = Len(import[i].list)
                               /\ \A p \in Of("success") : numbers[p] > 0
                      /\ import[i].pc = "lost" => Repeats(import[i].list) \/ import[i].overlapped
  BY DEF ImportAccounted, WebInv, ImportKnows
<1>1. imported[i].success \in Nat /\ imported[i].failure \in Nat
  BY DEF WebInv, WebTypes, ImportRuns
<1> QED BY <1>1 DEF ImportEnded, ItemCounts, Listed, OfRun

\* A committed run has one item for every page of its list and counts them, and only a
\* repeated page or an overlap can cost an import all it fetched.
THEOREM ImportsAreAccounted == WebSpec => []ImportAccounted
<1>1. WebInv /\ [WebNext]_webVars => WebInv'
  BY WebKept
<1> QED BY <1>1, WebInitially, WebAccounts, PTL DEF WebSpec
=============================================================================
