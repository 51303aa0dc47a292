--------------------------- MODULE ServicesProofs ---------------------------
(***************************************************************************)
(* Proofs about five services that share nothing, for any number of        *)
(* requests, conversations, steps, months and edits.                       *)
(*                                                                         *)
(* Conversations.  The number of a turn is computed from a history that    *)
(* may be old, and the insert fails when the number is taken.  So what a   *)
(* request holds of an open conversation is always the whole of the turns  *)
(* below the number it would insert (Held): the numbers below are taken,   *)
(* and a turn that was added meanwhile has a number that was free.  An     *)
(* answer that nothing overlaps with is kept: whoever is still alone holds *)
(* all turns, in a conversation that is open (Undisturbed).                *)
(*                                                                         *)
(* Workflows.  The calls of visit() are a path along dependencies, so that *)
(* one that comes back to the path has found a cycle (StackFits), and the  *)
(* order has every step after its dependencies, so that none is cyclic     *)
(* (OrderFits).  The run has come as far as its results reach (PhaseFits). *)
(*                                                                         *)
(* Budgets.  What can still be sent of a month without an edit or a        *)
(* request broken off is counted (Spare): every edit and every request     *)
(* broken off raises it by one at most, and a sending lowers it (Paid).    *)
(*                                                                         *)
(* Understanding.  As long as requests come one at a time, a record in     *)
(* memory is the one in the row (KnowsRow), so that what is generated is   *)
(* not there with the same input.                                          *)
(*                                                                         *)
(* Parsing.  While nobody has answered, whoever could read the file found  *)
(* it empty, with OCR tried on it, and the last of them is kept            *)
(* (Unanswered); the end of the chain only chooses among these.            *)
(***************************************************************************)
EXTENDS Conversations, Workflow, UsageBudget, Understanding, AdvancedParsing,
        FiniteSetTheorems, FunctionTheorems, SequenceTheorems, WellFoundedInduction, TLAPS

-----------------------------------------------------------------------------
(* Conversations.                                                          *)

\* Turns of one conversation have distinct numbers, without a gap, and while
\* there is one there is a last one.
Numbered(c) ==
  /\ \A t, u \in TurnsOf(c) : t.index = u.index => t = u
  /\ \A t \in TurnsOf(c) : \A i \in Nat : i < t.index => Taken(c, i)
  /\ TurnsOf(c) = {} \/ \E t \in TurnsOf(c) : \A u \in TurnsOf(c) : u.index <= t.index

\* The entries of the turns of a conversation below a number.
Below(c, n) == {EntryOf(u) : u \in {v \in TurnsOf(c) : v.index < n}}

Whole(c, h) ==
  /\ NextIndex(h) \in Nat
  /\ \A i \in Nat : i < NextIndex(h) => Taken(c, i)
  /\ h = Below(c, NextIndex(h))

Held(r) ==
  ask[r].pc \in {"asking", "answered"} =>
    /\ conversation[ask[r].conversation].state # "none"
    /\ Open(ask[r].conversation) => Whole(ask[r].conversation, ask[r].history)

\* A turn belongs to one request, which is done; the turn that the request
\* for feedback has found too.
OneTurn ==
  /\ \A t \in turns : ask[t.asked].pc = "done"
  /\ \A t, u \in turns : t.asked = u.asked => t = u
  /\ rate.pc = "found" =>
       /\ ask[rate.feedback.turn].pc = "done"
       /\ \A t \in turns : t.asked = rate.feedback.turn => t.conversation = rate.feedback.conversation

ThreadInv ==
  /\ ConversationsTypeOK
  /\ \A c \in Conversation : Numbered(c) /\ (conversation[c].state = "none" => TurnsOf(c) = {})
  /\ \A r \in Request : Held(r)
  /\ HistoryIsWhole
  /\ OneTurn
  /\ FeedbackNamesTurn

-----------------------------------------------------------------------------
(* Numbers.                                                                *)

\* The number after all turns of a conversation, as a request that has just
\* loaded them computes it, makes its history the whole of them.
LEMMA LoadedIsWhole ==
  ASSUME ThreadInv, NEW c \in Conversation
  PROVE  Whole(c, {EntryOf(t) : t \in TurnsOf(c)})
<1> DEFINE h == {EntryOf(t) : t \in TurnsOf(c)}
<1>1. turns \subseteq Turn /\ Numbered(c)
  BY DEF ThreadInv, ConversationsTypeOK
<1>2. \A t \in TurnsOf(c) : t.index \in Nat
  BY <1>1 DEF TurnsOf, Turn
<1>3. CASE TurnsOf(c) = {}
  <2>1. h = {} /\ NextIndex(h) = 0
    BY <1>3 DEF NextIndex
  <2> QED
    BY <1>3, <2>1 DEF Whole, Below
<1>4. CASE TurnsOf(c) # {}
  <2>1. PICK t \in TurnsOf(c) : \A u \in TurnsOf(c) : u.index <= t.index
    BY <1>1, <1>4 DEF Numbered
  <2>2. EntryOf(t) \in h /\ h # {}
    BY <2>1
  <2>3. \A x \in h : \E u \in TurnsOf(c) : x = EntryOf(u) /\ x.index = u.index
    BY DEF EntryOf
  <2> DEFINE top(i) == i \in {x.index : x \in h} /\ \A x \in h : x.index <= i
  <2>4. top(t.index)
    BY <2>1, <2>2, <2>3 DEF EntryOf
  <2>5. \A i : top(i) => i = t.index
    <3> SUFFICES ASSUME NEW i, top(i) PROVE i = t.index
      OBVIOUS
    <3>1. PICK x \in h : i = x.index
      OBVIOUS
    <3>2. i \in Nat /\ i <= t.index
      BY <1>2, <2>1, <2>3, <3>1
    <3>3. t.index <= i
      BY <2>2 DEF EntryOf
    <3> QED
      BY <1>2, <2>1, <3>2, <3>3
  <2>6. (CHOOSE i \in {x.index : x \in h} : \A x \in h : x.index <= i) = t.index
    BY <2>4, <2>5
  <2>7. NextIndex(h) = t.index + 1
    BY <2>2, <2>6 DEF NextIndex
  <2>8. t.index \in Nat /\ NextIndex(h) \in Nat
    BY <1>2, <2>1, <2>7
  <2>9. \A i \in Nat : i < NextIndex(h) => Taken(c, i)
    <3> SUFFICES ASSUME NEW i \in Nat, i < t.index + 1 PROVE Taken(c, i)
      BY <2>7
    <3>1. i = t.index \/ i < t.index
      BY <2>8
    <3> QED
      BY <1>1, <2>1, <3>1 DEF Numbered, Taken
  <2>10. {v \in TurnsOf(c) : v.index < NextIndex(h)} = TurnsOf(c)
    BY <1>2, <2>1, <2>7
  <2> QED
    BY <2>8, <2>9, <2>10 DEF Whole, Below
<1> QED
  BY <1>3, <1>4

\* A free number that a whole history leads to comes after every other.
LEMMA FreeIsNext ==
  ASSUME ThreadInv, NEW c \in Conversation, NEW h, Whole(c, h), ~ Taken(c, NextIndex(h))
  PROVE  \A t \in TurnsOf(c) : t.index < NextIndex(h)
<1> SUFFICES ASSUME NEW t \in TurnsOf(c) PROVE t.index < NextIndex(h)
  OBVIOUS
<1>1. t.index \in Nat /\ NextIndex(h) \in Nat
  BY DEF ThreadInv, ConversationsTypeOK, TurnsOf, Turn, Whole
<1>2. t.index # NextIndex(h)
  BY DEF Taken
<1>3. ~ (NextIndex(h) < t.index)
  BY <1>1 DEF ThreadInv, Numbered
<1> QED
  BY <1>1, <1>2, <1>3

-----------------------------------------------------------------------------
(* Steps that leave the rows alone.                                        *)

\* Where the turns stay, so does what is said of them alone.
LEMMA TurnsStay ==
  ASSUME ThreadInv, UNCHANGED turns
  PROVE  /\ \A c \in Conversation : Numbered(c)'
         /\ HistoryIsWhole'
         /\ \A c : TurnsOf(c)' = TurnsOf(c)
         /\ \A c, i : Taken(c, i)' <=> Taken(c, i)
         /\ \A c, n : Below(c, n)' = Below(c, n)
<1>1. \A c : TurnsOf(c)' = TurnsOf(c)
  BY DEF TurnsOf
<1>2. \A c, i : Taken(c, i)' <=> Taken(c, i)
  BY DEF Taken, TurnsOf
<1>3. \A c, n : Below(c, n)' = Below(c, n)
  BY DEF Below, TurnsOf, EntryOf
<1>4. \A t : Before(t)' = Before(t)
  BY DEF Before, TurnsOf, EntryOf
<1>5. HistoryIsWhole'
  BY <1>4 DEF ThreadInv, HistoryIsWhole, LastTurns
<1>6. \A c \in Conversation : Numbered(c)'
  BY <1>1, <1>2 DEF ThreadInv, Numbered
<1> QED
  BY <1>1, <1>2, <1>3, <1>5, <1>6

\* A step of requests alone that only ends some, or takes them on with the
\* history they hold.
LEMMA RequestsMove ==
  ASSUME ThreadInv, UNCHANGED <<conversation, turns, feedback, rate>>, ask' \in [Request -> AskState],
         \A r \in Request :
           /\ ask[r].pc = "done" => ask'[r].pc = "done"
           /\ ask'[r].pc \in {"asking", "answered"} =>
                /\ ask[r].pc \in {"asking", "answered"}
                /\ ask'[r].conversation = ask[r].conversation
                /\ ask'[r].history = ask[r].history
  PROVE  ThreadInv'
<1>1. ConversationsTypeOK'
  BY DEF ThreadInv, ConversationsTypeOK
<1>2. \A r \in Request : Held(r)'
  <2> SUFFICES ASSUME NEW r \in Request, ask'[r].pc \in {"asking", "answered"}
               PROVE  /\ conversation'[ask'[r].conversation].state # "none"
                      /\ Open(ask[r].conversation)' => Whole(ask[r].conversation, ask[r].history)'
    BY DEF Held
  <2>1. Held(r) /\ ask[r].pc \in {"asking", "answered"}
    BY DEF ThreadInv
  <2>2. ask'[r].conversation = ask[r].conversation /\ ask'[r].history = ask[r].history
    OBVIOUS
  <2>3. ask[r].conversation \in Conversation
    BY DEF ThreadInv, ConversationsTypeOK, AskState
  <2>4. Open(ask[r].conversation)' => Open(ask[r].conversation)
    BY <2>2 DEF Open
  <2>5. Whole(ask[r].conversation, ask[r].history) => Whole(ask[r].conversation, ask[r].history)'
    BY <2>2, TurnsStay DEF Whole
  <2> QED
    BY <2>1, <2>2, <2>4, <2>5 DEF Held
<1>3. OneTurn'
  <2>1. \A t \in turns : t.asked \in Request
    BY DEF ThreadInv, ConversationsTypeOK, Turn
  <2>2. rate.feedback.turn \in Request
    BY DEF ThreadInv, ConversationsTypeOK, Rating, Feedback
  <2> QED
    BY <2>1, <2>2 DEF ThreadInv, OneTurn
<1>4. FeedbackNamesTurn'
  BY DEF ThreadInv, FeedbackNamesTurn
<1> QED
  BY <1>1, <1>2, <1>3, <1>4, TurnsStay DEF ThreadInv

\* A request that only goes on, or ends.
LEMMA RequestGoesOn ==
  ASSUME ThreadInv, UNCHANGED <<conversation, turns, feedback, rate>>, NEW r \in Request, NEW a \in AskState,
         ask' = [ask EXCEPT ![r] = a], ask[r].pc # "done",
         a.pc \in {"asking", "answered"} =>
           /\ ask[r].pc \in {"asking", "answered"}
           /\ a.conversation = ask[r].conversation
           /\ a.history = ask[r].history
  PROVE  ThreadInv'
<1>1. ask \in [Request -> AskState]
  BY DEF ThreadInv, ConversationsTypeOK
<1>2. ask' \in [Request -> AskState] /\ ask'[r] = a /\ \A q \in Request : q # r => ask'[q] = ask[q]
  BY <1>1
<1> QED
  BY <1>2, RequestsMove

\* What Answered makes is a state of a request.
LEMMA AnsweredType ==
  ASSUME ThreadInv, NEW r \in Request, NEW a \in {"turn", "failed", "lost"}
  PROVE  Answered(r, a) \in AskState /\ Answered(r, a).pc = "done"
<1>1. NotAsked \in AskState
  <2>1. Some(Conversation) \in Conversation /\ Some(Window) \in Window
    BY ConversationsAssumption DEF Some
  <2> QED
    BY <2>1 DEF NotAsked, AskState, Grounding
<1>2. ask[r].alone \in BOOLEAN
  BY DEF ThreadInv, ConversationsTypeOK, AskState
<1> QED
  BY <1>1, <1>2 DEF Answered, AskState

-----------------------------------------------------------------------------
(* The steps.                                                              *)

LEMMA ThreadStarts == ConversationsInit => ThreadInv
<1> SUFFICES ASSUME ConversationsInit PROVE ThreadInv
  OBVIOUS
<1>1. Some(Conversation) \in Conversation /\ Some(Window) \in Window /\ Some(Request) \in Request
  BY ConversationsAssumption DEF Some
<1>2. NotAsked \in AskState /\ NotAsked.pc = "idle"
  BY <1>1 DEF NotAsked, AskState, Grounding
<1>3. rate \in Rating
  BY <1>1 DEF ConversationsInit, Rating, Feedback
<1>4. ConversationsTypeOK
  BY <1>2, <1>3 DEF ConversationsInit, ConversationsTypeOK
<1>5. \A r \in Request : Held(r)
  BY <1>2 DEF ConversationsInit, Held
<1>6. turns = {} /\ feedback = {} /\ rate.pc = "idle" /\ \A c : TurnsOf(c) = {}
  BY DEF ConversationsInit, TurnsOf
<1> QED
  BY <1>4, <1>5, <1>6 DEF ThreadInv, Numbered, HistoryIsWhole, OneTurn, FeedbackNamesTurn

LEMMA CreateKeeps ==
  ASSUME ThreadInv, NEW c \in Conversation, NEW base \in BOOLEAN, Create(c, base)
  PROVE  ThreadInv'
<1>1. /\ conversation' \in [Conversation -> [state: {"none", "open", "deleted"}, base: BOOLEAN]]
      /\ conversation'[c].state = "open" /\ conversation[c].state = "none"
      /\ \A d \in Conversation : d # c => conversation'[d] = conversation[d]
  BY DEF Create, ThreadInv, ConversationsTypeOK
<1>2. UNCHANGED <<turns, feedback, ask, rate>>
  BY DEF Create
<1>3. ConversationsTypeOK'
  BY <1>1, <1>2 DEF ThreadInv, ConversationsTypeOK
<1>4. \A d \in Conversation : conversation'[d].state = "none" => TurnsOf(d)' = {}
  BY <1>1, <1>2, TurnsStay DEF ThreadInv
<1>5. \A r \in Request : Held(r)'
  <2> SUFFICES ASSUME NEW r \in Request, ask[r].pc \in {"asking", "answered"}
               PROVE  /\ conversation'[ask[r].conversation].state # "none"
                      /\ Open(ask[r].conversation)' => Whole(ask[r].conversation, ask[r].history)'
    BY <1>2 DEF Held
  <2>1. Held(r) /\ ask[r].conversation \in Conversation
    BY DEF ThreadInv, ConversationsTypeOK, AskState
  <2>2. ask[r].conversation # c
    BY <1>1, <2>1 DEF Held
  <2>3. conversation'[ask[r].conversation] = conversation[ask[r].conversation]
    BY <1>1, <2>1, <2>2
  <2>4. Whole(ask[r].conversation, ask[r].history) => Whole(ask[r].conversation, ask[r].history)'
    BY <1>2, TurnsStay DEF Whole
  <2> QED
    BY <1>2, <2>1, <2>3, <2>4 DEF Held, Open
<1> QED
  BY <1>2, <1>3, <1>4, <1>5, TurnsStay DEF ThreadInv, OneTurn, FeedbackNamesTurn

LEMMA DeleteKeeps ==
  ASSUME ThreadInv, NEW c \in Conversation, Delete(c)
  PROVE  ThreadInv'
<1>1. /\ conversation' \in [Conversation -> [state: {"none", "open", "deleted"}, base: BOOLEAN]]
      /\ conversation'[c].state = "deleted" /\ conversation[c].state = "open"
      /\ \A d \in Conversation : d # c => conversation'[d] = conversation[d]
  BY DEF Delete, Open, ThreadInv, ConversationsTypeOK
<1>2. /\ Disturbed(c) \in [Request -> AskState]
      /\ \A r \in Request : /\ Disturbed(c)[r].pc = ask[r].pc
                          /\ Disturbed(c)[r].conversation = ask[r].conversation
                          /\ Disturbed(c)[r].history = ask[r].history
  <2>1. \A r \in Request : ask[r] \in AskState /\ [ask[r] EXCEPT !.alone = FALSE] \in AskState
    BY DEF ThreadInv, ConversationsTypeOK, AskState
  <2> QED
    BY <2>1 DEF Disturbed, AskState
<1>3. ask' = Disturbed(c) /\ rate' = rate /\ turns' = turns \ TurnsOf(c) /\ feedback' = {f \in feedback : f.conversation # c}
  BY DEF Delete, Cascade
<1>4. ConversationsTypeOK'
  BY <1>1, <1>2, <1>3 DEF ThreadInv, ConversationsTypeOK
<1>5. TurnsOf(c)' = {}
  BY <1>3 DEF TurnsOf
<1>6. \A d : d # c => TurnsOf(d)' = TurnsOf(d)
  BY <1>3 DEF TurnsOf
<1>7. \A d, i : d # c => (Taken(d, i)' <=> Taken(d, i))
  BY <1>6 DEF Taken
<1>8. \A d, n : d # c => Below(d, n)' = Below(d, n)
  BY <1>6 DEF Below, EntryOf
<1>9. \A d \in Conversation : Numbered(d)' /\ (conversation'[d].state = "none" => TurnsOf(d)' = {})
  <2> SUFFICES ASSUME NEW d \in Conversation
               PROVE  Numbered(d)' /\ (conversation'[d].state = "none" => TurnsOf(d)' = {})
    OBVIOUS
  <2>1. CASE d = c
    BY <1>5, <2>1 DEF Numbered
  <2>2. CASE d # c
    BY <1>1, <1>6, <1>7, <2>2 DEF ThreadInv, Numbered
  <2> QED
    BY <2>1, <2>2
<1>10. \A r \in Request : Held(r)'
  <2> SUFFICES ASSUME NEW r \in Request, ask[r].pc \in {"asking", "answered"}
               PROVE  /\ conversation'[ask'[r].conversation].state # "none"
                      /\ Open(ask[r].conversation)' => Whole(ask[r].conversation, ask[r].history)'
    BY <1>2, <1>3 DEF Held
  <2>1. Held(r) /\ ask[r].conversation \in Conversation
    BY DEF ThreadInv, ConversationsTypeOK, AskState
  <2>2. ask'[r].conversation = ask[r].conversation /\ ask'[r].history = ask[r].history
    BY <1>2, <1>3
  <2>3. CASE ask[r].conversation = c
    BY <1>1, <2>2, <2>3 DEF Open
  <2>4. CASE ask[r].conversation # c
    <3>1. conversation'[ask[r].conversation] = conversation[ask[r].conversation]
      BY <1>1, <2>1, <2>4
    <3>2. Whole(ask[r].conversation, ask[r].history) => Whole(ask[r].conversation, ask[r].history)'
      BY <1>7, <1>8, <2>2, <2>4 DEF Whole
    <3> QED
      BY <2>1, <2>2, <3>1, <3>2 DEF Held, Open
  <2> QED
    BY <2>3, <2>4
<1>11. HistoryIsWhole'
  <2> SUFFICES ASSUME NEW t \in turns' PROVE t.context = LastTurns(Before(t)', t.window)
    BY DEF HistoryIsWhole, LastTurns
  <2>1. t \in turns /\ t.conversation # c
    BY <1>3 DEF TurnsOf
  <2>2. Before(t)' = Before(t)
    BY <1>6, <2>1 DEF Before, EntryOf
  <2> QED
    BY <2>1, <2>2 DEF ThreadInv, HistoryIsWhole
<1>12. OneTurn'
  <2>1. \A t \in turns : t.asked \in Request
    BY DEF ThreadInv, ConversationsTypeOK, Turn
  <2>2. rate.feedback.turn \in Request
    BY DEF ThreadInv, ConversationsTypeOK, Rating, Feedback
  <2> QED
    BY <1>2, <1>3, <2>1, <2>2 DEF ThreadInv, OneTurn
<1>13. FeedbackNamesTurn'
  BY <1>3 DEF ThreadInv, FeedbackNamesTurn, TurnsOf
<1> QED
  BY <1>4, <1>9, <1>10, <1>11, <1>12, <1>13 DEF ThreadInv

LEMMA AskKeeps ==
  ASSUME ThreadInv, NEW r \in Request, NEW c \in Conversation, NEW w \in Window, NEW named \in BOOLEAN,
         Ask(r, c, w, named)
  PROVE  ThreadInv'
<1> DEFINE h == {EntryOf(t) : t \in TurnsOf(c)}
<1>1. turns \subseteq Turn /\ ask \in [Request -> AskState]
  BY DEF ThreadInv, ConversationsTypeOK
<1>2. h \subseteq Entry
  BY <1>1 DEF TurnsOf, Turn, EntryOf, Entry
<1>3. [pc |-> "asking", conversation |-> c, window |-> w, history |-> h, grounding |-> "refused",
       alone |-> InProgress(c) = {}, answer |-> "none"] \in AskState
  BY <1>2 DEF AskState, Grounding
<1>4. Disturbed(c) \in [Request -> AskState]
  BY <1>1 DEF Disturbed, AskState
<1>5. /\ ask' \in [Request -> AskState]
      /\ ask'[r].pc = "asking" /\ ask'[r].conversation = c /\ ask'[r].history = h
      /\ \A q \in Request : q # r => ask'[q] = Disturbed(c)[q]
  BY <1>3, <1>4 DEF Ask
<1>6. \A q \in Request : q # r => /\ ask'[q].pc = ask[q].pc
                                 /\ ask'[q].conversation = ask[q].conversation
                                 /\ ask'[q].history = ask[q].history
  BY <1>1, <1>5 DEF Disturbed, AskState
<1>7. UNCHANGED <<conversation, turns, feedback, rate>> /\ ask[r].pc = "idle" /\ Open(c)
  BY DEF Ask
<1>8. ConversationsTypeOK'
  BY <1>5, <1>7 DEF ThreadInv, ConversationsTypeOK
<1>9. \A q \in Request : Held(q)'
  <2> SUFFICES ASSUME NEW q \in Request, ask'[q].pc \in {"asking", "answered"} PROVE Held(q)'
    BY DEF Held
  <2>1. CASE q = r
    <3>1. Whole(c, h)
      BY LoadedIsWhole
    <3>2. Whole(c, ask[r].history)'
      BY <1>5, <1>7, <3>1, TurnsStay DEF Whole
    <3>3. conversation'[c].state = "open"
      BY <1>7 DEF Open
    <3> QED
      BY <1>5, <2>1, <3>2, <3>3 DEF Held
  <2>2. CASE q # r
    <3>1. Held(q) /\ ask[q].pc \in {"asking", "answered"}
      BY <1>6, <2>2 DEF ThreadInv
    <3>2. ask'[q].conversation = ask[q].conversation /\ ask'[q].history = ask[q].history
      BY <1>6, <2>2
    <3>3. Whole(ask[q].conversation, ask[q].history) => Whole(ask[q].conversation, ask[q].history)'
      BY <1>7, <3>2, TurnsStay DEF Whole
    <3> QED
      BY <1>7, <3>1, <3>2, <3>3 DEF Held, Open
  <2> QED
    BY <2>1, <2>2
<1>10. OneTurn'
  <2>1. \A t \in turns : t.asked \in Request /\ t.asked # r
    BY <1>1, <1>7 DEF ThreadInv, OneTurn, Turn
  <2>2. rate.feedback.turn \in Request
    BY DEF ThreadInv, ConversationsTypeOK, Rating, Feedback
  <2>3. \A q \in Request : ask[q].pc = "done" => ask'[q].pc = "done"
    BY <1>6, <1>7
  <2> QED
    BY <1>7, <2>1, <2>2, <2>3 DEF ThreadInv, OneTurn
<1> QED
  BY <1>7, <1>8, <1>9, <1>10, TurnsStay DEF ThreadInv, FeedbackNamesTurn

\* A turn that is added with the free number after a whole history.
LEMMA TurnAdded ==
  ASSUME ThreadInv, NEW c \in Conversation, NEW h, Whole(c, h), ~ Taken(c, NextIndex(h)),
         NEW t \in Turn, t.conversation = c, t.index = NextIndex(h), t.context = LastTurns(h, t.window),
         turns' = turns \cup {t}
  PROVE  /\ \A d \in Conversation : Numbered(d)'
         /\ HistoryIsWhole'
         /\ \A d : d # c => TurnsOf(d)' = TurnsOf(d)
         /\ \A d \in Conversation : \A g : Whole(d, g) => Whole(d, g)'
<1> DEFINE n == NextIndex(h)
<1>1. turns \subseteq Turn /\ n \in Nat /\ \A d \in Conversation : Numbered(d)
  BY DEF ThreadInv, ConversationsTypeOK, Whole
<1>2. \A u \in TurnsOf(c) : u.index < n
  BY FreeIsNext
<1>3. TurnsOf(c)' = TurnsOf(c) \cup {t} /\ \A d : d # c => TurnsOf(d)' = TurnsOf(d)
  BY DEF TurnsOf
<1>4. \A u \in TurnsOf(c) : u.index \in Nat
  BY <1>1 DEF Turn, TurnsOf
<1>5. \A d, i : Taken(d, i) => Taken(d, i)'
  BY <1>3 DEF Taken
<1>6. \A d \in Conversation : Numbered(d)'
  <2> SUFFICES ASSUME NEW d \in Conversation PROVE Numbered(d)'
    OBVIOUS
  <2>1. CASE d # c
    <3>1. \A i : Taken(d, i)' <=> Taken(d, i)
      BY <1>3, <2>1 DEF Taken
    <3> QED
      BY <1>1, <1>3, <2>1, <3>1 DEF Numbered
  <2>2. CASE d = c
    <3>1. \A u, v \in TurnsOf(c)' : u.index = v.index => u = v
      BY <1>1, <1>2, <1>3 DEF Numbered
    <3>2. \A u \in TurnsOf(c)' : \A i \in Nat : i < u.index => Taken(c, i)'
      BY <1>1, <1>3, <1>5 DEF Numbered, Whole
    <3>3. \A u \in TurnsOf(c)' : u.index <= t.index
      BY <1>1, <1>2, <1>3, <1>4
    <3> QED
      BY <1>3, <2>2, <3>1, <3>2, <3>3 DEF Numbered
  <2> QED
    BY <2>1, <2>2
<1>7. \A d \in Conversation, m \in Nat :
        (\A i \in Nat : i < m => Taken(d, i)) => Below(d, m)' = Below(d, m)
  <2> SUFFICES ASSUME NEW d \in Conversation, NEW m \in Nat, \A i \in Nat : i < m => Taken(d, i)
               PROVE  {v \in TurnsOf(d)' : v.index < m} = {v \in TurnsOf(d) : v.index < m}
    BY DEF Below, EntryOf
  <2>1. CASE d # c
    BY <1>3, <2>1
  <2>2. CASE d = c
    <3>1. ~ (n < m)
      BY <1>1, <2>2
    <3> QED
      BY <1>1, <1>3, <2>2, <3>1
  <2> QED
    BY <2>1, <2>2
<1>8. \A d \in Conversation : \A g : Whole(d, g) => Whole(d, g)'
  BY <1>5, <1>7 DEF Whole
<1>9. \A u \in turns' : Before(u) = Below(u.conversation, u.index)
  BY DEF Before, Below
<1>10. \A u \in turns' : Before(u)' = Below(u.conversation, u.index)'
  BY DEF Before, Below
<1>11. \A u \in turns' : Before(u)' = Before(u) /\ u.context = LastTurns(Before(u), u.window)
  <2> SUFFICES ASSUME NEW u \in turns'
               PROVE  Before(u)' = Before(u) /\ u.context = LastTurns(Before(u), u.window)
    OBVIOUS
  <2>1. CASE u \in turns
    <3>1. u.conversation \in Conversation /\ u.index \in Nat /\ u \in TurnsOf(u.conversation)
      BY <1>1, <2>1 DEF Turn, TurnsOf
    <3>2. \A i \in Nat : i < u.index => Taken(u.conversation, i)
      BY <1>1, <3>1 DEF Numbered
    <3> QED
      BY <1>7, <1>9, <1>10, <2>1, <3>1, <3>2 DEF ThreadInv, HistoryIsWhole
  <2>2. CASE u = t
    <3>1. Before(u) = h
      BY <1>9, <2>2 DEF Whole
    <3> QED
      BY <1>1, <1>7, <1>9, <1>10, <2>2, <3>1 DEF Whole
  <2> QED
    BY <2>1, <2>2
<1>12. HistoryIsWhole'
  BY <1>11 DEF HistoryIsWhole, LastTurns
<1> QED
  BY <1>3, <1>6, <1>8, <1>12

LEMMA SaveTurnKeeps ==
  ASSUME ThreadInv, NEW r \in Request, SaveTurn(r)
  PROVE  ThreadInv'
<1>1. ask \in [Request -> AskState] /\ ask[r] \in AskState
  BY DEF ThreadInv, ConversationsTypeOK
<1>2. PICK c, h, w, g : c = ask[r].conversation /\ h = ask[r].history /\ w = ask[r].window /\ g = ask[r].grounding
  OBVIOUS
<1>3. c \in Conversation /\ h \subseteq Entry /\ w \in Window /\ g \in Grounding
  BY <1>1, <1>2 DEF AskState
<1>4. ask[r].pc = "answered" /\ Open(c) /\ ~ Taken(c, NextIndex(h))
  BY <1>2 DEF SaveTurn, Insertable
<1>5. Whole(c, h) /\ NextIndex(h) \in Nat
  BY <1>2, <1>4 DEF ThreadInv, Held, Whole
<1>6. LastTurns(h, w) \subseteq Entry
  BY <1>3 DEF LastTurns
<1>7. PICK t : t = [conversation |-> c, index |-> NextIndex(h), asked |-> r, window |-> w,
                    context |-> LastTurns(h, w), grounding |-> g]
  OBVIOUS
<1>8. t \in Turn /\ t.conversation = c /\ t.index = NextIndex(h) /\ t.context = LastTurns(h, t.window) /\ t.asked = r
  BY <1>3, <1>5, <1>6, <1>7 DEF Turn
<1>9. turns' = turns \cup {t} /\ UNCHANGED <<conversation, feedback, rate>>
  BY <1>2, <1>7 DEF SaveTurn
<1>10. /\ ask' \in [Request -> AskState] /\ ask'[r].pc = "done"
       /\ \A q \in Request : q # r => ask'[q] = ask[q]
  BY <1>1, AnsweredType DEF SaveTurn
<1>11. /\ \A d \in Conversation : Numbered(d)'
       /\ HistoryIsWhole'
       /\ \A d : d # c => TurnsOf(d)' = TurnsOf(d)
       /\ \A d \in Conversation : \A e : Whole(d, e) => Whole(d, e)'
  BY <1>3, <1>4, <1>5, <1>8, <1>9, TurnAdded
<1>12. ConversationsTypeOK'
  BY <1>8, <1>9, <1>10 DEF ThreadInv, ConversationsTypeOK
<1>13. \A d \in Conversation : conversation'[d].state = "none" => TurnsOf(d)' = {}
  BY <1>4, <1>9, <1>11 DEF ThreadInv, Open
<1>14. \A q \in Request : Held(q)'
  <2> SUFFICES ASSUME NEW q \in Request, ask'[q].pc \in {"asking", "answered"} PROVE Held(q)'
    BY DEF Held
  <2>1. q # r /\ ask'[q] = ask[q]
    BY <1>10
  <2>2. Held(q) /\ ask[q].conversation \in Conversation
    BY DEF ThreadInv, ConversationsTypeOK, AskState
  <2>3. PICK d, e : d \in Conversation /\ d = ask[q].conversation /\ e = ask[q].history
    BY <2>2
  <2>4. Whole(d, e) => Whole(d, e)'
    BY <1>11, <2>3
  <2>5. Whole(ask[q].conversation, ask[q].history) => Whole(ask[q].conversation, ask[q].history)'
    BY <2>1, <2>3, <2>4 DEF Whole
  <2> QED
    BY <1>9, <2>1, <2>2, <2>5 DEF Held, Open
<1>15. OneTurn'
  <2>1. \A u \in turns : u.asked \in Request
    BY DEF ThreadInv, ConversationsTypeOK, Turn
  <2>2. rate.feedback.turn \in Request
    BY DEF ThreadInv, ConversationsTypeOK, Rating, Feedback
  <2>3. \A q \in Request : ask[q].pc = "done" => ask'[q].pc = "done" /\ q # r
    BY <1>4, <1>10
  <2> QED
    BY <1>8, <1>9, <1>10, <2>1, <2>2, <2>3 DEF ThreadInv, OneTurn
<1> QED
  BY <1>9, <1>11, <1>12, <1>13, <1>14, <1>15 DEF ThreadInv, FeedbackNamesTurn

\* The two steps of feedback: the turn that was found is the one turn of its
\* request, so what is inserted names the turn that is there.
LEMMA FeedbackKeeps ==
  ASSUME ThreadInv, (\E t \in turns : FindTurn(t)) \/ SaveFeedback
  PROVE  ThreadInv'
<1>1. UNCHANGED <<conversation, turns, ask>>
  BY DEF FindTurn, SaveFeedback
<1>2. turns \subseteq Turn /\ feedback \subseteq Feedback /\ rate \in Rating
  BY DEF ThreadInv, ConversationsTypeOK
<1>3. \A r \in Request : Held(r)'
  <2> SUFFICES ASSUME NEW r \in Request PROVE Held(r)'
    OBVIOUS
  <2>1. Whole(ask[r].conversation, ask[r].history) => Whole(ask[r].conversation, ask[r].history)'
    BY <1>1, TurnsStay DEF Whole
  <2> QED
    BY <1>1, <2>1 DEF ThreadInv, Held, Open
<1>4. CASE \E t \in turns : FindTurn(t)
  <2>1. PICK t \in turns : FindTurn(t)
    BY <1>4
  <2>2. t.asked \in Request /\ t.conversation \in Conversation
    BY <1>2 DEF Turn
  <2>3. /\ rate' \in Rating /\ rate'.feedback.turn = t.asked
        /\ rate'.feedback.conversation = t.conversation /\ feedback' = feedback
    BY <1>2, <2>1, <2>2 DEF FindTurn, Rating, Feedback
  <2>4. \A u \in turns : u.asked = t.asked => u.conversation = t.conversation
    BY DEF ThreadInv, OneTurn
  <2> QED
    BY <1>1, <1>3, <2>3, <2>4, TurnsStay DEF ThreadInv, ConversationsTypeOK, OneTurn, FeedbackNamesTurn
<1>5. CASE SaveFeedback
  <2>1. rate.pc = "found" /\ rate' \in Rating /\ rate'.pc = "idle"
    BY <1>2, <1>5 DEF SaveFeedback, Rating
  <2>2. \/ feedback' = feedback
        \/ /\ \E t \in turns : t.asked = rate.feedback.turn
           /\ feedback' = feedback \cup {rate.feedback}
    BY <1>5 DEF SaveFeedback
  <2>3. rate.feedback \in Feedback
    BY <1>2 DEF Rating
  <2>4. FeedbackNamesTurn'
    BY <1>1, <2>1, <2>2 DEF ThreadInv, OneTurn, FeedbackNamesTurn
  <2>5. feedback' \subseteq Feedback
    BY <1>2, <2>2, <2>3
  <2> QED
    BY <1>1, <1>3, <2>1, <2>4, <2>5, TurnsStay DEF ThreadInv, ConversationsTypeOK, OneTurn
<1> QED
  BY <1>4, <1>5

LEMMA ThreadKept == ThreadInv /\ [ConversationsNext]_conversationVars => ThreadInv'
<1> SUFFICES ASSUME ThreadInv, [ConversationsNext]_conversationVars PROVE ThreadInv'
  OBVIOUS
<1>1. \A r \in Request : ask[r] \in AskState
  BY DEF ThreadInv, ConversationsTypeOK
<1>2. ASSUME NEW c \in Conversation, NEW base \in BOOLEAN, Create(c, base) PROVE ThreadInv'
  BY <1>2, CreateKeeps
<1>3. ASSUME NEW c \in Conversation, Delete(c) PROVE ThreadInv'
  BY <1>3, DeleteKeeps
<1>4. ASSUME NEW c \in Conversation, NEW r \in Request, NEW w \in Window, NEW named \in BOOLEAN,
             Ask(r, c, w, named)
      PROVE  ThreadInv'
  BY <1>4, AskKeeps
<1>5. ASSUME NEW r \in Request, NoEvidence(r) PROVE ThreadInv'
  <2>1. [ask[r] EXCEPT !.pc = "answered"] \in AskState
    BY <1>1 DEF AskState
  <2>2. ask' = [ask EXCEPT ![r] = [ask[r] EXCEPT !.pc = "answered"]]
    BY <1>5 DEF NoEvidence
  <2> QED
    BY <1>1, <1>5, <2>1, <2>2, RequestGoesOn DEF NoEvidence, AskState
<1>6. ASSUME NEW r \in Request, NEW own \in BOOLEAN, NEW other \in BOOLEAN, Generate(r, own, other)
      PROVE  ThreadInv'
  <2> DEFINE a == [ask[r] EXCEPT !.pc = "answered", !.grounding = GroundingOf(own, other)]
  <2>1. a \in AskState
    BY <1>1 DEF AskState, GroundingOf, Grounding
  <2>2. ask' = [ask EXCEPT ![r] = a] /\ ask \in [Request -> AskState]
    BY <1>6 DEF Generate, ThreadInv, ConversationsTypeOK
  <2>3. a.conversation = ask[r].conversation /\ a.history = ask[r].history /\ ask[r].pc = "asking"
    BY <1>1, <1>6 DEF Generate, AskState
  <2>4. UNCHANGED <<conversation, turns, feedback, rate>>
    BY <1>6 DEF Generate
  <2> HIDE DEF a
  <2> QED
    BY <2>1, <2>2, <2>3, <2>4, RequestGoesOn
<1>7. ASSUME NEW r \in Request, AnswerFails(r) PROVE ThreadInv'
  BY <1>7, AnsweredType, RequestGoesOn DEF AnswerFails
<1>8. ASSUME NEW r \in Request, SaveTurn(r) PROVE ThreadInv'
  BY <1>8, SaveTurnKeeps
<1>9. ASSUME NEW r \in Request, LoseTurn(r) PROVE ThreadInv'
  BY <1>9, AnsweredType, RequestGoesOn DEF LoseTurn
<1>10. ASSUME (\E t \in turns : FindTurn(t)) \/ SaveFeedback PROVE ThreadInv'
  BY <1>10, FeedbackKeeps
<1>11. CASE UNCHANGED conversationVars
  <2>1. UNCHANGED <<conversation, turns, feedback, rate>> /\ ask' = ask
    BY <1>11 DEF conversationVars
  <2> QED
    BY <2>1, RequestsMove DEF ThreadInv, ConversationsTypeOK
<1> QED
  BY <1>2, <1>3, <1>4, <1>5, <1>6, <1>7, <1>8, <1>9, <1>10, <1>11 DEF ConversationsNext

-----------------------------------------------------------------------------
(* A request that nothing overlaps with.                                   *)

\* While it is alone it has the whole of its conversation, which is open, and
\* nobody else is at work there; an answer that is lost was not alone.
Undisturbed(r) ==
  /\ ask[r].answer = "lost" => ~ ask[r].alone
  /\ ask[r].pc \in {"asking", "answered"} /\ ask[r].alone =>
       /\ Open(ask[r].conversation)
       /\ ask[r].history = {EntryOf(t) : t \in TurnsOf(ask[r].conversation)}
       /\ \A q \in InProgress(ask[r].conversation) : q = r
UndisturbedInv == \A r \in Request : Undisturbed(r)

\* A request that is alone inserts its turn: the number after all is free.
LEMMA AloneInserts ==
  ASSUME ThreadInv, UndisturbedInv, NEW r \in Request, ask[r].pc = "answered", ask[r].alone
  PROVE  Insertable(r)
<1> DEFINE c == ask[r].conversation
           h == ask[r].history
<1>1. c \in Conversation
  BY DEF ThreadInv, ConversationsTypeOK, AskState
<1>2. Open(c) /\ h = {EntryOf(t) : t \in TurnsOf(c)}
  BY DEF UndisturbedInv, Undisturbed
<1>3. h = Below(c, NextIndex(h)) /\ NextIndex(h) \in Nat
  BY <1>1, <1>2, LoadedIsWhole DEF Whole
<1>4. ASSUME NEW t \in TurnsOf(c), t.index = NextIndex(h) PROVE FALSE
  <2>1. EntryOf(t) \in Below(c, NextIndex(h))
    BY <1>2, <1>3
  <2>2. PICK v \in TurnsOf(c) : v.index < NextIndex(h) /\ EntryOf(t) = EntryOf(v)
    BY <2>1 DEF Below
  <2>3. t.index = v.index
    BY <2>2 DEF EntryOf
  <2> QED BY <1>3, <1>4, <2>2, <2>3
<1> QED BY <1>2, <1>4 DEF Insertable, Taken

\* Steps of one request.
LEMMA OneMoves ==
  ASSUME ThreadInv, UndisturbedInv, NEW r \in Request, NEW a,
         ask' = [ask EXCEPT ![r] = a], UNCHANGED conversation,
         ask[r].pc \in {"asking", "answered"},
         a.answer = "lost" => ~ a.alone,
         a.pc \in {"asking", "answered"} =>
           /\ a.conversation = ask[r].conversation /\ a.history = ask[r].history
           /\ a.alone = ask[r].alone /\ UNCHANGED turns,
         \A c \in Conversation : c # ask[r].conversation => TurnsOf(c)' = TurnsOf(c)
  PROVE  UndisturbedInv'
<1> SUFFICES ASSUME NEW q \in Request PROVE Undisturbed(q)'
  BY DEF UndisturbedInv
<1>0. ask \in [Request -> AskState] /\ ask[q].conversation \in Conversation
  BY DEF ThreadInv, ConversationsTypeOK, AskState
<1>1. ask'[r] = a /\ (\A x \in Request : x # r => ask'[x] = ask[x]) /\ Undisturbed(q)
  BY <1>0 DEF UndisturbedInv
<1>2. \A c : InProgress(c)' \subseteq InProgress(c)
  BY <1>1 DEF InProgress
<1>3. CASE q = r
  <2>1. CASE a.pc \in {"asking", "answered"}
    BY <1>1, <1>2, <1>3, <2>1 DEF Undisturbed, Open, TurnsOf, EntryOf
  <2>2. CASE a.pc \notin {"asking", "answered"}
    BY <1>1, <1>3, <2>2 DEF Undisturbed
  <2> QED BY <2>1, <2>2
<1>4. CASE q # r
  <2>1. ask'[q] = ask[q]
    BY <1>1, <1>4
  <2>2. CASE ask[q].pc \in {"asking", "answered"} /\ ask[q].alone
    <3>1. ask[r].conversation # ask[q].conversation
      BY <1>1, <1>4, <2>2 DEF Undisturbed, InProgress
    <3>2. TurnsOf(ask[q].conversation)' = TurnsOf(ask[q].conversation)
      BY <1>0, <2>1, <3>1 DEF TurnsOf
    <3> QED BY <1>1, <1>2, <2>1, <2>2, <3>2 DEF Undisturbed, Open, EntryOf
  <2>3. CASE ~ (ask[q].pc \in {"asking", "answered"} /\ ask[q].alone)
    BY <1>1, <2>1, <2>3 DEF Undisturbed
  <2> QED BY <2>2, <2>3
<1> QED BY <1>3, <1>4

\* Who is at work on a conversation is not alone after somebody else comes.
LEMMA OthersDisturbed ==
  ASSUME ThreadInv, UndisturbedInv, NEW c \in Conversation, NEW q \in Request,
         ask'[q] = Disturbed(c)[q],
         \A d \in Conversation : d # c => TurnsOf(d)' = TurnsOf(d) /\ (Open(d) => Open(d)'),
         \A d \in Conversation : d # c => InProgress(d)' = InProgress(d)
  PROVE  Undisturbed(q)'
<1>0. ask[q] \in AskState /\ Undisturbed(q)
  BY DEF ThreadInv, ConversationsTypeOK, UndisturbedInv
<1>1. CASE q \in InProgress(c)
  <2>1. ~ ask'[q].alone
    BY <1>0, <1>1 DEF Disturbed, AskState
  <2> QED BY <2>1 DEF Undisturbed
<1>2. CASE q \notin InProgress(c)
  <2>1. ask'[q] = ask[q]
    BY <1>2 DEF Disturbed
  <2>2. CASE ask[q].pc \in {"asking", "answered"} /\ ask[q].alone
    <3>1. ask[q].conversation # c /\ ask[q].conversation \in Conversation
      BY <1>0, <1>2, <2>2 DEF InProgress, AskState
    <3>2. /\ TurnsOf(ask[q].conversation)' = TurnsOf(ask[q].conversation)
          /\ InProgress(ask[q].conversation)' = InProgress(ask[q].conversation)
          /\ Open(ask[q].conversation) => Open(ask[q].conversation)'
      BY <2>1, <3>1 DEF TurnsOf, InProgress, Open
    <3> QED BY <1>0, <2>1, <2>2, <3>2 DEF Undisturbed, EntryOf
  <2>3. CASE ~ (ask[q].pc \in {"asking", "answered"} /\ ask[q].alone)
    BY <1>0, <2>1, <2>3 DEF Undisturbed
  <2> QED BY <2>2, <2>3
<1> QED BY <1>1, <1>2

\* Every step keeps it.
LEMMA UndisturbedNext ==
  ASSUME ThreadInv, UndisturbedInv, [ConversationsNext]_conversationVars
  PROVE  UndisturbedInv'
<1>0. ask \in [Request -> AskState]
  BY DEF ThreadInv, ConversationsTypeOK
<1>s. ASSUME UNCHANGED <<turns, ask>>, \A c \in Conversation : Open(c) => Open(c)'
      PROVE  UndisturbedInv'
  <2> SUFFICES ASSUME NEW r \in Request PROVE Undisturbed(r)'
    BY DEF UndisturbedInv
  <2>1. PICK c \in Conversation : c = ask[r].conversation
    BY <1>0 DEF AskState
  <2>2. Undisturbed(r) /\ TurnsOf(c)' = TurnsOf(c) /\ InProgress(c)' = InProgress(c)
    BY <1>s DEF UndisturbedInv, TurnsOf, InProgress
  <2> QED BY <1>s, <2>1, <2>2 DEF Undisturbed, EntryOf
<1>1. ASSUME NEW c \in Conversation, NEW base \in BOOLEAN, Create(c, base) PROVE UndisturbedInv'
  <2>1. \A d \in Conversation : Open(d) => Open(d)'
    BY <1>1 DEF Create, Open, ThreadInv, ConversationsTypeOK
  <2> QED BY <1>1, <1>s, <2>1 DEF Create
<1>2. ASSUME NEW c \in Conversation, Delete(c) PROVE UndisturbedInv'
  <2>1. \A d \in Conversation : d # c => TurnsOf(d)' = TurnsOf(d) /\ (Open(d) => Open(d)')
    BY <1>2 DEF Delete, Cascade, TurnsOf, Open, ThreadInv, ConversationsTypeOK
  <2>2. ask' = Disturbed(c)
    BY <1>2 DEF Delete
  <2>3. \A q \in Request : ask'[q].pc = ask[q].pc /\ ask'[q].conversation = ask[q].conversation
    BY <1>0, <2>2 DEF Disturbed, AskState
  <2>4. \A d \in Conversation : InProgress(d)' = InProgress(d)
    BY <2>3 DEF InProgress
  <2> QED BY <2>1, <2>2, <2>4, OthersDisturbed DEF UndisturbedInv
<1>3. ASSUME NEW r \in Request, NEW c \in Conversation, NEW w \in Window, NEW named \in BOOLEAN,
             Ask(r, c, w, named)
      PROVE  UndisturbedInv'
  <2>1. /\ ask[r].pc = "idle" /\ Open(c) /\ UNCHANGED <<conversation, turns>>
        /\ \A q \in Request : q # r => ask'[q] = Disturbed(c)[q]
        /\ ask'[r].conversation = c /\ ask'[r].answer = "none" /\ ask'[r].alone = (InProgress(c) = {})
        /\ ask'[r].history = {EntryOf(t) : t \in TurnsOf(c)}
    BY <1>0, <1>3 DEF Ask, Disturbed
  <2>2. \A q \in Request : q # r => /\ ask'[q].pc = ask[q].pc
                                   /\ ask'[q].conversation = ask[q].conversation
    BY <1>0, <2>1 DEF Disturbed, AskState
  <2>3. \A d \in Conversation : d # c => InProgress(d)' = InProgress(d)
    BY <2>1, <2>2 DEF InProgress
  <2>4. \A d \in Conversation : TurnsOf(d)' = TurnsOf(d) /\ (Open(d) => Open(d)')
    BY <2>1 DEF TurnsOf, Open
  <2>5. \A q \in Request : q # r => Undisturbed(q)'
    BY <2>1, <2>3, <2>4, OthersDisturbed
  <2>6. Undisturbed(r)'
    <3>1. InProgress(c) = {} => \A q \in InProgress(c)' : q = r
      BY <2>2 DEF InProgress
    <3>2. TurnsOf(ask[r].conversation)' = TurnsOf(c) /\ InProgress(ask[r].conversation)' = InProgress(c)'
      BY <2>1 DEF TurnsOf, InProgress
    <3> QED BY <2>1, <3>1, <3>2 DEF Undisturbed, Open, EntryOf
  <2> QED BY <2>5, <2>6 DEF UndisturbedInv
<1>n. NotAsked.pc = "idle"
  BY DEF NotAsked
<1>a. \A s : \A r \in Request :
        /\ Answered(r, s).pc = "done" /\ Answered(r, s).answer = s
        /\ Answered(r, s).alone = ask[r].alone
  BY DEF Answered, NotAsked
<1>4. ASSUME NEW r \in Request, NoEvidence(r) PROVE UndisturbedInv'
  <2> DEFINE a == [ask[r] EXCEPT !.pc = "answered"]
  <2>1. /\ a.conversation = ask[r].conversation /\ a.history = ask[r].history
        /\ a.alone = ask[r].alone /\ a.answer = ask[r].answer
    BY <1>0 DEF AskState
  <2>2. /\ ask' = [ask EXCEPT ![r] = a] /\ ask[r].pc = "asking"
        /\ UNCHANGED <<conversation, turns>>
    BY <1>4 DEF NoEvidence
  <2>3. a.answer = "lost" => ~ a.alone
    BY <2>1 DEF UndisturbedInv, Undisturbed
  <2> HIDE DEF a
  <2> QED BY <2>1, <2>2, <2>3, OneMoves DEF TurnsOf
<1>5. ASSUME NEW r \in Request, NEW own \in BOOLEAN, NEW other \in BOOLEAN, Generate(r, own, other)
      PROVE  UndisturbedInv'
  <2> DEFINE a == [ask[r] EXCEPT !.pc = "answered", !.grounding = GroundingOf(own, other)]
  <2>1. /\ a.conversation = ask[r].conversation /\ a.history = ask[r].history
        /\ a.alone = ask[r].alone /\ a.answer = ask[r].answer
    BY <1>0 DEF AskState
  <2>2. /\ ask' = [ask EXCEPT ![r] = a] /\ ask[r].pc = "asking"
        /\ UNCHANGED <<conversation, turns>>
    BY <1>5 DEF Generate
  <2>3. a.answer = "lost" => ~ a.alone
    BY <2>1 DEF UndisturbedInv, Undisturbed
  <2> HIDE DEF a
  <2> QED BY <2>1, <2>2, <2>3, OneMoves DEF TurnsOf
<1>6. ASSUME NEW r \in Request, AnswerFails(r) PROVE UndisturbedInv'
  <2>1. PICK a : a = Answered(r, "failed")
    OBVIOUS
  <2>2. a.pc = "done" /\ a.answer = "failed"
    BY <1>a, <2>1
  <2>3. /\ ask' = [ask EXCEPT ![r] = a] /\ ask[r].pc = "asking"
        /\ UNCHANGED <<conversation, turns>>
    BY <1>6, <2>1 DEF AnswerFails
  <2> QED BY <2>2, <2>3, OneMoves DEF TurnsOf
<1>7. ASSUME NEW r \in Request, SaveTurn(r) PROVE UndisturbedInv'
  <2>1. \A c \in Conversation : c # ask[r].conversation => TurnsOf(c)' = TurnsOf(c)
    BY <1>7 DEF SaveTurn, TurnsOf
  <2>2. PICK a : a = Answered(r, "turn")
    OBVIOUS
  <2>3. a.pc = "done" /\ a.answer = "turn"
    BY <1>a, <2>2
  <2>4. ask' = [ask EXCEPT ![r] = a] /\ ask[r].pc = "answered" /\ UNCHANGED conversation
    BY <1>7, <2>2 DEF SaveTurn
  <2> QED BY <2>1, <2>3, <2>4, OneMoves
<1>8. ASSUME NEW r \in Request, LoseTurn(r) PROVE UndisturbedInv'
  <2>1. ~ ask[r].alone
    BY <1>8, AloneInserts DEF LoseTurn
  <2> QED BY <1>8, <1>a, <2>1, OneMoves DEF LoseTurn, TurnsOf
<1>9. ASSUME (\E t \in turns : FindTurn(t)) \/ SaveFeedback \/ UNCHANGED conversationVars
      PROVE  UndisturbedInv'
  BY <1>9, <1>s DEF FindTurn, SaveFeedback, conversationVars, Open
<1> QED
  BY <1>1, <1>2, <1>3, <1>4, <1>5, <1>6, <1>7, <1>8, <1>9 DEF ConversationsNext

-----------------------------------------------------------------------------
(* The theorems.                                                           *)

LEMMA ThreadAlways == ConversationsSpec => []ThreadInv
  BY ThreadStarts, ThreadKept, PTL DEF ConversationsSpec

\* Types are kept: of all rows, requests and what they hold
\* (routers/conversations.py).
THEOREM ConversationsTypeCorrect == ConversationsSpec => []ConversationsTypeOK
<1>1. ThreadInv => ConversationsTypeOK
  BY DEF ThreadInv
<1> QED
  BY <1>1, ThreadAlways, PTL

\* Every turn was generated from exactly the last turns before it, however
\* many requests for answers overlap (conversational_answer).
THEOREM ConversationReadsAsOneThread == ConversationsSpec => []HistoryIsWhole
<1>1. ThreadInv => HistoryIsWhole
  BY DEF ThreadInv
<1> QED
  BY <1>1, ThreadAlways, PTL

\* Feedback never outlives its turn (submit_feedback, the foreign keys).
THEOREM FeedbackHasItsTurn == ConversationsSpec => []FeedbackNamesTurn
<1>1. ThreadInv => FeedbackNamesTurn
  BY DEF ThreadInv
<1> QED
  BY <1>1, ThreadAlways, PTL

\* An answer is lost only to another answer to its conversation or to its
\* deletion, for any number of requests (conversational_answer).
THEOREM AloneAnswersAreKept == ConversationsSpec => []AloneIsKept
<1>1. ConversationsInit => UndisturbedInv
  BY DEF ConversationsInit, UndisturbedInv, Undisturbed, NotAsked
<1>2. ThreadInv /\ UndisturbedInv /\ [ConversationsNext]_conversationVars => UndisturbedInv'
  BY UndisturbedNext
<1>3. UndisturbedInv => AloneIsKept
  BY DEF UndisturbedInv, Undisturbed, AloneIsKept
<1> QED
  BY <1>1, <1>2, <1>3, ThreadAlways, PTL DEF ConversationsSpec

-----------------------------------------------------------------------------
(* The workflow engine.                                                    *)

FrameState == [step: Step, left: SUBSET Step]
AllKnown == \A s \in Step : Unknown \notin deps[s]

\* Types, where the search only walks through steps of the definition.
StepTypes ==
  /\ deps \in [Step -> SUBSET (Step \cup {Unknown})]
  /\ continue \in [Step -> BOOLEAN]
  /\ pc \in {"visit", "run", "skip", "rejected", "completed", "failed"}
  /\ stack \in Seq(FrameState) /\ ordered \in Seq(Step)
  /\ at \in 1..Len(ordered) + 1 /\ attempts \in 0..MaxRetries
  /\ result \in [Step -> {"none", "success", "failed", "skipped"}]
  /\ failed = {s \in Step : result[s] \in {"failed", "skipped"}}

\* Names that are no step are found before the search begins.
KnownFirst == stack # << >> \/ ordered # << >> => AllKnown

\* The calls of visit() form a path along dependencies, of steps that differ.
\* What a call has behind it has been visited, or is the call above it.
StackFits ==
  /\ \A i \in 1..Len(stack) :
       /\ stack[i].step \notin Visited
       /\ stack[i].left \subseteq deps[stack[i].step]
       /\ \A d \in deps[stack[i].step] \ stack[i].left :
            d \in Visited \/ (i < Len(stack) /\ stack[i + 1].step = d)
       /\ i < Len(stack) => stack[i + 1].step \in deps[stack[i].step]
  /\ \A i, j \in 1..Len(stack) : stack[i].step = stack[j].step => i = j

\* A step stands once in the order, after all it depends on.
OrderFits ==
  /\ \A i \in 1..Len(ordered) : \A d \in deps[ordered[i]] :
       \E j \in 1..Len(ordered) : j < i /\ ordered[j] = d
  /\ \A i, j \in 1..Len(ordered) : ordered[i] = ordered[j] => i = j

\* Nothing is run while the order is sought; then the order is of all steps,
\* and those before the present one have been run or skipped.
PhaseFits ==
  /\ pc \in {"visit", "rejected"} => at = 1 /\ \A s \in Step : result[s] = "none"
  /\ pc \notin {"visit", "rejected"} => Visited = Step
  /\ pc = "run" => \A i \in 1..Len(ordered) : result[ordered[i]] = "none" <=> i >= at

WorkflowInv == StepTypes /\ KnownFirst /\ StackFits /\ OrderFits /\ PhaseFits /\ DefinitionFollowed

\* A set of numbers that is not empty has a least member.
LEMMA LeastPlace ==
  ASSUME NEW S \in SUBSET Nat, S # {}
  PROVE  \E n \in S : \A m \in S : n <= m
<1> DEFINE Less == {p \in Nat \X Nat : p[1] < p[2]}
<1>1. IsWellFoundedOn(Less, Nat)
  BY NatLessThanWellFounded DEF OpToRel
<1>2. \A m, n \in Nat : m < n => <<m, n>> \in Less
  OBVIOUS
<1> HIDE DEF Less
<1>3. PICK n \in S : \A m \in S : ~ (<<m, n>> \in Less)
  BY <1>1, WFMin
<1>4. \A m \in S : ~ (m < n)
  BY <1>2, <1>3
<1>5. \A m \in S : m \in Nat
  OBVIOUS
<1> QED
  BY <1>4, <1>5

\* Steps that can be put in order form no cycle: the first of them in the
\* order needs none of them.
LEMMA OrderedIsAcyclic ==
  ASSUME StepTypes, OrderFits, Visited = Step
  PROVE  ~ Cyclic
<1> SUFFICES ASSUME NEW S \in SUBSET Step, S # {}, \A s \in S : deps[s] \cap S # {}
             PROVE FALSE
  BY DEF Cyclic
<1> DEFINE I == {i \in 1..Len(ordered) : ordered[i] \in S}
<1>1. Len(ordered) \in Nat
  BY DEF StepTypes
<1>2. I \in SUBSET Nat /\ I # {}
  BY <1>1 DEF Visited
<1> HIDE DEF I
<1>3. PICK i \in I : \A j \in I : i <= j
  BY <1>2, LeastPlace
<1>4. i \in 1..Len(ordered) /\ ordered[i] \in S
  BY <1>3 DEF I
<1>5. PICK d \in deps[ordered[i]] : d \in S
  BY <1>4
<1>6. PICK j \in 1..Len(ordered) : j < i /\ ordered[j] = d
  BY <1>4, <1>5 DEF OrderFits
<1>7. j \in I
  BY <1>5, <1>6 DEF I
<1> QED BY <1>1, <1>3, <1>4, <1>6, <1>7

\* A dependency that is being visited closes a cycle: the calls from its own
\* to the one on top.
LEMMA BusyIsCyclic ==
  ASSUME StepTypes, StackFits, stack # << >>, NEW d \in Top.left, d \in Visiting
  PROVE  Cyclic
<1>1. Len(stack) \in Nat \ {0} /\ \A i \in 1..Len(stack) : stack[i] \in FrameState
  BY DEF StepTypes
<1>2. PICK i \in 1..Len(stack) : stack[i].step = d
  BY DEF Visiting
<1> DEFINE S == {stack[j].step : j \in i..Len(stack)}
<1>3. S # {} /\ S \subseteq Step
  BY <1>1, <1>2 DEF FrameState
<1>4. ASSUME NEW s \in S PROVE deps[s] \cap S # {}
  <2>1. PICK j \in i..Len(stack) : s = stack[j].step
    BY <1>4
  <2>2. j \in 1..Len(stack)
    BY <1>1, <2>1
  <2>3. CASE j < Len(stack)
    <3>1. stack[j + 1].step \in deps[stack[j].step]
      BY <2>2, <2>3 DEF StackFits
    <3>2. j + 1 \in i..Len(stack)
      BY <1>1, <2>1, <2>3
    <3> QED BY <2>1, <3>1, <3>2
  <2>4. CASE j = Len(stack)
    <3>1. d \in deps[s]
      BY <2>1, <2>2, <2>4 DEF StackFits, Top
    <3>2. d \in S
      BY <1>1, <1>2
    <3> QED BY <3>1, <3>2
  <2> QED BY <1>1, <2>2, <2>3, <2>4
<1> HIDE DEF S
<1>5. S \in SUBSET Step
  BY <1>3
<1> QED BY <1>3, <1>4, <1>5 DEF Cyclic

-----------------------------------------------------------------------------

\* The calls below the one on top.
LEMMA PopCalls ==
  ASSUME StepTypes, stack # << >>
  PROVE  /\ Len(stack) \in Nat \ {0} /\ Top \in FrameState /\ Pop \in Seq(FrameState)
         /\ Len(Pop) = Len(stack) - 1 /\ \A i \in 1..Len(Pop) : Pop[i] = stack[i]
<1>1. Len(stack) \in Nat \ {0}
  BY DEF StepTypes
<1>2. \A i \in 1..Len(stack) : stack[i] \in FrameState
  BY DEF StepTypes
<1>3. Top \in FrameState
  BY <1>1, <1>2 DEF Top
<1>4. Len(stack) - 1 \in Nat /\ \A i \in 1..(Len(stack) - 1) : i \in 1..Len(stack)
  BY <1>1
<1> DEFINE m == Len(stack) - 1
<1>5. 1 \in Int /\ m \in Int /\ \A i \in 1..m : stack[i] \in FrameState
  BY <1>1, <1>2, <1>4
<1> HIDE DEF m, FrameState
<1>6. /\ SubSeq(stack, 1, m) \in Seq(FrameState)
      /\ Len(SubSeq(stack, 1, m)) = IF 1 <= m THEN m - 1 + 1 ELSE 0
      /\ \A i \in 1..(m - 1 + 1) : SubSeq(stack, 1, m)[i] = stack[1 + i - 1]
  BY <1>5, SubSeqProperties
<1>7. m \in Nat
  BY <1>4 DEF m
<1>8. /\ Pop \in Seq(FrameState) /\ Len(Pop) = m
      /\ \A i \in 1..m : Pop[i] = stack[i]
  <2>1. Pop = SubSeq(stack, 1, m)
    BY DEF Pop, m
  <2>2. m - 1 + 1 = m /\ (~ 1 <= m => m = 0) /\ \A i \in 1..m : 1 + i - 1 = i
    BY <1>7
  <2> QED BY <1>6, <2>1, <2>2
<1> QED BY <1>1, <1>3, <1>8 DEF m

\* The calls after the one on top has passed a dependency.
Passed(d) == Append(Pop, [Top EXCEPT !.left = @ \ {d}])
LEMMA PassedCalls ==
  ASSUME StepTypes, stack # << >>, NEW d
  PROVE  /\ Passed(d) \in Seq(FrameState) /\ Len(Passed(d)) = Len(stack)
         /\ \A i \in 1..Len(stack) : i < Len(stack) => Passed(d)[i] = stack[i]
         /\ Passed(d)[Len(stack)] = [step |-> Top.step, left |-> Top.left \ {d}]
<1>0. Top \in FrameState
  BY PopCalls
<1>1. [Top EXCEPT !.left = @ \ {d}] = [step |-> Top.step, left |-> Top.left \ {d}]
  <2>1. \A t \in FrameState :
          [t EXCEPT !.left = @ \ {d}] = [step |-> t.step, left |-> t.left \ {d}]
    BY DEF FrameState
  <2> QED BY <1>0, <2>1
<1>2. [step |-> Top.step, left |-> Top.left \ {d}] \in FrameState
  BY <1>0 DEF FrameState
<1> DEFINE f == [step |-> Top.step, left |-> Top.left \ {d}]
<1>3. Passed(d) = Append(Pop, f)
  BY <1>1 DEF Passed
<1> HIDE DEF f
<1>4. f \in FrameState
  BY <1>2 DEF f
<1>5. /\ Append(Pop, f) \in Seq(FrameState) /\ Len(Append(Pop, f)) = Len(stack)
      /\ \A i \in 1..Len(stack) : i < Len(stack) => Append(Pop, f)[i] = stack[i]
      /\ Append(Pop, f)[Len(stack)] = f
  BY <1>4, PopCalls
<1> QED BY <1>3, <1>5 DEF f

\* A definition has as many places as steps.
LEMMA OrderIsShort == ASSUME StepTypes, OrderFits PROVE Len(ordered) <= Steps
<1> DEFINE n == Len(ordered)
           f == [i \in 1..n |-> ordered[i]]
<1>1. n \in Nat /\ Steps \in Nat /\ \A i \in 1..n : ordered[i] \in Step
  BY StepsAssumption DEF StepTypes
<1>2. f \in [1..n -> Step] /\ \A i, j \in 1..n : f[i] = f[j] => i = j
  BY <1>1 DEF OrderFits
<1>3. /\ IsFiniteSet(1..n) /\ Cardinality(1..n) = IF 1 > n THEN 0 ELSE n - 1 + 1
      /\ IsFiniteSet(Step) /\ Cardinality(Step) = IF 1 > Steps THEN 0 ELSE Steps - 1 + 1
  <2>1. 1 \in Int /\ n \in Int /\ Steps \in Int
    BY <1>1
  <2> HIDE DEF n, f
  <2> QED BY <2>1, FS_Interval DEF Step
<1> HIDE DEF n, f
<1>4. f \in Injection(1..n, Step)
  BY <1>2, Fun_IsInj
<1>5. Cardinality(1..n) <= Cardinality(Step)
  BY <1>3, <1>4, FS_Injection
<1>6. n <= Steps
  BY <1>1, <1>3, <1>5
<1> QED BY <1>6 DEF n

-----------------------------------------------------------------------------

LEMMA WorkflowStarts == WorkflowInit => WorkflowInv
<1> SUFFICES ASSUME WorkflowInit PROVE WorkflowInv
  OBVIOUS
<1> USE DEF WorkflowInit
<1>1. StepTypes
  <2>1. failed = {s \in Step : result[s] \in {"failed", "skipped"}}
    OBVIOUS
  <2>2. stack \in Seq(FrameState) /\ ordered \in Seq(Step) /\ Len(ordered) = 0
    OBVIOUS
  <2>3. at \in 1..Len(ordered) + 1 /\ attempts \in 0..MaxRetries
    BY <2>2, MaxRetriesAssumption
  <2> QED BY <2>1, <2>2, <2>3 DEF StepTypes
<1>2. KnownFirst /\ StackFits /\ OrderFits
  BY DEF KnownFirst, StackFits, OrderFits
<1>3. PhaseFits
  BY DEF PhaseFits
<1>4. DefinitionFollowed
  BY DEF DefinitionFollowed, CyclesRefused, DependenciesSucceeded, Ran
<1> QED BY <1>1, <1>2, <1>3, <1>4 DEF WorkflowInv

\* While the order is sought nothing has run.
LEMMA NothingRan ==
  ASSUME WorkflowInv, pc = "visit", result' = result, at' = at, UNCHANGED <<deps, failed>>
  PROVE  DependenciesSucceeded' /\ (at' = 1 /\ \A s \in Step : result'[s] = "none")
BY DEF WorkflowInv, PhaseFits, DependenciesSucceeded, Ran

\* A call of visit() is begun for a step, and the calls below it fit.
LEMMA CallFits ==
  ASSUME WorkflowInv, pc = "visit", AllKnown, NEW s \in Step, s \notin Visited,
         NEW below \in Seq(FrameState),
         s \notin {below[i].step : i \in 1..Len(below)},
         \A i \in 1..Len(below) :
           /\ below[i].step \notin Visited
           /\ below[i].left \subseteq deps[below[i].step]
           /\ \A d \in deps[below[i].step] \ below[i].left :
                d \in Visited \/ d = (IF i < Len(below) THEN below[i + 1].step ELSE s)
           /\ (IF i < Len(below) THEN below[i + 1].step ELSE s) \in deps[below[i].step],
         \A i, j \in 1..Len(below) : below[i].step = below[j].step => i = j,
         stack' = Append(below, Frame(s)),
         UNCHANGED <<deps, continue, pc, ordered, at, attempts, result, failed>>
  PROVE  WorkflowInv'
<1>0. StepTypes /\ OrderFits /\ PhaseFits /\ DefinitionFollowed
  BY DEF WorkflowInv
<1>1. Frame(s) \in FrameState /\ Frame(s).step = s /\ Frame(s).left = deps[s]
  <2>1. deps[s] \subseteq Step
    BY <1>0 DEF AllKnown, StepTypes
  <2> QED BY <2>1 DEF Frame, FrameState
<1> DEFINE n == Len(below)
<1>2. /\ stack' \in Seq(FrameState) /\ n \in Nat /\ Len(stack') = n + 1
      /\ \A i \in 1..n : stack'[i] = below[i]
      /\ stack'[n + 1] = Frame(s)
  <2> HIDE DEF FrameState
  <2> QED BY <1>1
<1>3. Visited' = Visited
  BY DEF Visited
<1>4. StepTypes'
  BY <1>0, <1>2 DEF StepTypes
<1>5. ASSUME NEW i \in 1..(n + 1)
      PROVE  /\ stack'[i].step \notin Visited
             /\ stack'[i].left \subseteq deps[stack'[i].step]
             /\ \A d \in deps[stack'[i].step] \ stack'[i].left :
                  d \in Visited \/ (i < n + 1 /\ stack'[i + 1].step = d)
             /\ i < n + 1 => stack'[i + 1].step \in deps[stack'[i].step]
  <2>1. CASE i = n + 1
    BY <1>1, <1>2, <2>1
  <2>2. CASE i < n + 1
    <3>1. i \in 1..n /\ (i < n => i + 1 \in 1..n) /\ (~ i < n => i + 1 = n + 1)
      BY <1>2, <2>2
    <3>2. stack'[i] = below[i]
          /\ stack'[i + 1].step = (IF i < Len(below) THEN below[i + 1].step ELSE s)
      BY <1>1, <1>2, <3>1
    <3> QED BY <2>2, <3>1, <3>2
  <2> QED BY <1>2, <2>1, <2>2
<1>6. ASSUME NEW i \in 1..(n + 1), NEW j \in 1..(n + 1), stack'[i].step = stack'[j].step
      PROVE  i = j
  <2>1. \A k \in 1..(n + 1) : k \in 1..n \/ k = n + 1
    BY <1>2
  <2> QED BY <1>1, <1>2, <1>6, <2>1
<1> HIDE DEF n
<1>7. StackFits'
  BY <1>2, <1>3, <1>5, <1>6 DEF StackFits
<1>8. KnownFirst'
  BY DEF KnownFirst, AllKnown
<1>9. OrderFits' /\ PhaseFits'
  BY <1>0, <1>3 DEF OrderFits, PhaseFits
<1>10. DefinitionFollowed'
  BY <1>0, NothingRan DEF DefinitionFollowed, CyclesRefused
<1> QED BY <1>4, <1>7, <1>8, <1>9, <1>10 DEF WorkflowInv

\* The loop over the definition.
LEMMA VisitStepKeeps ==
  ASSUME WorkflowInv, NEW s \in Step, VisitStep(s) PROVE WorkflowInv'
<1> DEFINE below == << >>
<1>1. below \in Seq(FrameState) /\ Len(below) = 0 /\ stack' = Append(below, Frame(s))
  BY DEF VisitStep
<1>2. pc = "visit" /\ AllKnown /\ s \notin Visited
      /\ UNCHANGED <<deps, continue, pc, ordered, at, attempts, result, failed>>
  BY DEF VisitStep, AllKnown
<1>3. 1..Len(below) = {}
  BY <1>1
<1> HIDE DEF below
<1> QED BY <1>1, <1>2, <1>3, CallFits

\* visit() comes to a dependency.
LEMMA VisitDependencyKeeps ==
  ASSUME WorkflowInv, NEW d \in Step, VisitDependency(d) PROVE WorkflowInv'
<1>0. StepTypes /\ KnownFirst /\ StackFits /\ OrderFits /\ PhaseFits /\ DefinitionFollowed
  BY DEF WorkflowInv
<1> DEFINE n == Len(stack)
           q == Passed(d)
<1>1. pc = "visit" /\ stack # << >> /\ d \in Top.left
      /\ UNCHANGED <<deps, continue, ordered, at, attempts, result, failed>>
  BY DEF VisitDependency
<1>2. AllKnown
  BY <1>0, <1>1 DEF KnownFirst
<1>3. /\ n \in Nat \ {0} /\ q \in Seq(FrameState) /\ Len(q) = n
      /\ \A i \in 1..n : i < n => q[i] = stack[i]
      /\ q[n] = [step |-> stack[n].step, left |-> stack[n].left \ {d}]
  BY <1>0, <1>1, PassedCalls, PopCalls DEF Top
<1>4. \A i \in 1..n : q[i].step = stack[i].step
  BY <1>3
<1>5. \A i, j \in 1..n : q[i].step = q[j].step => i = j
  BY <1>0, <1>4 DEF StackFits
<1>6. ASSUME NEW i \in 1..n
      PROVE  /\ q[i].step \notin Visited
             /\ q[i].left \subseteq deps[q[i].step]
             /\ \A e \in deps[q[i].step] \ q[i].left :
                  e \in Visited \/ (i < n /\ q[i + 1].step = e) \/ (i = n /\ e = d)
             /\ i < n => q[i + 1].step \in deps[q[i].step]
             /\ i = n => d \in deps[q[i].step]
  <2>1. /\ stack[i].step \notin Visited
        /\ stack[i].left \subseteq deps[stack[i].step]
        /\ \A e \in deps[stack[i].step] \ stack[i].left :
             e \in Visited \/ (i < n /\ stack[i + 1].step = e)
        /\ i < n => stack[i + 1].step \in deps[stack[i].step]
    BY <1>0 DEF StackFits
  <2>2. CASE i < n
    <3>1. q[i] = stack[i] /\ i + 1 \in 1..n
      BY <1>3, <2>2
    <3>2. q[i + 1].step = stack[i + 1].step
      BY <1>4, <3>1
    <3> QED BY <2>1, <2>2, <3>1, <3>2, <1>3
  <2>3. CASE i = n
    <3>1. q[i].step = stack[i].step /\ q[i].left = stack[i].left \ {d} /\ d \in stack[i].left
      BY <1>1, <1>3, <2>3 DEF Top
    <3>2. ~ (i < n)
      BY <1>3, <2>3
    <3> QED BY <2>1, <2>3, <3>1, <3>2
  <2> QED BY <1>3, <2>2, <2>3
<1> HIDE DEF q
<1>7. CASE Returned(d) /\ stack' = q /\ pc' = pc
  <2>1. Visited' = Visited /\ d \in Visited
    BY <1>1, <1>7 DEF Visited, Returned
  <2>2. StepTypes'
    BY <1>0, <1>1, <1>3, <1>7 DEF StepTypes
  <2>3. ASSUME NEW i \in 1..n
        PROVE  /\ q[i].step \notin Visited
               /\ q[i].left \subseteq deps[q[i].step]
               /\ \A e \in deps[q[i].step] \ q[i].left :
                    e \in Visited \/ (i < n /\ q[i + 1].step = e)
               /\ i < n => q[i + 1].step \in deps[q[i].step]
    BY <1>6, <2>1
  <2> HIDE DEF n
  <2>4. StackFits'
    BY <1>1, <1>3, <1>5, <1>7, <2>1, <2>3 DEF StackFits
  <2>5. KnownFirst'
    BY <1>1, <1>2 DEF KnownFirst, AllKnown
  <2>6. OrderFits' /\ PhaseFits'
    <3>0. OrderFits /\ UNCHANGED <<deps, ordered>>
      BY <1>0, <1>1
    <3>1. OrderFits'
      BY <3>0 DEF OrderFits
    <3>2. PhaseFits'
      BY <1>0, <1>1, <1>7 DEF PhaseFits
    <3> QED BY <3>1, <3>2
  <2>7. DefinitionFollowed'
    <3>1. DependenciesSucceeded'
      BY <1>1, NothingRan
    <3>2. CyclesRefused'
      BY <1>1, <1>7 DEF CyclesRefused
    <3> QED BY <3>1, <3>2 DEF DefinitionFollowed
  <2> QED BY <2>2, <2>4, <2>5, <2>6, <2>7 DEF WorkflowInv
<1>8. CASE ~ Returned(d) /\ Cycle(d) /\ pc' = "rejected" /\ UNCHANGED stack
  <2>1. Cyclic
    BY <1>0, <1>1, <1>8, BusyIsCyclic DEF Cycle
  <2>2. CyclesRefused'
    BY <1>1, <1>8, <2>1 DEF CyclesRefused, Cyclic
  <2>3. DependenciesSucceeded' /\ PhaseFits'
    BY <1>1, <1>8, NothingRan DEF PhaseFits
  <2>4. StepTypes' /\ KnownFirst' /\ StackFits' /\ OrderFits'
    BY <1>0, <1>1, <1>8
      DEF StepTypes, KnownFirst, StackFits, OrderFits, Visited, AllKnown
  <2> QED BY <2>2, <2>3, <2>4 DEF WorkflowInv, DefinitionFollowed
<1>9. CASE ~ Returned(d) /\ ~ Cycle(d) /\ stack' = Append(q, Frame(d)) /\ pc' = pc
  <2>1. d \notin Visited /\ d \notin {q[i].step : i \in 1..Len(q)}
    BY <1>3, <1>4, <1>9 DEF Returned, Cycle, Visiting
  <2>2. ASSUME NEW i \in 1..Len(q)
        PROVE  /\ q[i].step \notin Visited
               /\ q[i].left \subseteq deps[q[i].step]
               /\ \A e \in deps[q[i].step] \ q[i].left :
                    e \in Visited \/ e = (IF i < Len(q) THEN q[i + 1].step ELSE d)
               /\ (IF i < Len(q) THEN q[i + 1].step ELSE d) \in deps[q[i].step]
    <3>1. i \in 1..n /\ (i < Len(q) \/ i = n) /\ (i < Len(q) <=> i < n)
      BY <1>3
    <3> QED BY <1>6, <3>1
  <2>3. \A i, j \in 1..Len(q) : q[i].step = q[j].step => i = j
    BY <1>3, <1>5
  <2> HIDE DEF n
  <2> QED BY <1>1, <1>2, <1>3, <1>9, <2>1, <2>2, <2>3, CallFits
<1>10. q = Append(Pop, [Top EXCEPT !.left = @ \ {d}])
  BY DEF q, Passed
<1> QED BY <1>7, <1>8, <1>9, <1>10 DEF VisitDependency

\* visit() returns: all its step depends on has been visited.
LEMMA LeaveKeeps == ASSUME WorkflowInv, Leave PROVE WorkflowInv'
<1>0. StepTypes /\ KnownFirst /\ StackFits /\ OrderFits /\ PhaseFits /\ DefinitionFollowed
  BY DEF WorkflowInv
<1> DEFINE n == Len(stack)
           k == Len(ordered)
           s == stack[n].step
<1>1. /\ pc = "visit" /\ stack # << >> /\ Top.left = {} /\ stack' = Pop
      /\ ordered' = Append(ordered, Top.step)
      /\ UNCHANGED <<deps, continue, pc, at, attempts, result, failed>>
  BY DEF Leave
<1>2. /\ n \in Nat \ {0} /\ Top \in FrameState /\ Pop \in Seq(FrameState)
      /\ Len(Pop) = n - 1 /\ \A i \in 1..Len(Pop) : Pop[i] = stack[i]
  BY <1>0, <1>1, PopCalls
<1>3. n \in 1..n /\ Top = stack[n] /\ s \in Step /\ Top.step = s
  BY <1>2 DEF Top, FrameState
<1>4. /\ k \in Nat /\ ordered' \in Seq(Step) /\ Len(ordered') = k + 1
      /\ \A i \in 1..k : ordered'[i] = ordered[i]
      /\ ordered'[k + 1] = s
  <2>1. ordered \in Seq(Step)
    BY <1>0 DEF StepTypes
  <2> QED BY <1>1, <1>3, <2>1
<1>5. Visited' = Visited \cup {s}
  <2>1. Visited' = {ordered'[i] : i \in 1..(k + 1)}
    BY <1>4 DEF Visited
  <2>2. \A i : i \in 1..(k + 1) <=> i \in 1..k \/ i = k + 1
    BY <1>4
  <2>3. \A x : x \in Visited' <=> \E i \in 1..(k + 1) : x = ordered'[i]
    BY <2>1
  <2>4. \A x : x \in Visited <=> \E i \in 1..k : x = ordered[i]
    BY DEF Visited
  <2> QED BY <1>4, <2>2, <2>3, <2>4
<1>6. s \notin Visited /\ \A d \in deps[s] : d \in Visited
  <2>1. ~ (n < n)
    BY <1>2
  <2> QED BY <1>0, <1>1, <1>3, <2>1 DEF StackFits
<1>7. StepTypes'
  <2>1. at' \in 1..Len(ordered') + 1
    BY <1>0, <1>1, <1>4 DEF StepTypes
  <2> QED BY <1>0, <1>1, <1>2, <1>4, <2>1 DEF StepTypes
<1>8. KnownFirst'
  BY <1>0, <1>1 DEF KnownFirst, AllKnown
<1>9. StackFits'
  <2>1. ASSUME NEW i \in 1..(n - 1)
        PROVE  /\ stack[i].step \notin Visited \cup {s}
               /\ stack[i].left \subseteq deps[stack[i].step]
               /\ \A d \in deps[stack[i].step] \ stack[i].left :
                    d \in Visited \cup {s} \/ (i < n - 1 /\ stack[i + 1].step = d)
               /\ i < n - 1 => stack[i + 1].step \in deps[stack[i].step]
    <3>1. i \in 1..n /\ i # n /\ i < n /\ (i < n - 1 \/ i + 1 = n)
      BY <1>2
    <3>2. stack[i].step # s
      BY <1>0, <1>3, <3>1 DEF StackFits
    <3>3. /\ stack[i].step \notin Visited
          /\ stack[i].left \subseteq deps[stack[i].step]
          /\ \A d \in deps[stack[i].step] \ stack[i].left :
               d \in Visited \/ stack[i + 1].step = d
          /\ stack[i + 1].step \in deps[stack[i].step]
      BY <1>0, <3>1 DEF StackFits
    <3> QED BY <3>1, <3>2, <3>3
  <2>2. /\ Len(stack') = n - 1
        /\ \A i \in 1..(n - 1) : stack'[i] = stack[i]
        /\ \A i \in 1..(n - 1) : i < n - 1 => stack'[i + 1] = stack[i + 1]
    <3>1. Len(stack') = n - 1 /\ \A i \in 1..(n - 1) : stack'[i] = stack[i]
      BY <1>1, <1>2
    <3>2. \A i \in 1..(n - 1) : i < n - 1 => i + 1 \in 1..(n - 1)
      BY <1>2
    <3> QED BY <3>1, <3>2
  <2>3. \A i, j \in 1..(n - 1) : stack'[i].step = stack'[j].step => i = j
    <3>1. \A i \in 1..(n - 1) : i \in 1..n
      BY <1>2
    <3> QED BY <1>0, <2>2, <3>1 DEF StackFits
  <2> HIDE DEF n, s
  <2>4. ASSUME NEW i \in 1..(n - 1)
        PROVE  /\ stack'[i].step \notin Visited'
               /\ stack'[i].left \subseteq deps'[stack'[i].step]
               /\ \A d \in deps'[stack'[i].step] \ stack'[i].left :
                    d \in Visited' \/ (i < n - 1 /\ stack'[i + 1].step = d)
               /\ i < n - 1 => stack'[i + 1].step \in deps'[stack'[i].step]
    BY <1>1, <1>5, <2>1, <2>2
  <2> QED BY <2>2, <2>3, <2>4 DEF StackFits
<1>10. OrderFits'
  <2>0. \A i \in 1..(k + 1) : i \in 1..k \/ i = k + 1
    BY <1>4
  <2>1. ASSUME NEW i \in 1..(k + 1), NEW d \in deps[ordered'[i]]
        PROVE  \E j \in 1..(k + 1) : j < i /\ ordered'[j] = d
    <3>1. PICK j \in 1..k : j < i /\ ordered[j] = d
      <4>1. CASE i \in 1..k
        BY <1>0, <1>4, <2>1, <4>1 DEF OrderFits
      <4>2. CASE i = k + 1
        <5>1. d \in Visited
          BY <1>4, <1>6, <2>1, <4>2
        <5> QED BY <1>4, <4>2, <5>1 DEF Visited
      <4> QED BY <2>0, <4>1, <4>2
    <3> QED BY <1>4, <3>1
  <2>2. ASSUME NEW i \in 1..(k + 1), NEW j \in 1..(k + 1), ordered'[i] = ordered'[j]
        PROVE  i = j
    <3>1. \A l \in 1..k : ordered'[l] # s
      BY <1>4, <1>6 DEF Visited
    <3>2. CASE i = k + 1 \/ j = k + 1
      BY <1>4, <2>0, <2>2, <3>1, <3>2
    <3>3. CASE i \in 1..k /\ j \in 1..k
      BY <1>0, <1>4, <2>2, <3>3 DEF OrderFits
    <3> QED BY <2>0, <3>2, <3>3
  <2>3. deps' = deps /\ Len(ordered') = k + 1
    BY <1>1, <1>4
  <2>4. \A i \in 1..(k + 1) : \A d \in deps'[ordered'[i]] :
          \E j \in 1..(k + 1) : j < i /\ ordered'[j] = d
    BY <2>1, <2>3
  <2>5. \A i, j \in 1..(k + 1) : ordered'[i] = ordered'[j] => i = j
    BY <2>2
  <2> HIDE DEF k
  <2> QED BY <2>3, <2>4, <2>5 DEF OrderFits
<1>11. DefinitionFollowed' /\ PhaseFits'
  <2>1. DependenciesSucceeded' /\ PhaseFits'
    BY <1>1, NothingRan DEF PhaseFits
  <2>2. CyclesRefused'
    BY <1>1 DEF CyclesRefused
  <2> QED BY <2>1, <2>2 DEF DefinitionFollowed
<1> QED BY <1>7, <1>8, <1>9, <1>10, <1>11 DEF WorkflowInv

-----------------------------------------------------------------------------

\* The search ends.
LEMMA AcceptKeeps == ASSUME WorkflowInv, Accept PROVE WorkflowInv'
<1>0. StepTypes /\ KnownFirst /\ StackFits /\ OrderFits /\ PhaseFits /\ DefinitionFollowed
  BY DEF WorkflowInv
<1>1. /\ pc = "visit" /\ stack = << >> /\ Visited = Step /\ pc' = "run"
      /\ UNCHANGED <<deps, continue, stack, ordered, at, attempts, result, failed>>
  BY DEF Accept
<1>2. AllKnown
  <2>1. 1 \in Step
    BY StepsAssumption DEF Step
  <2>2. ordered # << >>
    BY <1>1, <2>1 DEF Visited
  <2> QED BY <1>0, <2>2 DEF KnownFirst
<1>3. CyclesRefused'
  <2>1. ~ Cyclic
    BY <1>0, <1>1, OrderedIsAcyclic
  <2> QED BY <1>1, <1>2, <2>1 DEF CyclesRefused, Cyclic, AllKnown
<1>4. PhaseFits'
  <2>1. Visited' = Visited
    BY <1>1 DEF Visited
  <2>2. at = 1 /\ \A s \in Step : result[s] = "none"
    BY <1>0, <1>1 DEF PhaseFits
  <2>3. \A i \in 1..Len(ordered) : ordered[i] \in Step /\ i >= 1
    BY <1>0 DEF StepTypes
  <2> QED BY <1>1, <2>1, <2>2, <2>3 DEF PhaseFits
<1>5. DependenciesSucceeded'
  BY <1>1, NothingRan
<1>6. StepTypes' /\ KnownFirst' /\ StackFits' /\ OrderFits'
  BY <1>0, <1>1
    DEF StepTypes, KnownFirst, StackFits, OrderFits, Visited, AllKnown
<1> QED BY <1>3, <1>4, <1>5, <1>6 DEF WorkflowInv, DefinitionFollowed

LEMMA RejectUnknownKeeps == ASSUME WorkflowInv, RejectUnknown PROVE WorkflowInv'
<1>0. StepTypes /\ KnownFirst /\ StackFits /\ OrderFits /\ PhaseFits /\ DefinitionFollowed
  BY DEF WorkflowInv
<1>1. /\ pc = "visit" /\ (\E s \in Step : Unknown \in deps[s]) /\ pc' = "rejected"
      /\ UNCHANGED <<deps, continue, stack, ordered, at, attempts, result, failed>>
  BY DEF RejectUnknown
<1>2. CyclesRefused'
  BY <1>1 DEF CyclesRefused
<1>3. DependenciesSucceeded' /\ PhaseFits'
  BY <1>1, NothingRan DEF PhaseFits
<1>4. StepTypes' /\ KnownFirst' /\ StackFits' /\ OrderFits'
  BY <1>0, <1>1
    DEF StepTypes, KnownFirst, StackFits, OrderFits, Visited, AllKnown
<1> QED BY <1>2, <1>3, <1>4 DEF WorkflowInv, DefinitionFollowed

-----------------------------------------------------------------------------

\* A step gets its result, once, and if it has run, all it depends on has
\* succeeded.
LEMMA ResultKeeps ==
  ASSUME WorkflowInv, pc \in {"run", "skip"}, pc' \in {"run", "skip"},
         NEW s \in Step, result[s] = "none",
         NEW v \in {"success", "failed", "skipped"},
         v # "skipped" => \A d \in deps[s] : result[d] = "success",
         result' = [result EXCEPT ![s] = v],
         failed' = IF v = "success" THEN failed ELSE failed \cup {s},
         at' \in 1..Len(ordered) + 1, attempts' \in 0..MaxRetries,
         pc' = "run" => pc = "run" /\ at' = at + 1 /\ at \in 1..Len(ordered) /\ s = ordered[at],
         UNCHANGED <<deps, continue, stack, ordered>>
  PROVE  WorkflowInv'
<1>0. StepTypes /\ KnownFirst /\ StackFits /\ OrderFits /\ PhaseFits /\ DefinitionFollowed
  BY DEF WorkflowInv
<1>1. /\ result \in [Step -> {"none", "success", "failed", "skipped"}]
      /\ result' \in [Step -> {"none", "success", "failed", "skipped"}]
      /\ result'[s] = v /\ \A t \in Step : t # s => result'[t] = result[t]
  BY <1>0 DEF StepTypes
<1>2. failed' = {t \in Step : result'[t] \in {"failed", "skipped"}}
  <2>1. failed = {t \in Step : result[t] \in {"failed", "skipped"}}
    BY <1>0 DEF StepTypes
  <2>2. \A t \in Step : t \in failed' <=> result'[t] \in {"failed", "skipped"}
    BY <1>1, <2>1
  <2>3. failed' \subseteq Step
    BY <2>1
  <2> QED BY <2>2, <2>3
<1>3. StepTypes'
  BY <1>0, <1>1, <1>2 DEF StepTypes
<1>4. KnownFirst' /\ StackFits' /\ OrderFits'
  BY <1>0 DEF KnownFirst, StackFits, OrderFits, Visited, AllKnown
<1>5. PhaseFits'
  <2>1. Visited' = Step
    BY <1>0 DEF PhaseFits, Visited
  <2>2. ASSUME pc' = "run", NEW i \in 1..Len(ordered)
        PROVE  result'[ordered[i]] = "none" <=> i >= at'
    <3>1. result[ordered[i]] = "none" <=> i >= at
      BY <1>0, <2>2 DEF PhaseFits
    <3>2. at \in Nat /\ i \in Nat /\ at' = at + 1 /\ s = ordered[at] /\ at \in 1..Len(ordered)
      BY <1>0, <2>2 DEF StepTypes
    <3>3. CASE i = at
      BY <1>1, <3>2, <3>3
    <3>4. CASE i # at
      <4>1. ordered[i] # s /\ ordered[i] \in Step
        BY <1>0, <3>2, <3>4 DEF OrderFits, StepTypes
      <4> QED BY <1>1, <3>1, <3>2, <3>4, <4>1
    <3> QED BY <3>3, <3>4
  <2> QED BY <2>1, <2>2 DEF PhaseFits
<1>6. DependenciesSucceeded'
  <2> SUFFICES ASSUME NEW t \in Step, Ran(t)', NEW d \in deps[t]
               PROVE  result'[d] = "success"
    BY DEF DependenciesSucceeded
  <2>1. result'[t] \in {"success", "failed"}
    BY DEF Ran
  <2>2. result[d] = "success"
    <3>1. CASE t = s
      BY <1>1, <2>1, <3>1
    <3>2. CASE t # s
      BY <1>0, <1>1, <2>1, <3>2 DEF DefinitionFollowed, DependenciesSucceeded, Ran
    <3> QED BY <3>1, <3>2
  <2>3. d \in Step
    <3>1. ~ \E u \in Step : Unknown \in deps[u]
      BY <1>0 DEF DefinitionFollowed, CyclesRefused
    <3> QED BY <1>0, <3>1 DEF StepTypes
  <2>4. d # s
    BY <2>2
  <2> QED BY <1>1, <2>2, <2>3, <2>4
<1>7. CyclesRefused'
  BY <1>0 DEF DefinitionFollowed, CyclesRefused, Cyclic
<1> QED BY <1>3, <1>4, <1>5, <1>6, <1>7 DEF WorkflowInv, DefinitionFollowed

\* The step being run is a step without a result; if nothing it depends on
\* has failed or been skipped, all of it has succeeded.
LEMMA CurrentIsNext ==
  ASSUME WorkflowInv, Running
  PROVE  /\ Current \in Step /\ result[Current] = "none"
         /\ at \in 1..Len(ordered) /\ at + 1 \in 1..Len(ordered) + 1
         /\ ~ Blocked(Current) => \A d \in deps[Current] : result[d] = "success"
<1>0. StepTypes /\ OrderFits /\ PhaseFits
  BY DEF WorkflowInv
<1>1. at \in 1..Len(ordered) /\ Len(ordered) \in Nat /\ pc = "run"
  BY <1>0 DEF StepTypes, Running
<1>2. Current \in Step /\ result[Current] = "none"
  BY <1>0, <1>1 DEF StepTypes, PhaseFits, Current
<1>3. ASSUME ~ Blocked(Current), NEW d \in deps[Current] PROVE result[d] = "success"
  <2>1. PICK j \in 1..Len(ordered) : j < at /\ ordered[j] = d
    BY <1>0, <1>1, <1>3 DEF OrderFits, Current
  <2>2. d \in Step
    BY <1>0, <2>1 DEF StepTypes
  <2>3. result[d] # "none"
    <3>1. ~ (j >= at)
      BY <1>1, <2>1
    <3> QED BY <1>0, <1>1, <2>1, <3>1 DEF PhaseFits
  <2>4. d \notin failed
    BY <1>3 DEF Blocked
  <2> QED BY <1>0, <2>2, <2>3, <2>4 DEF StepTypes
<1> QED BY <1>1, <1>2, <1>3

\* The loop over the order, and the skipping of dependents.
LEMMA RunKeeps ==
  ASSUME WorkflowInv,
         SkipStep \/ Succeed \/ Fail \/ \E s \in Step : SkipDependent(s)
  PROVE  WorkflowInv'
<1>0. StepTypes
  BY DEF WorkflowInv
<1>a. attempts \in 0..MaxRetries /\ 0 \in 0..MaxRetries /\ at \in 1..Len(ordered) + 1
  BY <1>0, MaxRetriesAssumption DEF StepTypes
<1>1. CASE SkipStep
  <2>1. /\ Running /\ pc = "run" /\ pc' = "run" /\ at' = at + 1 /\ Current = ordered[at]
        /\ result' = [result EXCEPT ![Current] = "skipped"]
        /\ failed' = failed \cup {Current}
        /\ UNCHANGED <<deps, continue, stack, ordered, attempts>>
    BY <1>1 DEF SkipStep, AfterSkip, Running, Current
  <2>2. /\ Current \in Step /\ result[Current] = "none"
        /\ at \in 1..Len(ordered) /\ at + 1 \in 1..Len(ordered) + 1
    BY <2>1, CurrentIsNext
  <2> HIDE DEF Current
  <2> QED BY <1>a, <2>1, <2>2, ResultKeeps
<1>2. CASE Succeed
  <2>1. /\ Running /\ ~ Blocked(Current) /\ pc = "run" /\ pc' = "run" /\ at' = at + 1
        /\ Current = ordered[at]
        /\ result' = [result EXCEPT ![Current] = "success"] /\ attempts' = 0
        /\ UNCHANGED <<deps, continue, stack, ordered, failed>>
    BY <1>2 DEF Succeed, Running, Current
  <2>2. /\ Current \in Step /\ result[Current] = "none"
        /\ at \in 1..Len(ordered) /\ at + 1 \in 1..Len(ordered) + 1
        /\ \A d \in deps[Current] : result[d] = "success"
    BY <2>1, CurrentIsNext
  <2> QED BY <1>a, <2>1, <2>2, ResultKeeps
<1>3. CASE Fail
  <2>1. /\ Running /\ ~ Blocked(Current) /\ pc = "run" /\ pc' \in {"run", "skip"} /\ at' = at + 1
        /\ Current = ordered[at]
        /\ result' = [result EXCEPT ![Current] = "failed"] /\ attempts' = 0
        /\ failed' = failed \cup {Current}
        /\ UNCHANGED <<deps, continue, stack, ordered>>
    BY <1>3 DEF Fail, AfterFailure, Running, Current
  <2>2. /\ Current \in Step /\ result[Current] = "none"
        /\ at \in 1..Len(ordered) /\ at + 1 \in 1..Len(ordered) + 1
        /\ \A d \in deps[Current] : result[d] = "success"
    BY <2>1, CurrentIsNext
  <2> QED BY <1>a, <2>1, <2>2, ResultKeeps
<1>4. ASSUME NEW s \in Step, SkipDependent(s) PROVE WorkflowInv'
  <2>1. /\ pc = "skip" /\ pc' = "skip" /\ result[s] = "none"
        /\ result' = [result EXCEPT ![s] = "skipped"] /\ failed' = failed \cup {s}
        /\ UNCHANGED <<deps, continue, stack, ordered, at, attempts>>
    BY <1>4 DEF SkipDependent, AfterSkip
  <2> QED BY <1>a, <2>1, ResultKeeps
<1> QED BY <1>1, <1>2, <1>3, <1>4

\* Another attempt, and the end.
LEMMA RetryOrReportKeeps == ASSUME WorkflowInv, Retry \/ Report PROVE WorkflowInv'
<1>0. StepTypes /\ KnownFirst /\ StackFits /\ OrderFits /\ PhaseFits /\ DefinitionFollowed
  BY DEF WorkflowInv
<1>1. /\ pc \in {"run", "skip"} /\ pc' \in {"run", "completed", "failed"}
      /\ pc' = "run" => pc = "run" /\ at' = at
      /\ attempts' \in 0..MaxRetries
      /\ UNCHANGED <<deps, continue, stack, ordered, at, result, failed>>
  BY <1>0, MaxRetriesAssumption DEF Retry, Report, Running, RunOutcome, StepTypes
<1>2. CyclesRefused' /\ DependenciesSucceeded'
  BY <1>0, <1>1
    DEF DefinitionFollowed, CyclesRefused, Cyclic, DependenciesSucceeded, Ran
<1>3. PhaseFits'
  BY <1>0, <1>1 DEF PhaseFits, Visited
<1>4. StepTypes'
  BY <1>0, <1>1 DEF StepTypes
<1>5. KnownFirst' /\ StackFits' /\ OrderFits'
  BY <1>0, <1>1 DEF KnownFirst, StackFits, OrderFits, Visited, AllKnown
<1> QED BY <1>2, <1>3, <1>4, <1>5 DEF WorkflowInv, DefinitionFollowed

LEMMA WorkflowKeeps == WorkflowInv /\ [WorkflowNext]_workflowVars => WorkflowInv'
<1> SUFFICES ASSUME WorkflowInv, [WorkflowNext]_workflowVars PROVE WorkflowInv'
  OBVIOUS
<1>1. CASE UNCHANGED workflowVars
  <2>0. StepTypes /\ KnownFirst /\ StackFits /\ OrderFits /\ PhaseFits /\ DefinitionFollowed
    BY DEF WorkflowInv
  <2>1. StepTypes'
    BY <1>1, <2>0 DEF workflowVars, StepTypes
  <2>2. KnownFirst' /\ StackFits' /\ OrderFits' /\ PhaseFits'
    BY <1>1, <2>0
      DEF workflowVars, KnownFirst, StackFits, OrderFits, PhaseFits, Visited, AllKnown
  <2>3. DefinitionFollowed'
    BY <1>1, <2>0 DEF workflowVars, DefinitionFollowed, CyclesRefused, Cyclic,
                      DependenciesSucceeded, Ran
  <2> QED BY <2>1, <2>2, <2>3 DEF WorkflowInv
<1>2. CASE WorkflowNext
  <2>1. CASE RejectUnknown \/ Leave \/ Accept
    BY <2>1, RejectUnknownKeeps, LeaveKeeps, AcceptKeeps
  <2>2. ASSUME NEW s \in Step, VisitStep(s) \/ VisitDependency(s)
        PROVE  WorkflowInv'
    BY <2>2, VisitStepKeeps, VisitDependencyKeeps
  <2>3. CASE SkipStep \/ Succeed \/ Fail \/ \E s \in Step : SkipDependent(s)
    BY <2>3, RunKeeps
  <2>4. CASE Retry \/ Report
    BY <2>4, RetryOrReportKeeps
  <2> QED BY <1>2, <2>1, <2>2, <2>3, <2>4 DEF WorkflowNext
<1> QED BY <1>1, <1>2

LEMMA WorkflowHolds == WorkflowSpec => []WorkflowInv
BY WorkflowStarts, WorkflowKeeps, PTL DEF WorkflowSpec

\* The variables of the engine keep their types (engine.py).
THEOREM WorkflowTypes == WorkflowSpec => []WorkflowTypeOK
<1>1. WorkflowInv => WorkflowTypeOK
  <2> SUFFICES ASSUME WorkflowInv PROVE WorkflowTypeOK
    OBVIOUS
  <2>1. StepTypes /\ OrderFits
    BY DEF WorkflowInv
  <2>2. at \in 1..Steps + 1
    <3>1. Len(ordered) <= Steps
      BY <2>1, OrderIsShort
    <3> QED BY <2>1, <3>1, StepsAssumption DEF StepTypes
  <2> QED BY <2>1, <2>2 DEF StepTypes, WorkflowTypeOK, FrameState
<1> QED BY <1>1, WorkflowHolds, PTL

\* A definition is run only if its dependencies are steps and form no cycle,
\* and refused only if not; and no step runs before all it depends on has
\* succeeded, whatever fails and whatever is continued after (engine.py
\* run_workflow, _topological_steps).  For definitions of any length.
THEOREM RunsFollowDefinition == WorkflowSpec => []DefinitionFollowed
BY WorkflowHolds, PTL DEF WorkflowInv

-----------------------------------------------------------------------------
(* Budgets.                                                                *)

Busy == {r \in Caller : caller[r].pc # "idle"}
Waiting == {a \in Admin : admin[a].pc # "idle"}

\* The number of a row that a pending change may create is held by nobody.
IdsFit ==
  /\ budget.id <= edits
  /\ \A r \in Caller : caller[r].mem.id <= edits
  /\ \A a \in Waiting : admin[a].no \in 1..edits /\ admin[a].no # budget.id
  /\ \A a \in Waiting, r \in Caller : admin[a].no # caller[r].mem.id
  /\ \A a, b \in Waiting : admin[a].no = admin[b].no => a = b

\* What is being sent or marked was due when it was measured.
WindowsFit ==
  /\ \A r \in Caller : caller[r].pc \in {"send", "mark"} =>
       caller[r].mem.alerted < caller[r].window /\ caller[r].window <= month
  /\ \A m \in 1..Months : m > month => alerts[m] = 0

\* Nothing has been sent or marked, and requests hold the budget as it is; a
\* spend above the threshold is on its way to be seen.
Unsent ==
  /\ budget.alerted = 0
  /\ \A r \in Caller : caller[r].pc # "mark"
  /\ \A r \in Caller : caller[r].pc \in {"measure", "send"} => caller[r].mem = budget
  /\ (budget.exists /\ OverThreshold(budget, spend[1]) /\ spend[1] > 0) =>
       \E r \in Caller : caller[r].pc \in {"load", "measure", "send"}

NotMissed ==
  edits = 0 /\ broken = 0 /\ month = 1 => Waiting = {} /\ (alerts[1] > 0 \/ Unsent)

OneBusy == \A r, s \in Busy : r = s

\* The row that was loaded as mem is still there.
RowIs(b, mem) == b.exists /\ b.id = mem.id

\* A request that may still send the alert of month m.
MaySend(k, m) ==
  \/ k.pc = "measure" /\ k.mem.exists /\ k.mem.alerted < m
  \/ k.pc = "send" /\ k.window = m

\* The alerts of month m that can be sent without an edit or a request broken
\* off: one while the latch is open, and one by a request whose row is gone.
\* None while an alert that has been sent is about to be marked.
Marks(k, b) == k.pc = "mark" /\ RowIs(b, k.mem)
Strays(k, b, m) == MaySend(k, m) /\ ~ RowIs(b, k.mem)
Latch(b, m) == IF b.alerted < m THEN 1 ELSE 0
Spare(c, b, m) ==
  IF \E r \in Caller : Marks(c[r], b) THEN 0
  ELSE Latch(b, m) + (IF \E r \in Caller : Strays(c[r], b, m) THEN 1 ELSE 0)
SpareOf(k, b, m) ==
  IF Marks(k, b) THEN 0 ELSE Latch(b, m) + (IF Strays(k, b, m) THEN 1 ELSE 0)

\* What has been sent of a month and what can be is paid for by the first
\* alert, the requests broken off and the edits that are done.
Paid(m) == alerts[m] + Spare(caller, budget, m) + Cardinality(Waiting) <= 1 + broken + edits

LatchFits ==
  /\ OneBusy
  /\ \A r \in Caller, m \in 1..Months :
       MaySend(caller[r], m) /\ RowIs(budget, caller[r].mem) => budget.alerted < m
  /\ \A m \in 1..Months : Paid(m)

BudgetInv ==
  /\ BudgetTypeOK
  /\ IsFiniteSet(Waiting) /\ Cardinality(Waiting) <= edits
  /\ IdsFit /\ WindowsFit /\ NotMissed
  /\ ~ overlap => LatchFits

CallerState == [pc: {"idle", "record", "load", "measure", "send", "mark"},
                mem: BudgetRow, window: 1..Months]
AdminState == [pc: {"idle", "upsert", "delete"}, mem: BudgetRow, no: 0..MaxEdits, terms: Terms]

LEMMA NoCallerTypes == ASSUME NEW b \in BudgetRow PROVE NoCaller(b) \in CallerState
BY BudgetBoundsAssumption DEF NoCaller, CallerState

LEMMA NoAdminTypes == ASSUME NEW b \in BudgetRow PROVE NoAdmin(b) \in AdminState
<1>1. b.limit \in Limits /\ b.pct \in Percents /\ 0 \in 0..MaxEdits
  BY BudgetBoundsAssumption DEF BudgetRow
<1>2. [limit |-> b.limit, pct |-> b.pct] \in Terms
  BY <1>1 DEF Terms
<1> QED BY <1>1, <1>2 DEF NoAdmin, AdminState

\* An UPDATE keeps the row's number, and changes its latch or not.
LEMMA UpdatedRow ==
  ASSUME NEW b \in BudgetRow, NEW mem \in BudgetRow, NEW new \in BudgetRow
  PROVE  /\ Updated(b, mem, new) \in BudgetRow
         /\ Updated(b, mem, new).exists = b.exists
         /\ Updated(b, mem, new).id = b.id
         /\ Updated(b, mem, new).alerted =
              IF new.alerted = mem.alerted THEN b.alerted ELSE new.alerted
BY DEF Updated, BudgetRow

\* Who acts alone decides what can be sent.
LEMMA SpareOfOne ==
  ASSUME NEW c, NEW b, NEW r \in Caller, \A s \in Caller : c[s].pc # "idle" => s = r
  PROVE  \A m : Spare(c, b, m) = SpareOf(c[r], b, m)
<1>1. ASSUME NEW s \in Caller, NEW m, Marks(c[s], b) \/ Strays(c[s], b, m) PROVE s = r
  BY <1>1 DEF Marks, Strays, MaySend
<1>2. (\E s \in Caller : Marks(c[s], b)) <=> Marks(c[r], b)
  BY <1>1
<1>3. \A m : (\E s \in Caller : Strays(c[s], b, m)) <=> Strays(c[r], b, m)
  BY <1>1
<1> QED BY <1>2, <1>3 DEF Spare, SpareOf

LEMMA SpareIsSmall ==
  ASSUME NEW c, NEW b, NEW m
  PROVE  /\ Spare(c, b, m) \in 0..2 /\ Latch(b, m) \in 0..1
BY DEF Spare, Latch

LEMMA BudgetStarts == BudgetInit => BudgetInv
<1> SUFFICES ASSUME BudgetInit PROVE BudgetInv
  OBVIOUS
<1>0. Months \in Nat \ {0} /\ MaxCalls \in Nat /\ MaxEdits \in Nat /\ MaxBroken \in Nat
  BY BudgetBoundsAssumption
<1>1. /\ budget \in BudgetRow /\ budget.id = 0 /\ budget.alerted = 0
      /\ month = 1 /\ edits = 0 /\ broken = 0 /\ calls = 0 /\ overlap \in BOOLEAN
      /\ \A r \in Caller : caller[r] = NoCaller(budget)
      /\ \A a \in Admin : admin[a] = NoAdmin(budget)
      /\ \A m \in 1..Months : alerts[m] = 0 /\ spend[m] = 0
  BY DEF BudgetInit
<1>2. BudgetTypeOK
  <2>1. caller \in [Caller -> CallerState] /\ admin \in [Admin -> AdminState]
    BY <1>1, NoCallerTypes, NoAdminTypes DEF BudgetInit
  <2>2. spend \in [1..Months -> Nat] /\ alerts \in [1..Months -> Nat]
    BY DEF BudgetInit
  <2>3. month \in 1..Months /\ calls \in 0..MaxCalls /\ edits \in 0..MaxEdits
        /\ broken \in 0..MaxBroken
    BY <1>0, <1>1
  <2> QED BY <1>1, <2>1, <2>2, <2>3 DEF BudgetTypeOK, CallerState, AdminState
<1>3. Waiting = {} /\ Busy = {}
  BY <1>1 DEF Waiting, Busy, NoAdmin, NoCaller
<1>4. IsFiniteSet(Waiting) /\ Cardinality(Waiting) = 0
  BY <1>3, FS_EmptySet
<1>5. IdsFit /\ WindowsFit
  BY <1>0, <1>1, <1>3 DEF IdsFit, WindowsFit, NoCaller
<1>6. NotMissed
  <2>1. spend[1] = 0
    BY <1>0, <1>1
  <2> QED BY <1>1, <1>3, <2>1 DEF NotMissed, Unsent, NoCaller
<1>7. LatchFits
  <2>1. \A r \in Caller : caller[r].pc = "idle"
    BY <1>3 DEF Busy
  <2>2. \A r \in Caller, m \in 1..Months : ~ MaySend(caller[r], m)
    BY <2>1 DEF MaySend
  <2>3. ASSUME NEW m \in 1..Months PROVE Paid(m)
    <3>1. ~ \E r \in Caller : Strays(caller[r], budget, m)
      BY <2>2, <2>3 DEF Strays
    <3>2. Spare(caller, budget, m) \in 0..1
      BY <3>1 DEF Spare, Latch
    <3>3. alerts[m] = 0 /\ broken = 0 /\ edits = 0
      BY <1>1, <2>3
    <3> QED BY <1>4, <3>2, <3>3 DEF Paid
  <2>4. OneBusy
    BY <1>3 DEF OneBusy
  <2> QED BY <2>2, <2>3, <2>4 DEF LatchFits
<1>8. Cardinality(Waiting) <= edits
  BY <1>1, <1>4
<1> QED BY <1>2, <1>4, <1>5, <1>6, <1>7, <1>8 DEF BudgetInv

-----------------------------------------------------------------------------

\* Where requests do not overlap, one that is under way is alone.
LEMMA BusyIsAlone ==
  ASSUME BudgetInv, ~ overlap, NEW r \in Caller, caller[r].pc # "idle" \/ Free(r)
  PROVE  \A s \in Caller : caller[s].pc # "idle" => s = r
BY DEF BudgetInv, LatchFits, OneBusy, Busy, Free

\* A request takes a step: what must be shown of it.
LEMMA CallerStep ==
  ASSUME BudgetInv, NEW r \in Caller, NEW x \in CallerState,
         caller[r].pc # "idle" \/ Free(r),
         caller' = [caller EXCEPT ![r] = x],
         budget' \in BudgetRow, budget'.exists = budget.exists, budget'.id = budget.id,
         UNCHANGED <<month, admin, overlap, edits>>,
         spend' \in [1..Months -> Nat], alerts' \in [1..Months -> Nat],
         calls' \in 0..MaxCalls, broken' \in 0..MaxBroken,
         x.mem.id = caller[r].mem.id \/ x.mem.id = budget.id,
         x.pc \in {"send", "mark"} => x.mem.alerted < x.window /\ x.window <= month,
         \A m \in 1..Months : m > month => alerts'[m] = 0,
         edits = 0 /\ broken' = 0 /\ month = 1 /\ (alerts[1] > 0 \/ Unsent)
           => alerts'[1] > 0 \/ Unsent',
         broken <= broken',
         ~ overlap => \A m \in 1..Months :
           /\ MaySend(x, m) /\ RowIs(budget', x.mem) => budget'.alerted < m
           /\ \/ alerts'[m] + SpareOf(x, budget', m) + broken
                   <= alerts[m] + SpareOf(caller[r], budget, m) + broken'
              \/ alerts'[m] = 0 /\ SpareOf(x, budget', m) <= 1
  PROVE  BudgetInv'
<1>0. /\ BudgetTypeOK /\ IdsFit /\ WindowsFit /\ NotMissed
      /\ IsFiniteSet(Waiting) /\ Cardinality(Waiting) <= edits
  BY DEF BudgetInv
<1>1. caller \in [Caller -> CallerState] /\ admin \in [Admin -> AdminState]
  BY <1>0 DEF BudgetTypeOK, CallerState, AdminState
<1>2. /\ caller' \in [Caller -> CallerState] /\ caller'[r] = x
      /\ \A s \in Caller : s # r => caller'[s] = caller[s]
  BY <1>1
<1>3. Waiting' = Waiting
  BY DEF Waiting
<1>4. BudgetTypeOK'
  BY <1>0, <1>2 DEF BudgetTypeOK, CallerState
<1>5. IdsFit'
  <2>1. \A s \in Caller : \/ caller'[s].mem.id = caller[s].mem.id
                          \/ caller'[s].mem.id = budget.id
    BY <1>2
  <2> QED BY <1>0, <1>3, <2>1 DEF IdsFit
<1>6. WindowsFit'
  BY <1>0, <1>2 DEF WindowsFit
<1>7. NotMissed'
  <2>1. broken \in Nat /\ broken' \in Nat
    BY <1>0, BudgetBoundsAssumption DEF BudgetTypeOK
  <2>2. broken' = 0 => broken = 0
    BY <2>1
  <2> QED BY <1>0, <1>3, <2>2 DEF NotMissed
<1>8. ASSUME ~ overlap PROVE LatchFits'
  <2>1. \A s \in Caller : caller[s].pc # "idle" => s = r
    BY <1>8, BusyIsAlone
  <2>2. \A s \in Caller : caller'[s].pc # "idle" => s = r
    BY <1>2, <2>1
  <2>3. OneBusy'
    BY <2>2 DEF OneBusy, Busy
  <2>4. LatchFits
    BY <1>8 DEF BudgetInv
  <2>5. ASSUME NEW s \in Caller, NEW m \in 1..Months,
               MaySend(caller'[s], m), RowIs(budget', caller'[s].mem)
        PROVE  budget'.alerted < m
    <3>1. s = r
      BY <2>2, <2>5 DEF MaySend
    <3> QED BY <1>2, <1>8, <2>5, <3>1
  <2>6. ASSUME NEW m \in 1..Months PROVE Paid(m)'
    <3>1. /\ Spare(caller, budget, m) = SpareOf(caller[r], budget, m)
          /\ Spare(caller', budget', m) = SpareOf(x, budget', m)
      <4>1. \A n : Spare(caller, budget, n) = SpareOf(caller[r], budget, n)
        BY <2>1, SpareOfOne
      <4>2. \A n : Spare(caller', budget', n) = SpareOf(caller'[r], budget', n)
        <5>1. PICK c : c = caller'
          OBVIOUS
        <5>2. PICK b : b = budget'
          OBVIOUS
        <5>3. \A t \in Caller : c[t].pc # "idle" => t = r
          BY <2>2, <5>1
        <5>4. \A n : Spare(c, b, n) = SpareOf(c[r], b, n)
          BY <5>3, SpareOfOne
        <5> QED BY <5>1, <5>2, <5>4
      <4> QED BY <1>2, <4>1, <4>2
    <3>2. /\ Spare(caller, budget, m) \in 0..2 /\ Spare(caller', budget', m) \in 0..2
          /\ alerts[m] \in Nat /\ alerts'[m] \in Nat /\ broken \in Nat /\ broken' \in Nat
          /\ edits \in Nat /\ Cardinality(Waiting) \in Nat
      <4>1. alerts[m] \in Nat /\ alerts'[m] \in Nat
        BY <1>0, <2>6 DEF BudgetTypeOK
      <4>2. broken \in Nat /\ broken' \in Nat /\ edits \in Nat
        BY <1>0, BudgetBoundsAssumption DEF BudgetTypeOK
      <4>3. Cardinality(Waiting) \in Nat
        BY <1>0, FS_CardinalityType
      <4>4. Spare(caller, budget, m) \in 0..2 /\ Spare(caller', budget', m) \in 0..2
        BY SpareIsSmall
      <4> QED BY <4>1, <4>2, <4>3, <4>4
    <3>3. alerts[m] + Spare(caller, budget, m) + Cardinality(Waiting) <= 1 + broken + edits
      BY <2>4, <2>6 DEF LatchFits, Paid
    <3>4. \/ alerts'[m] + Spare(caller', budget', m) + broken
               <= alerts[m] + Spare(caller, budget, m) + broken'
          \/ alerts'[m] = 0 /\ Spare(caller', budget', m) <= 1
      BY <1>8, <2>6, <3>1
    <3>5. alerts'[m] + Spare(caller', budget', m) + Cardinality(Waiting) <= 1 + broken' + edits
      <4>1. Cardinality(Waiting) <= edits
        BY <1>0
      <4>2. ASSUME NEW p \in Nat, NEW q \in Nat, NEW u \in 0..2, NEW v \in 0..2, NEW k \in Nat,
                   NEW e \in Nat, NEW b \in Nat, NEW c \in Nat,
                   p + u + k <= 1 + b + e, q + v + b <= p + u + c \/ (q = 0 /\ v <= 1), k <= e
            PROVE  q + v + k <= 1 + c + e
        BY <4>2
      <4> QED BY <3>2, <3>3, <3>4, <4>1, <4>2
    <3> QED BY <1>3, <3>5 DEF Paid
  <2> QED BY <2>3, <2>5, <2>6 DEF LatchFits
<1> QED BY <1>0, <1>3, <1>4, <1>5, <1>6, <1>7, <1>8 DEF BudgetInv

\* What a request holds, and the ranges of the counters.
LEMMA BudgetTypes ==
  ASSUME BudgetTypeOK, NEW r \in Caller
  PROVE  /\ caller[r] \in CallerState /\ caller[r].mem \in BudgetRow
         /\ caller[r].window \in 1..Months /\ budget \in BudgetRow
         /\ month \in 1..Months /\ Months \in Nat /\ 1 \in 1..Months
         /\ broken \in Nat /\ edits \in Nat /\ calls \in Nat /\ MaxCalls \in Nat
         /\ broken \in 0..MaxBroken /\ calls \in 0..MaxCalls
         /\ \A m \in 1..Months : alerts[m] \in Nat /\ spend[m] \in Nat
         /\ alerts \in [1..Months -> Nat] /\ spend \in [1..Months -> Nat]
<1>1. caller[r] \in CallerState
  BY DEF BudgetTypeOK, CallerState
<1>2. caller[r].mem \in BudgetRow /\ caller[r].window \in 1..Months
  BY <1>1 DEF CallerState
<1> QED BY <1>1, <1>2, BudgetBoundsAssumption DEF BudgetTypeOK

\* Before the evaluation nothing is held that could be sent.
LEMMA Begin ==
  ASSUME BudgetInv, NEW r \in Caller, NEW to \in {"record", "load"},
         \/ caller[r].pc = "record" /\ to = "load" /\ calls' = calls
         \/ Free(r) /\ calls < MaxCalls /\ calls' = calls + 1
            /\ (UNCHANGED spend \/ to = "load"),
         spend' \in [1..Months -> Nat],
         caller[r].pc \in {"idle", "record"},
         caller' = [caller EXCEPT ![r].pc = to],
         UNCHANGED <<month, budget, admin, alerts, overlap, edits, broken>>
  PROVE  BudgetInv'
<1> DEFINE x == [caller[r] EXCEPT !.pc = to]
<1>0. BudgetTypeOK /\ WindowsFit
  BY DEF BudgetInv
<1>1. x \in CallerState /\ x.pc = to /\ x.mem = caller[r].mem /\ caller' = [caller EXCEPT ![r] = x]
  BY <1>0, BudgetTypes DEF CallerState
<1> HIDE DEF x
<1>2. \A m : ~ MaySend(x, m) /\ ~ Marks(x, budget) /\ ~ MaySend(caller[r], m) /\ ~ Marks(caller[r], budget)
  BY <1>1 DEF MaySend, Marks
<1>3. ASSUME NEW m \in 1..Months
      PROVE  /\ MaySend(x, m) /\ RowIs(budget', x.mem) => budget'.alerted < m
             /\ alerts'[m] + SpareOf(x, budget', m) + broken
                  <= alerts[m] + SpareOf(caller[r], budget, m) + broken'
  <2>1. SpareOf(x, budget, m) = SpareOf(caller[r], budget, m)
    BY <1>2 DEF SpareOf, Strays
  <2>2. SpareOf(x, budget, m) \in 0..2 /\ alerts[m] \in Nat /\ broken \in Nat
    BY <1>0, BudgetTypes DEF SpareOf, Latch
  <2> QED BY <1>2, <2>1, <2>2
<1>4. calls' \in 0..MaxCalls /\ broken' \in 0..MaxBroken /\ broken <= broken'
      /\ budget' \in BudgetRow /\ alerts' \in [1..Months -> Nat]
  BY <1>0, BudgetTypes
<1>5. \A s \in Caller : caller'[s].pc = (IF s = r THEN to ELSE caller[s].pc)
                       /\ caller'[s].mem = caller[s].mem
  BY <1>0, <1>1 DEF BudgetTypeOK
<1>6. ASSUME alerts[1] > 0 \/ Unsent PROVE alerts'[1] > 0 \/ Unsent'
  <2> SUFFICES ASSUME Unsent PROVE Unsent'
    BY <1>6
  <2>1. budget'.alerted = 0 /\ \A s \in Caller : caller'[s].pc # "mark"
    BY <1>5 DEF Unsent
  <2>2. \A s \in Caller : caller'[s].pc \in {"measure", "send"} => caller'[s].mem = budget'
    BY <1>5 DEF Unsent
  <2>3. CASE to = "load"
    <3>1. caller'[r].pc = "load"
      BY <1>5, <2>3
    <3> QED BY <2>1, <2>2, <3>1 DEF Unsent
  <2>4. CASE UNCHANGED spend /\ caller[r].pc = "idle"
    <3>1. ASSUME NEW s \in Caller, caller[s].pc \in {"load", "measure", "send"}
          PROVE  caller'[s].pc \in {"load", "measure", "send"}
      BY <1>5, <2>4, <3>1
    <3>2. ASSUME budget'.exists /\ OverThreshold(budget', spend'[1]) /\ spend'[1] > 0
          PROVE  \E s \in Caller : caller'[s].pc \in {"load", "measure", "send"}
      <4>1. budget.exists /\ OverThreshold(budget, spend[1]) /\ spend[1] > 0
        BY <2>4, <3>2 DEF OverThreshold
      <4>2. PICK s \in Caller : caller[s].pc \in {"load", "measure", "send"}
        BY <4>1 DEF Unsent
      <4> QED BY <3>1, <4>2
    <3> QED BY <2>1, <2>2, <3>2 DEF Unsent, OverThreshold
  <2> QED BY <2>3, <2>4 DEF Free
<1>7. \A m \in 1..Months : m > month => alerts'[m] = 0
  BY <1>0 DEF WindowsFit
<1>8. caller[r].pc # "idle" \/ Free(r)
  OBVIOUS
<1> QED BY <1>1, <1>3, <1>4, <1>6, <1>7, <1>8, CallerStep

LEMMA CallKeeps ==
  ASSUME BudgetInv, NEW r \in Caller, Call(r) \/ EvaluateNow(r) PROVE BudgetInv'
<1>0. BudgetTypeOK
  BY DEF BudgetInv
<1>1. caller[r].pc = "idle"
  BY DEF Call, EvaluateNow, Free
<1>2. spend' \in [1..Months -> Nat] /\ UNCHANGED spend /\ Free(r)
      /\ calls < MaxCalls /\ calls' = calls + 1
  BY <1>0 DEF Call, EvaluateNow, BudgetTypeOK
<1>3. UNCHANGED <<month, budget, admin, alerts, overlap, edits, broken>>
  BY DEF Call, EvaluateNow
<1>4. PICK to \in {"record", "load"} : caller' = [caller EXCEPT ![r].pc = to]
  BY DEF Call, EvaluateNow
<1> QED BY <1>1, <1>2, <1>3, <1>4, Begin

LEMMA RecordKeeps ==
  ASSUME BudgetInv, NEW r \in Caller, NEW cost \in 0..1, Record(r, cost) PROVE BudgetInv'
<1>0. BudgetTypeOK
  BY DEF BudgetInv
<1>1. /\ caller[r].pc = "record" /\ calls' = calls
      /\ caller' = [caller EXCEPT ![r].pc = "load"]
      /\ UNCHANGED <<month, budget, admin, alerts, overlap, edits, broken>>
  BY DEF Record
<1>2. spend' \in [1..Months -> Nat]
  <2>1. spend[month] + cost \in Nat
    BY <1>0, BudgetTypes
  <2> QED BY <1>0, <2>1 DEF Record, BudgetTypeOK
<1> DEFINE to == "load"
<1>3. to \in {"record", "load"} /\ caller' = [caller EXCEPT ![r].pc = to] /\ to = "load"
  BY <1>1
<1> HIDE DEF to
<1> QED BY <1>1, <1>2, <1>3, Begin

\* The request reads the budget: it may send what the latch leaves open.
LEMMA LoadKeeps == ASSUME BudgetInv, NEW r \in Caller, Load(r) PROVE BudgetInv'
<1> DEFINE x == [pc |-> "measure", mem |-> budget, window |-> 1]
<1>0. BudgetTypeOK /\ WindowsFit
  BY DEF BudgetInv
<1>1. /\ caller[r].pc = "load" /\ caller' = [caller EXCEPT ![r] = x]
      /\ UNCHANGED <<month, spend, budget, admin, alerts, overlap, calls, edits, broken>>
  BY DEF Load
<1>2. x \in CallerState /\ x.pc = "measure" /\ x.mem = budget
  BY <1>0, BudgetTypes DEF CallerState
<1> HIDE DEF x
<1>3. ASSUME NEW m \in 1..Months
      PROVE  /\ MaySend(x, m) /\ RowIs(budget', x.mem) => budget'.alerted < m
             /\ alerts'[m] + SpareOf(x, budget', m) + broken
                  <= alerts[m] + SpareOf(caller[r], budget, m) + broken'
  <2>1. MaySend(x, m) => budget.alerted < m /\ RowIs(budget, x.mem)
    BY <1>2 DEF MaySend, RowIs
  <2>2. SpareOf(x, budget, m) = Latch(budget, m) /\ SpareOf(caller[r], budget, m) = Latch(budget, m)
    <3>1. ~ Marks(x, budget) /\ ~ Strays(x, budget, m)
      BY <1>2, <2>1 DEF Marks, Strays
    <3>2. ~ Marks(caller[r], budget) /\ ~ Strays(caller[r], budget, m)
      BY <1>1 DEF Marks, Strays, MaySend
    <3>3. Latch(budget, m) + 0 = Latch(budget, m)
      BY DEF Latch
    <3> QED BY <3>1, <3>2, <3>3 DEF SpareOf
  <2>3. Latch(budget, m) \in 0..1 /\ alerts[m] \in Nat /\ broken \in Nat
    BY <1>0, BudgetTypes DEF Latch
  <2> QED BY <1>1, <2>1, <2>2, <2>3
<1>4. calls' \in 0..MaxCalls /\ broken' \in 0..MaxBroken /\ broken <= broken'
      /\ budget' \in BudgetRow /\ alerts' \in [1..Months -> Nat] /\ spend' \in [1..Months -> Nat]
  BY <1>0, <1>1, BudgetTypes
<1>5. caller'[r] = x /\ \A s \in Caller : s # r => caller'[s] = caller[s]
  BY <1>0, <1>1 DEF BudgetTypeOK
<1>6. Unsent => Unsent'
  <2> SUFFICES ASSUME Unsent PROVE Unsent'
    OBVIOUS
  <2>1. budget'.alerted = 0 /\ \A s \in Caller : caller'[s].pc # "mark"
    BY <1>1, <1>2, <1>5 DEF Unsent
  <2>2. \A s \in Caller : caller'[s].pc \in {"measure", "send"} => caller'[s].mem = budget'
    BY <1>1, <1>2, <1>5 DEF Unsent
  <2>3. caller'[r].pc \in {"load", "measure", "send"}
    BY <1>2, <1>5
  <2> QED BY <2>1, <2>2, <2>3 DEF Unsent
<1>7. \A m \in 1..Months : m > month => alerts'[m] = 0
  BY <1>0, <1>1 DEF WindowsFit
<1>8. /\ caller[r].pc # "idle" /\ budget'.exists = budget.exists /\ budget'.id = budget.id
      /\ x.mem.id = budget.id /\ x.pc \notin {"send", "mark"}
      /\ UNCHANGED <<month, admin, overlap, edits>>
      /\ alerts[1] > 0 => alerts'[1] > 0
  BY <1>1, <1>2
<1> QED BY <1>1, <1>2, <1>3, <1>4, <1>6, <1>7, <1>8, CallerStep

\* The spend is compared with the threshold.
LEMMA MeasureKeeps == ASSUME BudgetInv, NEW r \in Caller, Measure(r) PROVE BudgetInv'
<1> DEFINE k == caller[r]
           due == Due(k.mem, spend[month], month)
           x == IF due THEN [k EXCEPT !.pc = "send", !.window = month] ELSE NoCaller(k.mem)
<1>0. BudgetTypeOK /\ WindowsFit
  BY DEF BudgetInv
<1>1. /\ k.pc = "measure" /\ caller' = [caller EXCEPT ![r] = x]
      /\ UNCHANGED <<month, spend, budget, admin, alerts, overlap, calls, edits, broken>>
  BY DEF Measure
<1>2. k \in CallerState /\ k.mem \in BudgetRow /\ month \in 1..Months
  BY <1>0, BudgetTypes
<1>3. /\ x \in CallerState /\ x.mem = k.mem /\ x.pc \in {"idle", "send"}
      /\ x.pc = "send" => due /\ x.window = month
      /\ due => x.pc = "send"
  <2>1. CASE due
    <3>1. x = [k EXCEPT !.pc = "send", !.window = month]
      BY <2>1
    <3> HIDE DEF due, x, k
    <3> QED BY <1>2, <2>1, <3>1 DEF CallerState
  <2>2. CASE ~ due
    <3>1. x = NoCaller(k.mem)
      BY <2>2
    <3>2. NoCaller(k.mem) \in CallerState /\ NoCaller(k.mem).mem = k.mem
          /\ NoCaller(k.mem).pc = "idle"
      BY <1>2, NoCallerTypes DEF NoCaller
    <3> HIDE DEF due, x, k
    <3> QED BY <2>2, <3>1, <3>2
  <2> HIDE DEF due, x, k
  <2> QED BY <2>1, <2>2
<1>4. due => k.mem.exists /\ k.mem.alerted < month
  BY DEF Due
<1>5. k.mem.exists /\ OverThreshold(k.mem, spend[month]) /\ k.mem.alerted < month => due
  BY DEF Due
<1>6. k = caller[r]
  OBVIOUS
<1> HIDE DEF x, due, k
<1>7. ASSUME NEW m \in 1..Months, ~ overlap
      PROVE  /\ MaySend(x, m) /\ RowIs(budget', x.mem) => budget'.alerted < m
             /\ alerts'[m] + SpareOf(x, budget', m) + broken
                  <= alerts[m] + SpareOf(k, budget, m) + broken'
  <2>1. MaySend(x, m) => MaySend(k, m)
    BY <1>1, <1>3, <1>4 DEF MaySend
  <2>2. MaySend(k, m) /\ RowIs(budget, k.mem) => budget.alerted < m
    BY <1>6, <1>7 DEF BudgetInv, LatchFits
  <2>3. ~ Marks(k, budget) /\ ~ Marks(x, budget) /\ (Strays(x, budget, m) => Strays(k, budget, m))
    BY <1>1, <1>3, <2>1 DEF Marks, Strays
  <2>4. Latch(budget, m) \in 0..1 /\ alerts[m] \in Nat /\ broken \in Nat
    BY <1>0, BudgetTypes DEF Latch
  <2>5. SpareOf(x, budget, m) <= SpareOf(k, budget, m) /\ SpareOf(x, budget, m) \in 0..2
        /\ SpareOf(k, budget, m) \in 0..2
    BY <2>3, <2>4 DEF SpareOf
  <2> QED BY <1>1, <1>3, <2>1, <2>2, <2>4, <2>5
<1>8. calls' \in 0..MaxCalls /\ broken' \in 0..MaxBroken /\ broken <= broken'
      /\ budget' \in BudgetRow /\ alerts' \in [1..Months -> Nat] /\ spend' \in [1..Months -> Nat]
  BY <1>0, <1>1, BudgetTypes
<1>9. caller'[r] = x /\ \A s \in Caller : s # r => caller'[s] = caller[s]
  BY <1>0, <1>1 DEF BudgetTypeOK
<1>10. ASSUME Unsent, month = 1 PROVE Unsent'
  <2>1. budget'.alerted = 0 /\ \A s \in Caller : caller'[s].pc # "mark"
    BY <1>1, <1>3, <1>9, <1>10 DEF Unsent
  <2>2. k.mem = budget
    BY <1>1, <1>6, <1>10 DEF Unsent
  <2>3. \A s \in Caller : caller'[s].pc \in {"measure", "send"} => caller'[s].mem = budget'
    BY <1>1, <1>3, <1>9, <1>10, <2>2 DEF Unsent
  <2>4. ASSUME budget'.exists /\ OverThreshold(budget', spend'[1]) /\ spend'[1] > 0
        PROVE  \E s \in Caller : caller'[s].pc \in {"load", "measure", "send"}
    <3>1. budget.exists /\ OverThreshold(budget, spend[1])
      BY <1>1, <1>10, <2>4 DEF OverThreshold
    <3>2. due
      BY <1>5, <1>10, <2>2, <3>1 DEF Unsent
    <3> QED BY <1>3, <1>9, <3>2
  <2> QED BY <2>1, <2>3, <2>4 DEF Unsent, OverThreshold
<1>11. \A m \in 1..Months : m > month => alerts'[m] = 0
  BY <1>0, <1>1 DEF WindowsFit
<1>12. /\ caller[r].pc # "idle" /\ budget'.exists = budget.exists /\ budget'.id = budget.id
       /\ x.mem.id = caller[r].mem.id
       /\ UNCHANGED <<month, admin, overlap, edits>>
       /\ alerts[1] > 0 => alerts'[1] > 0
  BY <1>1, <1>3, <1>6
<1>13. x.pc \in {"send", "mark"} => x.mem.alerted < x.window /\ x.window <= month
  BY <1>2, <1>3, <1>4
<1> QED BY <1>1, <1>3, <1>6, <1>7, <1>8, <1>10, <1>11, <1>12, <1>13, CallerStep

\* The alert is sent: the latch was open, or the row is gone.
LEMMA SendKeeps == ASSUME BudgetInv, NEW r \in Caller, Send(r) PROVE BudgetInv'
<1> DEFINE k == caller[r]
           x == [k EXCEPT !.pc = "mark"]
           w == k.window
<1>0. BudgetTypeOK /\ WindowsFit
  BY DEF BudgetInv
<1>1. /\ k.pc = "send" /\ caller' = [caller EXCEPT ![r] = x]
      /\ alerts' = [alerts EXCEPT ![w] = @ + 1]
      /\ UNCHANGED <<month, spend, budget, admin, overlap, calls, edits, broken>>
  BY DEF Send
<1>2. k \in CallerState /\ k.mem \in BudgetRow /\ month \in 1..Months /\ w \in 1..Months
      /\ alerts \in [1..Months -> Nat]
  BY <1>0, BudgetTypes
<1>3. x \in CallerState /\ x.mem = k.mem /\ x.pc = "mark" /\ x.window = w
  BY <1>2 DEF CallerState
<1>4. k.mem.alerted < w /\ w <= month
  BY <1>0, <1>1 DEF WindowsFit
<1>5. k = caller[r] /\ w = k.window
  OBVIOUS
<1> HIDE DEF x, k, w
<1>6. /\ alerts' \in [1..Months -> Nat] /\ alerts'[w] = alerts[w] + 1
      /\ \A m \in 1..Months : m # w => alerts'[m] = alerts[m]
  BY <1>1, <1>2
<1>7. ASSUME NEW m \in 1..Months, ~ overlap
      PROVE  /\ MaySend(x, m) /\ RowIs(budget', x.mem) => budget'.alerted < m
             /\ alerts'[m] + SpareOf(x, budget', m) + broken
                  <= alerts[m] + SpareOf(k, budget, m) + broken'
  <2>1. ~ MaySend(x, m) /\ (MaySend(k, m) <=> m = w) /\ ~ Marks(k, budget)
    BY <1>1, <1>3, <1>5 DEF MaySend, Marks
  <2>2. MaySend(k, m) /\ RowIs(budget, k.mem) => budget.alerted < m
    BY <1>5, <1>7 DEF BudgetInv, LatchFits
  <2>3. Latch(budget, m) \in 0..1 /\ alerts[m] \in Nat /\ broken \in Nat
    BY <1>0, BudgetTypes DEF Latch
  <2>4. SpareOf(x, budget, m) = IF RowIs(budget, k.mem) THEN 0 ELSE Latch(budget, m)
    BY <1>3, <2>1, <2>3 DEF SpareOf, Marks, Strays
  <2>5. SpareOf(k, budget, m)
          = Latch(budget, m) + (IF m = w /\ ~ RowIs(budget, k.mem) THEN 1 ELSE 0)
    BY <2>1 DEF SpareOf, Strays
  <2>6. m = w /\ RowIs(budget, k.mem) => Latch(budget, m) = 1
    BY <2>1, <2>2 DEF Latch
  <2>7. alerts'[m] + SpareOf(x, budget, m) <= alerts[m] + SpareOf(k, budget, m)
    <3>1. CASE m = w /\ RowIs(budget, k.mem)
      BY <1>6, <2>3, <2>4, <2>5, <2>6, <3>1
    <3>2. CASE m = w /\ ~ RowIs(budget, k.mem)
      BY <1>6, <2>3, <2>4, <2>5, <3>2
    <3>3. CASE m # w
      BY <1>6, <2>3, <2>4, <2>5, <3>3
    <3> QED BY <3>1, <3>2, <3>3
  <2>8. SpareOf(x, budget, m) \in 0..2 /\ SpareOf(k, budget, m) \in 0..2 /\ alerts'[m] \in Nat
    BY <1>6, <2>3, <2>4, <2>5
  <2> QED BY <1>1, <2>1, <2>3, <2>7, <2>8
<1>8. calls' \in 0..MaxCalls /\ broken' \in 0..MaxBroken /\ broken <= broken'
      /\ budget' \in BudgetRow /\ spend' \in [1..Months -> Nat]
  BY <1>0, <1>1, BudgetTypes
<1>9. month = 1 => alerts'[1] > 0
  <2>1. ASSUME month = 1 PROVE w = 1
    BY <1>2, <1>4, <2>1
  <2>2. alerts[w] + 1 > 0
    BY <1>2
  <2> QED BY <1>6, <2>1, <2>2
<1>10. \A m \in 1..Months : m > month => alerts'[m] = 0
  <2>1. \A m \in 1..Months : m > month => m # w
    BY <1>2, <1>4
  <2> QED BY <1>0, <1>6, <2>1 DEF WindowsFit
<1>11. /\ caller[r].pc # "idle" /\ budget'.exists = budget.exists /\ budget'.id = budget.id
       /\ x.mem.id = caller[r].mem.id
       /\ UNCHANGED <<month, admin, overlap, edits>>
  BY <1>1, <1>3, <1>5
<1>12. x.mem.alerted < x.window /\ x.window <= month
  BY <1>3, <1>4
<1> QED BY <1>1, <1>3, <1>5, <1>6, <1>7, <1>8, <1>9, <1>10, <1>11, <1>12, CallerStep

\* The latch is set, if the row is still there: then nothing more can be sent
\* of this month or one before it.
LEMMA MarkKeeps == ASSUME BudgetInv, NEW r \in Caller, Mark(r) PROVE BudgetInv'
<1> DEFINE k == caller[r]
           x == NoCaller(k.mem)
           new == [k.mem EXCEPT !.alerted = month]
<1>0. BudgetTypeOK /\ WindowsFit
  BY DEF BudgetInv
<1>1. /\ k.pc = "mark" /\ caller' = [caller EXCEPT ![r] = x]
      /\ budget' = IF RowIs(budget, k.mem) THEN Updated(budget, k.mem, new) ELSE budget
      /\ UNCHANGED <<month, spend, admin, alerts, overlap, calls, edits, broken>>
  BY DEF Mark, SameRow, RowIs
<1>2. k \in CallerState /\ k.mem \in BudgetRow /\ month \in 1..Months /\ budget \in BudgetRow
      /\ k.window \in 1..Months
  BY <1>0, BudgetTypes
<1>3. x \in CallerState /\ x.mem = k.mem /\ x.pc = "idle"
  BY <1>2, NoCallerTypes DEF NoCaller
<1>4. k.mem.alerted < k.window /\ k.window <= month
  BY <1>0, <1>1 DEF WindowsFit
<1>5. new \in BudgetRow /\ new.alerted = month /\ month # k.mem.alerted
  <2>1. month \in 0..Months /\ k.mem.alerted \in 0..Months
    BY <1>2 DEF BudgetRow
  <2>2. month # k.mem.alerted
    BY <1>2, <1>4, <2>1
  <2> HIDE DEF k
  <2> QED BY <1>2, <2>1, <2>2 DEF BudgetRow
<1>6. k = caller[r]
  OBVIOUS
<1> HIDE DEF x, k, new
<1>7. /\ budget' \in BudgetRow /\ budget'.exists = budget.exists /\ budget'.id = budget.id
      /\ budget'.alerted = IF RowIs(budget, k.mem) THEN month ELSE budget.alerted
  BY <1>1, <1>2, <1>5, UpdatedRow
<1>8. ASSUME NEW m \in 1..Months
      PROVE  /\ MaySend(x, m) /\ RowIs(budget', x.mem) => budget'.alerted < m
             /\ \/ alerts'[m] + SpareOf(x, budget', m) + broken
                     <= alerts[m] + SpareOf(k, budget, m) + broken'
                \/ alerts'[m] = 0 /\ SpareOf(x, budget', m) <= 1
  <2>1. ~ MaySend(x, m) /\ ~ MaySend(k, m) /\ ~ Marks(x, budget')
    BY <1>1, <1>3 DEF MaySend, Marks
  <2>2. Latch(budget, m) \in 0..1 /\ Latch(budget', m) \in 0..1 /\ alerts[m] \in Nat /\ broken \in Nat
    BY <1>0, BudgetTypes DEF Latch
  <2>3. SpareOf(x, budget', m) = Latch(budget', m)
    BY <2>1, <2>2 DEF SpareOf, Strays
  <2>4. CASE RowIs(budget, k.mem) /\ m <= month
    <3>1. Latch(budget', m) = 0
      BY <1>2, <1>7, <2>4 DEF Latch
    <3>2. SpareOf(k, budget, m) = 0
      BY <1>1, <2>4 DEF SpareOf, Marks
    <3> QED BY <1>1, <2>1, <2>2, <2>3, <3>1, <3>2
  <2>5. CASE m > month
    <3>1. alerts'[m] = 0
      BY <1>0, <1>1, <2>5 DEF WindowsFit
    <3> QED BY <2>1, <2>2, <2>3, <3>1
  <2>6. CASE ~ RowIs(budget, k.mem)
    <3>1. Latch(budget', m) = Latch(budget, m)
      BY <1>7, <2>6 DEF Latch
    <3>2. SpareOf(k, budget, m) = Latch(budget, m)
      BY <2>1, <2>2, <2>6 DEF SpareOf, Marks, Strays
    <3> QED BY <1>1, <2>1, <2>2, <2>3, <3>1, <3>2
  <2> QED BY <1>2, <2>4, <2>5, <2>6
<1>9. calls' \in 0..MaxCalls /\ broken' \in 0..MaxBroken /\ broken <= broken'
      /\ alerts' \in [1..Months -> Nat] /\ spend' \in [1..Months -> Nat]
  BY <1>0, <1>1, BudgetTypes
<1>10. ~ Unsent
  BY <1>1, <1>6 DEF Unsent
<1>11. \A m \in 1..Months : m > month => alerts'[m] = 0
  BY <1>0, <1>1 DEF WindowsFit
<1>12. /\ caller[r].pc # "idle" /\ x.mem.id = caller[r].mem.id /\ x.pc \notin {"send", "mark"}
       /\ UNCHANGED <<month, admin, overlap, edits>>
       /\ alerts[1] > 0 => alerts'[1] > 0
  BY <1>1, <1>3, <1>6
<1> QED BY <1>1, <1>3, <1>6, <1>7, <1>8, <1>9, <1>10, <1>11, <1>12, CallerStep

\* A request broken off after the sending leaves the latch open.
LEMMA BreakOffKeeps == ASSUME BudgetInv, NEW r \in Caller, BreakOff(r) PROVE BudgetInv'
<1> DEFINE k == caller[r]
           x == NoCaller(k.mem)
<1>0. BudgetTypeOK /\ WindowsFit
  BY DEF BudgetInv
<1>1. /\ k.pc # "idle" /\ caller' = [caller EXCEPT ![r] = x]
      /\ broken < MaxBroken /\ broken' = broken + 1
      /\ UNCHANGED <<month, spend, budget, admin, alerts, overlap, calls, edits>>
  BY DEF BreakOff
<1>2. k.mem \in BudgetRow
  BY <1>0, BudgetTypes
<1>3. x \in CallerState /\ x.mem = k.mem /\ x.pc = "idle"
  BY <1>2, NoCallerTypes DEF NoCaller
<1>4. k = caller[r]
  OBVIOUS
<1> HIDE DEF x, k
<1>5. ASSUME NEW m \in 1..Months
      PROVE  /\ MaySend(x, m) /\ RowIs(budget', x.mem) => budget'.alerted < m
             /\ alerts'[m] + SpareOf(x, budget', m) + broken
                  <= alerts[m] + SpareOf(k, budget, m) + broken'
  <2>1. ~ MaySend(x, m) /\ ~ Marks(x, budget)
    BY <1>3 DEF MaySend, Marks
  <2>2. Latch(budget, m) \in 0..1 /\ alerts[m] \in Nat /\ broken \in Nat
    BY <1>0, BudgetTypes DEF Latch
  <2>3. SpareOf(x, budget, m) = Latch(budget, m) /\ SpareOf(k, budget, m) \in 0..2
    BY <2>1, <2>2 DEF SpareOf, Strays
  <2> QED BY <1>1, <2>1, <2>2, <2>3
<1>6. calls' \in 0..MaxCalls /\ broken' \in 0..MaxBroken /\ broken <= broken' /\ broken' # 0
      /\ budget' \in BudgetRow /\ alerts' \in [1..Months -> Nat] /\ spend' \in [1..Months -> Nat]
  <2>1. broken \in 0..MaxBroken /\ MaxBroken \in Nat
    BY <1>0, BudgetTypes, BudgetBoundsAssumption
  <2>2. broken' \in 0..MaxBroken /\ broken <= broken' /\ broken' # 0
    BY <1>1, <2>1
  <2> QED BY <1>0, <1>1, <2>2, BudgetTypes
<1>7. \A m \in 1..Months : m > month => alerts'[m] = 0
  BY <1>0, <1>1 DEF WindowsFit
<1>8. /\ caller[r].pc # "idle" /\ budget'.exists = budget.exists /\ budget'.id = budget.id
      /\ x.mem.id = caller[r].mem.id /\ x.pc \notin {"send", "mark"}
      /\ UNCHANGED <<month, admin, overlap, edits>>
  BY <1>1, <1>3, <1>4
<1> QED BY <1>1, <1>3, <1>4, <1>5, <1>6, <1>7, <1>8, CallerStep

-----------------------------------------------------------------------------

\* An administrator's request is begun: it is counted, and pending.
LEMMA StartEditKeeps ==
  ASSUME BudgetInv, NEW a \in Admin, NEW to \in {"upsert", "delete"}, NEW terms \in Terms,
         StartEdit(a, to, terms)
  PROVE  BudgetInv'
<1> DEFINE x == [pc |-> to, mem |-> budget, no |-> edits + 1, terms |-> terms]
<1>0. /\ BudgetTypeOK /\ IdsFit /\ WindowsFit
      /\ IsFiniteSet(Waiting) /\ Cardinality(Waiting) <= edits
  BY DEF BudgetInv
<1>1. /\ admin[a].pc = "idle" /\ edits < MaxEdits /\ edits' = edits + 1
      /\ admin' = [admin EXCEPT ![a] = x]
      /\ UNCHANGED <<month, spend, budget, caller, alerts, overlap, calls, broken>>
  BY DEF StartEdit
<1>2. /\ budget \in BudgetRow /\ edits \in Nat /\ MaxEdits \in Nat /\ broken \in Nat
      /\ admin \in [Admin -> AdminState] /\ \A m \in 1..Months : alerts[m] \in Nat
      /\ edits + 1 \in 0..MaxEdits
  <2>1. edits \in Nat /\ MaxEdits \in Nat /\ broken \in Nat
    BY <1>0, BudgetBoundsAssumption DEF BudgetTypeOK
  <2>2. edits + 1 \in 0..MaxEdits
    BY <1>1, <2>1
  <2>3. budget \in BudgetRow /\ \A m \in 1..Months : alerts[m] \in Nat
    BY <1>0 DEF BudgetTypeOK
  <2>4. admin \in [Admin -> AdminState]
    BY <1>0 DEF BudgetTypeOK, AdminState
  <2> QED BY <2>1, <2>2, <2>3, <2>4
<1>3. x \in AdminState /\ x.pc # "idle" /\ x.no = edits + 1
  BY <1>2 DEF AdminState
<1> HIDE DEF x
<1>4. admin' \in [Admin -> AdminState] /\ admin'[a] = x
      /\ \A b \in Admin : b # a => admin'[b] = admin[b]
  BY <1>1, <1>2, <1>3
<1>5. Waiting' = Waiting \cup {a} /\ a \notin Waiting
  BY <1>1, <1>3, <1>4 DEF Waiting
<1>6. IsFiniteSet(Waiting') /\ Cardinality(Waiting') = Cardinality(Waiting) + 1
      /\ Cardinality(Waiting) \in Nat
  BY <1>0, <1>5, FS_AddElement, FS_CardinalityType
<1>7. BudgetTypeOK'
  BY <1>0, <1>1, <1>2, <1>4 DEF BudgetTypeOK, AdminState
<1>8. IdsFit'
  <2>1. budget.id \in Nat /\ \A r \in Caller : caller[r].mem.id \in Nat
    <3>1. \A r \in Caller : caller[r].mem \in BudgetRow
      BY <1>0, BudgetTypes
    <3> QED BY <1>2, <3>1 DEF BudgetRow
  <2>2. budget'.id <= edits' /\ \A r \in Caller : caller'[r].mem.id <= edits'
    BY <1>0, <1>1, <1>2, <2>1 DEF IdsFit
  <2>3. ASSUME NEW b \in Waiting'
        PROVE  /\ admin'[b].no \in 1..edits' /\ admin'[b].no # budget'.id
               /\ \A r \in Caller : admin'[b].no # caller'[r].mem.id
               /\ b # a => admin'[b].no \in 1..edits
    <3>1. CASE b = a
      BY <1>0, <1>1, <1>2, <1>3, <1>4, <2>1, <3>1 DEF IdsFit
    <3>2. CASE b # a
      <4>1. b \in Waiting /\ admin'[b] = admin[b]
        BY <1>4, <1>5, <2>3, <3>2 DEF Waiting
      <4>2. admin[b].no \in 1..edits
        BY <1>0, <4>1 DEF IdsFit
      <4> QED BY <1>0, <1>1, <1>2, <4>1, <4>2 DEF IdsFit
    <3> QED BY <3>1, <3>2
  <2>4. ASSUME NEW b \in Waiting', NEW c \in Waiting', admin'[b].no = admin'[c].no
        PROVE  b = c
    <3>1. CASE b # a /\ c # a
      <4>1. b \in Waiting /\ c \in Waiting /\ admin'[b] = admin[b] /\ admin'[c] = admin[c]
        BY <1>4, <1>5, <2>4, <3>1 DEF Waiting
      <4> QED BY <1>0, <2>4, <4>1 DEF IdsFit
    <3>2. CASE b = a /\ c # a
      <4>1. admin'[b].no = edits + 1 /\ admin'[c].no \in 1..edits
        BY <1>3, <1>4, <2>3, <2>4, <3>2
      <4> QED BY <1>2, <2>4, <4>1
    <3>3. CASE b # a /\ c = a
      <4>1. admin'[c].no = edits + 1 /\ admin'[b].no \in 1..edits
        BY <1>3, <1>4, <2>3, <2>4, <3>3
      <4> QED BY <1>2, <2>4, <4>1
    <3> QED BY <3>1, <3>2, <3>3
  <2> QED BY <2>2, <2>3, <2>4 DEF IdsFit
<1>9. WindowsFit'
  BY <1>0, <1>1 DEF WindowsFit
<1>10. NotMissed'
  <2>1. edits' # 0
    BY <1>1, <1>2
  <2> QED BY <2>1 DEF NotMissed
<1>11. ASSUME ~ overlap PROVE LatchFits'
  <2>1. LatchFits
    BY <1>11 DEF BudgetInv
  <2>2. ASSUME NEW m \in 1..Months PROVE Paid(m)'
    <3>1. alerts[m] + Spare(caller, budget, m) + Cardinality(Waiting) <= 1 + broken + edits
      BY <2>1, <2>2 DEF LatchFits, Paid
    <3>2. Spare(caller, budget, m) \in 0..2 /\ alerts[m] \in Nat
      BY <1>2, <2>2, SpareIsSmall
    <3>3. Spare(caller', budget', m) = Spare(caller, budget, m)
      BY <1>1
    <3>4. alerts'[m] + Spare(caller', budget', m) + Cardinality(Waiting') <= 1 + broken' + edits'
      BY <1>1, <1>2, <1>6, <3>1, <3>2, <3>3
    <3> QED BY <3>4 DEF Paid
  <2>3. OneBusy'
    BY <1>1, <2>1 DEF LatchFits, OneBusy, Busy
  <2>4. \A r \in Caller, m \in 1..Months :
          MaySend(caller'[r], m) /\ RowIs(budget', caller'[r].mem) => budget'.alerted < m
    BY <1>1, <2>1 DEF LatchFits
  <2> QED BY <2>2, <2>3, <2>4 DEF LatchFits
<1>12. Cardinality(Waiting') <= edits'
  BY <1>0, <1>1, <1>2, <1>6
<1> QED BY <1>1, <1>6, <1>7, <1>8, <1>9, <1>10, <1>11, <1>12 DEF BudgetInv

\* A change to the budget is done: what it opens has been paid for.
LEMMA EditStep ==
  ASSUME BudgetInv, NEW a \in Admin, NEW b \in BudgetRow,
         admin[a].pc # "idle",
         admin' = [admin EXCEPT ![a] = NoAdmin(admin[a].mem)],
         budget' = b, b.id = budget.id \/ b.id = admin[a].no,
         UNCHANGED <<month, spend, caller, alerts, overlap, calls, edits, broken>>,
         ~ overlap => \A m \in 1..Months :
           /\ \A r \in Caller : MaySend(caller[r], m) /\ RowIs(b, caller[r].mem) => b.alerted < m
           /\ Spare(caller, b, m) <= Spare(caller, budget, m) + 1
  PROVE  BudgetInv'
<1> DEFINE x == NoAdmin(admin[a].mem)
<1>0. /\ BudgetTypeOK /\ IdsFit /\ WindowsFit /\ NotMissed
      /\ IsFiniteSet(Waiting) /\ Cardinality(Waiting) <= edits
  BY DEF BudgetInv
<1>1. admin \in [Admin -> AdminState] /\ admin[a].mem \in BudgetRow
  BY <1>0 DEF BudgetTypeOK, AdminState
<1>2. x \in AdminState /\ x.pc = "idle" /\ admin' = [admin EXCEPT ![a] = x]
  BY <1>1, NoAdminTypes DEF NoAdmin
<1> HIDE DEF x
<1>3. admin' \in [Admin -> AdminState] /\ admin'[a] = x
      /\ \A c \in Admin : c # a => admin'[c] = admin[c]
  BY <1>1, <1>2
<1>4. Waiting' = Waiting \ {a} /\ a \in Waiting
  BY <1>2, <1>3 DEF Waiting
<1>5. IsFiniteSet(Waiting') /\ Cardinality(Waiting') = Cardinality(Waiting) - 1
      /\ Cardinality(Waiting) \in Nat /\ Cardinality(Waiting') \in Nat
  <2>1. IsFiniteSet(Waiting') /\ Cardinality(Waiting') = Cardinality(Waiting) - 1
    BY <1>0, <1>4, FS_RemoveElement
  <2> QED BY <1>0, <2>1, FS_CardinalityType
<1>6. BudgetTypeOK'
  BY <1>0, <1>3 DEF BudgetTypeOK, AdminState
<1>7. /\ edits \in Nat /\ broken \in Nat /\ \A m \in 1..Months : alerts[m] \in Nat
  BY <1>0, BudgetBoundsAssumption DEF BudgetTypeOK
<1>8. IdsFit'
  <2>1. \A c \in Waiting' : c \in Waiting /\ c # a /\ admin'[c] = admin[c]
    BY <1>3, <1>4 DEF Waiting
  <2>2. admin[a].no \in 1..edits /\ \A c \in Waiting : c # a => admin[c].no # admin[a].no
    BY <1>0, <1>4 DEF IdsFit
  <2>3. b.id <= edits
    BY <1>0, <1>7, <2>2 DEF IdsFit
  <2>4. \A c \in Waiting' : admin'[c].no \in 1..edits /\ admin'[c].no # b.id
    BY <1>0, <2>1, <2>2 DEF IdsFit
  <2> QED BY <1>0, <2>1, <2>3, <2>4 DEF IdsFit
<1>9. WindowsFit'
  BY <1>0 DEF WindowsFit
<1>10. NotMissed'
  BY <1>0, <1>4 DEF NotMissed
<1>11. ASSUME ~ overlap PROVE LatchFits'
  <2>1. LatchFits
    BY <1>11 DEF BudgetInv
  <2>2. ASSUME NEW m \in 1..Months PROVE Paid(m)'
    <3>1. alerts[m] + Spare(caller, budget, m) + Cardinality(Waiting) <= 1 + broken + edits
      BY <2>1, <2>2 DEF LatchFits, Paid
    <3>2. Spare(caller, budget, m) \in 0..2 /\ Spare(caller, b, m) \in 0..2
      BY SpareIsSmall
    <3>3. Spare(caller, b, m) <= Spare(caller, budget, m) + 1
      BY <1>11, <2>2
    <3>4. alerts[m] + Spare(caller, b, m) + Cardinality(Waiting') <= 1 + broken + edits
      BY <1>5, <1>7, <2>2, <3>1, <3>2, <3>3
    <3> QED BY <3>4 DEF Paid
  <2>3. OneBusy'
    BY <2>1 DEF LatchFits, OneBusy, Busy
  <2>4. \A r \in Caller, m \in 1..Months :
          MaySend(caller'[r], m) /\ RowIs(budget', caller'[r].mem) => budget'.alerted < m
    BY <1>11
  <2> QED BY <2>2, <2>3, <2>4 DEF LatchFits
<1>12. Cardinality(Waiting') <= edits'
  BY <1>0, <1>5, <1>7
<1> QED BY <1>5, <1>6, <1>8, <1>9, <1>10, <1>11, <1>12 DEF BudgetInv

\* A row whose number stays: only its latch opens or stays as it is.
LEMMA SameRowSpare ==
  ASSUME NEW c, NEW b, NEW d, NEW m, d.exists = b.exists, d.id = b.id
  PROVE  /\ \A mem : RowIs(d, mem) <=> RowIs(b, mem)
         /\ Spare(c, d, m) <= Spare(c, b, m) + 1
<1>1. \A mem : RowIs(d, mem) <=> RowIs(b, mem)
  BY DEF RowIs
<1>2. \A r \in Caller : /\ Marks(c[r], d) <=> Marks(c[r], b)
                        /\ Strays(c[r], d, m) <=> Strays(c[r], b, m)
  BY <1>1 DEF Marks, Strays
<1>3. Latch(b, m) \in 0..1 /\ Latch(d, m) \in 0..1
  BY DEF Latch
<1>4. Spare(c, d, m) <= Spare(c, b, m) + 1
  BY <1>2, <1>3 DEF Spare
<1> QED BY <1>1, <1>4

LEMMA UpsertKeeps == ASSUME BudgetInv, NEW a \in Admin, Upsert(a) PROVE BudgetInv'
<1> DEFINE mem == admin[a].mem
           terms == admin[a].terms
           new == [mem EXCEPT !.limit = terms.limit, !.pct = terms.pct, !.alerted = 0]
           newRow == [new EXCEPT !.exists = TRUE, !.id = admin[a].no]
<1>0. BudgetTypeOK /\ IdsFit
  BY DEF BudgetInv
<1>1. /\ admin[a].pc = "upsert" /\ admin' = [admin EXCEPT ![a] = NoAdmin(mem)]
      /\ UNCHANGED <<month, spend, caller, alerts, overlap, calls, edits, broken>>
      /\ budget' = CASE mem.exists /\ SameRow(mem) -> Updated(budget, mem, new)
                     [] ~ mem.exists /\ ~ budget.exists -> newRow
                     [] OTHER -> budget
  BY DEF Upsert
<1>2. /\ mem \in BudgetRow /\ terms.limit \in Limits /\ terms.pct \in Percents
      /\ admin[a].no \in 0..MaxEdits /\ budget \in BudgetRow /\ 0 \in 0..Months
  <2>1. admin[a] \in AdminState
    BY <1>0 DEF BudgetTypeOK, AdminState
  <2> QED BY <1>0, <2>1, BudgetBoundsAssumption DEF BudgetTypeOK, AdminState, Terms
<1>3. new \in BudgetRow /\ new.alerted = 0
  <2> HIDE DEF mem, terms
  <2> QED BY <1>2 DEF BudgetRow
<1>4. newRow \in BudgetRow /\ newRow.exists /\ newRow.id = admin[a].no /\ newRow.alerted = 0
  <2> HIDE DEF new
  <2> QED BY <1>2, <1>3 DEF BudgetRow
<1>5. a \in Waiting
  BY <1>1 DEF Waiting
<1> HIDE DEF new, newRow
<1>6. CASE budget' = Updated(budget, mem, new) \/ budget' = budget
  <2>1. PICK b \in BudgetRow : /\ budget' = b /\ b.exists = budget.exists /\ b.id = budget.id
                               /\ b.alerted \in {0, budget.alerted}
    <3>1. CASE budget' = Updated(budget, mem, new)
      BY <1>2, <1>3, <3>1, UpdatedRow
    <3>2. CASE budget' = budget
      BY <1>2, <3>2
    <3> QED BY <1>6, <3>1, <3>2
  <2>2. ASSUME ~ overlap, NEW m \in 1..Months
        PROVE  /\ \A r \in Caller : MaySend(caller[r], m) /\ RowIs(b, caller[r].mem) => b.alerted < m
               /\ Spare(caller, b, m) <= Spare(caller, budget, m) + 1
    <3>1. /\ \A n : RowIs(b, n) <=> RowIs(budget, n)
          /\ Spare(caller, b, m) <= Spare(caller, budget, m) + 1
      BY <2>1, SameRowSpare
    <3>2. \A r \in Caller : MaySend(caller[r], m) /\ RowIs(budget, caller[r].mem) => budget.alerted < m
      BY <2>2 DEF BudgetInv, LatchFits
    <3>3. 0 < m
      BY <2>2, BudgetBoundsAssumption
    <3> QED BY <2>1, <3>1, <3>2, <3>3
  <2>3. admin[a].pc # "idle" /\ b.id = budget.id
    BY <1>1, <2>1
  <2> QED BY <1>1, <2>1, <2>2, <2>3, EditStep
<1>7. CASE ~ budget.exists /\ budget' = newRow
  <2>1. \A r \in Caller : ~ RowIs(budget, caller[r].mem) /\ ~ RowIs(newRow, caller[r].mem)
    BY <1>0, <1>4, <1>5, <1>7 DEF RowIs, IdsFit
  <2>2. ASSUME NEW m \in 1..Months
        PROVE  Spare(caller, newRow, m) <= Spare(caller, budget, m) + 1
    <3>1. \A r \in Caller : /\ ~ Marks(caller[r], newRow) /\ ~ Marks(caller[r], budget)
                            /\ Strays(caller[r], newRow, m) <=> Strays(caller[r], budget, m)
      BY <2>1 DEF Marks, Strays
    <3>2. Latch(newRow, m) \in 0..1 /\ Latch(budget, m) \in 0..1
      BY DEF Latch
    <3> QED BY <3>1, <3>2 DEF Spare
  <2>3. admin[a].pc # "idle" /\ newRow.id = admin[a].no
    BY <1>1, <1>4
  <2> QED BY <1>1, <1>4, <1>7, <2>1, <2>2, <2>3, EditStep
<1>8. \/ budget' = Updated(budget, mem, new) \/ budget' = budget
      \/ ~ budget.exists /\ budget' = newRow
  <2> HIDE DEF mem
  <2> QED BY <1>1
<1> QED BY <1>6, <1>7, <1>8

LEMMA DeleteBudgetKeeps == ASSUME BudgetInv, NEW a \in Admin, DeleteBudget(a) PROVE BudgetInv'
<1> DEFINE mem == admin[a].mem
           gone == [budget EXCEPT !.exists = FALSE]
<1>0. BudgetTypeOK
  BY DEF BudgetInv
<1>1. /\ admin[a].pc = "delete" /\ admin' = [admin EXCEPT ![a] = NoAdmin(mem)]
      /\ UNCHANGED <<month, spend, caller, alerts, overlap, calls, edits, broken>>
      /\ budget' = gone \/ budget' = budget
  BY DEF DeleteBudget
<1>2. budget \in BudgetRow
  BY <1>0 DEF BudgetTypeOK
<1>3. gone \in BudgetRow /\ ~ gone.exists /\ gone.id = budget.id /\ gone.alerted = budget.alerted
  BY <1>2 DEF BudgetRow
<1> HIDE DEF gone
<1>4. admin[a].pc # "idle"
  BY <1>1
<1>5. CASE budget' = budget
  <2>1. ASSUME ~ overlap, NEW m \in 1..Months
        PROVE  /\ \A r \in Caller :
                    MaySend(caller[r], m) /\ RowIs(budget, caller[r].mem) => budget.alerted < m
               /\ Spare(caller, budget, m) <= Spare(caller, budget, m) + 1
    <3>1. Spare(caller, budget, m) \in 0..2
      BY SpareIsSmall
    <3> QED BY <2>1, <3>1 DEF BudgetInv, LatchFits
  <2> QED BY <1>1, <1>2, <1>4, <1>5, <2>1, EditStep
<1>6. CASE budget' = gone
  <2>1. \A r \in Caller : ~ RowIs(gone, caller[r].mem)
    BY <1>3 DEF RowIs
  <2>2. ASSUME ~ overlap, NEW m \in 1..Months
        PROVE  Spare(caller, gone, m) <= Spare(caller, budget, m) + 1
    <3>1. Latch(gone, m) = Latch(budget, m) /\ Latch(budget, m) \in 0..1
      BY <1>3 DEF Latch
    <3>2. \A r \in Caller : ~ Marks(caller[r], gone)
      BY <2>1 DEF Marks
    <3>3. CASE \E r \in Caller : Marks(caller[r], budget)
      <4>1. PICK r \in Caller : Marks(caller[r], budget)
        BY <3>3
      <4>2. \A s \in Caller : caller[s].pc # "idle" => s = r
        <5>1. caller[r].pc # "idle"
          BY <4>1 DEF Marks
        <5> QED BY <2>2, <5>1, BusyIsAlone
      <4>3. \A s \in Caller : ~ Strays(caller[s], gone, m)
        BY <4>1, <4>2 DEF Marks, Strays, MaySend
      <4> QED BY <3>1, <3>2, <3>3, <4>3 DEF Spare
    <3>4. CASE ~ \E r \in Caller : Marks(caller[r], budget)
      BY <3>1, <3>2, <3>4 DEF Spare
    <3> QED BY <3>3, <3>4
  <2> QED BY <1>1, <1>3, <1>4, <1>6, <2>1, <2>2, EditStep
<1> QED BY <1>1, <1>5, <1>6

-----------------------------------------------------------------------------

LEMMA NextMonthKeeps == ASSUME BudgetInv, NextMonth PROVE BudgetInv'
<1>0. /\ BudgetTypeOK /\ IdsFit /\ WindowsFit /\ NotMissed
      /\ IsFiniteSet(Waiting) /\ Cardinality(Waiting) <= edits
      /\ ~ overlap => LatchFits
  BY DEF BudgetInv
<1>1. /\ month < Months /\ month' = month + 1
      /\ UNCHANGED <<spend, budget, caller, admin, alerts, overlap, calls, edits, broken>>
  BY DEF NextMonth
<1>2. month \in 1..Months /\ month' \in 1..Months
  <2>1. month \in 1..Months /\ Months \in Nat
    BY <1>0, BudgetBoundsAssumption DEF BudgetTypeOK
  <2> QED BY <1>1, <2>1
<1>3. BudgetTypeOK'
  BY <1>0, <1>1, <1>2 DEF BudgetTypeOK
<1>4. Waiting' = Waiting
  BY <1>1 DEF Waiting
<1>5. IdsFit'
  BY <1>0, <1>1, <1>4 DEF IdsFit
<1>6. WindowsFit'
  <2>1. ASSUME NEW r \in Caller, caller[r].pc \in {"send", "mark"}
        PROVE  caller[r].mem.alerted < caller[r].window /\ caller[r].window <= month'
    <3>1. caller[r].window \in 1..Months
      BY <1>0, BudgetTypes
    <3> QED BY <1>0, <1>1, <1>2, <2>1, <3>1, BudgetBoundsAssumption DEF WindowsFit
  <2>2. ASSUME NEW m \in 1..Months, m > month' PROVE alerts[m] = 0
    BY <1>0, <1>1, <1>2, <2>2, BudgetBoundsAssumption DEF WindowsFit
  <2> QED BY <1>1, <2>1, <2>2 DEF WindowsFit
<1>7. NotMissed'
  <2>1. month' # 1
    BY <1>1, <1>2, BudgetBoundsAssumption
  <2> QED BY <2>1 DEF NotMissed
<1>8. (~ overlap => LatchFits)'
  BY <1>0, <1>1, <1>4 DEF LatchFits, Paid, OneBusy, Busy
<1> QED BY <1>0, <1>1, <1>3, <1>4, <1>5, <1>6, <1>7, <1>8 DEF BudgetInv

LEMMA BudgetKeeps == BudgetInv /\ [BudgetNext]_budgetVars => BudgetInv'
<1> SUFFICES ASSUME BudgetInv, [BudgetNext]_budgetVars PROVE BudgetInv'
  OBVIOUS
<1>1. CASE UNCHANGED budgetVars
  <2>0. /\ BudgetTypeOK /\ IdsFit /\ WindowsFit /\ NotMissed
        /\ IsFiniteSet(Waiting) /\ Cardinality(Waiting) <= edits
        /\ ~ overlap => LatchFits
    BY DEF BudgetInv
  <2>1. UNCHANGED <<month, spend, budget, caller, admin, alerts, overlap, calls, edits, broken>>
    BY <1>1 DEF budgetVars
  <2>2. Waiting' = Waiting
    BY <2>1 DEF Waiting
  <2>3. BudgetTypeOK' /\ IdsFit' /\ WindowsFit'
    BY <2>0, <2>1, <2>2 DEF BudgetTypeOK, IdsFit, WindowsFit
  <2>4. NotMissed'
    BY <2>0, <2>1, <2>2 DEF NotMissed, Unsent, OverThreshold
  <2>5. (~ overlap => LatchFits)'
    BY <2>0, <2>1, <2>2 DEF LatchFits, Paid, OneBusy, Busy
  <2> QED BY <2>0, <2>1, <2>2, <2>3, <2>4, <2>5 DEF BudgetInv
<1>2. ASSUME NEW r \in Caller,
             \/ Call(r) \/ EvaluateNow(r) \/ Load(r) \/ Measure(r)
             \/ Send(r) \/ Mark(r) \/ BreakOff(r)
             \/ \E cost \in 0..1 : Record(r, cost)
      PROVE  BudgetInv'
  BY <1>2, CallKeeps, LoadKeeps, MeasureKeeps, SendKeeps, MarkKeeps, BreakOffKeeps, RecordKeeps
<1>3. ASSUME NEW a \in Admin,
             \/ Upsert(a) \/ DeleteBudget(a)
             \/ \E to \in {"upsert", "delete"}, terms \in Terms : StartEdit(a, to, terms)
      PROVE  BudgetInv'
  BY <1>3, UpsertKeeps, DeleteBudgetKeeps, StartEditKeeps
<1> QED BY <1>1, <1>2, <1>3, NextMonthKeeps DEF BudgetNext

LEMMA BudgetHolds == BudgetSpec => []BudgetInv
BY BudgetStarts, BudgetKeeps, PTL DEF BudgetSpec

\* The variables of a budget keep their types (usage.py).
THEOREM BudgetTypesHold == BudgetSpec => []BudgetTypeOK
BY BudgetHolds, PTL DEF BudgetInv

\* The alert of a month is not missed, however calls overlap, for a budget
\* nobody has changed, no request broken off, in the first month; and it is
\* sent once for the budget and once more, at most, for each edit and each
\* request broken off, where calls do not overlap (usage.py evaluate_budget).
THEOREM AlertIsSentOnce == BudgetSpec => []AlertedOnce
<1>1. BudgetInv => AlertNotMissed
  <2> SUFFICES ASSUME BudgetInv, Quiet, edits = 0, broken = 0, month = 1, budget.exists,
                      OverThreshold(budget, spend[month]), spend[month] > 0
               PROVE  alerts[month] > 0
    BY DEF AlertNotMissed
  <2>1. alerts[1] > 0 \/ Unsent
    BY DEF BudgetInv, NotMissed
  <2>2. ~ Unsent
    BY DEF Unsent, Quiet
  <2> QED BY <2>1, <2>2
<1>2. BudgetInv => AlertOncePerPeriod
  <2> SUFFICES ASSUME BudgetInv, ~ overlap, NEW m \in 1..Months
               PROVE  alerts[m] <= 1 + edits + broken
    BY DEF AlertOncePerPeriod
  <2>1. alerts[m] + Spare(caller, budget, m) + Cardinality(Waiting) <= 1 + broken + edits
    BY DEF BudgetInv, LatchFits, Paid
  <2>2. /\ alerts[m] \in Nat /\ broken \in Nat /\ edits \in Nat
        /\ Cardinality(Waiting) \in Nat /\ Spare(caller, budget, m) \in 0..2
    <3>1. IsFiniteSet(Waiting) /\ BudgetTypeOK
      BY DEF BudgetInv
    <3>2. alerts[m] \in Nat /\ broken \in Nat /\ edits \in Nat
      BY <3>1, BudgetBoundsAssumption DEF BudgetTypeOK
    <3> QED BY <3>1, <3>2, SpareIsSmall, FS_CardinalityType
  <2> QED BY <2>1, <2>2
<1>3. BudgetInv => AlertedOnce
  BY <1>1, <1>2 DEF AlertedOnce
<1> QED BY <1>3, BudgetHolds, PTL

-----------------------------------------------------------------------------
(* Understanding.                                                          *)

IsWork(s) ==
  s = [pc |-> s.pc, batch |-> s.batch, choice |-> s.choice, todo |-> s.todo, at |-> s.at,
       mem |-> s.mem, run |-> s.run, created |-> s.created, skipped |-> s.skipped,
       failed |-> s.failed]

\* A record in memory is the one in the row, and one about to be generated is not
\* there with the same input.
KnowsRow(s) ==
  /\ s.pc = "read" => s.mem.status = "absent" \/ s.mem = row[s.at]
  /\ s.pc \in {"save", "call"} => ~ SameInput(row[s.at], s.choice)

\* So it is while requests come one at a time.
UnderstandingInv ==
  /\ row = [v \in V |-> row[v]]
  /\ work = [w \in Worker |-> work[w]] /\ \A w \in Worker : IsWork(work[w])
  /\ overlapped \in BOOLEAN
  /\ ~ overlapped =>
       /\ \A w, q \in Worker : w # q => work[w].pc = "idle" \/ work[q].pc = "idle"
       /\ \A w \in Worker : KnowsRow(work[w])

\* A step of a thread: it begins, with others or alone, or goes on.
LEMMA ThreadMoves ==
  ASSUME UnderstandingInv, NEW w \in Worker, NEW s, IsWork(s), work' = [work EXCEPT ![w] = s],
         row' = [v \in V |-> row'[v]],
         overlapped' \in BOOLEAN,
         ~ overlapped' =>
           /\ ~ overlapped /\ (work[w].pc # "idle" \/ \A q \in Worker \ {w} : work[q].pc = "idle")
           /\ KnowsRow(s)'
  PROVE  UnderstandingInv'
<1>1. work'[w] = s /\ \A q \in Worker \ {w} : work'[q] = work[q]
  BY DEF UnderstandingInv
<1>2. work' = [q \in Worker |-> work'[q]] /\ \A q \in Worker : IsWork(work'[q])
  BY <1>1 DEF UnderstandingInv
<1>3. ASSUME ~ overlapped'
      PROVE  /\ \A x, q \in Worker : x # q => work'[x].pc = "idle" \/ work'[q].pc = "idle"
             /\ \A x \in Worker : KnowsRow(work[x])'
  <2>1. \A q \in Worker \ {w} : work[q].pc = "idle"
    BY <1>3 DEF UnderstandingInv
  <2>2. \A q \in Worker \ {w} : KnowsRow(work[q])'
    BY <1>1, <2>1 DEF KnowsRow
  <2>3. KnowsRow(work[w])'
    BY <1>1, <1>3 DEF KnowsRow
  <2> QED
    BY <1>1, <2>1, <2>2, <2>3
<1>4. \A q \in Worker : IsWork(work[q])'
  BY <1>2 DEF IsWork
<1> QED
  BY <1>2, <1>3, <1>4 DEF UnderstandingInv

LEMMA IdleWork == IsWork(Idle) /\ Idle.pc = "idle" /\ Idle.mem = Absent /\ Absent.status = "absent"
BY DEF IsWork, Idle, Absent

\* A thread that ends, or looks at the next version, holds nothing.
LEMMA ThreadRests ==
  ASSUME UnderstandingInv, NEW w \in Worker, NEW s, IsWork(s), s.pc \in {"idle", "look"},
         work[w].pc # "idle", work' = [work EXCEPT ![w] = s],
         row' = [v \in V |-> row'[v]], UNCHANGED overlapped
  PROVE  UnderstandingInv'
<1>1. KnowsRow(s)'
  BY DEF KnowsRow
<1>2. overlapped' \in BOOLEAN
  BY DEF UnderstandingInv
<1> QED
  BY <1>1, <1>2, ThreadMoves

LEMMA BeginsKeep ==
  ASSUME UnderstandingInv, NEW w \in Worker, NEW c \in Choice,
         Batch(w, c) \/ \E v \in V : Single(w, v, c)
  PROVE  UnderstandingInv'
<1>1. /\ row' = row /\ row' = [v \in V |-> row'[v]] /\ overlapped' \in BOOLEAN
      /\ ~ overlapped' => ~ overlapped /\ \A q \in Worker \ {w} : work[q].pc = "idle"
  BY DEF Batch, Single, Overlap, UnderstandingInv
<1>2. CASE Batch(w, c)
  <2>1. PICK s : s = [Idle EXCEPT !.pc = "look", !.batch = TRUE, !.choice = c, !.todo = V]
    OBVIOUS
  <2>2. s.pc = "look" /\ IsWork(s)
    BY <2>1 DEF Idle, IsWork
  <2>3. work' = [work EXCEPT ![w] = s]
    BY <1>2, <2>1 DEF Batch
  <2>4. KnowsRow(s)'
    BY <2>2 DEF KnowsRow
  <2> QED
    BY <1>1, <2>2, <2>3, <2>4, ThreadMoves
<1>3. ASSUME NEW v \in V, Single(w, v, c) PROVE UnderstandingInv'
  <2>1. PICK s : s = [Idle EXCEPT !.pc = "read", !.choice = c, !.todo = {v}, !.at = v]
    OBVIOUS
  <2>2. s.pc = "read" /\ s.mem.status = "absent" /\ IsWork(s)
    BY <2>1 DEF Idle, IsWork, Absent
  <2>3. work' = [work EXCEPT ![w] = s]
    BY <1>3, <2>1 DEF Single
  <2>4. KnowsRow(s)'
    BY <2>2 DEF KnowsRow
  <2> QED
    BY <1>1, <2>2, <2>3, <2>4, ThreadMoves
<1> QED
  BY <1>2, <1>3

\* A thread goes on, and the rows stay.
LEMMA GoingOnKeeps ==
  ASSUME UnderstandingInv, NEW w \in Worker,
         \/ SkipFresh(w) \/ Take(w) \/ ReturnExisting(w) \/ Read(w) \/ Save(w) \/ Clash(w)
         \/ Finish(w) \/ Crash(w)
  PROVE  UnderstandingInv'
<1>1. /\ row' = row /\ row' = [v \in V |-> row'[v]] /\ overlapped' = overlapped
      /\ overlapped' \in BOOLEAN /\ work[w].pc # "idle"
  BY DEF SkipFresh, Take, ReturnExisting, Read, Save, Clash, Finish, Crash, UnderstandingInv
<1>2. PICK t : t = work[w]
  OBVIOUS
<1>3. IsWork(t) /\ (~ overlapped => KnowsRow(t))
  BY <1>2 DEF UnderstandingInv
<1>4. CASE SkipFresh(w)
  <2>1. PICK s : s = [t EXCEPT !.todo = @ \ {NextVersion(w)}, !.skipped = @ + 1]
    OBVIOUS
  <2>2. work' = [work EXCEPT ![w] = s] /\ t.pc = "look"
    BY <1>2, <1>3, <1>4, <2>1 DEF SkipFresh, IsWork, UnderstandingInv
  <2>3. IsWork(s) /\ s.pc = "look"
    BY <1>3, <2>1, <2>2 DEF IsWork
  <2> QED
    BY <1>1, <2>2, <2>3, ThreadRests
<1>5. CASE Take(w)
  <2>0. PICK v : v = NextVersion(w)
    OBVIOUS
  <2>1. PICK s : s = [t EXCEPT !.pc = "read", !.at = v, !.mem = row[v]]
    OBVIOUS
  <2>2. work' = [work EXCEPT ![w] = s]
    BY <1>2, <1>3, <1>5, <2>0, <2>1 DEF Take, IsWork, UnderstandingInv
  <2>3. IsWork(s) /\ s.pc = "read" /\ s.mem = row[s.at]
    BY <1>3, <2>1 DEF IsWork
  <2>4. KnowsRow(s)'
    BY <1>1, <2>3 DEF KnowsRow
  <2> QED
    BY <1>1, <2>2, <2>3, <2>4, ThreadMoves
<1>6. CASE ReturnExisting(w)
  <2>1. PICK s : s = IF t.batch THEN Counted(w) ELSE Idle
    OBVIOUS
  <2>2. work' = [work EXCEPT ![w] = s]
    BY <1>2, <1>6, <2>1 DEF ReturnExisting
  <2>3. IsWork(s) /\ s.pc \in {"look", "idle"}
    BY <1>2, <1>3, <2>1, IdleWork DEF IsWork, Counted
  <2> QED
    BY <1>1, <2>2, <2>3, ThreadRests
<1>7. CASE Read(w)
  <2>0. PICK m : m = Loaded(w)
    OBVIOUS
  <2>1. PICK s : s = [t EXCEPT !.pc = "save", !.mem = m]
    OBVIOUS
  <2>2. work' = [work EXCEPT ![w] = s] /\ t.pc = "read"
    BY <1>2, <1>3, <1>7, <2>0, <2>1 DEF Read, IsWork, UnderstandingInv
  <2>3. IsWork(s) /\ s.pc = "save" /\ s.at = t.at /\ s.choice = t.choice
    BY <1>3, <2>1 DEF IsWork
  <2>4. ~ overlapped => m = row[t.at]
    BY <1>2, <1>3, <2>0, <2>2 DEF KnowsRow, Loaded
  <2>5. ~ SameInput(m, t.choice)
    BY <1>2, <1>7, <2>0 DEF Read
  <2>6. ~ overlapped => KnowsRow(s)'
    BY <1>1, <2>3, <2>4, <2>5 DEF KnowsRow, SameInput
  <2> QED
    BY <1>1, <2>2, <2>3, <2>6, ThreadMoves
<1>8. CASE Save(w)
  <2>1. PICK s : s = [t EXCEPT !.pc = "call"]
    OBVIOUS
  <2>2. work' = [work EXCEPT ![w] = s] /\ t.pc = "save"
    BY <1>2, <1>3, <1>8, <2>1 DEF Save, IsWork, UnderstandingInv
  <2>3. IsWork(s) /\ s.pc = "call" /\ s.at = t.at /\ s.choice = t.choice
    BY <1>3, <2>1 DEF IsWork
  <2>4. ~ overlapped => KnowsRow(s)'
    BY <1>1, <1>3, <2>2, <2>3 DEF KnowsRow, SameInput
  <2> QED
    BY <1>1, <2>2, <2>3, <2>4, ThreadMoves
<1>9. CASE Clash(w) \/ Finish(w) \/ Crash(w)
  <2>1. work' = [work EXCEPT ![w] = Idle]
    BY <1>9 DEF Clash, Finish, Crash
  <2> QED
    BY <1>1, <2>1, IdleWork, ThreadRests
<1> QED
  BY <1>4, <1>5, <1>6, <1>7, <1>8, <1>9

\* A generation is committed, for an input the record does not have.
LEMMA SettlesKeep ==
  ASSUME UnderstandingInv, NEW w \in Worker, Generated(w) \/ ProviderFails(w)
  PROVE  /\ UnderstandingInv'
         /\ ~ overlapped => \A v \in V : row[v].status = "completed" /\ row'[v] # row[v]
                                           => row'[v].input # row[v].input
<1>1. PICK status \in {"completed", "failed"} : Settle(w, status)
  BY DEF Generated, ProviderFails
<1>2. PICK t : t = work[w]
  OBVIOUS
<1>3. IsWork(t) /\ (~ overlapped => KnowsRow(t)) /\ row = [v \in V |-> row[v]]
  BY <1>2 DEF UnderstandingInv
<1>4. PICK x : x = Written(w, status)
  OBVIOUS
<1>5. /\ t.pc = "call" /\ row' = [row EXCEPT ![t.at] = x] /\ overlapped' = overlapped
      /\ row' = [v \in V |-> row'[v]]
  BY <1>1, <1>2, <1>3, <1>4 DEF Settle
<1>6. x.input = t.choice
  BY <1>2, <1>4 DEF Written
<1>7. UnderstandingInv'
  <2>1. PICK n : n = RunIndex(w)
    OBVIOUS
  <2>2. PICK s : s = IF Generated(w)
          THEN IF t.batch
               THEN [t EXCEPT !.pc = "look", !.todo = @ \ {t.at}, !.run = n, !.created = @ + 1]
               ELSE Idle
          ELSE IF t.batch
               THEN [t EXCEPT !.pc = "look", !.todo = @ \ {t.at}, !.run = n, !.failed = @ + 1]
               ELSE Idle
    OBVIOUS
  <2>3. IsWork(s) /\ s.pc \in {"idle", "look"}
    BY <1>3, <2>2, IdleWork DEF IsWork
  <2>4. work' = [work EXCEPT ![w] = s]
    <3>1. CASE Generated(w)
      BY <1>2, <2>1, <2>2, <3>1 DEF Generated, UnderstandingInv
    <3>2. CASE ~ Generated(w)
      BY <1>2, <2>1, <2>2, <3>2 DEF ProviderFails, UnderstandingInv
    <3> QED
      BY <3>1, <3>2
  <2> QED
    BY <1>2, <1>5, <2>3, <2>4, ThreadRests
<1>8. ASSUME ~ overlapped, NEW v \in V, row[v].status = "completed", row'[v] # row[v]
      PROVE  row'[v].input # row[v].input
  <2>1. v = t.at /\ row'[v] = x
    BY <1>3, <1>5, <1>8
  <2>2. ~ SameInput(row[v], t.choice)
    BY <1>3, <1>5, <1>8, <2>1 DEF KnowsRow
  <2> QED
    BY <1>6, <1>8, <2>1, <2>2 DEF SameInput
<1> QED
  BY <1>7, <1>8

LEMMA UnderstandingInitially ==
  ASSUME UnderstandingInit
  PROVE  UnderstandingInv
BY IdleWork DEF UnderstandingInit, UnderstandingInv, KnowsRow

LEMMA UnderstandingStep ==
  ASSUME UnderstandingInv, [UnderstandingNext]_understandingVars
  PROVE  UnderstandingInv'
<1>1. CASE UNCHANGED understandingVars
  BY <1>1 DEF understandingVars, UnderstandingInv, IsWork, KnowsRow, SameInput
<1> QED
  BY <1>1, BeginsKeep, GoingOnKeeps, SettlesKeep DEF UnderstandingNext, WorkerStep

LEMMA UnderstandingInvariant == UnderstandingSpec => []UnderstandingInv
BY UnderstandingInitially, UnderstandingStep, PTL DEF UnderstandingSpec

\* For any number of versions, requests, batches and interruptions: as long as
\* requests come one at a time, a completed record is replaced only by the outcome
\* for another input.
THEOREM FreshRecordsAreKept == UnderstandingSpec => FreshKept
<1>1. ASSUME UnderstandingInv, UnderstandingNext, ~ overlapped,
             NEW v \in V, row[v].status = "completed", row'[v] # row[v]
      PROVE  row'[v].input # row[v].input
  <2>1. PICK w \in Worker : Generated(w) \/ ProviderFails(w)
    BY <1>1 DEF UnderstandingNext, WorkerStep, SkipFresh, Take, ReturnExisting, Read, Save, Clash,
                Finish, Crash, Batch, Single
  <2> QED
    BY <1>1, <2>1, SettlesKeep
<1>2. UnderstandingInv /\ [UnderstandingNext]_understandingVars =>
        [~ overlapped => \A v \in V : row[v].status = "completed" /\ row'[v] # row[v]
           => row'[v].input # row[v].input]_understandingVars
  BY <1>1
<1> QED
  BY <1>2, UnderstandingInvariant, PTL DEF UnderstandingSpec, FreshKept

-----------------------------------------------------------------------------
(* Advanced parsing.                                                       *)

\* What comes back from an adapter, as far as the promises look at it.
Sound(r) ==
  /\ r.status \in Able \cup {"skip", "failure"} /\ r.text \in Text
  /\ r.status # "healthy" => r.reason # "none"
  /\ r.text # "some" => r.status # "healthy"

\* While nobody has answered: those who could read the file found it empty, and
\* OCR has been tried on it; the last of them is kept; without any, nobody could
\* read it, and the check knows of every failure.
Unanswered ==
  /\ \A r \in Heard : Sound(r)
  /\ \A r \in Heard : r.status \in Able => r.text # "some" /\ (Readable => r.text = "blank")
  /\ best = Nothing => \A r \in Heard : r.status \notin Able
  /\ best # Nothing => best \in Heard /\ best.status \in Able
  /\ skip # Nothing => skip.status = "skip" /\ Sound(skip)
  /\ use = "check" /\ ~ errors => \A r \in Heard : r.status # "failure"

ParsingInv ==
  /\ tried \in Seq(Heard) /\ errors \in BOOLEAN
  /\ answer = Nothing => Unanswered
  /\ ParsedIfReadable

LEMMA Fields ==
  ASSUME NEW by, NEW status, NEW reason, NEW text
  PROVE  /\ Result(by, status, reason, text).by = by
         /\ Result(by, status, reason, text).status = status
         /\ Result(by, status, reason, text).reason = reason
         /\ Result(by, status, reason, text).text = text
BY DEF Result

LEMMA ParsedSound ==
  ASSUME NEW a, NEW r \in Parsed(a)
  PROVE  Sound(r)
<1>1. ASSUME r \in FromDocling PROVE Sound(r)
  BY <1>1 DEF FromDocling, Result, Sound, Able, Text
<1>2. ASSUME r \in FromMinerU PROVE Sound(r)
  BY <1>2 DEF FromMinerU, Result, Sound, Able, Text
<1>3. ASSUME r \in FromUnstructured PROVE Sound(r)
  BY <1>3 DEF FromUnstructured, Result, Sound, Able, Text
<1>4. ASSUME r \in FromService(a) PROVE Sound(r)
  <2>1. CASE \E status \in {"failure", "skip"} : r = Result(a, status, "service", "none")
    BY <2>1 DEF Result, Sound, Able, Text
  <2>2. ASSUME NEW said \in {"healthy", "degraded", "skip", "failure", "unknown"},
               NEW own \in BOOLEAN, NEW text \in Text,
               r = Result(a, ServiceStatus(said, text),
                          ServiceReason(ServiceStatus(said, text), own, text), text)
        PROVE  Sound(r)
    <3>1. PICK status : status = ServiceStatus(said, text)
      OBVIOUS
    <3>2. PICK reason : reason = ServiceReason(status, own, text)
      OBVIOUS
    <3>3. r.status = status /\ r.reason = reason /\ r.text = text
      BY <2>2, <3>1, <3>2 DEF Result
    <3>4. status \in Able \cup {"skip", "failure"} /\ (text # "some" => status # "healthy")
      BY <3>1 DEF ServiceStatus, Able
    <3>5. status # "healthy" => reason # "none"
      BY <3>2, <3>4 DEF ServiceReason
    <3> QED
      BY <3>3, <3>4, <3>5 DEF Sound
  <2> QED
    BY <1>4, <2>1, <2>2 DEF FromService
<1> QED
  BY <1>1, <1>2, <1>3, <1>4 DEF Parsed

\* What OCR makes of a result is no worse, and OCR that can read a scan leaves
\* none empty.
LEMMA OcrSound ==
  ASSUME NEW p, Sound(p), p = Result(p.by, p.status, p.reason, p.text)
  PROVE  /\ Sound(WithOcr(p)) /\ (WithOcr(p).status \in Able <=> p.status \in Able)
         /\ Readable /\ p.status \in Able /\ WithOcr(p).text # "some" => WithOcr(p).text = "blank"
<1>1. CASE ~ NeedsOcr(p)
  BY <1>1 DEF WithOcr, NeedsOcr, Sound, Text
<1>2. CASE NeedsOcr(p) /\ ocr.enabled /\ format = "pdf" /\ ocr.engine = "text"
  BY <1>2 DEF WithOcr, NeedsOcr, Sound, Result, Able, Text
<1>3. CASE NeedsOcr(p) /\ ~ (ocr.enabled /\ format = "pdf" /\ ocr.engine = "text")
  <2>1. WithOcr(p) = Result(p.by, "degraded", "ocr", p.text)
    BY <1>3 DEF WithOcr, Result
  <2> QED
    BY <1>3, <2>1 DEF NeedsOcr, Sound, Result, Able, Text, Readable
<1> QED
  BY <1>1, <1>2, <1>3

LEMMA ParsedShape ==
  ASSUME NEW a, NEW r \in Parsed(a)
  PROVE  r = Result(r.by, r.status, r.reason, r.text)
BY DEF Parsed, FromDocling, FromMinerU, FromUnstructured, FromService, Result

LEMMA Noted ==
  ASSUME tried \in Seq(Heard), NEW r, Note(r)
  PROVE  /\ tried' \in Seq(Heard') /\ Heard' = Heard \cup {r}
         /\ Len(tried') = Len(tried) + 1 /\ tried'[Len(tried')] = r /\ Len(tried) \in Nat
         /\ DOMAIN tried' = 1..Len(tried') /\ DOMAIN tried = 1..Len(tried)
         /\ \A i \in 1..Len(tried) : tried'[i] = tried[i]
<1>1. PICK S : S = Heard \cup {r}
  OBVIOUS
<1>2. tried \in Seq(S) /\ r \in S /\ tried' = Append(tried, r)
  BY <1>1 DEF Note
<1>3. /\ tried' \in Seq(S)
      /\ Len(tried') = Len(tried) + 1 /\ tried'[Len(tried')] = r /\ Len(tried) \in Nat
      /\ DOMAIN tried' = 1..Len(tried') /\ DOMAIN tried = 1..Len(tried)
      /\ \A i \in 1..Len(tried) : tried'[i] = tried[i]
  BY <1>2
<1>4. Heard' = S
  BY <1>1, <1>3 DEF Heard
<1> QED
  BY <1>1, <1>3, <1>4


\* An adapter has been asked, and nobody has answered yet.
LEMMA AsksKeep ==
  ASSUME ParsingInv, answer = Nothing, UNCHANGED <<use, format, ocr, answer>>,
         NEW r, Note(r), Sound(r),
         r.status \in Able => r.text # "some" /\ (Readable => r.text = "blank") /\ best' = r,
         r.status \notin Able => best' = best,
         skip' = skip \/ (skip' = r /\ r.status = "skip"),
         errors' \in BOOLEAN, errors => errors', use = "check" /\ r.status = "failure" => errors'
  PROVE  ParsingInv'
<1>1. /\ tried' \in Seq(Heard') /\ Heard' = Heard \cup {r}
      /\ DOMAIN tried' = 1..Len(tried') /\ DOMAIN tried = 1..Len(tried)
  BY Noted DEF ParsingInv
<1>2. Unanswered
  BY DEF ParsingInv
<1>3. r # Nothing
  BY DEF Nothing, Result, Sound, Able
<1>4. Readable' = Readable
  BY DEF Readable
<1>5. \A q : Sound(q) => Sound(q)'
  BY DEF Sound
<1>6. Nothing' = Nothing
  BY DEF Nothing, Result
<1>7. Unanswered'
  <2>1. /\ \A q \in Heard' : Sound(q)
        /\ \A q \in Heard' : q.status \in Able => q.text # "some" /\ (Readable => q.text = "blank")
    BY <1>1, <1>2 DEF Unanswered
  <2>2. /\ best' = Nothing => \A q \in Heard' : q.status \notin Able
        /\ best' # Nothing => best' \in Heard' /\ best'.status \in Able
    BY <1>1, <1>2, <1>3 DEF Unanswered
  <2>3. skip' # Nothing => skip'.status = "skip" /\ Sound(skip')
    BY <1>2 DEF Unanswered
  <2>4. use = "check" /\ ~ errors' => \A q \in Heard' : q.status # "failure"
    BY <1>1, <1>2 DEF Unanswered
  <2> QED
    BY <1>4, <2>1, <2>2, <2>3, <2>4 DEF Unanswered, Sound, Nothing, Result
<1>8. ParsedIfReadable'
  <2>1. \A i \in DOMAIN tried' : tried'[i] \in Heard'
    BY <1>1 DEF Heard
  <2>2. FirstTextAnswers'
    BY <1>7, <2>1 DEF FirstTextAnswers, Unanswered
  <2>3. ScanIsRead' /\ EmptyIsExplained'
    BY DEF ScanIsRead, EmptyIsExplained, Nothing, Result
  <2> QED
    BY <2>2, <2>3 DEF ParsedIfReadable
<1> QED
  BY <1>1, <1>7, <1>8 DEF ParsingInv

\* What an adapter yields, once OCR has been tried.
LEMMA AdapterSound ==
  ASSUME NEW a, NEW r \in {WithOcr(p) : p \in Parsed(a)}
  PROVE  /\ Sound(r)
         /\ r.status \in Able /\ r.text # "some" /\ Readable => r.text = "blank"
<1>1. PICK p \in Parsed(a) : r = WithOcr(p)
  OBVIOUS
<1>2. Sound(p) /\ p = Result(p.by, p.status, p.reason, p.text)
  BY ParsedSound, ParsedShape
<1>3. /\ Sound(WithOcr(p)) /\ (WithOcr(p).status \in Able <=> p.status \in Able)
      /\ Readable /\ p.status \in Able /\ WithOcr(p).text # "some" => WithOcr(p).text = "blank"
  BY <1>2, OcrSound
<1> QED
  BY <1>1, <1>3

\* Whoever answers: with a text of an adapter, or at the end of the chain with
\* what is explained.
LEMMA AnswersKeep ==
  ASSUME ParsingInv, answer = Nothing, UNCHANGED <<use, format, ocr, errors>>,
         answer' # Nothing, tried' \in Seq(Heard'), FirstTextAnswers', ScanIsRead', EmptyIsExplained'
  PROVE  ParsingInv'
<1>1. errors' \in BOOLEAN /\ Nothing' = Nothing
  BY DEF ParsingInv, Nothing, Result
<1> QED
  BY <1>1 DEF ParsingInv, ParsedIfReadable

LEMMA AdaptersKeep ==
  ASSUME ParsingInv, PassOver \/ Raise \/ Answer \/ KeepEmpty \/ Decline
  PROVE  ParsingInv'
<1>1. CASE PassOver
  <2>1. PICK r : r = Result(Head(chain), "skip", "missing_dependency", "none")
    OBVIOUS
  <2>2. Sound(r) /\ r.status = "skip"
    BY <2>1 DEF Result, Sound, Able, Text
  <2>3. /\ Note(r) /\ answer = Nothing /\ UNCHANGED <<use, format, ocr, answer, best, skip, errors>>
    BY <1>1, <2>1 DEF PassOver, Asking
  <2>4. errors \in BOOLEAN /\ "skip" \notin Able
    BY DEF ParsingInv, Able
  <2> QED
    BY <2>2, <2>3, <2>4, AsksKeep
<1>2. CASE Raise
  <2>1. PICK reason \in {"missing_dependency", "parser_error"} :
          Note(Result(Head(chain), "failure", reason, "none"))
    BY <1>2 DEF Raise
  <2>2. PICK r : r = Result(Head(chain), "failure", reason, "none")
    OBVIOUS
  <2>3. Sound(r) /\ r.status = "failure"
    BY <2>2 DEF Result, Sound, Able, Text
  <2>4. /\ Note(r) /\ answer = Nothing /\ UNCHANGED <<use, format, ocr, answer, best, skip>>
        /\ errors' = (use = "check" \/ errors)
    BY <1>2, <2>1, <2>2 DEF Raise, Asking
  <2>5. errors \in BOOLEAN /\ "failure" \notin Able
    BY DEF ParsingInv, Able
  <2>6. errors' \in BOOLEAN /\ (errors => errors') /\ (use = "check" => errors')
    BY <2>4, <2>5
  <2> QED
    BY <2>3, <2>4, <2>5, <2>6, AsksKeep
<1>3. CASE Answer
  <2>1. PICK r \in {WithOcr(p) : p \in Parsed(Head(chain))} :
          r.status \in Able /\ r.text = "some" /\ Note(r) /\ answer' = r
    BY <1>3 DEF Answer
  <2>2. answer = Nothing /\ UNCHANGED <<use, format, ocr, errors>>
    BY <1>3 DEF Answer, Asking
  <2>3. /\ tried' \in Seq(Heard') /\ tried'[Len(tried')] = r /\ Len(tried) \in Nat
        /\ Len(tried') = Len(tried) + 1
        /\ DOMAIN tried' = 1..Len(tried') /\ DOMAIN tried = 1..Len(tried)
        /\ \A i \in 1..Len(tried) : tried'[i] = tried[i]
    BY <2>1, Noted DEF ParsingInv
  <2>4. answer' # Nothing
    BY <2>1 DEF Nothing, Result, Able
  <2>5. FirstTextAnswers'
    <3>1. SUFFICES ASSUME NEW i \in DOMAIN tried', tried'[i].status \in Able, tried'[i].text = "some"
                   PROVE  i = Len(tried') /\ answer' = tried'[i]
      BY DEF FirstTextAnswers, Able
    <3>2. CASE i = Len(tried')
      BY <2>1, <2>3, <3>2
    <3>3. CASE i # Len(tried')
      <4>1. i \in 1..Len(tried) /\ tried[i] \in Heard /\ tried'[i] = tried[i]
        BY <2>3, <3>3 DEF Heard
      <4> QED
        BY <2>2, <3>1, <4>1 DEF ParsingInv, Unanswered
    <3> QED
      BY <3>2, <3>3
  <2>6. ScanIsRead' /\ EmptyIsExplained'
    BY <2>1 DEF ScanIsRead, EmptyIsExplained, Able
  <2> QED
    BY <2>2, <2>3, <2>4, <2>5, <2>6, AnswersKeep
<1>4. CASE KeepEmpty
  <2>1. PICK r \in {WithOcr(p) : p \in Parsed(Head(chain))} :
          r.status \in Able /\ r.text # "some" /\ Note(r) /\ best' = r
    BY <1>4 DEF KeepEmpty
  <2>2. /\ Sound(r)
        /\ r.status \in Able /\ r.text # "some" /\ Readable => r.text = "blank"
    BY AdapterSound
  <2>3. answer = Nothing /\ UNCHANGED <<use, format, ocr, answer, skip, errors>>
    BY <1>4 DEF KeepEmpty, Asking
  <2>4. errors \in BOOLEAN /\ "failure" \notin Able
    BY DEF ParsingInv, Able
  <2> QED
    BY <2>1, <2>2, <2>3, <2>4, AsksKeep
<1>5. CASE Decline
  <2>1. PICK r \in Parsed(Head(chain)) :
          /\ r.status \notin Able /\ Note(r)
          /\ skip' = IF use = "check" /\ r.status = "skip" THEN r ELSE skip
          /\ errors' = (errors \/ (use = "check" /\ r.status = "failure"))
    BY <1>5 DEF Decline
  <2>2. Sound(r)
    BY ParsedSound
  <2>3. answer = Nothing /\ UNCHANGED <<use, format, ocr, answer, best>>
    BY <1>5 DEF Decline, Asking
  <2>4. errors \in BOOLEAN
    BY DEF ParsingInv
  <2>5. /\ errors' \in BOOLEAN /\ (errors => errors')
        /\ (use = "check" /\ r.status = "failure" => errors')
    BY <2>1, <2>4
  <2>6. skip' = skip \/ (skip' = r /\ r.status = "skip")
    BY <2>1
  <2> QED
    BY <2>1, <2>2, <2>3, <2>5, <2>6, AsksKeep
<1> QED
  BY <1>1, <1>2, <1>3, <1>4, <1>5

\* What is kept as the best is explained, and empty only where OCR could not read.
LEMMA BestExplains ==
  ASSUME Unanswered, best # Nothing
  PROVE  /\ best \in Heard /\ best.status \in Able /\ best.text # "some"
         /\ best.status # "healthy" /\ best.reason # "none"
         /\ Readable => best.text = "blank"
BY DEF Unanswered, Sound

\* No text has been found while nobody has answered.
LEMMA NoTextYet ==
  ASSUME ParsingInv, answer = Nothing, UNCHANGED tried
  PROVE  FirstTextAnswers' /\ tried' \in Seq(Heard') /\ Heard' = Heard
<1>1. \A i \in DOMAIN tried : tried[i] \in Heard
  BY DEF Heard
<1> QED
  BY <1>1 DEF ParsingInv, Unanswered, FirstTextAnswers, Heard

LEMMA EndKeeps ==
  ASSUME ParsingInv, RefuseFile \/ FallBack \/ GiveUp
  PROVE  ParsingInv'
<1>0. UNCHANGED <<use, format, ocr, errors, tried>> /\ answer = Nothing /\ Unanswered
  BY DEF RefuseFile, FallBack, GiveUp, Asking, Exhausted, ParsingInv
<1>1. FirstTextAnswers' /\ tried' \in Seq(Heard') /\ Heard' = Heard
  BY <1>0, NoTextYet
<1>2. CASE RefuseFile
  <2>1. /\ use = "check" /\ tried = << >>
        /\ answer'.status \in {"failure", "degraded"} /\ answer'.reason = "corrupt_artifact"
        /\ answer'.text = "none"
    BY <1>2 DEF RefuseFile, Result
  <2>2. Heard' = {}
    BY <1>1, <2>1 DEF Heard
  <2>3. answer' # Nothing
    BY <2>1 DEF Nothing, Result
  <2>4. ScanIsRead' /\ EmptyIsExplained'
    BY <1>0, <2>1, <2>2 DEF ScanIsRead, EmptyIsExplained
  <2> QED
    BY <1>0, <1>1, <2>3, <2>4, AnswersKeep
<1>3. CASE FallBack
  <2>1. /\ use = "ingestion" /\ (format = "pdf" => answer'.text = "some")
        /\ answer'.status = "basic"
        /\ answer'.reason = IF best = Nothing THEN "unavailable" ELSE best.reason
    BY <1>3 DEF FallBack, Result
  <2>2. answer'.reason # "none"
    BY <1>0, <2>1, BestExplains
  <2>3. answer' # Nothing
    BY <2>1 DEF Nothing, Result
  <2>4. ScanIsRead' /\ EmptyIsExplained'
    BY <1>0, <2>1, <2>2 DEF ScanIsRead, EmptyIsExplained, Readable
  <2> QED
    BY <1>0, <1>1, <2>3, <2>4, AnswersKeep
<1>4. CASE GiveUp
  <2>0. use = "check"
    BY <1>4 DEF GiveUp
  <2>1. CASE best # Nothing
    <3>1. answer' = best
      BY <1>4, <2>1 DEF GiveUp
    <3>2. /\ best \in Heard /\ best.status \in Able /\ best.text # "some"
          /\ best.status # "healthy" /\ best.reason # "none"
          /\ Readable => best.text = "blank"
      BY <1>0, <2>1, BestExplains
    <3>3. ScanIsRead' /\ EmptyIsExplained'
      BY <1>0, <1>1, <3>1, <3>2 DEF ScanIsRead, EmptyIsExplained, Readable, Able
    <3> QED
      BY <1>0, <1>1, <2>1, <3>1, <3>3, AnswersKeep DEF Nothing, Result
  <2>2. CASE best = Nothing
    <3>1. \A r \in Heard : r.status \notin Able /\ r.status \in {"skip", "failure"}
      BY <1>0, <2>2 DEF Unanswered, Sound
    <3>2. ScanIsRead'
      BY <1>0, <1>1, <2>0, <3>1 DEF ScanIsRead
    <3>3. CASE skip # Nothing /\ ~ errors
      <4>1. answer' = skip /\ skip.status = "skip" /\ skip.reason # "none"
        BY <1>0, <1>4, <2>2, <3>3 DEF GiveUp, Unanswered, Sound
      <4>2. EmptyIsExplained'
        BY <1>0, <1>1, <2>0, <3>1, <3>3, <4>1 DEF EmptyIsExplained, Unanswered
      <4> QED
        BY <1>0, <1>1, <3>2, <3>3, <4>1, <4>2, AnswersKeep DEF Nothing, Result
    <3>4. CASE skip = Nothing /\ missing /\ ~ errors
      <4>1. answer' = Result("some adapter", "skip", "missing_dependency", "none")
        BY <1>4, <2>2, <3>4 DEF GiveUp
      <4>2. answer'.status = "skip" /\ answer'.reason # "none" /\ answer' # Nothing
        BY <4>1 DEF Result, Nothing
      <4>3. EmptyIsExplained'
        BY <1>0, <1>1, <2>0, <3>1, <3>4, <4>2 DEF EmptyIsExplained, Unanswered
      <4> QED
        BY <1>0, <1>1, <3>2, <4>2, <4>3, AnswersKeep
    <3>5. CASE errors \/ (skip = Nothing /\ ~ missing)
      <4>1. answer' = Result("all adapters", "failure", "parser_error", "none")
        BY <1>4, <2>2, <3>5 DEF GiveUp
      <4>2. answer'.status = "failure" /\ answer'.reason # "none" /\ answer' # Nothing
        BY <4>1 DEF Result, Nothing
      <4>3. EmptyIsExplained'
        BY <4>2 DEF EmptyIsExplained
      <4> QED
        BY <1>0, <1>1, <3>2, <4>2, <4>3, AnswersKeep
    <3> QED
      BY <3>3, <3>4, <3>5
  <2> QED
    BY <2>1, <2>2
<1> QED
  BY <1>2, <1>3, <1>4


\* A text is the last to come and the answer, if none has come before.
LEMMA LastIsText ==
  ASSUME NEW s, NEW r, s \in Seq({s[i] : i \in DOMAIN s}), tried' = Append(s, r),
         \A i \in DOMAIN s : s[i].status \in Able => s[i].text # "some",
         r.status \in Able /\ r.text = "some" => answer' = r
  PROVE  FirstTextAnswers'
<1>1. PICK S : S = {s[i] : i \in DOMAIN s} \cup {r}
  OBVIOUS
<1>2. s \in Seq(S) /\ r \in S
  BY <1>1
<1>3. /\ Len(tried') = Len(s) + 1 /\ tried'[Len(tried')] = r /\ Len(s) \in Nat
      /\ DOMAIN tried' = 1..Len(tried') /\ DOMAIN s = 1..Len(s)
      /\ \A i \in 1..Len(s) : tried'[i] = s[i]
  BY <1>2
<1>4. SUFFICES ASSUME NEW i \in DOMAIN tried', tried'[i].status \in Able, tried'[i].text = "some"
               PROVE  i = Len(tried') /\ answer' = tried'[i]
  BY DEF FirstTextAnswers, Able
<1>5. i \notin 1..Len(s)
  BY <1>3, <1>4
<1>6. i = Len(tried')
  BY <1>3, <1>5
<1> QED
  BY <1>3, <1>4, <1>6

\* The basic parser raises as well.
LEMMA FailureKeeps ==
  ASSUME ParsingInv, FallBackFails
  PROVE  ParsingInv'
<1>0. UNCHANGED <<use, format, ocr, errors>> /\ answer = Nothing /\ Unanswered /\ use = "ingestion"
  BY DEF FallBackFails, Exhausted, ParsingInv
<1>1. PICK f : f = Result("basic", "failure", "fallback_parser_error", "none")
  OBVIOUS
<1>2. f.status \notin Able
  BY <1>1 DEF Result, Able
<1>3. PICK soFar : soFar = Append(tried, f)
  OBVIOUS
<1>4. PICK H : H = Heard \cup {f}
  OBVIOUS
<1>5. /\ soFar \in Seq(H) /\ Len(soFar) = Len(tried) + 1 /\ soFar[Len(soFar)] = f
      /\ Len(tried) \in Nat /\ DOMAIN soFar = 1..Len(soFar) /\ DOMAIN tried = 1..Len(tried)
      /\ \A i \in 1..Len(tried) : soFar[i] = tried[i]
  <2>1. tried \in Seq(H) /\ f \in H
    BY <1>4 DEF ParsingInv
  <2> QED
    BY <1>3, <2>1
<1>6. {soFar[i] : i \in DOMAIN soFar} = H
  BY <1>4, <1>5 DEF Heard
<1>7. \A i \in DOMAIN soFar : soFar[i].status \in Able => soFar[i].text # "some"
  <2>1. \A r \in H : r.status \in Able => r.text # "some"
    BY <1>0, <1>2, <1>4 DEF Unanswered
  <2> QED
    BY <1>6, <2>1
<1>8. CASE best # Nothing \/ ~ (format = "pdf" /\ ocr.enabled)
  <2>1. tried' = soFar /\ answer' = IF best # Nothing THEN best ELSE Unavailable
    BY <1>1, <1>3, <1>8 DEF FallBackFails
  <2>2. Heard' = H /\ tried' \in Seq(Heard')
    BY <1>5, <1>6, <2>1 DEF Heard
  <2>3. FirstTextAnswers'
    BY <1>7, <2>1 DEF FirstTextAnswers, Able
  <2>4. best # Nothing =>
          /\ best \in Heard /\ best.status \in Able /\ best.text # "some"
          /\ best.status # "healthy" /\ best.reason # "none"
          /\ Readable => best.text = "blank"
    BY <1>0, BestExplains
  <2>5. /\ Unavailable.status = "degraded" /\ Unavailable.reason = "unavailable"
        /\ Unavailable.text = "none"
    BY DEF Unavailable, Result
  <2>6. ScanIsRead'
    BY <1>0, <1>4, <1>8, <2>1, <2>2, <2>4 DEF ScanIsRead, Readable, Able
  <2>7. EmptyIsExplained'
    BY <1>0, <2>1, <2>4, <2>5 DEF EmptyIsExplained
  <2>8. answer' # Nothing
    BY <2>1, <2>5 DEF Nothing, Result
  <2> QED
    BY <1>0, <2>2, <2>3, <2>6, <2>7, <2>8, AnswersKeep
<1>9. CASE best = Nothing /\ format = "pdf" /\ ocr.enabled
  <2>1. PICK read : read = WithOcr(Unavailable)
    OBVIOUS
  <2>2. tried' = Append(soFar, read) /\ answer' = read
    BY <1>1, <1>3, <1>9, <2>1 DEF FallBackFails
  <2>3. /\ Sound(Unavailable) /\ Unavailable.status \in Able
        /\ Unavailable = Result(Unavailable.by, Unavailable.status, Unavailable.reason, Unavailable.text)
    BY DEF Unavailable, Result, Sound, Able, Text
  <2>4. /\ Sound(read) /\ read.status \in Able
        /\ Readable /\ read.text # "some" => read.text = "blank"
    BY <2>1, <2>3, OcrSound
  <2>5. FirstTextAnswers'
    BY <1>5, <1>6, <1>7, <2>2, LastIsText
  <2>6. tried' \in Seq(Heard') /\ read \in Heard'
    <3>1. PICK T : T = H \cup {read}
      OBVIOUS
    <3>2. soFar \in Seq(T) /\ read \in T
      BY <1>5, <3>1
    <3>3. /\ tried' \in Seq(T) /\ Len(tried') = Len(soFar) + 1 /\ tried'[Len(tried')] = read
          /\ Len(soFar) \in Nat /\ DOMAIN tried' = 1..Len(tried')
          /\ \A i \in 1..Len(soFar) : tried'[i] = soFar[i]
      BY <2>2, <3>2
    <3>4. Heard' = {soFar[i] : i \in 1..Len(soFar)} \cup {read}
      BY <3>3 DEF Heard
    <3>5. Heard' = T
      BY <1>5, <1>6, <3>1, <3>4
    <3> QED
      BY <3>1, <3>3, <3>5
  <2>7. ScanIsRead'
    BY <1>0, <2>2, <2>4, <2>6 DEF ScanIsRead, Readable
  <2>8. EmptyIsExplained' /\ answer' # Nothing
    <3>1. answer'.status # "none"
      BY <2>2, <2>4 DEF Able
    <3>2. Nothing.status = "none"
      BY DEF Nothing, Result
    <3> QED
      BY <1>0, <2>2, <2>4, <3>1, <3>2 DEF EmptyIsExplained, Sound
  <2> QED
    BY <1>0, <2>5, <2>6, <2>7, <2>8, AnswersKeep
<1> QED
  BY <1>8, <1>9

LEMMA ParsingInitially ==
  ASSUME ParsingInit
  PROVE  ParsingInv
<1>1. tried = << >> /\ best = Nothing /\ skip = Nothing /\ errors = FALSE /\ answer = Nothing
  BY DEF ParsingInit
<1>2. Heard = {} /\ tried \in Seq(Heard)
  BY <1>1 DEF Heard
<1>3. Unanswered
  BY <1>1, <1>2 DEF Unanswered
<1>4. FirstTextAnswers
  BY <1>1 DEF FirstTextAnswers
<1>5. ScanIsRead /\ EmptyIsExplained
  BY <1>1 DEF ScanIsRead, EmptyIsExplained
<1> QED
  BY <1>1, <1>2, <1>3, <1>4, <1>5 DEF ParsingInv, ParsedIfReadable

LEMMA ParsingStep ==
  ASSUME ParsingInv, [ParsingNext]_parsingVars
  PROVE  ParsingInv'
<1>1. CASE UNCHANGED parsingVars
  BY <1>1 DEF parsingVars, ParsingInv, Unanswered, ParsedIfReadable, FirstTextAnswers, ScanIsRead,
              EmptyIsExplained, Heard, Readable, Sound, Nothing, Result
<1> QED
  BY <1>1, AdaptersKeep, EndKeeps, FailureKeeps DEF ParsingNext

\* Whatever the chain of adapters, their results and failures, what OCR can do, and
\* whether ingestion or the check asks: the first text found is the answer, a scan
\* that OCR can read is read, and no lack of a text goes unexplained.
THEOREM NoTextIsLost == ParsingSpec => []ParsedIfReadable
<1>1. ParsingInv => ParsedIfReadable
  BY DEF ParsingInv
<1> QED
  BY <1>1, ParsingInitially, ParsingStep, PTL DEF ParsingSpec
=============================================================================
