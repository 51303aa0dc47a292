--------------------------- MODULE Conversations ----------------------------
(***************************************************************************)
(* Conversations: answers are appended as numbered turns, each generated   *)
(* from the turns that were there when it was asked for; feedback refers   *)
(* to a turn.                                                              *)
(*                                                                         *)
(* Between the query that loads the turns and the insert that numbers the  *)
(* new one lies a call of a model, so answers to one conversation overlap. *)
(* What holds them apart is the unique index on the number of a turn.  A   *)
(* turn is known by the request that asked for it.                         *)
(***************************************************************************)
EXTENDS Naturals, FiniteSets

CONSTANTS
  Conversation,  \* ids of conversations
  Request,       \* requests for an answer
  Window,        \* values of history_window
  MaxFeedback    \* bound on feedback given

ASSUME ConversationsAssumption ==
  Conversation # {} /\ Request # {} /\ Window # {} /\ MaxFeedback \in Nat

Grounding == {"grounded", "degraded", "refused"}
Entry == [asked: Request, index: Nat]      \* what a request knows of a turn
Turn ==
  [conversation: Conversation, index: Nat, asked: Request, window: Window,
   context: SUBSET Entry,                  \* the turns quoted in the query
   grounding: Grounding]
Feedback == [turn: Request, conversation: Conversation]

VARIABLES
  conversation,  \* [state, base]: conversations; base: has a knowledge base
  turns,         \* conversation_turns
  feedback,      \* answer_feedback that names a turn
  ask,           \* requests for an answer
  rate           \* the request for feedback: the turn it has found, or none

conversationVars == <<conversation, turns, feedback, ask, rate>>

AskState ==
  [pc: {"idle", "asking", "answered", "done"},
   conversation: Conversation,
   window: Window,
   history: SUBSET Entry,    \* convo.turns, as loaded
   grounding: Grounding,
   alone: BOOLEAN,           \* history: nothing overlapped with the request
   answer: {"none", "turn", "failed", "lost"}]
Rating == [pc: {"idle", "found"}, feedback: Feedback, given: Nat]

Some(S) == CHOOSE x \in S : TRUE
NotAsked ==
  [pc |-> "idle", conversation |-> Some(Conversation), window |-> Some(Window), history |-> {},
   grounding |-> "refused", alone |-> TRUE, answer |-> "none"]

\* A request that has been answered; what it held no longer matters.
Answered(r, a) == [NotAsked EXCEPT !.pc = "done", !.answer = a, !.alone = ask[r].alone]

ConversationsInit ==
  /\ conversation = [c \in Conversation |-> [state |-> "none", base |-> FALSE]]
  /\ turns = {} /\ feedback = {}
  /\ ask = [r \in Request |-> NotAsked]
  /\ rate = [pc |-> "idle", given |-> 0,
             feedback |-> [turn |-> Some(Request), conversation |-> Some(Conversation)]]

Open(c) == conversation[c].state = "open"
TurnsOf(c) == {t \in turns : t.conversation = c}
EntryOf(t) == [asked |-> t.asked, index |-> t.index]
InProgress(c) == {r \in Request : ask[r].pc \in {"asking", "answered"} /\ ask[r].conversation = c}

-----------------------------------------------------------------------------
(* Plausible slips, with which the properties were tried out; no           *)
(* specification refers to one.                                            *)

CountedFromHistory(h) == IF Cardinality(h) = 0 THEN 0 ELSE Cardinality(h) - 1
IndexTaken(c, i) == \E t \in TurnsOf(c) : t.index = i /\ t.grounding # "refused"
FirstTurns(h, w) == {x \in h : Cardinality({y \in h : y.index < x.index}) < w}

-----------------------------------------------------------------------------
(* What the code computes.                                                 *)

\* history[-window:], of which _build_contextual_query makes the query.
LastTurns(h, w) == {x \in h : Cardinality({y \in h : y.index > x.index}) < w}

\* max((t.turn_index for t in history), default=-1) + 1
NextIndex(h) ==
  IF h = {} THEN 0 ELSE (CHOOSE i \in {x.index : x \in h} : \A x \in h : x.index <= i) + 1

\* uq_conversation_turns_conv_index
Taken(c, i) == \E t \in TurnsOf(c) : t.index = i

\* Grounding of a generated answer: whether it cites anything, and anything
\* that is not evidence.
GroundingOf(citesEvidence, citesOther) ==
  IF citesOther \/ ~ citesEvidence THEN "degraded" ELSE "grounded"

-----------------------------------------------------------------------------
(* Requests.                                                               *)

Disturbed(c) ==
  [r \in Request |-> IF r \in InProgress(c) THEN [ask[r] EXCEPT !.alone = FALSE] ELSE ask[r]]

\* create_conversation, with a knowledge base that was found or without one.
Create(c, base) ==
  /\ conversation[c].state = "none"
  /\ conversation' = [conversation EXCEPT ![c] = [state |-> "open", base |-> base]]
  /\ UNCHANGED <<turns, feedback, ask, rate>>

\* Rows of a deleted conversation go with it, by the ORM and by the database.
Cascade(c) ==
  /\ turns' = turns \ TurnsOf(c)
  /\ feedback' = {f \in feedback : f.conversation # c}

Delete(c) ==
  /\ Open(c)
  /\ conversation' = [conversation EXCEPT ![c].state = "deleted"]
  /\ Cascade(c)
  /\ ask' = Disturbed(c)
  /\ UNCHANGED rate

\* conversational_answer up to the call of generate_answer.  Without a base,
\* its own or the request's, it answers 400.
Ask(r, c, w, named) ==
  /\ ask[r].pc = "idle" /\ Open(c)
  /\ conversation[c].base \/ named
  /\ ask' = [Disturbed(c) EXCEPT
               ![r] = [pc |-> "asking", conversation |-> c, window |-> w,
                       history |-> {EntryOf(t) : t \in TurnsOf(c)}, grounding |-> "refused",
                       alone |-> InProgress(c) = {}, answer |-> "none"]]
  /\ UNCHANGED <<conversation, turns, feedback, rate>>

\* Retrieval finds nothing: the refusal becomes a turn.
NoEvidence(r) ==
  /\ ask[r].pc = "asking"
  /\ ask' = [ask EXCEPT ![r].pc = "answered"]
  /\ UNCHANGED <<conversation, turns, feedback, rate>>

\* The provider answers from what was retrieved.
Generate(r, citesEvidence, citesOther) ==
  /\ ask[r].pc = "asking"
  /\ ask' = [ask EXCEPT ![r].pc = "answered", ![r].grounding = GroundingOf(citesEvidence, citesOther)]
  /\ UNCHANGED <<conversation, turns, feedback, rate>>

\* Any other error of retrieval or of the provider: no turn.
AnswerFails(r) ==
  /\ ask[r].pc = "asking"
  /\ ask' = [ask EXCEPT ![r] = Answered(r, "failed")]
  /\ UNCHANGED <<conversation, turns, feedback, rate>>

\* The insert succeeds: the conversation is there, the number is free.
Insertable(r) ==
  LET c == ask[r].conversation IN Open(c) /\ ~ Taken(c, NextIndex(ask[r].history))

SaveTurn(r) ==
  /\ ask[r].pc = "answered" /\ Insertable(r)
  /\ turns' = turns \cup
       {[conversation |-> ask[r].conversation, index |-> NextIndex(ask[r].history), asked |-> r,
         window |-> ask[r].window, context |-> LastTurns(ask[r].history, ask[r].window),
         grounding |-> ask[r].grounding]}
  /\ ask' = [ask EXCEPT ![r] = Answered(r, "turn")]
  /\ UNCHANGED <<conversation, feedback, rate>>

\* IntegrityError, which no handler catches: the answer is gone.
LoseTurn(r) ==
  /\ ask[r].pc = "answered" /\ ~ Insertable(r)
  /\ ask' = [ask EXCEPT ![r] = Answered(r, "lost")]
  /\ UNCHANGED <<conversation, turns, feedback, rate>>

\* submit_feedback: it looks for the turn and its conversation ...
FindTurn(t) ==
  /\ rate.pc = "idle" /\ rate.given < MaxFeedback
  /\ rate' = [pc |-> "found", given |-> rate.given + 1,
              feedback |-> [turn |-> t.asked, conversation |-> t.conversation]]
  /\ UNCHANGED <<conversation, turns, feedback, ask>>

\* ... and inserts, unless the turn has gone meanwhile (foreign key).
SaveFeedback ==
  /\ rate.pc = "found"
  /\ rate' = [rate EXCEPT !.pc = "idle"]
  /\ feedback' = IF \E t \in turns : t.asked = rate.feedback.turn
                 THEN feedback \cup {rate.feedback} ELSE feedback
  /\ UNCHANGED <<conversation, turns, ask>>

ConversationsNext ==
  \/ \E c \in Conversation : \/ \E base \in BOOLEAN : Create(c, base)
                             \/ Delete(c)
                             \/ \E r \in Request, w \in Window, named \in BOOLEAN : Ask(r, c, w, named)
  \/ \E r \in Request : \/ NoEvidence(r)
                        \/ \E own, other \in BOOLEAN : Generate(r, own, other)
                        \/ AnswerFails(r)
                        \/ SaveTurn(r)
                        \/ LoseTurn(r)
  \/ \E t \in turns : FindTurn(t)
  \/ SaveFeedback

ConversationsSpec == ConversationsInit /\ [][ConversationsNext]_conversationVars

-----------------------------------------------------------------------------
(* Properties.                                                             *)

ConversationsTypeOK ==
  /\ conversation \in [Conversation -> [state: {"none", "open", "deleted"}, base: BOOLEAN]]
  /\ turns \subseteq Turn
  /\ feedback \subseteq Feedback
  /\ ask \in [Request -> AskState]
  /\ rate \in Rating

\* What came before a turn.
Before(t) == {EntryOf(u) : u \in {v \in TurnsOf(t.conversation) : v.index < t.index}}

\* A conversation reads as one thread, however its answers overlapped: every
\* turn was generated from exactly the last turns before it
\* (conversational_answer, _build_contextual_query).
HistoryIsWhole == \A t \in turns : t.context = LastTurns(Before(t), t.window)

\* An answer that was generated is lost only to another answer to the same
\* conversation, or to its deletion: a request nothing overlaps with keeps it
\* (conversational_answer).
AloneIsKept == \A r \in Request : ask[r].answer = "lost" => ~ ask[r].alone

\* No feedback outlives the turn it is about, though submit_feedback looks for
\* the turn before it inserts and the turn may go in between.
FeedbackNamesTurn ==
  \A f \in feedback : \E t \in turns : t.asked = f.turn /\ t.conversation = f.conversation

=============================================================================
