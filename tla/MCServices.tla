----------------------------- MODULE MCServices ------------------------------
(***************************************************************************)
(* Five components that share nothing, checked one at a time: budgets, the *)
(* workflow engine, document understanding, conversations and the advanced *)
(* parsers.  The state space is the sum of theirs, for those that are not  *)
(* in focus stay in one initial state.                                     *)
(***************************************************************************)
EXTENDS UsageBudget, Workflow, Understanding, Conversations,
        AdvancedParsing, TLC

VARIABLE focus  \* the component that moves

BudgetAtRest ==
  /\ BudgetInit /\ ~ overlap
  /\ budget = [exists |-> FALSE, id |-> 0, limit |-> CHOOSE n \in Limits : TRUE,
               pct |-> CHOOSE n \in Percents : TRUE, alerted |-> 0]
WorkflowAtRest ==
  /\ WorkflowInit
  /\ deps = [s \in Step |-> {}] /\ continue = [s \in Step |-> FALSE]
ParsingAtRest ==
  /\ ParsingInit
  /\ use = "check" /\ format = "pdf" /\ ocr = [enabled |-> FALSE, engine |-> "missing"]

Init ==
  /\ focus \in {"budget", "workflow", "understanding", "conversations", "parsing"}
  /\ IF focus = "budget" THEN BudgetInit ELSE BudgetAtRest
  /\ IF focus = "workflow" THEN WorkflowInit ELSE WorkflowAtRest
  /\ UnderstandingInit
  /\ ConversationsInit
  /\ IF focus = "parsing" THEN ParsingInit ELSE ParsingAtRest

BudgetMoves ==
  /\ focus = "budget" /\ BudgetNext
  /\ UNCHANGED <<focus, workflowVars, understandingVars, conversationVars, parsingVars>>
WorkflowMoves ==
  /\ focus = "workflow" /\ WorkflowNext
  /\ UNCHANGED <<focus, budgetVars, understandingVars, conversationVars, parsingVars>>
UnderstandingMoves ==
  /\ focus = "understanding" /\ UnderstandingNext
  /\ UNCHANGED <<focus, budgetVars, workflowVars, conversationVars, parsingVars>>
ConversationsMove ==
  /\ focus = "conversations" /\ ConversationsNext
  /\ UNCHANGED <<focus, budgetVars, workflowVars, understandingVars, parsingVars>>
ParserMoves ==
  /\ focus = "parsing" /\ ParsingNext
  /\ UNCHANGED <<focus, budgetVars, workflowVars, understandingVars, conversationVars>>

Next ==
  \/ BudgetMoves \/ WorkflowMoves \/ UnderstandingMoves
  \/ ConversationsMove \/ ParserMoves

Spec ==
  /\ Init
  /\ [][Next]_<<focus, budgetVars, workflowVars, understandingVars, conversationVars,
               parsingVars>>

\* The threads that serve requests differ in nothing but their name; the
\* components share them.
Ids == Permutations(Request) \cup Permutations(Worker)
=============================================================================
