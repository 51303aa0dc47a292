------------------------------ MODULE Workflow ------------------------------
(***************************************************************************)
(* The workflow engine: a definition of steps that depend on one another   *)
(* is put in order by a depth-first search, which refuses cycles, and run  *)
(* one step after the other with retries; a failure skips what depends on  *)
(* it and, unless the step is to be continued after, ends the run.         *)
(***************************************************************************)
EXTENDS Naturals, Sequences

CONSTANTS
  Steps,       \* the definition lists steps 1..Steps
  MaxRetries   \* max_retries of every step

ASSUME StepsAssumption == Steps \in Nat \ {0}
ASSUME MaxRetriesAssumption == MaxRetries \in Nat

Step == 1..Steps
\* A name in depends_on that is no step of the definition.
Unknown == 0

VARIABLES
  deps,       \* depends_on of each step; the order of a list is not kept
  continue,   \* continue_on_error of each step
  pc,         \* "visit", "run", "skip", "rejected", "completed" or "failed"
  stack,      \* the calls of visit(): the step, and dependencies not visited yet
  ordered,    \* the steps whose visit has returned
  at,         \* the place in ordered of the step being run
  attempts,   \* attempts of that step that have failed
  result,     \* the status reported of each step, "none" if there is none
  failed      \* failed_steps: steps that failed or were skipped

workflowVars == <<deps, continue, pc, stack, ordered, at, attempts, result, failed>>

Visited == {ordered[i] : i \in 1..Len(ordered)}
Visiting == {stack[i].step : i \in 1..Len(stack)}
Frame(s) == [step |-> s, left |-> deps[s]]
Top == stack[Len(stack)]
Pop == SubSeq(stack, 1, Len(stack) - 1)

WorkflowInit ==
  /\ deps \in [Step -> SUBSET (Step \cup {Unknown})]
  /\ continue \in [Step -> BOOLEAN]
  /\ pc = "visit"
  /\ stack = << >>
  /\ ordered = << >>
  /\ at = 1
  /\ attempts = 0
  /\ result = [s \in Step |-> "none"]
  /\ failed = {}

-----------------------------------------------------------------------------
(* Plausible slips in the definitions below, used to see that the          *)
(* properties notice them; no specification refers to one.                 *)

ReturnedOrBusy(d) == d \in Visited \cup Visiting
BlockedByFailure(s) == \E d \in deps[s] : result[d] = "failed"

-----------------------------------------------------------------------------
(* _topological_steps.                                                     *)

Cycle(d) == d \in Visiting
Returned(d) == d \in Visited

\* A dependency that is not a step is found before the search begins.
RejectUnknown ==
  /\ pc = "visit"
  /\ \E s \in Step : Unknown \in deps[s]
  /\ pc' = "rejected"
  /\ UNCHANGED <<deps, continue, stack, ordered, at, attempts, result, failed>>

\* The loop over the definition calls visit() for the next step.
VisitStep(s) ==
  /\ pc = "visit"
  /\ \A t \in Step : Unknown \notin deps[t]
  /\ stack = << >>
  /\ s \notin Visited /\ \A t \in Step : t < s => t \in Visited
  /\ stack' = <<Frame(s)>>
  /\ UNCHANGED <<deps, continue, pc, ordered, at, attempts, result, failed>>

\* visit() comes to a dependency d: it has been visited, is being visited, or
\* is visited now.
VisitDependency(d) ==
  LET rest == Append(Pop, [Top EXCEPT !.left = @ \ {d}])
  IN  /\ pc = "visit"
      /\ stack # << >> /\ d \in Top.left
      /\ \/ Returned(d) /\ stack' = rest /\ pc' = pc
         \/ ~ Returned(d) /\ Cycle(d) /\ pc' = "rejected" /\ UNCHANGED stack
         \/ ~ Returned(d) /\ ~ Cycle(d) /\ stack' = Append(rest, Frame(d)) /\ pc' = pc
      /\ UNCHANGED <<deps, continue, ordered, at, attempts, result, failed>>

\* visit() returns.
Leave ==
  /\ pc = "visit"
  /\ stack # << >> /\ Top.left = {}
  /\ ordered' = Append(ordered, Top.step)
  /\ stack' = Pop
  /\ UNCHANGED <<deps, continue, pc, at, attempts, result, failed>>

\* Every step has been visited: the definition is accepted, and run.
Accept ==
  /\ pc = "visit"
  /\ stack = << >>
  /\ Visited = Step
  /\ pc' = "run"
  /\ UNCHANGED <<deps, continue, stack, ordered, at, attempts, result, failed>>

-----------------------------------------------------------------------------
(* run_workflow.                                                           *)

Current == ordered[at]
Running == pc = "run" /\ at <= Len(ordered)

Blocked(s) == deps[s] \cap failed # {}
\* After a failure that is not to be continued after, dependents are skipped
\* and the loop is left.
AfterFailure(s) == IF continue[s] THEN "run" ELSE "skip"
AfterSkip(s) == failed \cup {s}
SkippingDone == \A s \in Step : result[s] = "none" => ~ Blocked(s)
RunOutcome ==
  IF \A s \in Step : result[s] \in {"none", "success"} THEN "completed" ELSE "failed"

SkipStep ==
  /\ Running
  /\ Blocked(Current)
  /\ result' = [result EXCEPT ![Current] = "skipped"]
  /\ failed' = AfterSkip(Current)
  /\ at' = at + 1
  /\ UNCHANGED <<deps, continue, pc, stack, ordered, attempts>>

Succeed ==
  /\ Running
  /\ ~ Blocked(Current)
  /\ result' = [result EXCEPT ![Current] = "success"]
  /\ at' = at + 1
  /\ attempts' = 0
  /\ UNCHANGED <<deps, continue, pc, stack, ordered, failed>>

\* An attempt raises and another is left, after a delay.
Retry ==
  /\ Running
  /\ ~ Blocked(Current)
  /\ attempts < MaxRetries
  /\ attempts' = attempts + 1
  /\ UNCHANGED <<deps, continue, pc, stack, ordered, at, result, failed>>

\* The last attempt raises.
Fail ==
  /\ Running
  /\ ~ Blocked(Current)
  /\ attempts = MaxRetries
  /\ result' = [result EXCEPT ![Current] = "failed"]
  /\ failed' = failed \cup {Current}
  /\ at' = at + 1
  /\ attempts' = 0
  /\ pc' = AfterFailure(Current)
  /\ UNCHANGED <<deps, continue, stack, ordered>>

\* _mark_dependents_skipped: one pass finds a step, until none is left.
SkipDependent(s) ==
  /\ pc = "skip"
  /\ result[s] = "none"
  /\ Blocked(s)
  /\ result' = [result EXCEPT ![s] = "skipped"]
  /\ failed' = AfterSkip(s)
  /\ UNCHANGED <<deps, continue, pc, stack, ordered, at, attempts>>

\* The report: completed if every result in it is a success.
Report ==
  /\ \/ pc = "run" /\ at > Len(ordered)
     \/ pc = "skip" /\ SkippingDone
  /\ pc' = RunOutcome
  /\ UNCHANGED <<deps, continue, stack, ordered, at, attempts, result, failed>>

WorkflowNext ==
  \/ RejectUnknown \/ Leave \/ Accept
  \/ \E s \in Step : VisitStep(s) \/ VisitDependency(s) \/ SkipDependent(s)
  \/ SkipStep \/ Succeed \/ Retry \/ Fail \/ Report

WorkflowSpec == WorkflowInit /\ [][WorkflowNext]_workflowVars

-----------------------------------------------------------------------------
(* Properties.                                                             *)

Ended == pc \in {"completed", "failed"}
Ran(s) == result[s] \in {"success", "failed"}

\* A definition is cyclic if some of its steps each need another of them.
Cyclic == \E S \in SUBSET Step : S # {} /\ \A s \in S : deps[s] \cap S # {}

\* The variables keep their types; no step is visited or reported twice.
WorkflowTypeOK ==
  /\ deps \in [Step -> SUBSET (Step \cup {Unknown})]
  /\ continue \in [Step -> BOOLEAN]
  /\ pc \in {"visit", "run", "skip", "rejected", "completed", "failed"}
  /\ stack \in Seq([step: Step, left: SUBSET Step]) \/ \E s \in Step : Unknown \in deps[s]
  /\ ordered \in Seq(Step)
  /\ at \in 1..Steps + 1
  /\ attempts \in 0..MaxRetries
  /\ result \in [Step -> {"none", "success", "failed", "skipped"}]
  /\ failed = {s \in Step : result[s] \in {"failed", "skipped"}}

\* A definition is run only if its dependencies are steps and form no cycle,
\* and refused only if not (engine.py:348-370).
CyclesRefused ==
  LET unfit == Cyclic \/ \E s \in Step : Unknown \in deps[s]
  IN  /\ pc = "rejected" => unfit
      /\ pc \in {"run", "skip", "completed", "failed"} => ~ unfit

\* No step runs before all it depends on has succeeded, whatever fails and
\* whatever is continued after (engine.py:167-189).
DependenciesSucceeded == \A s \in Step : Ran(s) => \A d \in deps[s] : result[d] = "success"

\* A run follows its definition: both of the above (engine.py run_workflow).
DefinitionFollowed == CyclesRefused /\ DependenciesSucceeded
=============================================================================
