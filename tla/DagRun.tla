------------------------------- MODULE DagRun -------------------------------
(* What an ingestion DAG run promises its operator: nodes complete one     *)
(* after another and never again, a run that failed keeps what it had      *)
(* completed and can be reopened, and a run that says "completed" has      *)
(* completed every node.                                                   *)
EXTENDS Naturals

CONSTANT Last   \* the number of nodes

VARIABLES done, outcome

vars == <<done, outcome>>

Init == done = 0 /\ outcome = "running"

Advance ==
  /\ outcome = "running"
  /\ done < Last
  /\ done' = done + 1
  /\ UNCHANGED outcome

Halt ==
  /\ outcome = "running"
  /\ done < Last
  /\ outcome' = "completed_with_failures"
  /\ UNCHANGED done

Complete ==
  /\ outcome = "running"
  /\ done = Last
  /\ outcome' = "completed"
  /\ UNCHANGED done

\* A resume reopens a failed run; a task delivered twice reopens any run.
Reopen ==
  /\ outcome # "running"
  /\ outcome' = "running"
  /\ UNCHANGED done

Next == Advance \/ Halt \/ Complete \/ Reopen

Spec == Init /\ [][Next]_vars
=============================================================================
