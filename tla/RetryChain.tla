----------------------------- MODULE RetryChain -----------------------------
(***************************************************************************)
(* What the task runtime promises its operators, with no request, queue or *)
(* worker in sight: a task is submitted once, finishes once, stays as it   *)
(* finished, and is followed by at most one retry.                         *)
(***************************************************************************)
CONSTANTS Task, None

VARIABLES phase,  \* "absent", "live" (pending or running), "done"
          next    \* the retry that follows a task

vars == <<phase, next>>

Init == /\ phase = [t \in Task |-> "absent"]
        /\ next = [t \in Task |-> None]

\* A new operation: a task without history.
Submit(t) == /\ phase[t] = "absent"
             /\ phase' = [phase EXCEPT ![t] = "live"]
             /\ UNCHANGED next

\* The task completes or fails, for good.
Finish(t) == /\ phase[t] = "live"
             /\ phase' = [phase EXCEPT ![t] = "done"]
             /\ UNCHANGED next

\* A finished task that was not retried yet gets its only successor.
Retry(t, u) == /\ phase[t] = "done"
               /\ next[t] = None
               /\ phase[u] = "absent"
               /\ phase' = [phase EXCEPT ![u] = "live"]
               /\ next' = [next EXCEPT ![t] = u]

Next == \E t \in Task : \/ Submit(t) \/ Finish(t)
                        \/ \E u \in Task : Retry(t, u)

Spec == Init /\ [][Next]_vars
=============================================================================
