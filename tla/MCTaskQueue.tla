----------------------------- MODULE MCTaskQueue -----------------------------
(* Small instances of TaskQueue for TLC.                                   *)
EXTENDS TaskQueue, TLC

CONSTANTS p1, p2, q1, q2, q3, w1, w2

\* Two API processes, the first with two request threads, the second with one,
\* and each with one pool thread.
PoolProcs == (q1 :> p1) @@ (q2 :> p1) @@ (q3 :> p2) @@ (w1 :> p1) @@ (w2 :> p2)

\* One API process, and one ARQ worker process with two job slots.
ArqProcs == (q1 :> p1) @@ (q2 :> p1) @@ (w1 :> p2) @@ (w2 :> p2)

Ids == Permutations(Task) \cup Permutations(Run) \cup Permutations(Dir)
=============================================================================
