SPECIFICATION Spec
CONSTANTS
  p1 = p1
  p2 = p2
  q1 = q1
  q2 = q2
  q3 = q3
  w1 = w1
  w2 = w2
  Task = {t1, t2, t3}
  Run = {r1, r2, r3, r4}
  Dir = {d1}
  Proc = {p1, p2}
  Req = {q1, q2, q3}
  Worker = {w1, w2}
  ProcOf <- PoolProcs
  Durable = FALSE
  Faults = {"request", "database", "crash"}
  MaxFaults = 1
  None = None
SYMMETRY Ids
INVARIANTS
  LinearHistory
  RunMatchesTask StagingAccounted
PROPERTY ImplementsRetryChain
