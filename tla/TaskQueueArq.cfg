SPECIFICATION FairSpec
CONSTANTS
  p1 = p1
  p2 = p2
  q1 = q1
  q2 = q2
  q3 = q3
  w1 = w1
  w2 = w2
  Task = {t1, t2}
  Run = {r1, r2, r3}
  Dir = {d1}
  Proc = {p1, p2}
  Req = {q1, q2}
  Worker = {w1, w2}
  ProcOf <- ArqProcs
  Durable = TRUE
  Faults = {"request", "crash", "redelivery"}
  MaxFaults = 1
  None = None
PROPERTY EverySubmittedTaskEnds
