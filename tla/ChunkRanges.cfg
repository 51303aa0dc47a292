SPECIFICATION IndexSpec
CONSTANTS
  Last = 1
  Empty = {}
  Indexer = {i1}
  Editor = {d1}
  MaxEdits = 0
  MaxRuns = 0
  MaxFaults = 0
  Alphabet <- Letters
  MaxLength <- Longest
  MaxSize = 3
  Thread = {t1}
  Limit = 1
  MaxFailures = 1
  Window = 1
  Lockout = 1
  MaxTime = 0
INVARIANTS
  RangesLocate
CHECK_DEADLOCK FALSE
