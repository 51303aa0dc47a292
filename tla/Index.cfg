SPECIFICATION IndexSpec
CONSTANTS
  Last = 2
  Empty = {}
  Indexer = {i1, i2}
  Editor = {d1}
  MaxEdits = 2
  MaxRuns = 2
  MaxFaults = 1
  Alphabet <- Letters
  MaxLength <- Longest
  MaxSize = 3
  Thread = {t1, t2}
  Limit = 2
  MaxFailures = 2
  Window = 2
  Lockout = 2
  MaxTime = 4
INVARIANTS
  CurrentIsTruthful
  ChunksAreTheText
  LimitsHold
PROPERTIES
  RunsEnd
CHECK_DEADLOCK FALSE
