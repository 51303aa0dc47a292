SPECIFICATION Spec
CONSTANTS
  Last = 1
  Empty = {}
  Indexer = {i1}
  Editor = {d1}
  MaxEdits = 1
  MaxRuns = 1
  MaxFaults = 0
INVARIANTS
  EditNotLost
CHECK_DEADLOCK FALSE
