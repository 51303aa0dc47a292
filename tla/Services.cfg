SPECIFICATION Spec
CONSTANTS
  Caller = {r1, r2, r3}
  Admin = {a1, a2}
  Limits = {2}
  Percents = {50}
  Months = 2
  MaxCalls = 3
  MaxEdits = 2
  MaxBroken = 1
  Steps = 3
  MaxRetries = 1
  Last = 2
  Worker = {a1, a2}
  Provider = {p1, p2}
  Model = {m1, m2}
  MaxRequests = 3
  MaxEnded = 1
  Conversation = {c1}
  Request = {r1, r2, r3}
  Window = {0, 1}
  MaxFeedback = 1
SYMMETRY Ids
INVARIANTS
  AlertedOnce DefinitionFollowed
  HistoryIsWhole AloneIsKept
  ParsedIfReadable
PROPERTIES
  FreshKept
CHECK_DEADLOCK FALSE
