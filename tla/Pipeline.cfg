SPECIFICATION PipelineSpec
CONSTANTS
  Exec = {e1, e2}
  Last = 3
  MaxSerial = 2
  MaxShared = 2
  MaxRetries = 1
  MaxFaults = 1
  Item = {a, b}
  Requester = {r1, r2, r3}
  RunType = {"audited", "silent"}
  MaxRequests = 3
  MaxLost = 1
INVARIANTS
  CompletedIsPrefix FailureRecorded
  FailuresNotHidden NewestVersionNamed
PROPERTIES
  ImplementsDagRun SuccessIsKept
SYMMETRY Ids
CHECK_DEADLOCK FALSE
