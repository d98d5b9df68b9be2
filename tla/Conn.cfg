SPECIFICATION ConnectionsSpec
CONSTANTS
  None = None
  Optimized = FALSE
  Batches <- Statements
  QueryResults <- SomeResults
  ExecuteResults <- SomeRows
  Payloads = {p1}
  Repeated = FALSE
  EarlyCopyErrors = FALSE
  MaxXacts = 2
  MaxChunks = 0
  MaxGarbage = 0
  MaxNotifies = 1
  MaxFaults = 0
INVARIANTS
  ConnTypeOK
  RepliesMatch
  InSync
  StateAgrees
  NotificationsComplete
  FailuresKnown
CHECK_DEADLOCK FALSE
