SPECIFICATION Spec
CONSTANTS
  None = None
  Optimized = TRUE
  Batches <- Copies
  QueryResults <- CopyInQuery
  ExecuteResults <- CopyInExecute
  Payloads = {p1}
  Repeated = FALSE
  EarlyCopyErrors = TRUE
  MaxXacts = 2
  MaxChunks = 0
  MaxGarbage = 0
  MaxNotifies = 0
  MaxFaults = 0
INVARIANTS
  RepliesMatch
CHECK_DEADLOCK FALSE
