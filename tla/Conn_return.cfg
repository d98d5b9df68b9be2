SPECIFICATION FairSpec
CONSTANTS
  None = None
  Optimized = TRUE
  Batches <- Copies
  QueryResults <- CopyInQuery
  ExecuteResults <- CopyInExecute
  Payloads = {p1}
  Repeated = FALSE
  EarlyCopyErrors = TRUE
  MaxXacts = 2
  MaxChunks = 1
  MaxGarbage = 1
  MaxNotifies = 0
  MaxFaults = 1
PROPERTIES
  CallsReturn
CHECK_DEADLOCK FALSE
