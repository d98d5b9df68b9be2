SPECIFICATION DriverSpec
CONSTANTS
  None = None
  Parts = {"cursors", "blocks", "streams", "alocks", "notifications", "settings",
           "establish", "buffers", "copy", "cluster", "parameters", "dbapi", "types", "config", "temporal"}
  N = 3
  All = All
  Calls <- MCCalls
  Inverted = {"ABSOLUTE", "RELATIVE", "FROM_END"}
  Blocks = {1, 2, 3}
  MaxWork = 2
  Streams = {1, 2}
  ChunkSize = 2
  MaxRows = 3
  Databases = {"x", "y"}
  ALock <- MCALock
  MaxCount = 1
  Conns = {"x", "y"}
  MaxSent = 2
  Keys = {"r", "u"}
  Reported = {"r"}
  Values = {0, 1}
  MaxBlocks = 2
  Endpoints = {1, 2}
  Servers <- MCServers
  Batches <- MCBatches
  Block = 2
  MaxWrites = 3
  Receivers = {"r1", "r2"}
  Sources <- MCSources
  Chunk = 5
  MaxFaults = 1
  Pids = {1, 2}
  MaxCalls = 3
  Environments <- MCEnvironments
  Bases <- MCBases
  CommandLines <- MCCommandLines
  ServiceFiles <- MCServiceFiles
  UserFile = "user"
  PassFile <- MCPassFile
  DbCursors = {"c"}
  FewRows = 0
  Builtin = {"i"}
  Catalog <- MCCatalog
  RecordOf <- MCRecordOf
  NewColumns <- MCNewColumns
  Identified = {"h"}
  Files <- MCFiles
  Updates <- MCUpdates
  Conn = {1, 2, 3, 4}
  MaxDepth = 2
  MaxMishaps = 2
INVARIANTS
  DriverTypeOK
  DurableAsTold
  BlockEnds
  StreamsComplete
  HeldAsCounted
  NotifiesInOrder
  CacheTruthful
  EstablishedAsAsked
  CopyAligned
  KeepsItsServer
  StrongestSourceWins
  DbApiPromises
  TypesUnderstood
  ConfigAsAsked
  SandboxesEnd
PROPERTIES
  CursorMirrors
  DeliversWhatWasSent
CHECK_DEADLOCK FALSE
