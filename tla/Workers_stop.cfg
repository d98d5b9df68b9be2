SPECIFICATION FairSpec
CONSTANTS
  None = None
  h1 = h1
  h2 = h2
  Hosts = {h1}
  HostList <- OneHost
  Workers = {w1, w2}
  Accounts = {a1, a2}
  Sessions = {1, 2, 3}
  Operations = 1
  ReconnectAttempt = 1
  AtomicIncrement = FALSE
  MaxBlind = 0
  Remains = 1
  Proxied = TRUE
  Timeouts = FALSE
  Crashes = TRUE
  Signals = TRUE
  MaxFaults = 1
INVARIANTS
  NoAbandonedTransaction
PROPERTIES
  EventuallyAllStopped
