SPECIFICATION Spec
CONSTANTS
  None = None
  h1 = h1
  h2 = h2
  Hosts = {h1, h2}
  HostList <- OneHost
  Workers = {w1, w2}
  Accounts = {a1, a2}
  Sessions = {1, 2, 3}
  Operations = 2
  ReconnectAttempt = 1
  AtomicIncrement = TRUE
  MaxBlind = 0
  Remains = 1
  Proxied = TRUE
  Timeouts = FALSE
  Crashes = FALSE
  Signals = FALSE
  MaxFaults = 1
INVARIANTS
  BackendContinuesWork
