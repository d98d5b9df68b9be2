SPECIFICATION TestFairSpec
CONSTANTS
  None = None
  h1 = h1
  h2 = h2
  Hosts = {h1, h2}
  HostList <- TwoHosts
  Workers = {w1}
  Accounts = {a1, a2}
  Sessions = {1, 2, 3, 4}
  Operations = 1
  ReconnectAttempt = 1
  AtomicIncrement = TRUE
  MaxBlind = 1
  Remains = 1
  Proxied = FALSE
  Timeouts = TRUE
  Crashes = FALSE
  Signals = FALSE
  MaxFaults = 1
  MaxSignals = 1
PROPERTIES
  EndsUnlessMainDied
