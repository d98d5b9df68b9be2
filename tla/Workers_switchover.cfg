SPECIFICATION Spec
CONSTANTS
  None = None
  h1 = h1
  h2 = h2
  Hosts = {h1, h2}
  HostList <- TwoHosts
  Workers = {w1}
  Accounts = {a1, a2}
  Sessions = {1, 2, 3, 4, 5, 6, 7, 8}
  Operations = 2
  ReconnectAttempt = 1
  AtomicIncrement = TRUE
  MaxBlind = 2
  Remains = 1
  Proxied = FALSE
  Timeouts = TRUE
  Crashes = TRUE
  Signals = FALSE
  MaxFaults = 2
SYMMETRY Symmetry
INVARIANTS
  HostsKept
  LeaksBounded
