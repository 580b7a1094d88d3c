\* Violation run: AtomicUnderKlock with the attribute cache on (the default ac_timeout)
SPECIFICATION Spec
CONSTANTS
  Clients = {k1, k2}
  ServerOf <- MCServerOf
  AcTimeout = TRUE
  Ops <- MCOps
  Sizes = {1, 2}
  MaxLinks = 4
  MaxOps = 3
  MaxRetry = 1
  NoClient = NoClient
  k1 = k1
  k2 = k2
  s1 = s1
  s2 = s2
PROPERTY AtomicUnderKlock
\* the clients stop after MaxOps calls
CHECK_DEADLOCK FALSE
