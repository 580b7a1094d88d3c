\* inode calls on one file by two clients, attribute cache off
SPECIFICATION Spec
CONSTANTS
  Clients = {k1, k2}
  ServerOf <- MCServerOf
  AcTimeout = FALSE
  Ops <- MCOps
  Sizes = {1, 2}
  MaxLinks = 4
  MaxOps = 3
  MaxRetry = 1
  NoClient = NoClient
  k1 = k1
  k2 = k2
  s1 = s1
  s2 = s2
INVARIANT TypeOK
PROPERTY AtomicUnderKlock
PROPERTY Termination
PROPERTY ExtendNeverShrinks
\* the clients stop after MaxOps calls
CHECK_DEADLOCK FALSE
