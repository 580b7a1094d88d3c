\* md_mkvol / md_rmvol of one name by two concurrent metadata servers
SPECIFICATION Spec
CONSTANTS
  Callers = {p1, p2}
  Sharding = 2
  Replica = 1
  Hosts = {h1, h2}
  Disks = {1}
  Views <- MCViews
  Solo = FALSE
  MaxCalls = 3
  MaxCrash = 1
  MaxRetry = 1
  MaxWait = 1
  MaxChildren = 1
  p1 = p1
  p2 = p2
  h1 = h1
  h2 = h2
INVARIANT TypeOK
PROPERTY MkvolPublishes
PROPERTY MkvolAfterMkvolIsEEXIST
PROPERTY Termination
PROPERTY PlacementSpread
PROPERTY RmvolErases
\* the callers stop after MaxCalls calls
CHECK_DEADLOCK FALSE
