\* Violation run: RmvolRefusesOnlyNonEmpty
\* one mkvol that fails after publishing <name>/id, then one rmvol
SPECIFICATION Spec
CONSTANTS
  Callers = {p1, p2}
  Sharding = 1
  Replica = 1
  Hosts = {h1, h2}
  Disks = {1}
  Views <- MCViews
  Solo = FALSE
  MaxCalls = 2
  MaxCrash = 0
  MaxRetry = 1
  MaxWait = 1
  MaxChildren = 1
  p1 = p1
  p2 = p2
  h1 = h1
  h2 = h2
PROPERTY RmvolRefusesOnlyNonEmpty
\* the callers stop after MaxCalls calls
CHECK_DEADLOCK FALSE
