\* Safety and liveness of the engine: two calls on one chunk, io_sync set.
CONSTANTS
  Reqs = {r1, r2}
  Chunks = {c1}
  c1 = c1
  c2 = c2
  SectorUnits = 2
  ChunkUnits = 4
  Offsets = {0, 1, 2}
  Sizes = {1, 2}
  IoSync = TRUE
  Zero = Zero
  Garbage = Garbage
  NotAcked = NotAcked
SPECIFICATION Spec
INVARIANT TypeOK
INVARIANT ResourcesScoped
PROPERTY RoundTrip
PROPERTY Termination
CHECK_DEADLOCK FALSE
