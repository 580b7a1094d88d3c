\* Two threads on a pool of three entries of four units, pages of two units:
\* sizes 1 and 3 round up to 2 and 4, so an entry holds two small pieces or
\* one large one; with five pieces a request moves past a busy entry and
\* wraps around from the last entry to the first.  ymalloc'ed offsets are
\* taken as zero (the pool is fresh).
CONSTANTS
  t1 = t1
  t2 = t2
  Threads <- MCThreads
  Count = 3
  Seg = 4
  PageSize = 2
  Sizes = {1, 3}
  MaxAllocs = 5
  MaxRef = 1
  InitOffsets = {0}
  NoThread = NoThread
SPECIFICATION Spec
INVARIANT TypeOK NoOverlap 
PROPERTY Termination DestroyOnlyWhenDrained
\* The model stops after MaxAllocs pieces once every piece is released,
\* and once the pool is destroyed.
CHECK_DEADLOCK FALSE
