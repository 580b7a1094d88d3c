\* Violation run: Termination.  As MCMemHugepage.cfg, but a caller asks for
\* 5 units (3 pages) from entries of 4: nothing in mem_hugepage_new bounds
\* the size by memcache_seg.
CONSTANTS
  t1 = t1
  t2 = t2
  Threads <- MCThreads
  Count = 2
  Seg = 4
  PageSize = 2
  Sizes = {1, 5}
  MaxAllocs = 4
  MaxRef = 1
  InitOffsets = {0}
  NoThread = NoThread
SPECIFICATION Spec
PROPERTY Termination
CHECK_DEADLOCK FALSE
