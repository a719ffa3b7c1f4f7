SPECIFICATION Spec
CONSTANTS
  Threads = {t1, t2}
  Heap = Heap
  NoOwner = NoOwner
  Nobody = Nobody
  fl_max_to_alloc = 1
  fl_num_per_alloc = 1
  MemoryBound = 1
  InitBound = 1
  AllocMayFail = FALSE
INVARIANT BlockedUntilReturned
