SPECIFICATION FairSpec
CONSTANTS
  Threads = {t1, t2, t3}
  Heap = Heap
  NoOwner = NoOwner
  Nobody = Nobody
  fl_max_to_alloc = 2
  fl_num_per_alloc = 2
  MemoryBound = 3
  InitBound = 2
  AllocMayFail = TRUE
INVARIANT AtMostMax
INVARIANT CountIsExact
INVARIANT WaitersAreCounted
INVARIANT SleepersAreWoken
PROPERTY Progress
