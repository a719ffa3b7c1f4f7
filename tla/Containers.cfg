SPECIFICATION MCSpec
CONSTANTS
  Threads = {t1, t2}
  Values = {v1, v2}
  NULL = NULL
  INT_MAX = 100
  HANDLE_MAX = 8
  InitialAllocation = 2
  MaxSize = 6
  BlockSize = 1
  IndexBound = 6
  MemoryBound = 6
  KeysUint32 <- MCKeysUint32
  KeysUint64 <- MCKeysUint64
  KeysPtr <- MCKeysPtr
  TableValues = {v1, v2}
  TableSizes = {0, 1, 2}
  Round = 2
  Word = 1024
  CapacityBound = 11
  Lists = {"l1", "l2"}
  ListItems = {"i1", "i2", "i3"}
  Rank <- MCRank
  LengthBound = 3
  Bitmaps = {"b1", "b2"}
  CharBits = 2
  BitsMax = 8
  BitBound = 3
  ItemValues = {1, 2}
  Junk = 0
  ArrayBound = 4
  TreeKeys = {1, 2, 3, 4, 5}
  TreeValues = {1}
  MaxNodes = 5
  Vertices = {"u", "v", "w", "x"}
  Edges <- MCEdges
  Infinity = 127
  Uint32 = 256
  UncountedBound = 3
CHECK_DEADLOCK FALSE
INVARIANT CountsFree
INVARIANT LowestIsFree
INVARIANT NoOverrun
INVARIANT TableFindsWhatWasSet
INVARIANT LinksFollowContents
INVARIANT ArraysHoldTheirContents
INVARIANT TreeIsOrderedAndBalanced
INVARIANT GraphIsSound
PROPERTY Reserves
PROPERTY RemovalEnds
PROPERTY TreeSettles
