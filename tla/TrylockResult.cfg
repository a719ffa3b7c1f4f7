SPECIFICATION MCSpec
CONSTANTS
  Threads = {t1, t2, t3}
  Items = {x, y, z}
  Ghost = Ghost
  NULL = NULL
  NoOwner = NoOwner
  ObjectThreads = {t1, t2}
  Objects = {o1, o2}
  Classes <- MCClasses
  BaseClass = "object"
  Parent <- MCParent
  HasConstruct <- MCHasConstruct
  HasDestruct <- MCHasDestruct
  Nobody = Nobody
  increment = 1
  StoreOrder = TRUE
  AtomicThreads = {t1, t2}
  Ports <- MCPorts
  Requests <- MCRequests
  WordBits = 2
  IntBits = 1
  FirstWords = {3}
  MaxCalls = 3
  CondThreads = {t1, t2, t3}
  Builds <- MCBuilds
  MaxSignaled = 3
  HookThreads = {t1, t2}
  Functions = {f, g}
  Cells = {a, b, c}
CHECK_DEADLOCK FALSE
INVARIANT TrylockAsPromised
