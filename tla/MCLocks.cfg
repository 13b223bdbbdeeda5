\* Two owners, two resources, queues of two, a clock of four ticks; Redlock on
\* three nodes for one of the resources; three resources for a table of two
\* fencing tokens, of which clients present the number; three requests for a
\* cache of two, each sent at most twice.
SPECIFICATION MCSpec
CONSTANTS
  Resources = {r1, r2}
  Owners = {o1, o2}
  NoOwner = nobody
  MaxLocks = 2
  QueueSize = 1
  DefaultLease = 2
  Leases = {1, 2}
  MaxTime = 3
  MaxLease = 3
  N = 3
  Quorum = 2
  Resource = r1
  Lease = 2
  Retry = FALSE
  Protected = {a, b, c}
  Clients = {o1, o2}
  MaxTokens = 2
  ByPointer = FALSE
  MaxCounter = 6
  Requests = {x, y, z}
  Results = {ok, failed}
  CacheSize = 2
  MaxRetries = 1
  MaxLru = 6
INVARIANTS
  MutualExclusion
  PromiseKept
  OneHolder
  NothingLeftBehind
  OnceAndInOrder
CHECK_DEADLOCK FALSE
