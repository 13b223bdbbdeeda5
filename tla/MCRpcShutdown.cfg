\* The server and the shutdown of it, beside the other parts as in MCRpc.cfg.
SPECIFICATION MCSpec
CONSTANTS
  WorkerCounts = {0, 1}
  QueueSize = 3
  MaxConnections = 3
  PoolAddresses = {"a", "b", "c"}
  PoolConnections = 2
  MaxPool = 2
  MaxFd = 4
  Names = {"rate_limit", "logging", "metrics"}
  MaxChain = 3
  MaxAdds = 3
  MaxLimiters = 2
  MaxPerSecond = 2
  MaxTime = 2
  MaxStreams = 1
  AnyVersion = 9
  HighWatermark = 1
  MaxOpens = 2
  MaxChunks = 4
  Services = {"s"}
  Service = "s"
  Methods = {"m"}
  Hosts = {"a", "b"}
  MaxServices = 2
  MaxInstances = 2
  MaxDispatch = 1
  StaleAfter = 0
  StubConnections = 3
  MaxContexts = 0
  Timeout = 0
  Period = 2
  TickLength = 0
  MaxCalls = 2
  MaxDepth = 0
  Messages = {1, 2, 3}
  PacketIds = {1, 2}
  MaxTrackers = 2
  MaxDelivered = 2
  ClientIds = {"x", "y"}
  MaxClients = 3
  MaxSubs = 2
  IdOf <- MCIdOf
  Qos <- MCQos
  Filters <- MCFilters
  Topics <- MCTopics
INVARIANT
  QueueDrained
CHECK_DEADLOCK FALSE
