\* One behaviour exercises one part; the bounds of the others are in the module.
SPECIFICATION MCSpec
CONSTANTS
\* Two services for a table of one; two hosts for one pool of two connections,
\* two ticks to a second.
  Services = {s, t}
  Addresses = {a, b}
  MaxServices = 1
  MaxEndpoints = 2
  Ttl = 1
  FailureLimit = 3
  RRPeriod = 2
  Hosts = {h, k}
  Borrowers = {x, y}
  MaxPools = 1
  MaxConn = 2
  MaxRequests = 2
  MaxIdle = 2
  MaxLife = 2
  TicksPerSecond = 2
  MaxTime = 2
\* Three callers overlap; two failures open, two probes close.
  Callers = {c1, c2, c3}
  failure_threshold = 2
  success_threshold = 2
  half_open_max_requests = 2
  timeout_ms = 2
\* Half a token comes back per tick, two fit into the bucket; the sliding log
\* admits one more than it has slots.
  Clients = {x, y}
  Nobody = nobody
  MaxClients = 1
  Cost = 2
  Rate = 1
  Burst = 4
  Window = 2
  max_requests = 3
  RL_MAX_TIMESTAMPS = 2
  Start = 2
  MaxClock = 6
  MaxLog = 7
\* A chain of three of the five handlers; two routes.
  Handlers = {"auth", "logger", "cors", "compressor", "timeout"}
  MaxChain = 3
  MaxStore = 2
  RoutePaths <- MCRoutePaths
  Methods = {"GET", "PUT"}
  Plugins = {"AUTH", "CACHE"}
  Protections <- MCProtections
  MaxRoutes = 2
  MaxPlugins = 1
  RouteCost = 1
  RouteRate = 1
  MaxGatewayTime = 1
\* A proxy without a default backend.
  Messages <- MCMessages
  ProxyPaths <- MCProxyPaths
  Rules <- MCRules
  HasBackend = FALSE
  MaxChunks = 3
  MaxAccepted = 2
INVARIANTS
  PoolAccounts
  RateWithinLimit
  ServersInRotation
  RequestsRelayed
PROPERTIES
  RefusalEnds
  KeysStay
CHECK_DEADLOCK FALSE
