\* Three acceptors and two proposers with numbers that wrap around after two
\* rounds; the bounds of the other components are in the module.
SPECIFICATION MCSpec
CONSTANTS
  N = 3
  Values = {1, 2}
  Stride = 2
  Proposers = {0, 1}
  Pids = {0, 1}
  DataValues = {0, 1, 2}
  Copies = 2
  Width = 3
  Keys = {1}
  MaxKeys = 1
  DkvValues = {1, 2}
  MaxCount = 2
  Garbage = {0, 1}
  Clients = {0, 1}
  Locks = {0, 1}
  HeldSize = 2
  DefaultTtl = 2
  Ttls = {0, 1, 7}
  TimeWidth = 8
  MaxTime = 3
  MaxClock = 3
  MaxLog = 1
  Tries = 3
  MaxNum = 12
  Peers = 3
  GossipKeys = {1}
  GossipValues = {1}
  MaxDataKeys = 2
  Fanout = 1
  Topologies = {"ring", "random"}
  Degree = 0
  MaxDown = 1
  MaxVersion = 3
  Members = 2
  JoinIds = {1, 7}
  MaxMembers = 3
  Period = 2
  DeadTimeout = 2
  Deltas = {1, 2}
  MaxInc = 1
  MaxProtocolTime = 3
  ReplicaCount = 3
  EcKeys = {0, 1}
  EcValues = {1}
  Versions = {1, 2}
  MaxData = 2
  MaxWrites = 3
  MaxFaults = 3
INVARIANTS
  AcceptedWithinPromise
  RightNodeLeads
  ReportsTrue
  LeasesKept
  SuspicionEnds
PROPERTIES
  ImplementsConsensus
  NothingTakenBack
  Converges
CHECK_DEADLOCK FALSE
