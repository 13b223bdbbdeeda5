\* One behaviour exercises one part; the bounds of the others are in the module.
SPECIFICATION MCSpec
\* Three nodes: in Raft two elections in a row and a ring that overflows; in the
\* other elections two crashes or revivals.  Two snapshots.  In the rings nodes that
\* collide, slots for a node to join again, and nodes that fill up.
CONSTANTS
  N = 3
  RaftQueueCap = 3
  MaxLog = 1
  MaxTerm = 2
  priority <- MCPriority
  ElectionQueueCap = 9
  MaxPending = 2
  MaxFaults = 2
  Process = {0, 1, 2}
  WallTimes = {0, 1}
  MaxEvents = 4
  Channels <- MCChannels
  MaxInflight = 7
  MaxSends = 1
  MaxResets = 1
  CapNodes = 3
  MaxWrites = 4
  Generals = 4
  M = 1
  Commanders = {0, 1}
  Ids = {1, 2, 5}
  Keys = {0, 3}
  hash_space = 8
  FingerCount = 3
  MaxNodes = 3
  MaxKeys = 2
  MaxSlots = 5
  NumVnodes = 2
INVARIANTS
  OneLeaderPerTerm
  SeenDecides
  ClocksFollowCausality
  QuorumsPrevail
PROPERTIES
  KeysHandedOver
  ElectionsAndGossipEnd
CHECK_DEADLOCK FALSE
