\* Three nodes, two terms, logs of two entries, one node isolated at a time.
SPECIFICATION Spec
CONSTANTS
  N = 3
  Commands = {x}
  MaxLog = 2
  MaxBatch = 2
  MaxTerm = 2
  MaxDown = 1
INVARIANTS
  LogTermsSorted
  VotedForStarted
PROPERTY
  NeverBack
VIEW LeaderView
