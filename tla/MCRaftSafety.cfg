\* Three nodes, one term: two leaders of the same term commit different values.
SPECIFICATION Spec
CONSTANTS
  N = 3
  Commands = {x, y}
  MaxLog = 1
  MaxBatch = 1
  MaxTerm = 1
  MaxDown = 1
INVARIANT
  StateMachineSafety
