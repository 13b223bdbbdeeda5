\* Optimistic: two transactions on three keys, with a table and read and write
\* sets of two.  Multi-version: three transactions, two at a time, on two keys
\* with three version slots.  Log: two transactions on two keys, six records, one
\* crash.
SPECIFICATION MCSpec
CONSTANTS
  Keys = {e1, e2, e3}
  Values = {nothing, v}
  Empty = nothing
  Txns = {f1, f2}
  MaxKeys = 2
  MaxTxn = 2
  MaxVersion = 5
  MvKeys = {f1, f2}
  MvValues = {a, b}
  None = none
  MvTxns = {e1, e2, e3}
  MaxMvKeys = 2
  MaxVersions = 3
  MaxMvTxn = 2
  WalKeys = {f1, f2}
  WalValues = {a, b}
  Absent = none
  WalTxns = {"t1", "t2"}
  MaxRecords = 6
  MaxTracked = 2
  MaxLsn = 6
  MaxCrashes = 1
SYMMETRY Symmetry
INVARIANTS
  Serializable
  SnapshotIsolation
PROPERTY
  RecoveryExact
CHECK_DEADLOCK FALSE
