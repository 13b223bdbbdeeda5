\* A second crash after the first recovery.
SPECIFICATION WalSpec
CONSTANTS
  WalKeys = {k1}
  WalValues = {a, b}
  Absent = absent
  WalTxns = {t1, t2}
  MaxRecords = 8
  MaxTracked = 2
  MaxLsn = 5
  MaxCrashes = 2
INVARIANT
  RecoveryAlwaysExact
CHECK_DEADLOCK FALSE
