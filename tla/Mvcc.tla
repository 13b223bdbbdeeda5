-------------------------------- MODULE Mvcc --------------------------------
(***************************************************************************)
(* mini-dist-transaction/src/mvcc.c: a multi-version store with snapshot    *)
(* isolation.  Every key has a chain of versions, here a sequence from the  *)
(* oldest to the newest (rec->head is its last element); all chains share   *)
(* one array of MVCC_MAX_VERSIONS slots.  The calls of different            *)
(* transactions interleave; each call runs alone.                           *)
(*                                                                          *)
(* A version leaves the status MVCC_REC_INIT in the call that creates it,   *)
(* so every version of a chain is committed and the status is left out.     *)
(* committed is a history variable: the transactions for which              *)
(* mvcc_txn_commit returned true.                                           *)
(***************************************************************************)
EXTENDS Integers, Sequences, FiniteSets

CONSTANTS
  MvKeys, MvValues,
  None,         \* what mvcc_snapshot_read returns when no version is visible
  MvTxns,       \* the transaction handles, each begun at most once
  MaxMvKeys,    \* MVCC_MAX_KEYS
  MaxVersions,  \* MVCC_MAX_VERSIONS
  MaxMvTxn      \* MVCC_MAX_TXN

ASSUME MvccAssumption == MaxMvKeys \in Nat /\ MaxVersions \in Nat

VARIABLES
  mvRecords,      \* the keys that have a record
  chain,          \* the version chain of each key
  version_count,  \* slots of the version array in use
  global_ts,
  active,         \* the transactions in active_txns
  mvTxn,          \* the callers' MVCCTransaction objects
  committed

mvStore == <<mvRecords, chain, version_count>>
mvVars == <<mvStore, global_ts, active, mvTxn, committed>>

MVCCVersion == [txn_id : MvTxns, commit_ts : Nat, value : MvValues]

MVCCWrite == [key : MvKeys, value : MvValues]

MVCCTransaction ==
  [ status    : {"NEW", "ACTIVE", "COMMITTED", "ABORTED"},
    read_ts   : Nat,
    commit_ts : Nat,
    read_keys : SUBSET MvKeys,
    writes    : Seq(MVCCWrite) ]

-----------------------------------------------------------------------------
Head_(c) == c[Len(c)]

(* The versions of a chain that a snapshot may see.                          *)
VisibleIndex(c, read_ts) ==
  {i \in 1 .. Len(c) : c[i].commit_ts <= read_ts}

(* The first one met on the walk from the head, or None.                     *)
mvcc_visible_version(k, read_ts) ==
  LET seen == VisibleIndex(chain[k], read_ts)
  IN  IF seen = {} THEN None
      ELSE chain[k][CHOOSE i \in seen : \A j \in seen : j <= i].value

MvWrote(t, k) == \E i \in 1 .. Len(mvTxn[t].writes) : mvTxn[t].writes[i].key = k

WriteOf(t, k) == CHOOSE i \in 1 .. Len(mvTxn[t].writes) : mvTxn[t].writes[i].key = k

(* Mutant: the loop stops before the last key of the write set.              *)
ValidateSkipsLast(t) ==
  \A i \in 1 .. Len(mvTxn[t].writes) - 1 :
    LET c == chain[mvTxn[t].writes[i].key]
    IN  c # <<>> => Head_(c).commit_ts <= mvTxn[t].read_ts

mvcc_validate_write_set(t) ==
  \A i \in 1 .. Len(mvTxn[t].writes) :
    LET c == chain[mvTxn[t].writes[i].key]
    IN  c # <<>> => Head_(c).commit_ts <= mvTxn[t].read_ts

-----------------------------------------------------------------------------
(* mvcc_store_init.                                                          *)
MvInit ==
  /\ mvRecords = {}
  /\ chain = [k \in MvKeys |-> <<>>]
  /\ version_count = 0
  /\ global_ts = 1
  /\ active = {}
  /\ mvTxn = [t \in MvTxns |-> [ status |-> "NEW", read_ts |-> 0, commit_ts |-> 0,
                             read_keys |-> {}, writes |-> <<>> ]]
  /\ committed = {}

mvcc_txn_begin(t) ==
  /\ mvTxn[t].status = "NEW"
  /\ Cardinality(active) < MaxMvTxn
  /\ mvTxn' = [mvTxn EXCEPT ![t].status = "ACTIVE", ![t].read_ts = global_ts]
  /\ global_ts' = global_ts + 1
  /\ active' = active \cup {t}
  /\ UNCHANGED <<mvStore, committed>>

(* A read that finds a version in the store is remembered, whatever the       *)
(* status of the transaction; the transaction's own writes and misses are not.*)
mvcc_snapshot_read(t, k) ==
  /\ mvTxn[t].status # "NEW"
  /\ ~MvWrote(t, k)
  /\ mvcc_visible_version(k, mvTxn[t].read_ts) # None
  /\ mvTxn' = [mvTxn EXCEPT ![t].read_keys = @ \cup {k}]
  /\ UNCHANGED <<mvStore, global_ts, active, committed>>

mvcc_prepare_write(t, k, v) ==
  /\ mvTxn[t].status = "ACTIVE"
  /\ Len(mvTxn[t].writes) < MaxMvKeys
  /\ mvTxn' = [mvTxn EXCEPT ![t].writes =
               IF MvWrote(t, k)
               THEN [@ EXCEPT ![WriteOf(t, k)].value = v]
               ELSE Append(@, [key |-> k, value |-> v])]
  /\ UNCHANGED <<mvStore, global_ts, active, committed>>

(* mvcc_find_or_create_record, for the i-th write of t: the record exists, or *)
(* the records made for the writes before it leave room for one more.         *)
HasRecord(t, i) ==
  LET ws == mvTxn[t].writes
  IN  \/ ws[i].key \in mvRecords
      \/ Cardinality(mvRecords \cup {ws[j].key : j \in 1 .. i - 1}) < MaxMvKeys

MvRecorded(t) == {i \in 1 .. Len(mvTxn[t].writes) : HasRecord(t, i)}

(* The writes of t that get a slot of the version array, which the writes     *)
(* before them may have filled.                                               *)
Slotted(t) ==
  {i \in MvRecorded(t) :
     version_count + Cardinality({j \in MvRecorded(t) : j < i}) < MaxVersions}

(* mvcc_version_chain_append and the stamping of the head that follows it:    *)
(* without a slot nothing is appended and the old head is stamped instead.    *)
Install(t, k, ts) ==
  LET i == WriteOf(t, k)
      c == chain[k]
  IN  CASE i \in Slotted(t) ->
             Append(c, [ txn_id |-> t, commit_ts |-> ts,
                         value |-> mvTxn[t].writes[i].value ])
        [] i \notin Slotted(t) /\ c # <<>> ->
             [c EXCEPT ![Len(c)].commit_ts = ts]
        [] OTHER -> c

MvCommitValid(t) ==
  /\ mvcc_validate_write_set(t)
  /\ chain' = [k \in MvKeys |-> IF MvWrote(t, k) THEN Install(t, k, global_ts)
                              ELSE chain[k]]
  /\ mvRecords' = mvRecords \cup {mvTxn[t].writes[i].key : i \in MvRecorded(t)}
  /\ version_count' = version_count + Cardinality(Slotted(t))
  /\ mvTxn' = [mvTxn EXCEPT ![t].status = "COMMITTED", ![t].commit_ts = global_ts]
  /\ committed' = committed \cup {t}

CommitConflict(t) ==
  /\ ~mvcc_validate_write_set(t)
  /\ mvTxn' = [mvTxn EXCEPT ![t].status = "ABORTED", ![t].commit_ts = global_ts]
  /\ UNCHANGED <<mvStore, committed>>

(* The commit timestamp is taken before validation; either way the            *)
(* transaction leaves active_txns.                                            *)
mvcc_txn_commit(t) ==
  /\ mvTxn[t].status = "ACTIVE"
  /\ MvCommitValid(t) \/ CommitConflict(t)
  /\ global_ts' = global_ts + 1
  /\ active' = active \ {t}

(* No status is checked: even a committed transaction can be marked aborted.  *)
mvcc_txn_abort(t) ==
  /\ mvTxn[t].status # "NEW"
  /\ mvTxn' = [mvTxn EXCEPT ![t].status = "ABORTED"]
  /\ active' = active \ {t}
  /\ UNCHANGED <<mvStore, global_ts, committed>>

MvNext ==
  \E t \in MvTxns :
    \/ mvcc_txn_begin(t)
    \/ \E k \in MvKeys : mvcc_snapshot_read(t, k)
    \/ \E k \in MvKeys, v \in MvValues : mvcc_prepare_write(t, k, v)
    \/ mvcc_txn_commit(t)
    \/ mvcc_txn_abort(t)

MvSpec == MvInit /\ [][MvNext]_mvVars

-----------------------------------------------------------------------------
(* Properties.                                                               *)

(* Every object keeps its type and neither array is overrun.                 *)
MvTypeOK ==
  /\ mvRecords \subseteq MvKeys
  /\ chain \in [MvKeys -> Seq(MVCCVersion)]
  /\ version_count \in 0 .. MaxVersions
  /\ global_ts \in Nat \ {0}
  /\ active \subseteq MvTxns
  /\ mvTxn \in [MvTxns -> MVCCTransaction]
  /\ committed \subseteq MvTxns

(* The commit timestamps along a chain strictly increase, from a positive one *)
(* to one the oracle has already given out: mvcc_visible_version stops at the *)
(* first version it may see, mvcc_validate_write_set looks only at the head.  *)
ChainOrdered ==
  \A k \in MvKeys :
    /\ \A i \in 1 .. Len(chain[k]) :
         0 < chain[k][i].commit_ts /\ chain[k][i].commit_ts < global_ts
    /\ \A i, j \in 1 .. Len(chain[k]) :
         i < j => chain[k][i].commit_ts < chain[k][j].commit_ts

(* Neither array has been full, for the key k: no write of k was dropped.     *)
NothingDropped(k) ==
  /\ version_count < MaxVersions
  /\ k \in mvRecords \/ Cardinality(mvRecords) < MaxMvKeys

(* First committer wins: of two committed transactions that wrote the same    *)
(* key, one began after the other had committed.  No update is lost.          *)
FirstCommitterWins ==
  \A s, t \in committed, k \in MvKeys :
    ( /\ s # t
      /\ MvWrote(s, k) /\ MvWrote(t, k)
      /\ NothingDropped(k) )
    => \/ mvTxn[s].commit_ts < mvTxn[t].read_ts
       \/ mvTxn[t].commit_ts < mvTxn[s].read_ts

(* The committed writers of k whose commit a snapshot at ts includes.         *)
Before(k, ts) == {s \in committed : MvWrote(s, k) /\ mvTxn[s].commit_ts <= ts}

(* What k was at ts, by the transactions themselves: the value of the last    *)
(* committed writer, or None.                                                 *)
SnapshotValue(k, ts) ==
  LET ws == Before(k, ts)
  IN  IF ws = {} THEN None
      ELSE LET s == CHOOSE s \in ws : \A u \in ws : mvTxn[u].commit_ts <= mvTxn[s].commit_ts
           IN  mvTxn[s].writes[WriteOf(s, k)].value

(* A transaction reads from a consistent snapshot at all times of its life:   *)
(* for every key the value of the last transaction that committed before it   *)
(* began, whatever has committed since.                                       *)
SnapshotRead ==
  \A t \in MvTxns, k \in MvKeys :
    (mvTxn[t].status # "NEW" /\ NothingDropped(k)) =>
      mvcc_visible_version(k, mvTxn[t].read_ts) = SnapshotValue(k, mvTxn[t].read_ts)

(* Snapshot isolation: of two overlapping writers of a key only the first     *)
(* commits, chains are ordered by commit timestamp, and a read returns the    *)
(* newest value committed at its snapshot.                                    *)
SnapshotIsolation == MvTypeOK /\ FirstCommitterWins /\ ChainOrdered /\ SnapshotRead
=============================================================================
