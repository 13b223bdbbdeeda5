-------------------------------- MODULE Wal ---------------------------------
(***************************************************************************)
(* mini-dist-transaction/src/wal.c: an ARIES-style write-ahead log and its  *)
(* recovery, with the database it protects.  The log manager is code; the   *)
(* database (the ctx of the redo and undo callbacks), the pages on disk,    *)
(* strict two-phase locking and the crash are external and are modelled as  *)
(* the theorem at the head of wal.c assumes them: a change is logged before *)
(* it is made, a page is written only when the log is flushed up to its     *)
(* last change, a commit flushes the log, a checkpoint writes all pages,    *)
(* and a crash loses the buffered pages and the unflushed end of the log.   *)
(***************************************************************************)
EXTENDS Integers, Sequences, FiniteSets, SequencesExt

CONSTANTS
  WalKeys, WalValues,
  Absent,       \* the value of a key that does not exist
  WalTxns,      \* transactions, each begun at most once
  MaxRecords,   \* WAL_MAX_RECORDS
  MaxTracked,   \* size of the analysis' table of transactions
  MaxLsn,       \* bound of the model: no record is written beyond it
  MaxCrashes    \* bound of the model: how often the system crashes

NoTxn == "none"

ASSUME WalAssumption == NoTxn \notin WalTxns /\ MaxTracked \in Nat

VARIABLES
  wm,      \* the WALManager
  db,      \* the database in memory
  disk,    \* the pages on stable storage
  walTxn,     \* what each transaction is doing
  mode,    \* "up", "down" after a crash, "recovered" right after recovery
  crashes,
  truth    \* history variable: what the committed transactions have written

walVars == <<wm, db, disk, walTxn, mode, crashes, truth>>

WALRecord ==
  [ lsn       : Nat,
    type      : {"DATA", "BEGIN", "COMMIT", "ABORT", "CHECKPOINT"},
    txn_id    : WalTxns \cup {NoTxn},
    key       : WalKeys \cup {NoTxn},
    old_value : WalValues \cup {Absent},
    new_value : WalValues \cup {Absent} ]

WALManager ==
  [ records        : Seq(WALRecord),
    next_lsn       : Nat,
    flushed_lsn    : Nat,
    checkpoint_lsn : Nat,
    write_pos      : Nat,
    flush_pos      : Nat,
    is_circular    : BOOLEAN ]

-----------------------------------------------------------------------------
(* The log.                                                                  *)

wal_manager_init ==
  [ records |-> <<>>, next_lsn |-> 1, flushed_lsn |-> 0, checkpoint_lsn |-> 0,
    write_pos |-> 0, flush_pos |-> 0, is_circular |-> FALSE ]

(* An INSERT has no old value and a DELETE no new one: the three kinds of     *)
(* data record differ in nothing else.                                        *)
wal_record_init(type, t, k, old, new) ==
  [ lsn |-> 0, type |-> type, txn_id |-> t, key |-> k,
    old_value |-> old, new_value |-> new ]

Mark(type, t) == wal_record_init(type, t, NoTxn, Absent, Absent)

(* A full log starts again at the front and overwrites its oldest records.    *)
wal_append(w, rec) ==
  LET new  == [rec EXCEPT !.lsn = w.next_lsn]
      n    == Len(w.records)
      full == n >= MaxRecords
      at   == IF w.is_circular THEN w.write_pos ELSE 0
  IN  [w EXCEPT !.records = IF full THEN [@ EXCEPT ![at + 1] = new] ELSE Append(@, new),
                !.write_pos = IF full THEN (at + 1) % MaxRecords ELSE n,
                !.is_circular = @ \/ full,
                !.next_lsn = @ + 1]

wal_flush(w) ==
  [w EXCEPT !.flushed_lsn = w.next_lsn - 1, !.flush_pos = w.write_pos]

wal_flush_to(w, target) ==
  LET end == w.next_lsn - 1
      to  == IF target < end THEN target ELSE end
  IN  [w EXCEPT !.flushed_lsn = IF to > @ THEN to ELSE @,
                !.flush_pos = w.write_pos]

(* The record goes behind the last one even when the array is full, and       *)
(* write_pos is left alone.                                                   *)
wal_checkpoint(w) ==
  [w EXCEPT !.records = Append(@, [Mark("CHECKPOINT", NoTxn) EXCEPT !.lsn = w.next_lsn]),
            !.checkpoint_lsn = w.next_lsn,
            !.next_lsn = @ + 1]

-----------------------------------------------------------------------------
(* The three passes of recovery.  Redo and undo set a key to a value, so of   *)
(* all records for a key only the last one applied shows.                     *)

Positions(w) == 1 .. Len(w.records)

Ended(w, t) ==
  \E i \in Positions(w) :
    w.records[i].txn_id = t /\ w.records[i].type \in {"COMMIT", "ABORT"}

Logged(w) == {t \in WalTxns : \E i \in Positions(w) : w.records[i].txn_id = t}

FirstOf(w, t) ==
  CHOOSE i \in Positions(w) :
    /\ w.records[i].txn_id = t
    /\ \A j \in Positions(w) : w.records[j].txn_id = t => i <= j

(* The first MaxTracked transactions of the log get an entry.                 *)
Tracked(w) ==
  {t \in Logged(w) :
     Cardinality({s \in Logged(w) : FirstOf(w, s) < FirstOf(w, t)}) < MaxTracked}

(* Of these, the ones that have no end in the log.                            *)
wal_analyze_pass(w) == {t \in Tracked(w) : ~Ended(w, t)}

RedoOf(w, start, k) ==
  {i \in Positions(w) : /\ w.records[i].type = "DATA"
                        /\ w.records[i].key = k
                        /\ w.records[i].lsn >= start}

wal_redo_pass(w, start, image) ==
  [k \in WalKeys |->
     LET rs == RedoOf(w, start, k)
     IN  IF rs = {} THEN image[k]
         ELSE w.records[CHOOSE i \in rs : \A j \in rs : j <= i].new_value]

UndoOf(w, losers, k) ==
  {i \in Positions(w) : /\ w.records[i].type = "DATA"
                        /\ w.records[i].key = k
                        /\ w.records[i].txn_id \in losers}

(* Mutant: the log is walked forwards.                                        *)
UndoForwards(w, losers, image) ==
  [k \in WalKeys |->
     LET rs == UndoOf(w, losers, k)
     IN  IF rs = {} THEN image[k]
         ELSE w.records[CHOOSE i \in rs : \A j \in rs : j <= i].old_value]

(* Backwards: the first change a loser made to a key is undone last.          *)
wal_undo_pass(w, losers, image) ==
  [k \in WalKeys |->
     LET rs == UndoOf(w, losers, k)
     IN  IF rs = {} THEN image[k]
         ELSE w.records[CHOOSE i \in rs : \A j \in rs : i <= j].old_value]

-----------------------------------------------------------------------------
WalInit ==
  /\ wm = wal_manager_init
  /\ db = [k \in WalKeys |-> Absent]
  /\ disk = db
  /\ walTxn = [t \in WalTxns |-> "new"]
  /\ mode = "up"
  /\ crashes = 0
  /\ truth = db

CanLog == mode # "down" /\ wm.next_lsn <= MaxLsn

Begin(t) ==
  /\ CanLog
  /\ walTxn[t] = "new"
  /\ walTxn' = [walTxn EXCEPT ![t] = "active"]
  /\ wm' = wal_append(wm, Mark("BEGIN", t))
  /\ mode' = "up"
  /\ UNCHANGED <<db, disk, crashes, truth>>

(* The key is locked by an active transaction that has changed it.            *)
LockedBy(k) ==
  {t \in WalTxns : /\ walTxn[t] = "active"
                /\ \E i \in Positions(wm) : /\ wm.records[i].type = "DATA"
                                            /\ wm.records[i].key = k
                                            /\ wm.records[i].txn_id = t}

(* INSERT, UPDATE or DELETE: logged, then made in memory.                     *)
Change(t, k, v) ==
  /\ CanLog
  /\ walTxn[t] = "active"
  /\ LockedBy(k) \subseteq {t}
  /\ v # db[k]
  /\ wm' = wal_append(wm, wal_record_init("DATA", t, k, db[k], v))
  /\ db' = [db EXCEPT ![k] = v]
  /\ mode' = "up"
  /\ UNCHANGED <<disk, walTxn, crashes, truth>>

(* The write-ahead rule: the log is flushed up to the page's last change.     *)
WritePage(k) ==
  /\ mode = "up"
  /\ db[k] # disk[k]
  /\ LET lsns == {wm.records[i].lsn : i \in RedoOf(wm, 0, k)}
     IN  wm' = IF lsns = {} THEN wm
               ELSE wal_flush_to(wm, CHOOSE l \in lsns : \A m \in lsns : m <= l)
  /\ disk' = [disk EXCEPT ![k] = db[k]]
  /\ UNCHANGED <<db, walTxn, mode, crashes, truth>>

Commit(t) ==
  /\ CanLog
  /\ walTxn[t] = "active"
  /\ walTxn' = [walTxn EXCEPT ![t] = "committed"]
  /\ wm' = wal_flush(wal_append(wm, Mark("COMMIT", t)))
  /\ truth' = [k \in WalKeys |-> IF t \in LockedBy(k) THEN db[k] ELSE truth[k]]
  /\ mode' = "up"
  /\ UNCHANGED <<db, disk, crashes>>

(* All pages are written, then the checkpoint record.  The array holds the    *)
(* record: beyond WAL_MAX_RECORDS the code writes past its end.               *)
Checkpoint ==
  /\ CanLog
  /\ Len(wm.records) < MaxRecords
  /\ wm' = wal_checkpoint(wal_flush(wm))
  /\ disk' = db
  /\ mode' = "up"
  /\ UNCHANGED <<db, walTxn, crashes, truth>>

(* The records that a crash leaves, in their order.                           *)
Kept(w) ==
  LET kept == {i \in Positions(w) : w.records[i].lsn <= w.flushed_lsn}
      Nth(n) == CHOOSE i \in kept : Cardinality({j \in kept : j <= i}) = n
  IN  [n \in 1 .. Cardinality(kept) |-> w.records[Nth(n)]]

Crash ==
  /\ mode # "down"
  /\ crashes < MaxCrashes
  /\ crashes' = crashes + 1
  /\ mode' = "down"
  /\ LET n == Len(Kept(wm))
     IN  wm' = [wm EXCEPT !.records = Kept(wm),
                          !.next_lsn = wm.flushed_lsn + 1,
                          !.checkpoint_lsn = IF @ <= wm.flushed_lsn THEN @ ELSE 0,
                          !.write_pos = IF n = 0 THEN 0 ELSE n - 1,
                          !.flush_pos = IF n = 0 THEN 0 ELSE n - 1]
  /\ db' = disk
  /\ walTxn' = [t \in WalTxns |-> IF walTxn[t] = "active" THEN "lost" ELSE walTxn[t]]
  /\ UNCHANGED <<disk, truth>>

(* The losers in the order in which the analysis meets them.                  *)
LoserSeq(w) ==
  SetToSortSeq(wal_analyze_pass(w), LAMBDA s, t : FirstOf(w, s) < FirstOf(w, t))

(* Redo from the last checkpoint, undo the losers, log their abortion.        *)
wal_recover ==
  LET start == IF wm.checkpoint_lsn > 0 THEN wm.checkpoint_lsn ELSE 1
      redone == wal_redo_pass(wm, start, db)
  IN  /\ mode = "down"
      /\ db' = wal_undo_pass(wm, wal_analyze_pass(wm), redone)
      /\ wm' = wal_flush(FoldLeft(LAMBDA w, t : wal_append(w, Mark("ABORT", t)),
                                  wm, LoserSeq(wm)))
      /\ mode' = "recovered"
      /\ UNCHANGED <<disk, walTxn, crashes, truth>>

WalNext ==
  \/ \E t \in WalTxns :
       \/ Begin(t) \/ Commit(t)
       \/ \E k \in WalKeys, v \in WalValues \cup {Absent} : Change(t, k, v)
  \/ \E k \in WalKeys : WritePage(k)
  \/ Checkpoint
  \/ Crash
  \/ wal_recover

WalSpec == WalInit /\ [][WalNext]_walVars

-----------------------------------------------------------------------------
(* Properties.                                                               *)

(* Types; the log array is not overrun.                                      *)
WalTypeOK ==
  /\ wm \in WALManager
  /\ Len(wm.records) <= MaxRecords
  /\ db \in [WalKeys -> WalValues \cup {Absent}]
  /\ disk \in [WalKeys -> WalValues \cup {Absent}]

(* The first theorem of wal.c: recovery after the first crash restores exactly *)
(* what the committed transactions wrote, nothing of the losers, from whatever *)
(* mixture of pages had reached the disk and from whatever part of the log;    *)
(* provided that the log has not wrapped around, and that every transaction    *)
(* in it found an entry in the analysis' table.                                *)
RecoveryRestores ==
  (mode = "down" /\ mode' = "recovered" /\ crashes = 1
   /\ ~wm.is_circular /\ Cardinality(Logged(wm)) <= MaxTracked) => db' = truth'

RecoveryExact == [][RecoveryRestores]_walVars

(* The same after every crash: the database "can be recovered to a consistent *)
(* state ... UNDO: reverse all uncommitted changes" (head of wal.c).          *)
RecoveryAlwaysExact ==
  mode = "recovered" => db = truth
=============================================================================
