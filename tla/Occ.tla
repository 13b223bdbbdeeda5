-------------------------------- MODULE Occ ---------------------------------
(***************************************************************************)
(* mini-dist-transaction/src/occ.c: optimistic concurrency control in the   *)
(* style of Kung and Robinson.  A transaction reads the shared records and  *)
(* remembers the version it saw, buffers its writes, and is validated when  *)
(* it commits.  The calls of different transactions interleave; each call   *)
(* runs alone.                                                              *)
(*                                                                          *)
(* history is a history variable: what each call of occ_txn_commit that      *)
(* returned true did.                                                       *)
(***************************************************************************)
EXTENDS Integers, Sequences, FiniteSets

CONSTANTS
  Keys, Values,
  Empty,       \* the value of a record that a read creates
  Txns,        \* the transaction handles, each begun at most once
  MaxKeys,     \* OCC_MAX_KEYS: size of the record table and of both sets
  MaxTxn,      \* OCC_MAX_TXN
  MaxVersion   \* bound of the model: global_version stops there

ASSUME OccAssumption == MaxKeys \in Nat /\ Empty \in Values

VARIABLES
  records,         \* the record table, by key
  global_version,
  active_txns,     \* copies of the transactions made when they began
  watermark,       \* low_watermark and high_watermark
  txn,             \* the callers' OCCTransaction objects
  history

store == <<records, global_version, active_txns, watermark>>
vars == <<store, txn, history>>

OCCRecord == [value : Values, version : Nat]

OCCReadEntry == [key : Keys, version_at_read : Nat]

OCCWriteEntry == [key : Keys, value : Values]

OCCTxnPhase == {"NEW", "READ", "WRITE", "COMMITTED", "ABORTED"}

OCCTransaction ==
  [ txn_id    : Txns,
    phase     : OCCTxnPhase,
    start_ts  : Nat,
    commit_ts : Nat,
    read_set  : Seq(OCCReadEntry),
    write_set : Seq(OCCWriteEntry) ]

-----------------------------------------------------------------------------
Recorded(k) == k \in DOMAIN records

(* The table has a record for k, or room for one.                            *)
HasRoom(k) == Recorded(k) \/ Cardinality(DOMAIN records) < MaxKeys

(* occ_ensure_record for a read: a new record is empty, at version 0.        *)
occ_ensure_record(k) ==
  [q \in DOMAIN records \cup {k} |->
     IF Recorded(q) THEN records[q] ELSE [value |-> Empty, version |-> 0]]

Wrote(t, k) == \E i \in 1 .. Len(txn[t].write_set) : txn[t].write_set[i].key = k

(* Mutant: the first entry of the read set is not looked at.                 *)
BackwardSkipsFirst(t) ==
  \A i \in 2 .. Len(txn[t].read_set) :
    LET re == txn[t].read_set[i]
    IN  Recorded(re.key) => records[re.key].version <= re.version_at_read

occ_backward_validation(t) ==
  \A i \in 1 .. Len(txn[t].read_set) :
    LET re == txn[t].read_set[i]
    IN  Recorded(re.key) => records[re.key].version <= re.version_at_read

(* Against the copies in active_txns, not against the live transactions.     *)
occ_forward_validation(t) ==
  \A a \in 1 .. Len(active_txns) :
    LET other == active_txns[a]
    IN  \/ other.txn_id = t
        \/ other.phase = "ABORTED"
        \/ \A r \in 1 .. Len(other.read_set) : ~Wrote(t, other.read_set[r].key)

Valid(t) == occ_backward_validation(t) /\ occ_forward_validation(t)

-----------------------------------------------------------------------------
(* occ_manager_init.                                                         *)
Init ==
  /\ records = [k \in {} |-> [value |-> Empty, version |-> 0]]
  /\ global_version = 1
  /\ active_txns = <<>>
  /\ watermark = [low |-> 1, high |-> 1]
  /\ txn = [t \in Txns |-> [ txn_id |-> t, phase |-> "NEW", start_ts |-> 0,
                             commit_ts |-> 0, read_set |-> <<>>,
                             write_set |-> <<>> ]]
  /\ history = {}

(* A slot of active_txns is never given back.                                *)
occ_txn_begin(t) ==
  /\ txn[t].phase = "NEW"
  /\ Len(active_txns) < MaxTxn
  /\ global_version < MaxVersion
  /\ LET begun == [txn[t] EXCEPT !.phase = "READ", !.start_ts = global_version]
     IN  /\ txn' = [txn EXCEPT ![t] = begun]
         /\ active_txns' = Append(active_txns, begun)
  /\ global_version' = global_version + 1
  /\ UNCHANGED <<records, watermark, history>>

(* A read of the transaction's own write changes nothing.  A read of the     *)
(* table is remembered only while the read set has room.                     *)
occ_txn_read(t, k) ==
  /\ txn[t].phase = "READ"
  /\ ~Wrote(t, k)
  /\ HasRoom(k)
  /\ records' = occ_ensure_record(k)
  /\ LET version == records'[k].version
         entry   == [key |-> k, version_at_read |-> version]
     IN  txn' = IF Len(txn[t].read_set) < MaxKeys
                THEN [txn EXCEPT ![t].read_set = Append(@, entry)]
                ELSE txn
  /\ UNCHANGED <<global_version, active_txns, watermark, history>>

occ_txn_write(t, k, v) ==
  /\ txn[t].phase = "READ"
  /\ Len(txn[t].write_set) < MaxKeys
  /\ txn' = [txn EXCEPT ![t].write_set =
               IF Wrote(t, k)
               THEN [i \in 1 .. Len(@) |->
                       IF @[i].key = k THEN [key |-> k, value |-> v] ELSE @[i]]
               ELSE Append(@, [key |-> k, value |-> v])]
  /\ UNCHANGED <<store, history>>

(* Validation alone: the phase is not looked at, only set.                   *)
occ_txn_validate(t) ==
  /\ txn[t].phase # "NEW"
  /\ txn' = [txn EXCEPT ![t].phase = IF Valid(t) THEN "WRITE" ELSE "ABORTED"]
  /\ UNCHANGED <<store, history>>

(* The writes of t that find a record or room for one, in order: a write     *)
(* beyond the capacity of the table is dropped without a word.               *)
Installed(t) ==
  {i \in 1 .. Len(txn[t].write_set) :
     LET ws == txn[t].write_set
     IN  \/ Recorded(ws[i].key)
         \/ Cardinality(DOMAIN records \cup {ws[j].key : j \in 1 .. i - 1}) < MaxKeys}

(* The write phase: every installed write gets the commit timestamp.         *)
WritePhase(t, ts) ==
  LET ws  == txn[t].write_set
      put == Installed(t)
  IN  [k \in DOMAIN records \cup {ws[i].key : i \in put} |->
         IF \E i \in put : ws[i].key = k
         THEN [ value   |-> ws[CHOOSE i \in put : ws[i].key = k].value,
                version |-> ts ]
         ELSE records[k]]

occ_advance_watermarks(w) == [low |-> w.high, high |-> global_version']

CommitValid(t) ==
  /\ Valid(t)
  /\ global_version < MaxVersion
  /\ global_version' = global_version + 1
  /\ records' = WritePhase(t, global_version)
  /\ txn' = [txn EXCEPT ![t].phase = "COMMITTED", ![t].commit_ts = global_version]
  /\ watermark' = occ_advance_watermarks(watermark)
  /\ history' = history \cup
       {[ txn    |-> t,
          ts     |-> global_version,
          reads  |-> {txn[t].read_set[i] : i \in 1 .. Len(txn[t].read_set)},
          writes |-> {txn[t].write_set[i].key : i \in 1 .. Len(txn[t].write_set)} ]}
  /\ UNCHANGED active_txns

CommitRefused(t) ==
  /\ ~Valid(t)
  /\ txn' = [txn EXCEPT ![t].phase = "ABORTED"]
  /\ UNCHANGED <<store, history>>

(* Commit validates again; like validation it does not look at the phase.    *)
occ_txn_commit(t) ==
  /\ txn[t].phase # "NEW"
  /\ CommitValid(t) \/ CommitRefused(t)

occ_txn_abort(t) ==
  /\ txn[t].phase # "NEW"
  /\ txn' = [txn EXCEPT ![t].phase = "ABORTED"]
  /\ UNCHANGED <<store, history>>

Next ==
  \E t \in Txns :
    \/ occ_txn_begin(t)
    \/ \E k \in Keys : occ_txn_read(t, k)
    \/ \E k \in Keys, v \in Values \ {Empty} : occ_txn_write(t, k, v)
    \/ occ_txn_validate(t)
    \/ occ_txn_commit(t)
    \/ occ_txn_abort(t)

Spec == Init /\ [][Next]_vars

-----------------------------------------------------------------------------
(* Properties.                                                               *)

(* Every object keeps its type; the read and write sets never outgrow their  *)
(* arrays.                                                                   *)
TypeOK ==
  /\ DOMAIN records \subseteq Keys
  /\ records \in [DOMAIN records -> OCCRecord]
  /\ global_version \in Nat \ {0}
  /\ active_txns \in Seq(OCCTransaction)
  /\ watermark \in [low : Nat, high : Nat]
  /\ txn \in [Txns -> OCCTransaction]
  /\ \A t \in Txns : /\ Len(txn[t].read_set) <= MaxKeys
                     /\ Len(txn[t].write_set) <= MaxKeys

(* What c read of a key was still the newest value of that key when c         *)
(* committed: no transaction that comes before c in the order of commit       *)
(* timestamps overwrote the key after the read.                               *)
Current(c, re) ==
  ~ \E d \in history :
      /\ re.key \in d.writes
      /\ re.version_at_read < d.ts
      /\ d.ts < c.ts

ReadsCurrent ==
  \A c \in history : \A re \in c.reads : Current(c, re)

(* Serializability in commit order, the theorem at the head of occ.c, for the *)
(* reads that the read set remembers.                                         *)
Serializable == TypeOK /\ ReadsCurrent
=============================================================================
