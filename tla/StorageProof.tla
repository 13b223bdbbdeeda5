---------------------------- MODULE StorageProof ----------------------------
(***************************************************************************)
(* Proofs for the storage engines: optimistic transactions are serializable *)
(* in commit order, multi-version transactions run under snapshot           *)
(* isolation, and recovery from the write-ahead log restores exactly what   *)
(* was committed, whatever the numbers of keys, values, transactions, slots *)
(* and records.                                                             *)
(***************************************************************************)
EXTENDS Occ, Mvcc, Wal, TLAPS, FiniteSetTheorems, WellFoundedInduction

(* A set of natural numbers that is not empty has a least element, and one    *)
(* that is bounded has a greatest.                                            *)
LEMMA LeastExists ==
  ASSUME NEW S, S \subseteq Nat, S # {}
  PROVE  \E x \in S : \A y \in S : x <= y
<1> DEFINE R == {p \in Nat \X Nat : p[1] < p[2]}
<1>1. IsWellFoundedOn(R, Nat)
  BY NatLessThanWellFounded, Zenon DEF OpToRel
<1>2. PICK x \in S : \A y \in S : ~(<<y, x>> \in R)
  <2> HIDE DEF R
  <2> QED
    BY <1>1, WFMin
<1>3. ASSUME NEW y \in S, y < x
      PROVE  FALSE
  <2>1. <<y, x>> \in Nat \X Nat
    OBVIOUS
  <2> QED
    BY <1>2, <1>3, <2>1
<1> QED
  BY <1>3

LEMMA GreatestExists ==
  ASSUME NEW n \in Nat, NEW S, S \subseteq 0 .. n, S # {}
  PROVE  \E x \in S : \A y \in S : y <= x
<1> DEFINE T == {n - x : x \in S}
<1>0. \A x \in S : n - x \in Nat
  OBVIOUS
<1>1. T \subseteq Nat /\ T # {}
  BY <1>0
<1>2. \A x \in S : n - x \in T
  OBVIOUS
<1>3. \A z \in T : \E x \in S : z = n - x
  OBVIOUS
<1> HIDE DEF T
<1>4. PICK z \in T : \A y \in T : z <= y
  BY <1>1, LeastExists
<1>5. PICK x \in S : z = n - x
  BY <1>3
<1>6. \A y \in S : n - x <= n - y
  BY <1>2, <1>4, <1>5
<1> QED
  BY <1>6

(* The first elements of a finite list make a finite set.                     *)
LEMMA FiniteImage ==
  ASSUME NEW n \in Nat, NEW s
  PROVE  IsFiniteSet({s[j].key : j \in 1 .. n})
<1> DEFINE T == {s[j].key : j \in 1 .. n}
           f == [j \in 1 .. n |-> s[j].key]
<1>1. IsFiniteSet(1 .. n)
  BY FS_Interval
<1>2. f \in Surjection(1 .. n, T)
  BY DEF Surjection
<1> HIDE DEF f, T
<1>3. IsFiniteSet(T)
  BY <1>1, <1>2, FS_Surjection
<1> QED
  BY <1>3 DEF T

-----------------------------------------------------------------------------
(***************************************************************************)
(* Optimistic concurrency control.  A record's version is at least the      *)
(* timestamp of every commit that wrote its key.  So when a transaction     *)
(* passes the backward validation, no commit so far has overwritten what it *)
(* read, and later commits have later timestamps.  A write that the full    *)
(* table drops leaves no version behind: it matters to nobody, because no   *)
(* key that is missing from a full table can be read.                       *)
(***************************************************************************)

Remembered ==
  \A t \in Txns : \A i \in 1 .. Len(txn[t].read_set) :
    txn[t].read_set[i].key \in DOMAIN records

Stamped ==
  \A d \in history : \A k \in d.writes :
    IF k \in DOMAIN records THEN d.ts <= records[k].version
    ELSE Cardinality(DOMAIN records) >= MaxKeys

OccHistory ==
  [txn : Txns, ts : Nat, reads : SUBSET OCCReadEntry, writes : SUBSET Keys]

OccInv ==
  /\ TypeOK
  /\ IsFiniteSet(DOMAIN records)
  /\ history \subseteq OccHistory
  /\ \A d \in history : d.ts < global_version
  /\ Remembered
  /\ Stamped
  /\ ReadsCurrent

LEMMA OccFacts ==
  ASSUME OccInv
  PROVE  /\ DOMAIN records \subseteq Keys /\ IsFiniteSet(DOMAIN records)
         /\ Cardinality(DOMAIN records) \in Nat
         /\ records \in [DOMAIN records -> OCCRecord]
         /\ \A k \in DOMAIN records : records[k].version \in Nat /\ records[k].value \in Values
         /\ global_version \in Nat \ {0}
         /\ txn \in [Txns -> OCCTransaction]
         /\ \A t \in Txns :
              /\ txn[t] \in OCCTransaction
              /\ txn[t].read_set \in Seq(OCCReadEntry) /\ txn[t].write_set \in Seq(OCCWriteEntry)
              /\ Len(txn[t].read_set) <= MaxKeys /\ Len(txn[t].write_set) <= MaxKeys
         /\ \A d \in history : d.ts \in Nat /\ d.writes \subseteq Keys /\ d.reads \subseteq OCCReadEntry
         /\ MaxKeys \in Nat
<1>1. /\ DOMAIN records \subseteq Keys /\ IsFiniteSet(DOMAIN records)
      /\ records \in [DOMAIN records -> OCCRecord]
      /\ global_version \in Nat \ {0}
      /\ txn \in [Txns -> OCCTransaction]
      /\ \A t \in Txns : Len(txn[t].read_set) <= MaxKeys /\ Len(txn[t].write_set) <= MaxKeys
      /\ MaxKeys \in Nat
  BY OccAssumption DEF OccInv, TypeOK
<1>2. Cardinality(DOMAIN records) \in Nat
  BY <1>1, FS_CardinalityType
<1>3. \A k \in DOMAIN records : records[k] \in OCCRecord
  BY <1>1
<1>4. \A k \in DOMAIN records : records[k].version \in Nat /\ records[k].value \in Values
  BY <1>3 DEF OCCRecord
<1>5. \A t \in Txns : txn[t] \in OCCTransaction
  BY <1>1
<1>6. \A t \in Txns : txn[t].read_set \in Seq(OCCReadEntry) /\ txn[t].write_set \in Seq(OCCWriteEntry)
  BY <1>5 DEF OCCTransaction
<1>7. \A d \in history : d.ts \in Nat /\ d.writes \subseteq Keys /\ d.reads \subseteq OCCReadEntry
  BY DEF OccInv, OccHistory
<1> QED
  BY <1>1, <1>2, <1>4, <1>5, <1>6, <1>7

(* A step that leaves the records, the history and the clock alone and, of    *)
(* one transaction, changes the phase or the write set only.                  *)
LEMMA OccLocal ==
  ASSUME OccInv, NEW t \in Txns, NEW x \in OCCTransaction, txn' = [txn EXCEPT ![t] = x],
         x.read_set = txn[t].read_set, Len(x.write_set) <= MaxKeys, UNCHANGED <<store, history>>
  PROVE  OccInv'
<1>1. UNCHANGED <<records, global_version, active_txns, watermark, history>>
  BY DEF store
<1>2. txn' \in [Txns -> OCCTransaction] /\ \A s \in Txns : txn'[s].read_set = txn[s].read_set
  BY OccFacts
<1>3. \A s \in Txns : Len(txn'[s].read_set) <= MaxKeys /\ Len(txn'[s].write_set) <= MaxKeys
  BY <1>2, OccFacts
<1> QED
  BY <1>1, <1>2, <1>3 DEF OccInv, TypeOK, Remembered, Stamped, ReadsCurrent, Current

(* A transaction with another phase.                                          *)
LEMMA OccPhase ==
  ASSUME NEW x \in OCCTransaction, NEW p \in OCCTxnPhase
  PROVE  LET y == [x EXCEPT !.phase = p] IN
         y \in OCCTransaction /\ y.read_set = x.read_set /\ y.write_set = x.write_set
  BY DEF OCCTransaction

LEMMA OccSetPhase ==
  ASSUME OccInv, NEW t \in Txns, NEW p \in OCCTxnPhase,
         txn' = [txn EXCEPT ![t].phase = p], UNCHANGED <<store, history>>
  PROVE  OccInv'
<1> DEFINE x == [txn[t] EXCEPT !.phase = p]
<1>1. x \in OCCTransaction /\ x.read_set = txn[t].read_set /\ x.write_set = txn[t].write_set
  BY OccFacts, OccPhase
<1>2. txn' = [txn EXCEPT ![t] = x]
  OBVIOUS
<1> HIDE DEF x
<1> QED
  BY <1>1, <1>2, OccFacts, OccLocal

(* The write phase keeps every record, stamps the written ones, and fills the *)
(* table when it drops a write.                                               *)
LEMMA WritePhaseFacts ==
  ASSUME OccInv, NEW t \in Txns, NEW ts \in Nat
  PROVE  LET w == WritePhase(t, ts) IN
         /\ DOMAIN records \subseteq DOMAIN w /\ DOMAIN w \subseteq Keys /\ IsFiniteSet(DOMAIN w)
         /\ w \in [DOMAIN w -> OCCRecord]
         /\ \A k \in DOMAIN w : w[k].version = ts \/ (k \in DOMAIN records /\ w[k] = records[k])
         /\ \A i \in 1 .. Len(txn[t].write_set) :
              IF txn[t].write_set[i].key \in DOMAIN w
              THEN w[txn[t].write_set[i].key].version = ts
              ELSE Cardinality(DOMAIN w) >= MaxKeys
<1> DEFINE ws == txn[t].write_set
           n == Len(ws)
           put == Installed(t)
           w == WritePhase(t, ts)
<1>0. /\ ws \in Seq(OCCWriteEntry) /\ n \in Nat /\ MaxKeys \in Nat
      /\ DOMAIN records \subseteq Keys /\ IsFiniteSet(DOMAIN records)
      /\ records \in [DOMAIN records -> OCCRecord]
  BY OccFacts
<1>1. \A i \in 1 .. n : ws[i] \in OCCWriteEntry
  BY <1>0
<1>2. \A i \in 1 .. n : ws[i].key \in Keys /\ ws[i].value \in Values
  BY <1>1 DEF OCCWriteEntry
<1>3. put \subseteq 1 .. n
  BY DEF Installed
<1> DEFINE D == DOMAIN records \cup {ws[i].key : i \in put}
<1>4. /\ DOMAIN w = D
      /\ \A k \in D :
           w[k] = IF \E i \in put : ws[i].key = k
                  THEN [value |-> ws[CHOOSE i \in put : ws[i].key = k].value, version |-> ts]
                  ELSE records[k]
  BY DEF WritePhase
<1>5. w = [k \in D |-> w[k]]
  BY DEF WritePhase
<1> HIDE DEF w, put, D
<1>6. D \subseteq Keys /\ DOMAIN records \subseteq D
  BY <1>0, <1>2, <1>3 DEF D
<1>7. IsFiniteSet(D)
  <2>1. IsFiniteSet({ws[j].key : j \in 1 .. n})
    BY <1>0, FiniteImage
  <2>2. {ws[i].key : i \in put} \subseteq {ws[j].key : j \in 1 .. n}
    BY <1>3
  <2>3. IsFiniteSet({ws[i].key : i \in put})
    BY <2>1, <2>2, FS_Subset
  <2> QED
    BY <1>0, <2>3, FS_Union DEF D
<1>8. ASSUME NEW k \in D, \E i \in put : ws[i].key = k
      PROVE  w[k] \in OCCRecord /\ w[k].version = ts
  <2> DEFINE i == CHOOSE i \in put : ws[i].key = k
  <2>1. i \in put
    BY <1>8
  <2>2. w[k] = [value |-> ws[i].value, version |-> ts]
    BY <1>4, <1>8
  <2> HIDE DEF i
  <2> QED
    BY <1>2, <1>3, <2>1, <2>2 DEF OCCRecord
<1>9. ASSUME NEW k \in D, ~\E i \in put : ws[i].key = k
      PROVE  k \in DOMAIN records /\ w[k] = records[k]
  BY <1>4, <1>9 DEF D
<1>10. w \in [D -> OCCRecord]
  BY <1>0, <1>5, <1>8, <1>9
<1>11. \A k \in D : w[k].version = ts \/ (k \in DOMAIN records /\ w[k] = records[k])
  BY <1>8, <1>9
<1>12. ASSUME NEW i \in 1 .. n, i \notin put
       PROVE  Cardinality(D) >= MaxKeys
  <2> DEFINE S == {j \in 1 .. n : j \notin put}
  <2>1. S \subseteq Nat /\ S # {}
    BY <1>12
  <2>2. PICK m \in S : \A j \in S : m <= j
    BY <2>1, LeastExists
  <2>3. \A j \in 1 .. m - 1 : j \in put
    BY <1>0, <2>2
  <2> DEFINE P == DOMAIN records \cup {ws[j].key : j \in 1 .. m - 1}
  <2>4. P \subseteq D
    BY <2>3 DEF D
  <2>5. ~(Cardinality(P) < MaxKeys)
    BY <2>2 DEF put, Installed
  <2>6. Cardinality(P) <= Cardinality(D) /\ Cardinality(P) \in Nat /\ Cardinality(D) \in Nat
    BY <1>7, <2>4, FS_Subset, FS_CardinalityType
  <2> QED
    BY <1>0, <2>5, <2>6
<1>13. ASSUME NEW i \in 1 .. n
       PROVE  IF ws[i].key \in D THEN w[ws[i].key].version = ts ELSE Cardinality(D) >= MaxKeys
  <2>1. CASE i \in put
    <3>1. ws[i].key \in D
      BY <2>1 DEF D
    <3> QED
      BY <1>8, <2>1, <3>1
  <2>2. CASE i \notin put
    <3>1. ws[i].key \notin DOMAIN records
      BY <2>2 DEF put, Installed, Recorded
    <3>2. ws[i].key \in D => w[ws[i].key].version = ts
      BY <1>8, <1>9, <3>1
    <3> QED
      BY <1>12, <2>2, <3>2
  <2> QED
    BY <2>1, <2>2
<1> QED
  BY <1>4, <1>6, <1>7, <1>10, <1>11, <1>13 DEF w

LEMMA OccBegin ==
  ASSUME OccInv, NEW t \in Txns, occ_txn_begin(t)
  PROVE  OccInv'
<1> DEFINE x == [txn[t] EXCEPT !.phase = "READ", !.start_ts = global_version]
<1>0. global_version \in Nat \ {0} /\ txn \in [Txns -> OCCTransaction] /\ txn[t] \in OCCTransaction
      /\ active_txns \in Seq(OCCTransaction)
  BY OccFacts DEF OccInv, TypeOK
<1>1. /\ x \in OCCTransaction /\ x.read_set = txn[t].read_set /\ x.write_set = txn[t].write_set
  BY <1>0 DEF OCCTransaction, OCCTxnPhase
<1>2. /\ txn' = [txn EXCEPT ![t] = x] /\ active_txns' = Append(active_txns, x)
      /\ global_version' = global_version + 1 /\ UNCHANGED <<records, watermark, history>>
  BY DEF occ_txn_begin
<1> HIDE DEF x
<1>3. /\ txn' \in [Txns -> OCCTransaction]
      /\ \A s \in Txns : /\ txn'[s].read_set = txn[s].read_set
                         /\ txn'[s].write_set = txn[s].write_set
  BY <1>0, <1>1, <1>2
<1>4. active_txns' \in Seq(OCCTransaction) /\ global_version' \in Nat \ {0}
  BY <1>0, <1>1, <1>2
<1>5. TypeOK'
  BY <1>2, <1>3, <1>4 DEF OccInv, TypeOK
<1>6. \A d \in history' : d.ts < global_version'
  BY <1>0, <1>2, OccFacts DEF OccInv
<1> QED
  BY <1>2, <1>3, <1>5, <1>6 DEF OccInv, Remembered, Stamped, ReadsCurrent, Current

LEMMA OccRead ==
  ASSUME OccInv, NEW t \in Txns, NEW k \in Keys, occ_txn_read(t, k)
  PROVE  OccInv'
<1>0. /\ txn \in [Txns -> OCCTransaction] /\ txn[t] \in OCCTransaction
      /\ txn[t].read_set \in Seq(OCCReadEntry)
      /\ DOMAIN records \subseteq Keys /\ IsFiniteSet(DOMAIN records)
      /\ Cardinality(DOMAIN records) \in Nat /\ MaxKeys \in Nat
      /\ records \in [DOMAIN records -> OCCRecord]
      /\ \A s \in Txns : Len(txn[s].read_set) <= MaxKeys /\ Len(txn[s].write_set) <= MaxKeys
  BY OccFacts
<1>1. /\ HasRoom(k) /\ records' = occ_ensure_record(k)
      /\ UNCHANGED <<global_version, active_txns, watermark, history>>
  BY DEF occ_txn_read
<1>2. /\ DOMAIN records' = DOMAIN records \cup {k}
      /\ \A q \in DOMAIN records' :
           records'[q] = IF q \in DOMAIN records THEN records[q]
                         ELSE [value |-> Empty, version |-> 0]
  BY <1>1 DEF occ_ensure_record, Recorded
<1>3. records' \in [DOMAIN records' -> OCCRecord]
  <2>1. [value |-> Empty, version |-> 0] \in OCCRecord
    BY OccAssumption DEF OCCRecord
  <2>2. records' = [q \in DOMAIN records' |-> records'[q]]
    BY <1>1 DEF occ_ensure_record
  <2>3. \A q \in DOMAIN records' : records'[q] \in OCCRecord
    BY <1>0, <1>2, <2>1
  <2> QED
    BY <2>2, <2>3
<1>4. IsFiniteSet(DOMAIN records')
  BY <1>0, <1>2, FS_AddElement
<1> DEFINE version == records'[k].version
           entry == [key |-> k, version_at_read |-> version]
<1>5. entry \in OCCReadEntry
  <2>1. records'[k] \in OCCRecord
    BY <1>2, <1>3
  <2> QED
    BY <2>1 DEF OCCRecord, OCCReadEntry
<1>6. txn' = (IF Len(txn[t].read_set) < MaxKeys
              THEN [txn EXCEPT ![t].read_set = Append(@, entry)] ELSE txn)
  BY DEF occ_txn_read
<1>7. entry.key = k
  OBVIOUS
<1> HIDE DEF entry
<1>8. /\ txn' \in [Txns -> OCCTransaction]
      /\ \A s \in Txns : /\ Len(txn'[s].read_set) <= MaxKeys /\ Len(txn'[s].write_set) <= MaxKeys
                         /\ \A i \in 1 .. Len(txn'[s].read_set) :
                              txn'[s].read_set[i].key \in DOMAIN records'
  <2>1. \A s \in Txns : \A i \in 1 .. Len(txn[s].read_set) :
          txn[s].read_set[i].key \in DOMAIN records'
    BY <1>2 DEF OccInv, Remembered
  <2>2. CASE Len(txn[t].read_set) < MaxKeys
    <3> DEFINE q == Append(txn[t].read_set, entry)
               x == [txn[t] EXCEPT !.read_set = q]
    <3>1. q \in Seq(OCCReadEntry) /\ Len(q) = Len(txn[t].read_set) + 1 /\ Len(q) <= MaxKeys
      BY <1>0, <1>5, <2>2
    <3>2. \A i \in 1 .. Len(q) : q[i].key \in DOMAIN records'
      BY <1>0, <1>2, <1>7, <2>1, <3>1
    <3> HIDE DEF q
    <3>3. x \in OCCTransaction /\ x.read_set = q /\ x.write_set = txn[t].write_set
      BY <1>0, <3>1 DEF OCCTransaction
    <3>4. txn' = [txn EXCEPT ![t] = x]
      BY <1>6, <2>2 DEF q
    <3> HIDE DEF x
    <3> QED
      BY <1>0, <2>1, <3>1, <3>2, <3>3, <3>4
  <2>3. CASE ~(Len(txn[t].read_set) < MaxKeys)
    BY <1>0, <1>6, <2>1, <2>3
  <2> QED
    BY <2>2, <2>3
<1>9. TypeOK'
  BY <1>0, <1>1, <1>2, <1>3, <1>8 DEF OccInv, TypeOK
<1>10. Stamped'
  <2> SUFFICES ASSUME NEW d \in history, NEW q \in d.writes
               PROVE  IF q \in DOMAIN records' THEN d.ts <= records'[q].version
                      ELSE Cardinality(DOMAIN records') >= MaxKeys
    BY <1>1 DEF Stamped
  <2>1. IF q \in DOMAIN records THEN d.ts <= records[q].version
        ELSE Cardinality(DOMAIN records) >= MaxKeys
    BY DEF OccInv, Stamped
  <2>2. CASE q \in DOMAIN records
    BY <1>2, <2>1, <2>2
  <2>3. CASE q \notin DOMAIN records
    <3>1. Recorded(k)
      BY <1>0, <1>1, <2>1, <2>3 DEF HasRoom
    <3>2. DOMAIN records' = DOMAIN records
      BY <1>2, <3>1 DEF Recorded
    <3> QED
      BY <2>1, <2>3, <3>2
  <2> QED
    BY <2>2, <2>3
<1> QED
  BY <1>1, <1>4, <1>8, <1>9, <1>10 DEF OccInv, Remembered, ReadsCurrent, Current

LEMMA OccWrite ==
  ASSUME OccInv, NEW t \in Txns, NEW k \in Keys, NEW v \in Values, occ_txn_write(t, k, v)
  PROVE  OccInv'
<1> DEFINE ws == txn[t].write_set
           e == [key |-> k, value |-> v]
           q == IF Wrote(t, k)
                THEN [i \in 1 .. Len(ws) |-> IF ws[i].key = k THEN e ELSE ws[i]]
                ELSE Append(ws, e)
           x == [txn[t] EXCEPT !.write_set = q]
<1>0. txn[t] \in OCCTransaction /\ ws \in Seq(OCCWriteEntry) /\ MaxKeys \in Nat
  BY OccFacts
<1>1. /\ Len(ws) < MaxKeys /\ txn' = [txn EXCEPT ![t].write_set = q] /\ UNCHANGED <<store, history>>
  BY DEF occ_txn_write
<1>2. e \in OCCWriteEntry
  BY DEF OCCWriteEntry
<1> HIDE DEF e
<1>3. q \in Seq(OCCWriteEntry) /\ Len(q) <= MaxKeys
  <2>1. CASE Wrote(t, k)
    <3>1. q = [i \in 1 .. Len(ws) |-> IF ws[i].key = k THEN e ELSE ws[i]]
      BY <2>1
    <3>2. \A i \in 1 .. Len(ws) : (IF ws[i].key = k THEN e ELSE ws[i]) \in OCCWriteEntry
      BY <1>0, <1>2
    <3> QED
      BY <1>0, <1>1, <3>1, <3>2
  <2>2. CASE ~Wrote(t, k)
    BY <1>0, <1>1, <1>2, <2>2
  <2> QED
    BY <2>1, <2>2
<1> HIDE DEF q
<1>4. x \in OCCTransaction /\ x.read_set = txn[t].read_set /\ x.write_set = q
  BY <1>0, <1>3 DEF OCCTransaction
<1>5. txn' = [txn EXCEPT ![t] = x]
  BY <1>1
<1> HIDE DEF x
<1> QED
  BY <1>1, <1>3, <1>4, <1>5, OccLocal

(* The commit: what the transaction read is current, and its writes raise the *)
(* versions of the records to its timestamp.                                  *)
LEMMA OccCommit ==
  ASSUME OccInv, NEW t \in Txns, CommitValid(t)
  PROVE  OccInv'
<1> DEFINE rs == txn[t].read_set
           ws == txn[t].write_set
           w == WritePhase(t, global_version)
           c == [ txn    |-> t,
                  ts     |-> global_version,
                  reads  |-> {rs[i] : i \in 1 .. Len(rs)},
                  writes |-> {ws[i].key : i \in 1 .. Len(ws)} ]
           x == [txn[t] EXCEPT !.phase = "COMMITTED", !.commit_ts = global_version]
<1>0. /\ txn \in [Txns -> OCCTransaction] /\ txn[t] \in OCCTransaction
      /\ rs \in Seq(OCCReadEntry) /\ ws \in Seq(OCCWriteEntry)
      /\ global_version \in Nat \ {0} /\ MaxKeys \in Nat
      /\ Cardinality(DOMAIN records) \in Nat
      /\ \A k \in DOMAIN records : records[k].version \in Nat
      /\ \A s \in Txns : Len(txn[s].read_set) <= MaxKeys /\ Len(txn[s].write_set) <= MaxKeys
      /\ \A d \in history : d.ts \in Nat /\ d.ts < global_version
  BY OccFacts DEF OccInv
<1>1. /\ occ_backward_validation(t)
      /\ global_version' = global_version + 1
      /\ records' = w
      /\ txn' = [txn EXCEPT ![t].phase = "COMMITTED", ![t].commit_ts = global_version]
      /\ watermark' = [low |-> watermark.high, high |-> global_version']
      /\ history' = history \cup {c}
      /\ active_txns' = active_txns
  BY DEF CommitValid, Valid, occ_advance_watermarks
<1>2. /\ DOMAIN records \subseteq DOMAIN w /\ DOMAIN w \subseteq Keys /\ IsFiniteSet(DOMAIN w)
      /\ w \in [DOMAIN w -> OCCRecord]
      /\ \A k \in DOMAIN w :
           w[k].version = global_version \/ (k \in DOMAIN records /\ w[k] = records[k])
      /\ \A i \in 1 .. Len(ws) :
           IF ws[i].key \in DOMAIN w THEN w[ws[i].key].version = global_version
           ELSE Cardinality(DOMAIN w) >= MaxKeys
  BY <1>0, WritePhaseFacts
<1> HIDE DEF w
<1>3. \A i \in 1 .. Len(rs) : rs[i] \in OCCReadEntry
  BY <1>0
<1>4. \A i \in 1 .. Len(ws) : ws[i].key \in Keys
  <2>1. \A i \in 1 .. Len(ws) : ws[i] \in OCCWriteEntry
    BY <1>0
  <2> QED
    BY <2>1 DEF OCCWriteEntry
<1>5. c \in OccHistory /\ c.ts = global_version /\ c.reads = {rs[i] : i \in 1 .. Len(rs)}
      /\ c.writes = {ws[i].key : i \in 1 .. Len(ws)}
  BY <1>0, <1>3, <1>4 DEF OccHistory
<1> HIDE DEF c
<1>6. x \in OCCTransaction /\ x.read_set = rs /\ x.write_set = ws
  BY <1>0 DEF OCCTransaction, OCCTxnPhase
<1>7. txn' = [txn EXCEPT ![t] = x]
  BY <1>0, <1>1
<1> HIDE DEF x
<1>8. /\ txn' \in [Txns -> OCCTransaction]
      /\ \A s \in Txns : /\ txn'[s].read_set = txn[s].read_set
                         /\ txn'[s].write_set = txn[s].write_set
  BY <1>0, <1>6, <1>7
<1>9. TypeOK'
  <2>1. watermark' \in [low : Nat, high : Nat] /\ global_version' \in Nat \ {0}
    <3>1. watermark.high \in Nat
      BY DEF OccInv, TypeOK
    <3> QED
      BY <1>0, <1>1, <3>1
  <2>2. active_txns' \in Seq(OCCTransaction)
    BY <1>1 DEF OccInv, TypeOK
  <2> QED
    BY <1>0, <1>1, <1>2, <1>8, <2>1, <2>2 DEF TypeOK
<1>10. Remembered'
  BY <1>1, <1>2, <1>8 DEF OccInv, Remembered
<1>11. Stamped'
  <2>1. ASSUME NEW d \in history, NEW k \in d.writes
        PROVE  IF k \in DOMAIN w THEN d.ts <= w[k].version ELSE Cardinality(DOMAIN w) >= MaxKeys
    <3>1. IF k \in DOMAIN records THEN d.ts <= records[k].version
          ELSE Cardinality(DOMAIN records) >= MaxKeys
      BY DEF OccInv, Stamped
    <3>2. Cardinality(DOMAIN records) <= Cardinality(DOMAIN w) /\ Cardinality(DOMAIN w) \in Nat
      BY <1>2, FS_Subset, FS_CardinalityType
    <3>3. CASE k \in DOMAIN w
      BY <1>0, <1>2, <3>1, <3>3
    <3>4. CASE k \notin DOMAIN w
      BY <1>0, <1>2, <3>1, <3>2, <3>4
    <3> QED
      BY <3>3, <3>4
  <2>2. ASSUME NEW k \in c.writes
        PROVE  IF k \in DOMAIN w THEN c.ts <= w[k].version ELSE Cardinality(DOMAIN w) >= MaxKeys
    <3>1. PICK i \in 1 .. Len(ws) : k = ws[i].key
      BY <1>5
    <3> QED
      BY <1>0, <1>2, <1>5, <3>1
  <2> QED
    BY <1>1, <2>1, <2>2 DEF Stamped
<1>12. ReadsCurrent'
  <2>1. ASSUME NEW d \in history, NEW i \in 1 .. Len(rs), rs[i].key \in d.writes
        PROVE  d.ts <= rs[i].version_at_read
    <3>1. rs[i].key \in DOMAIN records
      BY DEF OccInv, Remembered
    <3>2. records[rs[i].key].version <= rs[i].version_at_read
      BY <1>1, <3>1 DEF occ_backward_validation, Recorded
    <3>3. d.ts <= records[rs[i].key].version
      BY <2>1, <3>1 DEF OccInv, Stamped
    <3>4. rs[i].version_at_read \in Nat
      BY <1>3 DEF OCCReadEntry
    <3> QED
      BY <1>0, <3>1, <3>2, <3>3, <3>4
  <2>2. ASSUME NEW d \in history', NEW re \in c.reads, re.key \in d.writes,
               re.version_at_read < d.ts, d.ts < c.ts
        PROVE  FALSE
    <3>1. d \in history
      BY <1>0, <1>1, <1>5, <2>2
    <3>2. PICK i \in 1 .. Len(rs) : re = rs[i]
      BY <1>5
    <3>3. rs[i].version_at_read \in Nat
      BY <1>3 DEF OCCReadEntry
    <3> QED
      BY <1>0, <2>1, <2>2, <3>1, <3>2, <3>3
  <2>3. ASSUME NEW b \in history, NEW d \in history', NEW re \in b.reads, re.key \in d.writes,
               re.version_at_read < d.ts, d.ts < b.ts
        PROVE  FALSE
    <3>1. d \in history
      BY <1>0, <1>1, <1>5, <2>3
    <3> QED
      BY <2>3, <3>1 DEF OccInv, ReadsCurrent, Current
  <2> QED
    BY <1>1, <2>2, <2>3 DEF ReadsCurrent, Current
<1>13. history' \subseteq OccHistory /\ \A d \in history' : d.ts < global_version'
  BY <1>0, <1>1, <1>5 DEF OccInv
<1> QED
  BY <1>1, <1>2, <1>9, <1>10, <1>11, <1>12, <1>13 DEF OccInv

LEMMA OccNext ==
  ASSUME OccInv, [Next]_vars
  PROVE  OccInv'
<1>1. ASSUME NEW t \in Txns, occ_txn_validate(t)
      PROVE  OccInv'
  <2>1. PICK p \in OCCTxnPhase : txn' = [txn EXCEPT ![t].phase = p]
    BY <1>1 DEF occ_txn_validate, OCCTxnPhase
  <2> QED
    BY <1>1, <2>1, OccSetPhase DEF occ_txn_validate
<1>2. ASSUME NEW t \in Txns, occ_txn_commit(t)
      PROVE  OccInv'
  <2>1. CASE CommitValid(t)
    BY <2>1, OccCommit
  <2>2. CASE CommitRefused(t)
    BY <2>2, OccSetPhase, "ABORTED" \in OCCTxnPhase DEF CommitRefused, OCCTxnPhase
  <2> QED
    BY <1>2, <2>1, <2>2 DEF occ_txn_commit
<1>3. ASSUME NEW t \in Txns, occ_txn_abort(t)
      PROVE  OccInv'
  BY <1>3, OccSetPhase, "ABORTED" \in OCCTxnPhase DEF occ_txn_abort, OCCTxnPhase
<1>4. CASE UNCHANGED vars
  BY <1>4 DEF vars, store, OccInv, TypeOK, Remembered, Stamped, ReadsCurrent, Current
<1> QED
  BY <1>1, <1>2, <1>3, <1>4, OccBegin, OccRead, OccWrite DEF Next

LEMMA OccInitOk == Init => OccInv
<1> SUFFICES ASSUME Init PROVE OccInv
  OBVIOUS
<1>1. DOMAIN records = {} /\ records \in [{} -> OCCRecord] /\ IsFiniteSet(DOMAIN records)
  BY FS_EmptySet DEF Init
<1>2. /\ txn \in [Txns -> OCCTransaction]
      /\ \A t \in Txns : Len(txn[t].read_set) = 0 /\ Len(txn[t].write_set) = 0
  <2>1. <<>> \in Seq(OCCReadEntry) /\ <<>> \in Seq(OCCWriteEntry)
    OBVIOUS
  <2> QED
    BY <2>1 DEF Init, OCCTransaction, OCCTxnPhase
<1>3. /\ global_version = 1 /\ active_txns = <<>> /\ history = {}
      /\ watermark \in [low : Nat, high : Nat]
  BY DEF Init
<1> QED
  BY <1>1, <1>2, <1>3, OccAssumption
     DEF OccInv, TypeOK, Remembered, Stamped, ReadsCurrent

(* Committed transactions are serializable in the order of their commit       *)
(* timestamps, whatever the calls of other transactions between a read and    *)
(* the commit, repeated commits and a full table included.                    *)
THEOREM CommitsSerializable == Spec => []Serializable
<1>1. OccInv => Serializable
  BY DEF OccInv, Serializable
<1> QED
  BY <1>1, OccInitOk, OccNext, PTL DEF Spec
-----------------------------------------------------------------------------
(***************************************************************************)
(* Multi-version concurrency control.  Timestamps are never given out       *)
(* twice, and as long as no write of a key was dropped, its chain lists     *)
(* exactly the committed writers of the key in the order of their commits.  *)
(* A writer that passes the validation therefore began after every other    *)
(* one had committed, and the newest version that a snapshot may see is the *)
(* one of the last writer that committed before it.                         *)
(***************************************************************************)

DistinctWrites(ws) ==
  \A i, j \in 1 .. Len(ws) : ws[i].key = ws[j].key => i = j

TxnOk(t) ==
  /\ DistinctWrites(mvTxn[t].writes)
  /\ mvTxn[t].status # "NEW" =>
       /\ mvTxn[t].read_ts < global_ts
       /\ \A s \in committed : mvTxn[s].commit_ts # mvTxn[t].read_ts
  /\ t \in committed =>
       /\ mvTxn[t].status \notin {"NEW", "ACTIVE"}
       /\ mvTxn[t].commit_ts < global_ts

(* The version that the commit of s made of key k.                            *)
Entry(s, k) ==
  [ txn_id |-> s, commit_ts |-> mvTxn[s].commit_ts,
    value |-> mvTxn[s].writes[WriteOf(s, k)].value ]

Linked(k) ==
  /\ \A s \in committed :
       MvWrote(s, k) => \E i \in 1 .. Len(chain[k]) : chain[k][i] = Entry(s, k)
  /\ \A i \in 1 .. Len(chain[k]) :
       \E s \in committed : MvWrote(s, k) /\ chain[k][i] = Entry(s, k)

MvInv ==
  /\ MvTypeOK
  /\ IsFiniteSet(mvRecords)
  /\ ChainOrdered
  /\ \A t \in MvTxns : TxnOk(t)
  /\ \A k \in MvKeys : NothingDropped(k) => Linked(k)
  /\ FirstCommitterWins

LEMMA MvFacts ==
  ASSUME MvInv
  PROVE  /\ mvTxn \in [MvTxns -> MVCCTransaction]
         /\ \A t \in MvTxns :
              /\ mvTxn[t] \in MVCCTransaction
              /\ mvTxn[t].read_ts \in Nat /\ mvTxn[t].commit_ts \in Nat
              /\ mvTxn[t].writes \in Seq(MVCCWrite) /\ Len(mvTxn[t].writes) \in Nat
              /\ \A i \in 1 .. Len(mvTxn[t].writes) :
                   mvTxn[t].writes[i].key \in MvKeys /\ mvTxn[t].writes[i].value \in MvValues
         /\ chain \in [MvKeys -> Seq(MVCCVersion)]
         /\ \A k \in MvKeys :
              /\ chain[k] \in Seq(MVCCVersion) /\ Len(chain[k]) \in Nat
              /\ \A i \in 1 .. Len(chain[k]) :
                   chain[k][i] \in MVCCVersion /\ chain[k][i].commit_ts \in Nat
         /\ global_ts \in Nat \ {0} /\ version_count \in Nat /\ version_count <= MaxVersions
         /\ MaxVersions \in Nat /\ MaxMvKeys \in Nat
         /\ committed \subseteq MvTxns /\ mvRecords \subseteq MvKeys
         /\ IsFiniteSet(mvRecords) /\ Cardinality(mvRecords) \in Nat
<1>1. /\ mvTxn \in [MvTxns -> MVCCTransaction] /\ chain \in [MvKeys -> Seq(MVCCVersion)]
      /\ global_ts \in Nat \ {0} /\ version_count \in Nat /\ version_count <= MaxVersions
      /\ MaxVersions \in Nat /\ MaxMvKeys \in Nat
      /\ committed \subseteq MvTxns /\ mvRecords \subseteq MvKeys /\ IsFiniteSet(mvRecords)
  BY MvccAssumption DEF MvInv, MvTypeOK
<1>2. \A t \in MvTxns : mvTxn[t] \in MVCCTransaction
  BY <1>1
<1>3. \A t \in MvTxns : /\ mvTxn[t].read_ts \in Nat /\ mvTxn[t].commit_ts \in Nat
                        /\ mvTxn[t].writes \in Seq(MVCCWrite)
  BY <1>2 DEF MVCCTransaction
<1>4. \A t \in MvTxns : /\ Len(mvTxn[t].writes) \in Nat
                        /\ \A i \in 1 .. Len(mvTxn[t].writes) : mvTxn[t].writes[i] \in MVCCWrite
  BY <1>3
<1>5. \A t \in MvTxns : \A i \in 1 .. Len(mvTxn[t].writes) :
        mvTxn[t].writes[i].key \in MvKeys /\ mvTxn[t].writes[i].value \in MvValues
  BY <1>4 DEF MVCCWrite
<1>6. \A k \in MvKeys : chain[k] \in Seq(MVCCVersion) /\ Len(chain[k]) \in Nat
  BY <1>1
<1>7. \A k \in MvKeys : \A i \in 1 .. Len(chain[k]) : chain[k][i] \in MVCCVersion
  BY <1>6
<1>8. \A k \in MvKeys : \A i \in 1 .. Len(chain[k]) : chain[k][i].commit_ts \in Nat
  BY <1>7 DEF MVCCVersion
<1>9. Cardinality(mvRecords) \in Nat
  BY <1>1, FS_CardinalityType
<1> QED
  BY <1>1, <1>2, <1>3, <1>4, <1>5, <1>6, <1>7, <1>8, <1>9

(* A step that only changes the record of one transaction, and of a committed *)
(* one neither its timestamps nor its writes.                                 *)
LEMMA MvLocal ==
  ASSUME MvInv, NEW t \in MvTxns, NEW x \in MVCCTransaction, mvTxn' = [mvTxn EXCEPT ![t] = x],
         UNCHANGED <<mvStore, committed>>, active' \subseteq MvTxns,
         global_ts' \in Nat, global_ts <= global_ts',
         DistinctWrites(x.writes),
         x.status # "NEW" => /\ x.read_ts < global_ts'
                             /\ \A s \in committed : s # t => mvTxn[s].commit_ts # x.read_ts,
         t \in committed =>
           /\ x.status \notin {"NEW", "ACTIVE"}
           /\ x.read_ts = mvTxn[t].read_ts /\ x.commit_ts = mvTxn[t].commit_ts
           /\ x.writes = mvTxn[t].writes
  PROVE  MvInv'
<1>0. /\ mvTxn \in [MvTxns -> MVCCTransaction] /\ global_ts \in Nat \ {0}
      /\ committed \subseteq MvTxns
      /\ \A s \in MvTxns : mvTxn[s].read_ts \in Nat /\ mvTxn[s].commit_ts \in Nat
      /\ \A k \in MvKeys : \A i \in 1 .. Len(chain[k]) : chain[k][i].commit_ts \in Nat
  BY MvFacts
<1>1. UNCHANGED <<mvRecords, chain, version_count, committed>>
  BY DEF mvStore
<1>2. /\ mvTxn' \in [MvTxns -> MVCCTransaction] /\ mvTxn'[t] = x
      /\ \A s \in MvTxns : s # t => mvTxn'[s] = mvTxn[s]
  BY <1>0
<1>3. \A s \in committed : /\ mvTxn'[s].read_ts = mvTxn[s].read_ts
                           /\ mvTxn'[s].commit_ts = mvTxn[s].commit_ts
                           /\ mvTxn'[s].writes = mvTxn[s].writes
  BY <1>0, <1>2
<1>4. ASSUME NEW s \in committed, NEW k
      PROVE  (MvWrote(s, k)' <=> MvWrote(s, k)) /\ Entry(s, k)' = Entry(s, k)
  BY <1>3 DEF MvWrote, Entry, WriteOf
<1>5. MvTypeOK'
  BY <1>0, <1>1, <1>2 DEF MvInv, MvTypeOK
<1>6. ChainOrdered'
  BY <1>0, <1>1 DEF MvInv, ChainOrdered
<1>7. \A k \in MvKeys : NothingDropped(k)' => Linked(k)'
  <2>1. \A k \in MvKeys : NothingDropped(k)' => Linked(k)
    BY <1>1 DEF MvInv, NothingDropped
  <2>2. ASSUME NEW k \in MvKeys, Linked(k)
        PROVE  Linked(k)'
    <3>1. ASSUME NEW s \in committed, MvWrote(s, k)'
          PROVE  \E i \in 1 .. Len(chain[k]) : chain[k][i] = Entry(s, k)'
      BY <1>4, <2>2, <3>1 DEF Linked
    <3>2. ASSUME NEW i \in 1 .. Len(chain[k])
          PROVE  \E s \in committed : MvWrote(s, k)' /\ chain[k][i] = Entry(s, k)'
      <4>1. PICK s \in committed : MvWrote(s, k) /\ chain[k][i] = Entry(s, k)
        BY <2>2 DEF Linked
      <4> QED
        BY <1>4, <4>1
    <3> HIDE DEF Entry, MvWrote
    <3> QED
      BY <1>1, <3>1, <3>2 DEF Linked
  <2> QED
    BY <2>1, <2>2
<1>8. FirstCommitterWins'
  BY <1>1, <1>3, <1>4 DEF MvInv, FirstCommitterWins, NothingDropped
<1>9. ASSUME NEW s \in MvTxns
      PROVE  TxnOk(s)'
  <2>1. TxnOk(s)
    BY DEF MvInv
  <2>2. CASE s = t
    <3>1. \A u \in committed : mvTxn'[u].commit_ts # x.read_ts \/ x.status = "NEW"
      BY <1>2, <1>3, <2>1, <2>2 DEF TxnOk
    <3> QED
      BY <1>0, <1>1, <1>2, <1>3, <2>1, <2>2, <3>1 DEF TxnOk
  <2>3. CASE s # t
    BY <1>0, <1>1, <1>2, <1>3, <2>1, <2>3 DEF TxnOk
  <2> QED
    BY <2>2, <2>3
<1> QED
  BY <1>1, <1>5, <1>6, <1>7, <1>8, <1>9 DEF MvInv

(* The first writes of a transaction make a finite set of keys.               *)
LEMMA RecordedFinite ==
  ASSUME MvInv, NEW t \in MvTxns, NEW n \in Nat
  PROVE  LET P == mvRecords \cup {mvTxn[t].writes[j].key : j \in 1 .. n} IN
         IsFiniteSet(P) /\ Cardinality(P) \in Nat
<1>1. IsFiniteSet({mvTxn[t].writes[j].key : j \in 1 .. n})
  BY FiniteImage
<1>2. IsFiniteSet(mvRecords \cup {mvTxn[t].writes[j].key : j \in 1 .. n})
  BY <1>1, MvFacts, FS_Union
<1> QED
  BY <1>2, FS_CardinalityType

(* What a commit does to the two arrays.                                      *)
LEMMA CommitArrays ==
  ASSUME MvInv, NEW t \in MvTxns, MvCommitValid(t)
  PROVE  /\ mvRecords' \subseteq MvKeys /\ IsFiniteSet(mvRecords')
         /\ version_count' \in 0 .. MaxVersions
         /\ \A k \in MvKeys : NothingDropped(k)' =>
              NothingDropped(k) /\ (MvWrote(t, k) => WriteOf(t, k) \in Slotted(t))
<1> DEFINE ws == mvTxn[t].writes
           n == Len(ws)
           Rec == MvRecorded(t)
           Put == Slotted(t)
           Below(i) == {j \in Rec : j < i}
<1>0. /\ n \in Nat /\ version_count \in Nat /\ version_count <= MaxVersions
      /\ MaxVersions \in Nat /\ MaxMvKeys \in Nat
      /\ mvRecords \subseteq MvKeys /\ IsFiniteSet(mvRecords) /\ Cardinality(mvRecords) \in Nat
      /\ \A i \in 1 .. n : ws[i].key \in MvKeys
      /\ \A i, j \in 1 .. n : ws[i].key = ws[j].key => i = j
  BY MvFacts DEF MvInv, TxnOk, DistinctWrites
<1>1. /\ mvRecords' = mvRecords \cup {ws[i].key : i \in Rec}
      /\ version_count' = version_count + Cardinality(Put)
  BY DEF MvCommitValid
<1>2. /\ Rec \subseteq 1 .. n /\ Put \subseteq Rec
      /\ \A i \in Rec : i \in Put <=> version_count + Cardinality(Below(i)) < MaxVersions
      /\ \A i \in 1 .. n : i \in Rec <=>
           \/ ws[i].key \in mvRecords
           \/ Cardinality(mvRecords \cup {ws[j].key : j \in 1 .. i - 1}) < MaxMvKeys
  BY DEF MvRecorded, Slotted, HasRecord
<1> HIDE DEF Rec, Put
<1>3. /\ IsFiniteSet(Rec) /\ IsFiniteSet(Put) /\ Cardinality(Put) \in Nat
      /\ \A i : IsFiniteSet(Below(i)) /\ Cardinality(Below(i)) \in Nat
  <2>1. IsFiniteSet(1 .. n)
    <3>1. n \in Int /\ 1 \in Int
      BY <1>0
    <3> HIDE DEF n
    <3> QED  BY <3>1, FS_Interval
  <2>2. IsFiniteSet(Rec)
    BY <1>2, <2>1, FS_Subset
  <2>3. IsFiniteSet(Put) /\ \A i : IsFiniteSet(Below(i))
    BY <1>2, <2>2, FS_Subset
  <2> QED
    BY <2>2, <2>3, FS_CardinalityType
<1>4. mvRecords' \subseteq MvKeys /\ IsFiniteSet(mvRecords')
  <2>1. IsFiniteSet({ws[j].key : j \in 1 .. n})
    BY <1>0, FiniteImage
  <2>2. {ws[i].key : i \in Rec} \subseteq {ws[j].key : j \in 1 .. n}
    BY <1>2
  <2>3. IsFiniteSet({ws[i].key : i \in Rec})
    BY <2>1, <2>2, FS_Subset
  <2>4. {ws[i].key : i \in Rec} \subseteq MvKeys
    BY <1>0, <1>2
  <2> QED
    BY <1>0, <1>1, <2>3, <2>4, FS_Union
<1>5. version_count' \in 0 .. MaxVersions
  <2>1. CASE Put = {}
    BY <1>0, <1>1, <2>1, FS_EmptySet
  <2>2. CASE Put # {}
    <3>0. Put \subseteq 1 .. n /\ n \in Nat
      BY <1>0, <1>2, Zenon
    <3>1. Put \subseteq 0 .. n
      <4> HIDE DEF n
      <4> QED
        BY <3>0
    <3>2. PICK m \in Put : \A j \in Put : j <= m
      BY <1>0, <2>2, <3>1, GreatestExists
    <3>3. Put \subseteq Below(m) \cup {m}
      BY <1>2, <3>1, <3>2
    <3>4. m \notin Below(m)
      BY <1>0, <3>1
    <3>5. IsFiniteSet(Below(m)) /\ Cardinality(Below(m)) \in Nat
      BY <1>3
    <3> HIDE DEF Below
    <3>6. IsFiniteSet(Below(m) \cup {m}) /\ Cardinality(Below(m) \cup {m}) = Cardinality(Below(m)) + 1
      BY <3>4, <3>5, FS_AddElement
    <3>7. Cardinality(Put) <= Cardinality(Below(m)) + 1
      BY <3>3, <3>6, FS_Subset
    <3>8. version_count + Cardinality(Below(m)) < MaxVersions
      BY <1>2, <3>2 DEF Below
    <3> QED
      BY <1>0, <1>1, <1>3, <3>5, <3>7, <3>8
  <2> QED
    BY <2>1, <2>2
<1>6. ASSUME version_count' < MaxVersions, NEW i \in Rec
      PROVE  i \in Put
  <2> SUFFICES ASSUME i \notin Put PROVE FALSE
    OBVIOUS
  <2> DEFINE S == {j \in Rec : j \notin Put}
  <2>1. S \subseteq Nat /\ S # {}
    BY <1>2
  <2>2. PICK m \in S : \A j \in S : m <= j
    BY <2>1, LeastExists
  <2>3. Below(m) \subseteq Put
    <3> SUFFICES ASSUME NEW j \in Rec, j < m, j \notin Put PROVE FALSE
      OBVIOUS
    <3>1. j \in Nat /\ m \in Nat /\ j \in S
      BY <1>0, <1>2
    <3> QED
      BY <2>2, <3>1
  <2>4. Cardinality(Below(m)) <= Cardinality(Put)
    BY <1>3, <2>3, FS_Subset
  <2>5. ~(version_count + Cardinality(Below(m)) < MaxVersions)
    BY <1>2, <2>2
  <2>6. Cardinality(Below(m)) \in Nat
    BY <1>3
  <2> HIDE DEF Below
  <2> QED
    BY <1>0, <1>1, <1>3, <1>6, <2>4, <2>5, <2>6
<1>7. Cardinality(mvRecords) <= Cardinality(mvRecords') /\ Cardinality(mvRecords') \in Nat
  BY <1>1, <1>4, FS_Subset, FS_CardinalityType
<1>8. ASSUME NEW i \in 1 .. n, i \notin Rec
      PROVE  Cardinality(mvRecords') >= MaxMvKeys /\ ws[i].key \notin mvRecords'
  <2> DEFINE S == {j \in 1 .. n : j \notin Rec}
  <2>1. S \subseteq Nat /\ S # {}
    BY <1>8
  <2>2. PICK m \in S : \A j \in S : m <= j
    BY <2>1, LeastExists
  <2> DEFINE P == mvRecords \cup {ws[j].key : j \in 1 .. m - 1}
  <2>3. \A j \in 1 .. m - 1 : j \in Rec
    BY <1>0, <2>2
  <2>4. P \subseteq mvRecords'
    BY <1>1, <2>3
  <2>5. ~(Cardinality(P) < MaxMvKeys)
    BY <1>2, <2>2
  <2>6. Cardinality(P) <= Cardinality(mvRecords') /\ Cardinality(P) \in Nat
    BY <1>4, <2>4, FS_Subset, FS_CardinalityType
  <2>7. ws[i].key \notin mvRecords'
    BY <1>0, <1>1, <1>2, <1>8
  <2> HIDE DEF P
  <2> QED
    BY <1>0, <1>7, <2>5, <2>6, <2>7
<1>9. ASSUME NEW k \in MvKeys, NothingDropped(k)', MvWrote(t, k)
      PROVE  WriteOf(t, k) \in Put
  <2> DEFINE i == WriteOf(t, k)
  <2>1. i \in 1 .. n /\ ws[i].key = k
    BY <1>9 DEF MvWrote, WriteOf
  <2> HIDE DEF i
  <2>2. i \in Rec
    BY <1>0, <1>7, <1>8, <1>9, <2>1 DEF NothingDropped
  <2> QED
    BY <1>6, <1>9, <2>2 DEF NothingDropped, i
<1>10. ASSUME NEW k \in MvKeys, NothingDropped(k)'
       PROVE  NothingDropped(k)
  <2>1. version_count < MaxVersions
    BY <1>0, <1>1, <1>3, <1>10 DEF NothingDropped
  <2>2. CASE k \in mvRecords' /\ k \notin mvRecords
    <3>1. PICK j \in Rec : ws[j].key = k
      BY <1>1, <2>2
    <3> DEFINE P == mvRecords \cup {ws[l].key : l \in 1 .. j - 1}
    <3>2. Cardinality(P) < MaxMvKeys
      BY <1>2, <2>2, <3>1
    <3>3. j - 1 \in Nat
      BY <1>0, <1>2
    <3>4. IsFiniteSet(P) /\ Cardinality(P) \in Nat
      BY <3>3, RecordedFinite
    <3>5. mvRecords \subseteq P
      OBVIOUS
    <3> HIDE DEF P
    <3>6. Cardinality(mvRecords) <= Cardinality(P)
      BY <3>4, <3>5, FS_Subset
    <3> QED
      BY <1>0, <2>1, <3>2, <3>4, <3>6 DEF NothingDropped
  <2>3. CASE ~(k \in mvRecords' /\ k \notin mvRecords)
    BY <1>0, <1>7, <1>10, <2>1, <2>3 DEF NothingDropped
  <2> QED
    BY <2>2, <2>3
<1> QED
  BY <1>4, <1>5, <1>9, <1>10 DEF Put

(* What a commit at ts = global_ts makes of the chain of one key.             *)
LEMMA InstallFacts ==
  ASSUME MvInv, NEW t \in MvTxns, NEW k \in MvKeys, MvWrote(t, k)
  PROVE  LET c == chain[k]
             d == Install(t, k, global_ts)
             e == [txn_id |-> t, commit_ts |-> global_ts,
                   value |-> mvTxn[t].writes[WriteOf(t, k)].value]
         IN  /\ d \in Seq(MVCCVersion)
             /\ \A i \in 1 .. Len(d) : /\ 0 < d[i].commit_ts /\ d[i].commit_ts < global_ts + 1
                                       /\ d[i].commit_ts \in Nat
             /\ \A i, j \in 1 .. Len(d) : i < j => d[i].commit_ts < d[j].commit_ts
             /\ WriteOf(t, k) \in Slotted(t) =>
                  /\ Len(d) = Len(c) + 1 /\ d[Len(c) + 1] = e
                  /\ \A i \in 1 .. Len(c) : d[i] = c[i]
<1> DEFINE c == chain[k]
           i0 == WriteOf(t, k)
           d == Install(t, k, global_ts)
           e == [txn_id |-> t, commit_ts |-> global_ts, value |-> mvTxn[t].writes[i0].value]
<1>0. /\ c \in Seq(MVCCVersion) /\ Len(c) \in Nat /\ global_ts \in Nat \ {0}
      /\ \A i \in 1 .. Len(c) : /\ c[i] \in MVCCVersion /\ c[i].commit_ts \in Nat
                                /\ 0 < c[i].commit_ts /\ c[i].commit_ts < global_ts
      /\ \A i, j \in 1 .. Len(c) : i < j => c[i].commit_ts < c[j].commit_ts
  BY MvFacts DEF MvInv, ChainOrdered
<1>1. i0 \in 1 .. Len(mvTxn[t].writes)
  BY DEF MvWrote, WriteOf
<1>2. e \in MVCCVersion /\ e.commit_ts = global_ts
  <2>1. mvTxn[t].writes[i0].value \in MvValues
    BY <1>1, MvFacts
  <2> QED
    BY <1>0, <2>1 DEF MVCCVersion
<1>3. CASE i0 \in Slotted(t)
  <2>1. d = Append(c, e)
    BY <1>3 DEF Install
  <2> HIDE DEF d, c, e, i0
  <2>2. /\ d \in Seq(MVCCVersion) /\ Len(d) = Len(c) + 1 /\ d[Len(c) + 1] = e
        /\ \A i \in 1 .. Len(c) : d[i] = c[i]
    BY <1>0, <1>2, <2>1
  <2>3. \A i \in 1 .. Len(d) : i \in 1 .. Len(c) \/ i = Len(c) + 1
    BY <1>0, <2>2
  <2>4. ASSUME NEW i \in 1 .. Len(d)
        PROVE  /\ 0 < d[i].commit_ts /\ d[i].commit_ts < global_ts + 1 /\ d[i].commit_ts \in Nat
    BY <1>0, <1>2, <2>2, <2>3
  <2>5. ASSUME NEW i \in 1 .. Len(d), NEW j \in 1 .. Len(d), i < j
        PROVE  d[i].commit_ts < d[j].commit_ts
    <3>1. i \in 1 .. Len(c)
      BY <1>0, <2>2, <2>5
    <3> QED
      BY <1>0, <1>2, <2>2, <2>3, <2>5, <3>1
  <2> QED
    BY <2>2, <2>4, <2>5 DEF d, c, e, i0
<1>4. CASE i0 \notin Slotted(t) /\ c # <<>>
  <2> DEFINE n == Len(c)
             h == [c[n] EXCEPT !.commit_ts = global_ts]
  <2>1. n \in 1 .. Len(c)
    BY <1>0, <1>4
  <2>2. h \in MVCCVersion /\ h.commit_ts = global_ts
    <3>1. c[n] \in MVCCVersion
      BY <1>0, <2>1
    <3> QED
      BY <1>0, <3>1 DEF MVCCVersion
  <2>3. d = [c EXCEPT ![n] = h]
    <3>1. d = [c EXCEPT ![Len(c)].commit_ts = global_ts]
      BY <1>4 DEF Install
    <3> QED
      BY <3>1
  <2> HIDE DEF d, h, i0
  <2>4. /\ d \in Seq(MVCCVersion) /\ Len(d) = n /\ d[n] = h
        /\ \A i \in 1 .. n : i # n => d[i] = c[i]
    <3> HIDE DEF c
    <3> QED
      BY <1>0, <2>1, <2>2, <2>3
  <2>5. ASSUME NEW i \in 1 .. Len(d)
        PROVE  /\ 0 < d[i].commit_ts /\ d[i].commit_ts < global_ts + 1 /\ d[i].commit_ts \in Nat
    BY <1>0, <2>2, <2>4
  <2>6. ASSUME NEW i \in 1 .. Len(d), NEW j \in 1 .. Len(d), i < j
        PROVE  d[i].commit_ts < d[j].commit_ts
    BY <1>0, <2>2, <2>4, <2>6
  <2> QED
    BY <1>4, <2>4, <2>5, <2>6 DEF d, i0
<1>5. CASE i0 \notin Slotted(t) /\ c = <<>>
  <2>1. d = c
    BY <1>5 DEF Install
  <2> QED
    BY <1>0, <1>5, <2>1
<1> QED
  BY <1>3, <1>4, <1>5

LEMMA CommitKeeps ==
  ASSUME MvInv, NEW t \in MvTxns, mvTxn[t].status = "ACTIVE", MvCommitValid(t),
         global_ts' = global_ts + 1, active' \subseteq MvTxns
  PROVE  MvInv'
<1> DEFINE x == [mvTxn[t] EXCEPT !.status = "COMMITTED", !.commit_ts = global_ts]
<1>0. /\ mvTxn \in [MvTxns -> MVCCTransaction] /\ mvTxn[t] \in MVCCTransaction
      /\ global_ts \in Nat \ {0} /\ committed \subseteq MvTxns
      /\ chain \in [MvKeys -> Seq(MVCCVersion)]
      /\ \A s \in MvTxns : mvTxn[s].read_ts \in Nat /\ mvTxn[s].commit_ts \in Nat
      /\ \A s \in MvTxns : TxnOk(s)
      /\ t \notin committed
      /\ \A k \in MvKeys : Len(chain[k]) \in Nat
      /\ \A k \in MvKeys : \A i \in 1 .. Len(chain[k]) : chain[k][i].commit_ts \in Nat
  BY MvFacts DEF MvInv, TxnOk
<1>1. /\ mvcc_validate_write_set(t)
      /\ chain' = [k \in MvKeys |-> IF MvWrote(t, k) THEN Install(t, k, global_ts) ELSE chain[k]]
      /\ mvTxn' = [mvTxn EXCEPT ![t].status = "COMMITTED", ![t].commit_ts = global_ts]
      /\ committed' = committed \cup {t}
  BY DEF MvCommitValid
<1>2. /\ mvRecords' \subseteq MvKeys /\ IsFiniteSet(mvRecords')
      /\ version_count' \in 0 .. MaxVersions
      /\ \A k \in MvKeys : NothingDropped(k)' =>
           NothingDropped(k) /\ (MvWrote(t, k) => WriteOf(t, k) \in Slotted(t))
  BY CommitArrays
<1>3. /\ x \in MVCCTransaction /\ x.status = "COMMITTED" /\ x.commit_ts = global_ts
      /\ x.read_ts = mvTxn[t].read_ts /\ x.writes = mvTxn[t].writes
  BY <1>0 DEF MVCCTransaction
<1>4. mvTxn' = [mvTxn EXCEPT ![t] = x]
  BY <1>0, <1>1
<1> HIDE DEF x
<1>5. /\ mvTxn' \in [MvTxns -> MVCCTransaction] /\ mvTxn'[t] = x
      /\ \A s \in MvTxns : s # t => mvTxn'[s] = mvTxn[s]
      /\ \A s \in MvTxns : mvTxn'[s].writes = mvTxn[s].writes /\ mvTxn'[s].read_ts = mvTxn[s].read_ts
  BY <1>0, <1>3, <1>4
<1>6. ASSUME NEW s \in MvTxns, NEW k
      PROVE  (MvWrote(s, k)' <=> MvWrote(s, k)) /\ WriteOf(s, k)' = WriteOf(s, k)
  BY <1>5 DEF MvWrote, WriteOf
<1>7. ASSUME NEW s \in committed, NEW k
      PROVE  Entry(s, k)' = Entry(s, k)
  <2>1. s \in MvTxns /\ s # t
    BY <1>0
  <2> QED
    BY <1>5, <1>6, <2>1 DEF Entry
<1>8. ASSUME NEW k
      PROVE  Entry(t, k)' = [txn_id |-> t, commit_ts |-> global_ts,
                             value |-> mvTxn[t].writes[WriteOf(t, k)].value]
  BY <1>3, <1>5, <1>6 DEF Entry
<1>9. ASSUME NEW k \in MvKeys
      PROVE  /\ chain'[k] \in Seq(MVCCVersion)
             /\ \A i \in 1 .. Len(chain'[k]) :
                  0 < chain'[k][i].commit_ts /\ chain'[k][i].commit_ts < global_ts'
             /\ \A i, j \in 1 .. Len(chain'[k]) :
                  i < j => chain'[k][i].commit_ts < chain'[k][j].commit_ts
  <2>1. CASE MvWrote(t, k)
    <3>1. chain'[k] = Install(t, k, global_ts)
      BY <1>1, <2>1
    <3> QED
      BY <2>1, <3>1, InstallFacts
  <2>2. CASE ~MvWrote(t, k)
    <3>1. chain'[k] = chain[k]
      BY <1>1, <2>2
    <3>2. /\ chain[k] \in Seq(MVCCVersion)
          /\ \A i \in 1 .. Len(chain[k]) : 0 < chain[k][i].commit_ts /\ chain[k][i].commit_ts < global_ts
          /\ \A i, j \in 1 .. Len(chain[k]) : i < j => chain[k][i].commit_ts < chain[k][j].commit_ts
      BY <1>0 DEF MvInv, ChainOrdered
    <3>3. \A i \in 1 .. Len(chain[k]) : chain[k][i].commit_ts < global_ts'
      BY <1>0, <3>2
    <3> QED
      BY <3>1, <3>2, <3>3
  <2> QED
    BY <2>1, <2>2
<1>10. MvTypeOK'
  <2>1. chain' \in [MvKeys -> Seq(MVCCVersion)]
    BY <1>1, <1>9
  <2>2. committed' \subseteq MvTxns /\ global_ts' \in Nat \ {0}
    BY <1>0, <1>1
  <2> QED
    BY <1>2, <1>5, <2>1, <2>2 DEF MvTypeOK
<1>11. ChainOrdered'
  BY <1>9 DEF ChainOrdered
<1>12. ASSUME NEW s \in MvTxns
       PROVE  TxnOk(s)'
  <2>0. TxnOk(s) /\ TxnOk(t)
    BY <1>0
  <2>1. DistinctWrites(mvTxn'[s].writes)
    BY <1>5, <2>0 DEF TxnOk
  <2>2. ASSUME mvTxn'[s].status # "NEW"
        PROVE  /\ mvTxn'[s].read_ts < global_ts'
               /\ \A u \in committed' : mvTxn'[u].commit_ts # mvTxn'[s].read_ts
    <3>1. mvTxn[s].status # "NEW"
      BY <1>5, <2>2
    <3>2. mvTxn[s].read_ts < global_ts /\ \A u \in committed : mvTxn[u].commit_ts # mvTxn[s].read_ts
      BY <2>0, <3>1 DEF TxnOk
    <3>3. ASSUME NEW u \in committed'
          PROVE  mvTxn'[u].commit_ts # mvTxn'[s].read_ts
      <4>1. CASE u = t
        BY <1>0, <1>3, <1>5, <3>2, <4>1
      <4>2. CASE u # t
        BY <1>0, <1>1, <1>5, <3>2, <4>2
      <4> QED
        BY <4>1, <4>2
    <3> QED
      BY <1>0, <1>5, <3>2, <3>3
  <2>3. ASSUME s \in committed'
        PROVE  mvTxn'[s].status \notin {"NEW", "ACTIVE"} /\ mvTxn'[s].commit_ts < global_ts'
    <3>1. CASE s = t
      BY <1>0, <1>3, <1>5, <3>1
    <3>2. CASE s # t
      BY <1>0, <1>1, <1>5, <2>0, <2>3, <3>2 DEF TxnOk
    <3> QED
      BY <3>1, <3>2
  <2> QED
    BY <2>1, <2>2, <2>3 DEF TxnOk
<1>13. ASSUME NEW k \in MvKeys, NothingDropped(k)'
       PROVE  Linked(k)'
  <2>0. Linked(k)
    BY <1>2, <1>13 DEF MvInv
  <2>1. CASE MvWrote(t, k)
    <3>1. chain'[k] = Install(t, k, global_ts) /\ WriteOf(t, k) \in Slotted(t)
      BY <1>1, <1>2, <1>13, <2>1
    <3>2. /\ Len(chain'[k]) = Len(chain[k]) + 1 /\ chain'[k][Len(chain[k]) + 1] = Entry(t, k)'
          /\ \A i \in 1 .. Len(chain[k]) : chain'[k][i] = chain[k][i]
      BY <1>8, <2>1, <3>1, InstallFacts
    <3>3. ASSUME NEW s \in committed', MvWrote(s, k)'
          PROVE  \E i \in 1 .. Len(chain'[k]) : chain'[k][i] = Entry(s, k)'
      <4>1. CASE s = t
        BY <1>0, <3>2, <4>1
      <4>2. CASE s # t
        <5>1. s \in committed /\ s \in MvTxns
          BY <1>0, <1>1, <4>2
        <5>2. PICK i \in 1 .. Len(chain[k]) : chain[k][i] = Entry(s, k)
          BY <1>6, <2>0, <3>3, <5>1 DEF Linked
        <5> QED
          BY <1>0, <1>7, <3>2, <5>1, <5>2
      <4> QED
        BY <4>1, <4>2
    <3>4. ASSUME NEW i \in 1 .. Len(chain'[k])
          PROVE  \E s \in committed' : MvWrote(s, k)' /\ chain'[k][i] = Entry(s, k)'
      <4>1. CASE i = Len(chain[k]) + 1
        BY <1>1, <1>6, <2>1, <3>2, <4>1
      <4>2. CASE i # Len(chain[k]) + 1
        <5>1. i \in 1 .. Len(chain[k])
          BY <1>0, <3>2, <4>2
        <5>2. PICK s \in committed : MvWrote(s, k) /\ chain[k][i] = Entry(s, k)
          BY <2>0, <5>1 DEF Linked
        <5>3. s \in MvTxns
          BY <1>0
        <5> QED
          BY <1>1, <1>6, <1>7, <3>2, <5>1, <5>2, <5>3
      <4> QED
        BY <4>1, <4>2
    <3> HIDE DEF Entry, MvWrote
    <3> QED
      BY <3>3, <3>4 DEF Linked
  <2>2. CASE ~MvWrote(t, k)
    <3>1. chain'[k] = chain[k]
      BY <1>1, <2>2
    <3>2. ASSUME NEW s \in committed', MvWrote(s, k)'
          PROVE  \E i \in 1 .. Len(chain'[k]) : chain'[k][i] = Entry(s, k)'
      <4>1. s \in MvTxns
        BY <1>0, <1>1
      <4>2. s # t /\ s \in committed /\ MvWrote(s, k)
        BY <1>1, <1>6, <2>2, <3>2, <4>1
      <4> QED
        BY <1>7, <2>0, <3>1, <4>2 DEF Linked
    <3>3. ASSUME NEW i \in 1 .. Len(chain'[k])
          PROVE  \E s \in committed' : MvWrote(s, k)' /\ chain'[k][i] = Entry(s, k)'
      <4>1. PICK s \in committed : MvWrote(s, k) /\ chain[k][i] = Entry(s, k)
        BY <2>0, <3>1 DEF Linked
      <4>2. s \in MvTxns
        BY <1>0
      <4> QED
        BY <1>1, <1>6, <1>7, <3>1, <4>1, <4>2
    <3> HIDE DEF Entry, MvWrote
    <3> QED
      BY <3>2, <3>3 DEF Linked
  <2> QED
    BY <2>1, <2>2
<1>14. ASSUME NEW s \in committed, NEW k \in MvKeys, MvWrote(s, k), MvWrote(t, k), NothingDropped(k)'
       PROVE  mvTxn[s].commit_ts < mvTxn[t].read_ts
  <2>1. Linked(k)
    BY <1>2, <1>14 DEF MvInv
  <2>2. PICK i \in 1 .. Len(chain[k]) : chain[k][i] = Entry(s, k)
    BY <1>14, <2>1 DEF Linked
  <2>3. chain[k][i].commit_ts = mvTxn[s].commit_ts
    BY <2>2 DEF Entry
  <2>4. PICK j \in 1 .. Len(mvTxn[t].writes) : mvTxn[t].writes[j].key = k
    BY <1>14 DEF MvWrote
  <2>5. chain[k] # <<>> => chain[k][Len(chain[k])].commit_ts <= mvTxn[t].read_ts
    BY <1>1, <2>4 DEF mvcc_validate_write_set, Head_
  <2>6. Len(chain[k]) \in 1 .. Len(chain[k]) /\ i <= Len(chain[k]) /\ chain[k] # <<>>
    BY <1>0, <2>2
  <2>7. chain[k][i].commit_ts <= chain[k][Len(chain[k])].commit_ts
    <3>1. i < Len(chain[k]) => chain[k][i].commit_ts < chain[k][Len(chain[k])].commit_ts
      BY <2>6 DEF MvInv, ChainOrdered
    <3> QED
      BY <1>0, <2>2, <2>6, <3>1
  <2>8. mvTxn[s].commit_ts # mvTxn[t].read_ts
    BY <1>0 DEF TxnOk
  <2>9. s \in MvTxns
    BY <1>0
  <2> QED
    BY <1>0, <2>3, <2>5, <2>6, <2>7, <2>8, <2>9
<1>15. FirstCommitterWins'
  <2> SUFFICES ASSUME NEW s \in committed', NEW u \in committed', NEW k \in MvKeys,
                      s # u, MvWrote(s, k)', MvWrote(u, k)', NothingDropped(k)'
               PROVE  \/ mvTxn'[s].commit_ts < mvTxn'[u].read_ts
                      \/ mvTxn'[u].commit_ts < mvTxn'[s].read_ts
    BY DEF FirstCommitterWins
  <2>1. s \in MvTxns /\ u \in MvTxns /\ MvWrote(s, k) /\ MvWrote(u, k) /\ NothingDropped(k)
    BY <1>0, <1>1, <1>2, <1>6
  <2>2. CASE s # t /\ u # t
    <3>1. s \in committed /\ u \in committed
      BY <1>1, <2>2
    <3>2. mvTxn'[s] = mvTxn[s] /\ mvTxn'[u] = mvTxn[u]
      BY <1>5, <2>1, <2>2
    <3> QED
      BY <2>1, <3>1, <3>2 DEF MvInv, FirstCommitterWins
  <2>3. CASE s = t
    <3>1. u \in committed /\ u # t
      BY <1>1, <2>3
    <3> QED
      BY <1>5, <1>14, <2>1, <2>3, <3>1
  <2>4. CASE u = t
    <3>1. s \in committed /\ s # t
      BY <1>1, <2>4
    <3> QED
      BY <1>5, <1>14, <2>1, <2>4, <3>1
  <2> QED
    BY <2>2, <2>3, <2>4
<1> QED
  BY <1>2, <1>10, <1>11, <1>12, <1>13, <1>15 DEF MvInv

LEMMA MvBegin ==
  ASSUME MvInv, NEW t \in MvTxns, mvcc_txn_begin(t)
  PROVE  MvInv'
<1> DEFINE x == [mvTxn[t] EXCEPT !.status = "ACTIVE", !.read_ts = global_ts]
<1>0. /\ mvTxn \in [MvTxns -> MVCCTransaction] /\ mvTxn[t] \in MVCCTransaction
      /\ global_ts \in Nat \ {0} /\ committed \subseteq MvTxns /\ active \subseteq MvTxns
      /\ \A s \in MvTxns : TxnOk(s) /\ mvTxn[s].commit_ts \in Nat
  BY MvFacts DEF MvInv, MvTypeOK
<1>1. /\ mvTxn[t].status = "NEW" /\ global_ts' = global_ts + 1 /\ active' = active \cup {t}
      /\ mvTxn' = [mvTxn EXCEPT ![t].status = "ACTIVE", ![t].read_ts = global_ts]
      /\ UNCHANGED <<mvStore, committed>>
  BY DEF mvcc_txn_begin
<1>2. x \in MVCCTransaction /\ x.read_ts = global_ts /\ x.writes = mvTxn[t].writes
  BY <1>0 DEF MVCCTransaction
<1>3. mvTxn' = [mvTxn EXCEPT ![t] = x]
  BY <1>0, <1>1
<1> HIDE DEF x
<1>4. t \notin committed /\ DistinctWrites(x.writes)
  BY <1>0, <1>1, <1>2 DEF TxnOk
<1>5. \A s \in committed : mvTxn[s].commit_ts # x.read_ts
  BY <1>0, <1>2 DEF TxnOk
<1>6. /\ global_ts' \in Nat /\ global_ts <= global_ts' /\ active' \subseteq MvTxns
      /\ x.read_ts < global_ts'
  BY <1>0, <1>1, <1>2
<1> QED
  BY <1>1, <1>2, <1>3, <1>4, <1>5, <1>6, MvLocal

LEMMA MvRead ==
  ASSUME MvInv, NEW t \in MvTxns, NEW k \in MvKeys, mvcc_snapshot_read(t, k)
  PROVE  MvInv'
<1> DEFINE q == mvTxn[t].read_keys \cup {k}
           x == [mvTxn[t] EXCEPT !.read_keys = q]
<1>0. /\ mvTxn[t] \in MVCCTransaction /\ TxnOk(t)
      /\ global_ts \in Nat \ {0} /\ active \subseteq MvTxns
  BY MvFacts DEF MvInv, MvTypeOK
<1>1. mvTxn[t].status # "NEW" /\ mvTxn' = [mvTxn EXCEPT ![t] = x]
      /\ UNCHANGED <<mvStore, global_ts, active, committed>>
  BY DEF mvcc_snapshot_read
<1>2. q \in SUBSET MvKeys
  BY <1>0 DEF MVCCTransaction
<1> HIDE DEF q
<1>3. /\ x \in MVCCTransaction /\ x.status = mvTxn[t].status /\ x.read_ts = mvTxn[t].read_ts
      /\ x.commit_ts = mvTxn[t].commit_ts /\ x.writes = mvTxn[t].writes
  BY <1>0, <1>2 DEF MVCCTransaction
<1> HIDE DEF x
<1>4. /\ UNCHANGED <<mvStore, committed>> /\ active' \subseteq MvTxns
      /\ global_ts' \in Nat /\ global_ts' = global_ts /\ global_ts <= global_ts'
  BY <1>0, <1>1
<1>5. /\ DistinctWrites(x.writes) /\ x.read_ts < global_ts'
      /\ \A s \in committed : mvTxn[s].commit_ts # x.read_ts
      /\ t \in committed => x.status \notin {"NEW", "ACTIVE"}
  BY <1>0, <1>1, <1>3, <1>4 DEF TxnOk
<1> QED
  BY <1>1, <1>3, <1>4, <1>5, MvLocal

LEMMA MvWrite ==
  ASSUME MvInv, NEW t \in MvTxns, NEW k \in MvKeys, NEW v \in MvValues, mvcc_prepare_write(t, k, v)
  PROVE  MvInv'
<1> DEFINE ws == mvTxn[t].writes
           q == IF MvWrote(t, k) THEN [ws EXCEPT ![WriteOf(t, k)].value = v]
                ELSE Append(ws, [key |-> k, value |-> v])
           x == [mvTxn[t] EXCEPT !.writes = q]
<1>0. /\ mvTxn[t] \in MVCCTransaction /\ TxnOk(t) /\ ws \in Seq(MVCCWrite) /\ Len(ws) \in Nat
      /\ \A i \in 1 .. Len(ws) : ws[i] \in MVCCWrite
      /\ global_ts \in Nat \ {0} /\ active \subseteq MvTxns
  BY MvFacts DEF MvInv, MvTypeOK
<1>1. mvTxn[t].status = "ACTIVE" /\ mvTxn' = [mvTxn EXCEPT ![t] = x]
      /\ UNCHANGED <<mvStore, global_ts, active, committed>>
  BY DEF mvcc_prepare_write
<1>2. q \in Seq(MVCCWrite) /\ DistinctWrites(q)
  <2>1. CASE MvWrote(t, k)
    <3> DEFINE m == WriteOf(t, k)
               e == [ws[m] EXCEPT !.value = v]
    <3>1. m \in 1 .. Len(ws)
      BY <2>1 DEF MvWrote, WriteOf
    <3> HIDE DEF m
    <3>2. e \in MVCCWrite /\ e.key = ws[m].key
      <4>1. ws[m] \in MVCCWrite
        BY <1>0, <3>1
      <4> QED
        BY <4>1 DEF MVCCWrite
    <3>3. q = [ws EXCEPT ![m] = e]
      BY <2>1 DEF m
    <3> HIDE DEF q, e
    <3>4. q \in Seq(MVCCWrite) /\ Len(q) = Len(ws) /\ \A i \in 1 .. Len(ws) : q[i].key = ws[i].key
      BY <1>0, <3>1, <3>2, <3>3
    <3> QED
      BY <1>0, <3>4 DEF TxnOk, DistinctWrites
  <2>2. CASE ~MvWrote(t, k)
    <3> DEFINE e == [key |-> k, value |-> v]
    <3>1. e \in MVCCWrite /\ e.key = k
      BY DEF MVCCWrite
    <3>2. q = Append(ws, e)
      BY <2>2
    <3> HIDE DEF q, e
    <3>3. /\ q \in Seq(MVCCWrite) /\ Len(q) = Len(ws) + 1 /\ q[Len(ws) + 1] = e
          /\ \A i \in 1 .. Len(ws) : q[i] = ws[i]
      BY <1>0, <3>1, <3>2
    <3>4. \A i \in 1 .. Len(ws) : ws[i].key # k
      BY <2>2 DEF MvWrote
    <3>5. \A i \in 1 .. Len(q) : i \in 1 .. Len(ws) \/ i = Len(ws) + 1
      BY <1>0, <3>3
    <3> QED
      BY <1>0, <3>1, <3>3, <3>4, <3>5 DEF TxnOk, DistinctWrites
  <2> QED
    BY <2>1, <2>2
<1> HIDE DEF q
<1>3. /\ x \in MVCCTransaction /\ x.status = mvTxn[t].status /\ x.read_ts = mvTxn[t].read_ts
      /\ x.writes = q
  BY <1>0, <1>2 DEF MVCCTransaction
<1> HIDE DEF x
<1>4. /\ UNCHANGED <<mvStore, committed>> /\ active' \subseteq MvTxns
      /\ global_ts' \in Nat /\ global_ts' = global_ts /\ global_ts <= global_ts'
  BY <1>0, <1>1
<1>5. /\ t \notin committed /\ x.read_ts < global_ts'
      /\ \A s \in committed : mvTxn[s].commit_ts # x.read_ts
  BY <1>0, <1>1, <1>3, <1>4 DEF TxnOk
<1> QED
  BY <1>1, <1>2, <1>3, <1>4, <1>5, MvLocal

LEMMA MvConflict ==
  ASSUME MvInv, NEW t \in MvTxns, mvTxn[t].status = "ACTIVE", CommitConflict(t),
         global_ts' = global_ts + 1, active' \subseteq MvTxns
  PROVE  MvInv'
<1> DEFINE x == [mvTxn[t] EXCEPT !.status = "ABORTED", !.commit_ts = global_ts]
<1>0. /\ mvTxn[t] \in MVCCTransaction /\ TxnOk(t) /\ global_ts \in Nat \ {0}
      /\ mvTxn \in [MvTxns -> MVCCTransaction] /\ mvTxn[t].read_ts \in Nat
  BY MvFacts DEF MvInv
<1>1. /\ mvTxn' = [mvTxn EXCEPT ![t].status = "ABORTED", ![t].commit_ts = global_ts]
      /\ UNCHANGED <<mvStore, committed>>
  BY DEF CommitConflict
<1>2. mvTxn' = [mvTxn EXCEPT ![t] = x]
  BY <1>0, <1>1
<1>3. /\ x \in MVCCTransaction /\ x.read_ts = mvTxn[t].read_ts /\ x.writes = mvTxn[t].writes
  BY <1>0 DEF MVCCTransaction
<1> HIDE DEF x
<1>4. /\ t \notin committed /\ DistinctWrites(x.writes)
      /\ x.read_ts < global_ts /\ \A s \in committed : mvTxn[s].commit_ts # x.read_ts
  BY <1>0, <1>3 DEF TxnOk
<1>5. x.read_ts < global_ts' /\ global_ts' \in Nat /\ global_ts <= global_ts'
  BY <1>0, <1>3, <1>4
<1> QED
  BY <1>1, <1>2, <1>3, <1>4, <1>5, MvLocal

LEMMA MvAbort ==
  ASSUME MvInv, NEW t \in MvTxns, mvcc_txn_abort(t)
  PROVE  MvInv'
<1> DEFINE x == [mvTxn[t] EXCEPT !.status = "ABORTED"]
<1>0. /\ mvTxn[t] \in MVCCTransaction /\ TxnOk(t) /\ global_ts \in Nat \ {0} /\ active \subseteq MvTxns
  BY MvFacts DEF MvInv, MvTypeOK
<1>1. /\ mvTxn[t].status # "NEW" /\ mvTxn' = [mvTxn EXCEPT ![t] = x]
      /\ UNCHANGED <<mvStore, committed>> /\ global_ts' = global_ts /\ active' \subseteq MvTxns
  BY <1>0 DEF mvcc_txn_abort
<1>2. /\ x \in MVCCTransaction /\ x.status = "ABORTED" /\ x.read_ts = mvTxn[t].read_ts
      /\ x.commit_ts = mvTxn[t].commit_ts /\ x.writes = mvTxn[t].writes
  BY <1>0 DEF MVCCTransaction
<1> HIDE DEF x
<1>3. global_ts' \in Nat /\ global_ts <= global_ts'
  BY <1>0, <1>1
<1>4. /\ DistinctWrites(x.writes) /\ x.read_ts < global_ts'
      /\ \A s \in committed : mvTxn[s].commit_ts # x.read_ts
  BY <1>0, <1>1, <1>2 DEF TxnOk
<1> QED
  BY <1>1, <1>2, <1>3, <1>4, MvLocal

LEMMA MvNextKeeps ==
  ASSUME MvInv, [MvNext]_mvVars
  PROVE  MvInv'
<1>1. ASSUME NEW t \in MvTxns, mvcc_txn_commit(t)
      PROVE  MvInv'
  <2>1. /\ mvTxn[t].status = "ACTIVE" /\ (MvCommitValid(t) \/ CommitConflict(t))
        /\ global_ts' = global_ts + 1 /\ active' = active \ {t}
    BY <1>1 DEF mvcc_txn_commit
  <2>2. active' \subseteq MvTxns
    BY <2>1 DEF MvInv, MvTypeOK
  <2> QED
    BY <1>1, <2>1, <2>2, CommitKeeps, MvConflict DEF mvcc_txn_commit
<1>2. CASE UNCHANGED mvVars
  <2>1. /\ UNCHANGED <<mvRecords, chain, version_count, global_ts>>
        /\ UNCHANGED <<active, mvTxn, committed>>
    BY <1>2 DEF mvVars, mvStore
  <2>2. \A k, u : (MvWrote(u, k)' <=> MvWrote(u, k)) /\ Entry(u, k)' = Entry(u, k)
    BY <2>1 DEF MvWrote, Entry, WriteOf
  <2>3. \A k : (Linked(k)' <=> Linked(k)) /\ (NothingDropped(k)' <=> NothingDropped(k))
    BY <2>1 DEF Linked, NothingDropped, MvWrote, Entry, WriteOf
  <2>4. FirstCommitterWins'
    BY <2>1, <2>2, <2>3 DEF MvInv, FirstCommitterWins
  <2>5. MvTypeOK' /\ ChainOrdered' /\ \A u \in MvTxns : TxnOk(u)'
    BY <2>1 DEF MvInv, MvTypeOK, ChainOrdered, TxnOk
  <2> QED
    BY <2>1, <2>3, <2>4, <2>5 DEF MvInv
<1> QED
  BY <1>1, <1>2, MvBegin, MvRead, MvWrite, MvAbort DEF MvNext

LEMMA MvInitOk == MvInit => MvInv
<1> SUFFICES ASSUME MvInit PROVE MvInv
  OBVIOUS
<1>1. /\ mvRecords = {} /\ IsFiniteSet(mvRecords) /\ committed = {} /\ active = {}
      /\ global_ts = 1 /\ version_count = 0
  BY FS_EmptySet DEF MvInit
<1>2. /\ chain \in [MvKeys -> Seq(MVCCVersion)] /\ \A k \in MvKeys : chain[k] = <<>>
  BY DEF MvInit
<1>3. /\ mvTxn \in [MvTxns -> MVCCTransaction]
      /\ \A t \in MvTxns : mvTxn[t].status = "NEW" /\ mvTxn[t].writes = <<>>
  <2>1. <<>> \in Seq(MVCCWrite) /\ {} \in SUBSET MvKeys
    OBVIOUS
  <2> QED
    BY <2>1 DEF MvInit, MVCCTransaction
<1>4. MvTypeOK
  BY <1>1, <1>2, <1>3, MvccAssumption DEF MvTypeOK
<1>5. \A t \in MvTxns : TxnOk(t)
  BY <1>1, <1>3 DEF TxnOk, DistinctWrites
<1>6. ChainOrdered /\ \A k \in MvKeys : Linked(k)
  BY <1>1, <1>2 DEF ChainOrdered, Linked
<1> QED
  BY <1>1, <1>4, <1>5, <1>6 DEF MvInv, FirstCommitterWins

(* The newest visible version is the one of the last writer that committed    *)
(* before the snapshot.                                                       *)
LEMMA SnapshotsExact ==
  ASSUME MvInv, NEW k \in MvKeys, NothingDropped(k), NEW ts \in Nat
  PROVE  mvcc_visible_version(k, ts) = SnapshotValue(k, ts)
<1> DEFINE c == chain[k]
           seen == VisibleIndex(c, ts)
           ws == Before(k, ts)
<1>0. /\ Len(c) \in Nat /\ \A i \in 1 .. Len(c) : c[i].commit_ts \in Nat
      /\ \A i, j \in 1 .. Len(c) : i < j => c[i].commit_ts < c[j].commit_ts
      /\ committed \subseteq MvTxns /\ \A s \in MvTxns : mvTxn[s].commit_ts \in Nat
  BY MvFacts DEF MvInv, ChainOrdered
<1>1. Linked(k)
  BY DEF MvInv
<1>2. /\ seen = {i \in 1 .. Len(c) : c[i].commit_ts <= ts}
      /\ ws = {s \in committed : MvWrote(s, k) /\ mvTxn[s].commit_ts <= ts}
  BY DEF VisibleIndex, Before
<1>3. ASSUME NEW i \in seen
      PROVE  \E s \in ws : c[i] = Entry(s, k)
  <2>1. PICK s \in committed : MvWrote(s, k) /\ c[i] = Entry(s, k)
    BY <1>1, <1>2 DEF Linked
  <2>2. c[i].commit_ts = mvTxn[s].commit_ts
    BY <2>1 DEF Entry
  <2> QED
    BY <1>2, <2>1, <2>2
<1>4. ASSUME NEW s \in ws
      PROVE  \E i \in seen : c[i] = Entry(s, k)
  <2>1. PICK i \in 1 .. Len(c) : c[i] = Entry(s, k)
    BY <1>1, <1>2 DEF Linked
  <2>2. c[i].commit_ts = mvTxn[s].commit_ts
    BY <2>1 DEF Entry
  <2> QED
    BY <1>2, <2>1, <2>2
<1>5. \A s : Entry(s, k).commit_ts = mvTxn[s].commit_ts
             /\ Entry(s, k).value = mvTxn[s].writes[WriteOf(s, k)].value
  BY DEF Entry
<1>6. CASE seen = {}
  <2>1. ws = {}
    BY <1>4, <1>6
  <2> QED
    BY <1>6, <2>1 DEF mvcc_visible_version, SnapshotValue
<1>7. CASE seen # {}
  <2> DEFINE m == CHOOSE i \in seen : \A j \in seen : j <= i
             s == CHOOSE s \in ws : \A u \in ws : mvTxn[u].commit_ts <= mvTxn[s].commit_ts
  <2>1. seen \subseteq 0 .. Len(c)
    BY <1>0, <1>2
  <2>2. \E i \in seen : \A j \in seen : j <= i
    BY <1>0, <1>7, <2>1, GreatestExists
  <2>3. m \in seen /\ \A j \in seen : j <= m
    BY <2>2
  <2>4. mvcc_visible_version(k, ts) = c[m].value
    BY <1>7 DEF mvcc_visible_version
  <2> HIDE DEF m
  <2>5. PICK p \in ws : c[m] = Entry(p, k)
    BY <1>3, <2>3
  <2>6. ASSUME NEW u \in ws
        PROVE  mvTxn[u].commit_ts <= mvTxn[p].commit_ts
    <3>1. PICK j \in seen : c[j] = Entry(u, k)
      BY <1>4
    <3>2. j \in 1 .. Len(c) /\ m \in 1 .. Len(c) /\ j <= m
      BY <1>2, <2>3
    <3>3. c[j].commit_ts <= c[m].commit_ts
      BY <1>0, <3>2
    <3> QED
      BY <1>5, <2>5, <3>1, <3>3
  <2>7. s \in ws /\ \A u \in ws : mvTxn[u].commit_ts <= mvTxn[s].commit_ts
    BY <2>5, <2>6
  <2>8. SnapshotValue(k, ts) = mvTxn[s].writes[WriteOf(s, k)].value
    BY <2>5 DEF SnapshotValue
  <2> HIDE DEF s
  <2>9. PICK j \in seen : c[j] = Entry(s, k)
    BY <1>4, <2>7
  <2>10. c[j].commit_ts = c[m].commit_ts
    <3>1. s \in MvTxns /\ p \in MvTxns
      BY <1>0, <1>2, <2>5, <2>7
    <3>2. mvTxn[s].commit_ts = mvTxn[p].commit_ts
      BY <1>0, <2>5, <2>6, <2>7, <3>1
    <3> QED
      BY <1>5, <2>5, <2>9, <3>2
  <2>11. j = m
    <3>1. j \in 1 .. Len(c) /\ m \in 1 .. Len(c) /\ j <= m
      BY <1>2, <2>3
    <3> QED
      BY <1>0, <2>10, <3>1
  <2> QED
    BY <1>5, <2>4, <2>8, <2>9, <2>11
<1> QED
  BY <1>6, <1>7

(* Snapshot isolation: the first committer of two overlapping writers wins,   *)
(* chains are ordered and their array is not overrun, and every read is from  *)
(* a consistent snapshot, as long as no write of the key was dropped.         *)
THEOREM SnapshotsIsolated == MvSpec => []SnapshotIsolation
<1>1. MvInv => SnapshotIsolation
  <2> SUFFICES ASSUME MvInv PROVE SnapshotIsolation
    OBVIOUS
  <2>1. SnapshotRead
    BY MvFacts, SnapshotsExact DEF SnapshotRead
  <2> QED
    BY <2>1 DEF MvInv, SnapshotIsolation
<1> QED
  BY <1>1, MvInitOk, MvNextKeeps, PTL DEF MvSpec
-----------------------------------------------------------------------------
(***************************************************************************)
(* The write-ahead log.  While the log has not wrapped, the record at       *)
(* position i has the number i, and what key k held when the log had n      *)
(* records can be read off the log: it is ValueAt(k, n).  The database is   *)
(* the value at the end, a page on disk the value at some flushed position  *)
(* behind the last checkpoint, and what is committed the value at a         *)
(* position, the boundary, before which only committed transactions changed *)
(* the key and behind which only one active transaction did.  A crash cuts  *)
(* the log behind all that, redo advances every page to the end of the log, *)
(* and undo takes every key back to its boundary.                           *)
(***************************************************************************)

(* The records that change key k among the first n.                          *)
ChangesOf(r, k, n) == {i \in 1 .. n : r[i].type = "DATA" /\ r[i].key = k}

ValueAt(r, k, n) ==
  LET c == ChangesOf(r, k, n)
  IN  IF c = {} THEN Absent ELSE r[CHOOSE i \in c : \A j \in c : j <= i].new_value

(* The log: numbered, without ABORT, and each change holds what it replaced. *)
LogOk(w, n) ==
  /\ n \in Nat /\ w.records \in Seq(WALRecord) /\ Len(w.records) = n
  /\ \A i \in 1 .. n : w.records[i].lsn = i
  /\ \A i \in 1 .. n : w.records[i].type # "ABORT"
  /\ \A i \in 1 .. n :
       w.records[i].type = "DATA" =>
         w.records[i].old_value = ValueAt(w.records, w.records[i].key, i - 1)

(* The end of a transaction is logged when it commits, behind its changes,   *)
(* and flushed.                                                              *)
EndsLogged(w, n, f, tx) ==
  /\ \A i \in 1 .. n : w.records[i].type = "COMMIT" =>
       w.records[i].txn_id \in WalTxns /\ tx[w.records[i].txn_id] = "committed"
  /\ \A t \in WalTxns : tx[t] = "committed" =>
       \E i \in 1 .. n : /\ i <= f /\ w.records[i].type = "COMMIT"
                         /\ w.records[i].txn_id = t
  /\ \A i \in 1 .. n :
       w.records[i].type = "DATA" =>
         /\ w.records[i].txn_id \in WalTxns
         /\ tx[w.records[i].txn_id] = "committed" => i <= f

(* A page is as new as the checkpoint and no newer than the flushed log.     *)
PageOk(w, k, f, page) ==
  \E p \in 0 .. f : w.checkpoint_lsn <= p + 1 /\ page = ValueAt(w.records, k, p)

(* Key k up to position q is committed, and behind q is one transaction's.   *)
Boundary(w, n, k, q, tx, state, value) ==
  /\ value = ValueAt(w.records, k, q)
  /\ \A i \in ChangesOf(w.records, k, n) :
       /\ i <= q => tx[w.records[i].txn_id] = "committed"
       /\ i > q => tx[w.records[i].txn_id] = state
  /\ \A i, j \in ChangesOf(w.records, k, n) :
       i > q /\ j > q => w.records[i].txn_id = w.records[j].txn_id

Running(w, n, f, tx, mem, pages, com) ==
  /\ LogOk(w, n) /\ n = Len(w.records)
  /\ f \in 0 .. n /\ f = w.flushed_lsn /\ w.next_lsn = n + 1
  /\ w.checkpoint_lsn \in 0 .. n
  /\ EndsLogged(w, n, f, tx)
  /\ \A k \in WalKeys :
       /\ mem[k] = ValueAt(w.records, k, n)
       /\ PageOk(w, k, f, pages[k])
       /\ \E q \in 0 .. n : Boundary(w, n, k, q, tx, "active", com[k])

Fallen(w, n, tx, mem, com) ==
  /\ LogOk(w, n) /\ n = Len(w.records)
  /\ EndsLogged(w, n, n, tx)
  /\ w.checkpoint_lsn \in Nat
  /\ \A k \in WalKeys :
       /\ PageOk(w, k, n, mem[k])
       /\ \E q \in 0 .. n : Boundary(w, n, k, q, tx, "lost", com[k])

(* wm is a WALManager; after a recovery nothing more is said of it.           *)
Fields(w) ==
  w = [ records |-> w.records, next_lsn |-> w.next_lsn,
         flushed_lsn |-> w.flushed_lsn, checkpoint_lsn |-> w.checkpoint_lsn,
         write_pos |-> w.write_pos, flush_pos |-> w.flush_pos,
         is_circular |-> w.is_circular ]

WalInv ==
  /\ crashes \in Nat /\ (mode = "down" => crashes > 0)
  /\ crashes = 0 => /\ Fields(wm) /\ wm.is_circular \in BOOLEAN
                    /\ walTxn \in [WalTxns -> {"new", "active", "committed"}]
                    /\ db \in [WalKeys -> WalValues \cup {Absent}]
                    /\ disk \in [WalKeys -> WalValues \cup {Absent}]
                    /\ truth \in [WalKeys -> WalValues \cup {Absent}]
                    /\ ~wm.is_circular =>
                         Running(wm, Len(wm.records), wm.flushed_lsn, walTxn, db, disk, truth)
  /\ (crashes = 1 /\ mode = "down") => /\ truth \in [WalKeys -> WalValues \cup {Absent}]
                                       /\ ~wm.is_circular =>
                                            Fallen(wm, Len(wm.records), walTxn, db, truth)

LEMMA ValueFrame ==
  ASSUME NEW r, NEW s, NEW k, NEW n \in Nat, \A i \in 1 .. n : r[i] = s[i]
  PROVE  /\ ChangesOf(r, k, n) = ChangesOf(s, k, n)
         /\ ValueAt(r, k, n) = ValueAt(s, k, n)
<1>1. ChangesOf(r, k, n) = ChangesOf(s, k, n)
  BY DEF ChangesOf
<1> DEFINE c == ChangesOf(r, k, n)
           m == CHOOSE i \in c : \A j \in c : j <= i
<1>2. CASE c = {}
  BY <1>1, <1>2 DEF ValueAt
<1>3. CASE c # {}
  <2>1. c \subseteq 0 .. n
    BY DEF ChangesOf
  <2>2. \E i \in c : \A j \in c : j <= i
    <3> HIDE DEF c
    <3> QED  BY <1>3, <2>1, GreatestExists
  <2>3. m \in c
    <3> HIDE DEF c
    <3> QED  BY <2>2
  <2>4. m \in 1 .. n
    BY <2>3 DEF ChangesOf
  <2>5. r[m] = s[m]
    <3> HIDE DEF m
    <3> QED  BY <2>4
  <2> QED
    BY <1>1, <1>3, <2>5 DEF ValueAt
<1> QED
  BY <1>1, <1>2, <1>3

IsLast(r, k, n, m) == m \in ChangesOf(r, k, n) /\ \A j \in ChangesOf(r, k, n) : j <= m

LEMMA ValueLast ==
  ASSUME NEW r, NEW k, NEW n \in Nat, NEW m, IsLast(r, k, n, m)
  PROVE  ValueAt(r, k, n) = r[m].new_value
<1> DEFINE c == ChangesOf(r, k, n)
           l == CHOOSE i \in c : \A j \in c : j <= i
<1>1. l \in c /\ \A j \in c : j <= l
  <2>1. \E i \in c : \A j \in c : j <= i
    BY DEF IsLast
  <2> HIDE DEF c
  <2> QED  BY <2>1
<1>2. l = m
  <2>1. l <= m /\ m <= l
    BY <1>1 DEF IsLast
  <2>2. l \in Nat /\ m \in Nat
    BY <1>1 DEF ChangesOf, IsLast
  <2> HIDE DEF l
  <2> QED  BY <2>1, <2>2
<1>3. c # {}
  BY DEF IsLast
<1> QED
  BY <1>2, <1>3 DEF ValueAt

LEMMA ValueSkip ==
  ASSUME NEW r, NEW k, NEW m \in Nat, NEW n \in Nat, m <= n,
         \A i \in ChangesOf(r, k, n) : i <= m
  PROVE  ValueAt(r, k, n) = ValueAt(r, k, m)
<1>1. ChangesOf(r, k, n) = ChangesOf(r, k, m)
  BY DEF ChangesOf
<1> QED
  BY <1>1 DEF ValueAt

(* What one more record adds to the log.                                     *)
Grown(w, v, n, rec) ==
  /\ LogOk(v, n + 1)
  /\ \A i \in 1 .. n : v.records[i] = w.records[i]
  /\ v.records[n + 1] = rec
  /\ \A k : \A m \in 0 .. n : ValueAt(v.records, k, m) = ValueAt(w.records, k, m)
  /\ \A k : ChangesOf(v.records, k, n + 1)
              = ChangesOf(w.records, k, n)
                \cup (IF rec.type = "DATA" /\ rec.key = k THEN {n + 1} ELSE {})

LEMMA LogGrows ==
  ASSUME NEW w, NEW v, NEW n, LogOk(w, n), NEW rec \in WALRecord,
         v.records = Append(w.records, rec), rec.lsn = n + 1, rec.type # "ABORT",
         rec.type = "DATA" => rec.old_value = ValueAt(w.records, rec.key, n)
  PROVE  Grown(w, v, n, rec)
<1>0. n \in Nat /\ w.records \in Seq(WALRecord) /\ Len(w.records) = n
  BY DEF LogOk
<1>1. /\ v.records \in Seq(WALRecord) /\ Len(v.records) = n + 1
      /\ \A i \in 1 .. n : v.records[i] = w.records[i]
      /\ v.records[n + 1] = rec
  BY <1>0
<1>2. \A k : \A m \in 0 .. n : ValueAt(v.records, k, m) = ValueAt(w.records, k, m)
  <2> SUFFICES ASSUME NEW k, NEW m \in 0 .. n
               PROVE  ValueAt(v.records, k, m) = ValueAt(w.records, k, m)
    OBVIOUS
  <2>1. \A i \in 1 .. m : v.records[i] = w.records[i]
    BY <1>0, <1>1
  <2>2. m \in Nat
    BY <1>0
  <2> QED
    BY <2>1, <2>2, ValueFrame
<1>3. \A k : ChangesOf(v.records, k, n + 1)
               = ChangesOf(w.records, k, n)
                 \cup (IF rec.type = "DATA" /\ rec.key = k THEN {n + 1} ELSE {})
  BY <1>0, <1>1 DEF ChangesOf
<1>4. \A i \in 1 .. n + 1 : i \in 1 .. n \/ i = n + 1
  BY <1>0
<1>5. \A i \in 1 .. n + 1 :
        v.records[i].type = "DATA" =>
          v.records[i].old_value = ValueAt(v.records, v.records[i].key, i - 1)
  <2> SUFFICES ASSUME NEW i \in 1 .. n + 1, v.records[i].type = "DATA"
               PROVE  v.records[i].old_value = ValueAt(v.records, v.records[i].key, i - 1)
    OBVIOUS
  <2>1. i - 1 \in 0 .. n
    BY <1>0
  <2>2. ValueAt(v.records, v.records[i].key, i - 1) = ValueAt(w.records, v.records[i].key, i - 1)
    BY <1>2, <2>1
  <2>3. CASE i \in 1 .. n
    BY <1>1, <2>2, <2>3 DEF LogOk
  <2>4. CASE i = n + 1
    <3>1. i - 1 = n
      BY <1>0, <2>4
    <3> QED
      BY <1>1, <2>2, <2>4, <3>1
  <2> QED
    BY <1>4, <2>3, <2>4
<1>6. \A i \in 1 .. n + 1 : v.records[i].lsn = i /\ v.records[i].type # "ABORT"
  BY <1>1, <1>4 DEF LogOk
<1>7. LogOk(v, n + 1)
  BY <1>0, <1>1, <1>5, <1>6 DEF LogOk
<1> QED
  BY <1>1, <1>2, <1>3, <1>7 DEF Grown

(* A log that has not wrapped after an append holds the record at its end.   *)
LEMMA AppendShape ==
  ASSUME NEW w, Fields(w), w.is_circular \in BOOLEAN, NEW rec, NEW v, v = wal_append(w, rec)
  PROVE  /\ Fields(v) /\ v.is_circular \in BOOLEAN
         /\ ~v.is_circular =>
              /\ ~w.is_circular
              /\ v.records = Append(w.records, [rec EXCEPT !.lsn = w.next_lsn])
              /\ v.next_lsn = w.next_lsn + 1
              /\ v.flushed_lsn = w.flushed_lsn
              /\ v.checkpoint_lsn = w.checkpoint_lsn
<1> DEFINE new  == [rec EXCEPT !.lsn = w.next_lsn]
           n    == Len(w.records)
           full == n >= MaxRecords
           at   == IF w.is_circular THEN w.write_pos ELSE 0
           R == IF full THEN [w.records EXCEPT ![at + 1] = new] ELSE Append(w.records, new)
           P == IF full THEN (at + 1) % MaxRecords ELSE n
           C == w.is_circular \/ full
           N == w.next_lsn + 1
<1>1. v = [w EXCEPT !.records = R, !.write_pos = P, !.is_circular = C, !.next_lsn = N]
  BY Zenon DEF wal_append
<1>2. C \in BOOLEAN
  BY Zenon
<1>3. ~C => ~w.is_circular /\ R = Append(w.records, new)
  BY Zenon
<1> HIDE DEF R, P, C, N
<1>4. v = [records |-> R, next_lsn |-> N, flushed_lsn |-> w.flushed_lsn,
           checkpoint_lsn |-> w.checkpoint_lsn, write_pos |-> P,
           flush_pos |-> w.flush_pos, is_circular |-> C]
  BY <1>1 DEF Fields
<1>5. Fields(v)
  BY <1>4 DEF Fields
<1> QED
  BY <1>2, <1>3, <1>4, <1>5 DEF N

LEMMA FlushShape ==
  ASSUME NEW w, Fields(w), NEW v,
         \/ v = wal_flush(w)
         \/ \E target : v = wal_flush_to(w, target)
  PROVE  /\ Fields(v) /\ v.is_circular = w.is_circular /\ v.records = w.records
         /\ v.next_lsn = w.next_lsn /\ v.checkpoint_lsn = w.checkpoint_lsn
         /\ v = wal_flush(w) => v.flushed_lsn = w.next_lsn - 1
<1>1. \E f : v = [w EXCEPT !.flushed_lsn = f, !.flush_pos = w.write_pos]
  BY Zenon DEF wal_flush, wal_flush_to
<1>2. PICK f : v = [w EXCEPT !.flushed_lsn = f, !.flush_pos = w.write_pos]
  BY <1>1
<1>3. v = [records |-> w.records, next_lsn |-> w.next_lsn, flushed_lsn |-> f,
           checkpoint_lsn |-> w.checkpoint_lsn, write_pos |-> w.write_pos,
           flush_pos |-> w.write_pos, is_circular |-> w.is_circular]
  BY <1>2 DEF Fields
<1>4. v = wal_flush(w) => v.flushed_lsn = w.next_lsn - 1
  BY DEF wal_flush, Fields
<1>5. Fields(v)
  BY <1>3 DEF Fields
<1> QED
  BY <1>3, <1>4, <1>5

(* A mark changes no value.                                                  *)
Marked(w, v, n, rec) ==
  /\ LogOk(v, n + 1) /\ n \in Nat /\ Len(v.records) = n + 1
  /\ \A i \in 1 .. n : v.records[i] = w.records[i]
  /\ v.records[n + 1] = rec
  /\ \A k : \A m \in 0 .. n : ValueAt(v.records, k, m) = ValueAt(w.records, k, m)
  /\ \A k : ChangesOf(v.records, k, n + 1) = ChangesOf(w.records, k, n)
  /\ \A k : ValueAt(v.records, k, n + 1) = ValueAt(w.records, k, n)

LEMMA MarkGrows ==
  ASSUME NEW w, NEW v, NEW n, LogOk(w, n), NEW rec \in WALRecord,
         v.records = Append(w.records, rec), rec.lsn = n + 1,
         rec.type \notin {"ABORT", "DATA"}
  PROVE  Marked(w, v, n, rec)
<1>1. /\ LogOk(v, n + 1)
      /\ \A i \in 1 .. n : v.records[i] = w.records[i]
      /\ v.records[n + 1] = rec
      /\ \A k : \A m \in 0 .. n : ValueAt(v.records, k, m) = ValueAt(w.records, k, m)
  <2>1. rec.type # "ABORT" /\ rec.type # "DATA"
    OBVIOUS
  <2>2. Grown(w, v, n, rec)
    BY <2>1, LogGrows
  <2> QED
    BY <2>2 DEF Grown
<1>2. n \in Nat /\ Len(v.records) = n + 1
  BY <1>1 DEF LogOk
<1>3. \A k : ChangesOf(v.records, k, n + 1) = ChangesOf(w.records, k, n)
  <2> TAKE k
  <2>1. \A i \in 1 .. n + 1 : i \in 1 .. n \/ i = n + 1
    BY <1>2
  <2>2. 1 .. n \subseteq 1 .. n + 1
    BY <1>2
  <2> QED
    BY <1>1, <2>1, <2>2 DEF ChangesOf
<1>4. \A k : ValueAt(v.records, k, n + 1) = ValueAt(w.records, k, n)
  <2> TAKE k
  <2>1. \A i \in ChangesOf(v.records, k, n + 1) : i <= n
    BY <1>2, <1>3 DEF ChangesOf
  <2>2. ValueAt(v.records, k, n + 1) = ValueAt(v.records, k, n)
    BY <1>2, <2>1, ValueSkip
  <2> QED
    BY <1>1, <1>2, <2>2
<1> QED
  BY <1>1, <1>2, <1>3, <1>4 DEF Marked

(* Behind a mark that is not an end, the boundaries stay where they are.     *)
LEMMA MarkRuns ==
  ASSUME NEW w, NEW v, NEW n, NEW f, NEW g, NEW tx, NEW ty, NEW mem, NEW pages, NEW swapped,
         NEW com, NEW rec \in WALRecord,
         Running(w, n, f, tx, mem, pages, com),
         v.records = Append(w.records, rec), rec.lsn = n + 1,
         rec.type \in {"BEGIN", "CHECKPOINT"},
         v.next_lsn = n + 2, v.flushed_lsn = g, g \in f .. n,
         v.checkpoint_lsn \in 0 .. n + 1,
         \A t \in WalTxns : ty[t] = tx[t] \/ (tx[t] = "new" /\ ty[t] = "active"),
         \A k \in WalKeys : PageOk(v, k, g, swapped[k])
  PROVE  Running(v, n + 1, g, ty, mem, swapped, com)
<1>1. /\ LogOk(w, n) /\ f \in 0 .. n /\ EndsLogged(w, n, f, tx)
  BY DEF Running
<1>2. /\ LogOk(v, n + 1) /\ n \in Nat /\ Len(v.records) = n + 1
      /\ \A i \in 1 .. n : v.records[i] = w.records[i]
      /\ v.records[n + 1] = rec
      /\ \A k : \A m \in 0 .. n : ValueAt(v.records, k, m) = ValueAt(w.records, k, m)
      /\ \A k : ChangesOf(v.records, k, n + 1) = ChangesOf(w.records, k, n)
      /\ \A k : ValueAt(v.records, k, n + 1) = ValueAt(w.records, k, n)
  <2>1. rec.type \notin {"ABORT", "DATA"}
    OBVIOUS
  <2>2. Marked(w, v, n, rec)
    BY <1>1, <2>1, MarkGrows
  <2> QED
    BY <2>2 DEF Marked
<1>3. EndsLogged(v, n + 1, g, ty)
  <2>1. \A i \in 1 .. n + 1 : i \in 1 .. n \/ i = n + 1
    BY <1>2
  <2>2. 1 .. n \subseteq 1 .. n + 1
    BY <1>2
  <2>3. \A i \in Int : i <= f => i <= g
    BY <1>1, <1>2
  <2>4. \A i \in 1 .. n + 1 : v.records[i].type = "COMMIT" =>
          v.records[i].txn_id \in WalTxns /\ ty[v.records[i].txn_id] = "committed"
    <3> SUFFICES ASSUME NEW i \in 1 .. n + 1, v.records[i].type = "COMMIT"
                 PROVE  v.records[i].txn_id \in WalTxns /\ ty[v.records[i].txn_id] = "committed"
      OBVIOUS
    <3>1. i \in 1 .. n
      BY <1>2, <2>1
    <3>2. w.records[i].txn_id \in WalTxns /\ tx[w.records[i].txn_id] = "committed"
      BY <1>1, <1>2, <3>1 DEF EndsLogged
    <3> QED
      BY <1>2, <3>1, <3>2
  <2>5. \A t \in WalTxns : ty[t] = "committed" =>
          \E i \in 1 .. n + 1 : /\ i <= g /\ v.records[i].type = "COMMIT"
                                /\ v.records[i].txn_id = t
    <3> SUFFICES ASSUME NEW t \in WalTxns, ty[t] = "committed"
                 PROVE  \E i \in 1 .. n + 1 : /\ i <= g /\ v.records[i].type = "COMMIT"
                                              /\ v.records[i].txn_id = t
      OBVIOUS
    <3>1. PICK i \in 1 .. n : i <= f /\ w.records[i].type = "COMMIT" /\ w.records[i].txn_id = t
      BY <1>1 DEF EndsLogged
    <3> QED
      BY <1>2, <2>2, <2>3, <3>1
  <2>6. \A i \in 1 .. n + 1 : v.records[i].type = "DATA" =>
          /\ v.records[i].txn_id \in WalTxns
          /\ ty[v.records[i].txn_id] = "committed" => i <= g
    BY <1>1, <1>2, <2>1, <2>3 DEF EndsLogged
  <2> QED
    BY <2>4, <2>5, <2>6 DEF EndsLogged
<1>4. ASSUME NEW k \in WalKeys
      PROVE  \E q \in 0 .. n + 1 : Boundary(v, n + 1, k, q, ty, "active", com[k])
  <2>1. PICK q \in 0 .. n : Boundary(w, n, k, q, tx, "active", com[k])
    BY DEF Running
  <2>2. \A i \in ChangesOf(w.records, k, n) :
          /\ v.records[i] = w.records[i] /\ w.records[i].txn_id \in WalTxns
    BY <1>1, <1>2 DEF ChangesOf, EndsLogged
  <2>3. \A i \in ChangesOf(w.records, k, n) :
          tx[w.records[i].txn_id] \in {"active", "committed"} =>
            ty[v.records[i].txn_id] = tx[w.records[i].txn_id]
    BY <2>2
  <2>4. \A i \in ChangesOf(w.records, k, n) : i \in Int
    BY DEF ChangesOf
  <2>5. Boundary(v, n + 1, k, q, ty, "active", com[k])
    <3>1. com[k] = ValueAt(v.records, k, q)
      BY <1>2, <2>1 DEF Boundary
    <3>2. \A i \in ChangesOf(w.records, k, n) :
            /\ i <= q => ty[v.records[i].txn_id] = "committed"
            /\ i > q => ty[v.records[i].txn_id] = "active"
      BY <2>1, <2>3 DEF Boundary
    <3>3. \A i, j \in ChangesOf(w.records, k, n) :
            i > q /\ j > q => v.records[i].txn_id = v.records[j].txn_id
      <4> TAKE i, j \in ChangesOf(w.records, k, n)
      <4>1. i > q /\ j > q => w.records[i].txn_id = w.records[j].txn_id
        BY <2>1 DEF Boundary
      <4> QED
        BY <2>2, <4>1
    <3>4. ChangesOf(v.records, k, n + 1) = ChangesOf(w.records, k, n)
      BY <1>2
    <3> QED
      BY <3>1, <3>2, <3>3, <3>4 DEF Boundary
  <2>6. q \in 0 .. n + 1
    BY <1>2
  <2> QED
    BY <2>5, <2>6
<1>5. \A k \in WalKeys : mem[k] = ValueAt(v.records, k, n + 1)
  BY <1>2 DEF Running
<1>6. g \in 0 .. n + 1 /\ n + 2 = n + 1 + 1
  BY <1>1, <1>2
<1> QED
  BY <1>2, <1>3, <1>4, <1>5, <1>6 DEF Running

(* What transaction t has changed is committed, the rest as it was.          *)
Taken(w, n, t, mem, com, com2) ==
  \A k \in WalKeys :
    com2[k] = IF \E i \in ChangesOf(w.records, k, n) : w.records[i].txn_id = t
              THEN mem[k] ELSE com[k]

(* A commit moves the boundary of every key the transaction has changed to   *)
(* the end of the log.                                                       *)
LEMMA CommitRuns ==
  ASSUME NEW w, NEW v, NEW n, NEW f, NEW tx, NEW mem, NEW pages, NEW com, NEW com2,
         NEW rec \in WALRecord, NEW t \in WalTxns,
         Running(w, n, f, tx, mem, pages, com),
         v.records = Append(w.records, rec), rec.lsn = n + 1,
         rec.type = "COMMIT", rec.txn_id = t,
         v.next_lsn = n + 2, v.flushed_lsn = n + 1, v.checkpoint_lsn = w.checkpoint_lsn,
         tx \in [WalTxns -> {"new", "active", "committed"}], tx[t] = "active",
         Taken(w, n, t, mem, com, com2)
  PROVE  Running(v, n + 1, n + 1, [tx EXCEPT ![t] = "committed"], mem, pages, com2)
<1> DEFINE ty == [tx EXCEPT ![t] = "committed"]
<1>1. /\ LogOk(w, n) /\ f \in 0 .. n /\ EndsLogged(w, n, f, tx) /\ w.checkpoint_lsn \in 0 .. n
  BY DEF Running
<1>2. /\ LogOk(v, n + 1) /\ n \in Nat /\ Len(v.records) = n + 1
      /\ \A i \in 1 .. n : v.records[i] = w.records[i]
      /\ v.records[n + 1] = rec
      /\ \A k : \A m \in 0 .. n : ValueAt(v.records, k, m) = ValueAt(w.records, k, m)
      /\ \A k : ChangesOf(v.records, k, n + 1) = ChangesOf(w.records, k, n)
      /\ \A k : ValueAt(v.records, k, n + 1) = ValueAt(w.records, k, n)
  <2>1. rec.type \notin {"ABORT", "DATA"}
    OBVIOUS
  <2>2. Marked(w, v, n, rec)
    BY <1>1, <2>1, MarkGrows
  <2> QED
    BY <2>2 DEF Marked
<1>3. /\ \A s \in WalTxns : tx[s] = "committed" => ty[s] = "committed"
      /\ \A s \in WalTxns : ty[s] = "committed" => s = t \/ tx[s] = "committed"
      /\ \A s \in WalTxns : s # t => ty[s] = tx[s]
      /\ ty[t] = "committed"
  OBVIOUS
<1> HIDE DEF ty
<1>4. EndsLogged(v, n + 1, n + 1, ty)
  <2>1. \A i \in 1 .. n + 1 : (i \in 1 .. n \/ i = n + 1) /\ i <= n + 1
    BY <1>2
  <2>2. 1 .. n \subseteq 1 .. n + 1 /\ n + 1 \in 1 .. n + 1
    BY <1>2
  <2>3. \A i \in 1 .. n + 1 : v.records[i].type = "COMMIT" =>
          v.records[i].txn_id \in WalTxns /\ ty[v.records[i].txn_id] = "committed"
    <3> SUFFICES ASSUME NEW i \in 1 .. n + 1, v.records[i].type = "COMMIT"
                 PROVE  v.records[i].txn_id \in WalTxns /\ ty[v.records[i].txn_id] = "committed"
      OBVIOUS
    <3>1. CASE i \in 1 .. n
      BY <1>1, <1>2, <1>3, <3>1 DEF EndsLogged
    <3>2. CASE i = n + 1
      BY <1>2, <1>3, <3>2
    <3> QED
      BY <2>1, <3>1, <3>2
  <2>4. \A s \in WalTxns : ty[s] = "committed" =>
          \E i \in 1 .. n + 1 : /\ i <= n + 1 /\ v.records[i].type = "COMMIT"
                                /\ v.records[i].txn_id = s
    <3> SUFFICES ASSUME NEW s \in WalTxns, ty[s] = "committed"
                 PROVE  \E i \in 1 .. n + 1 : /\ i <= n + 1 /\ v.records[i].type = "COMMIT"
                                              /\ v.records[i].txn_id = s
      OBVIOUS
    <3>1. CASE s = t
      BY <1>2, <2>1, <2>2, <3>1
    <3>2. CASE tx[s] = "committed"
      <4>1. PICK i \in 1 .. n : w.records[i].type = "COMMIT" /\ w.records[i].txn_id = s
        BY <1>1, <3>2 DEF EndsLogged
      <4> QED
        BY <1>2, <2>1, <2>2, <4>1
    <3> QED
      BY <1>3, <3>1, <3>2
  <2>5. \A i \in 1 .. n + 1 : v.records[i].type = "DATA" => v.records[i].txn_id \in WalTxns
    BY <1>1, <1>2, <2>1 DEF EndsLogged
  <2> QED
    BY <2>1, <2>3, <2>4, <2>5 DEF EndsLogged
<1>5. ASSUME NEW k \in WalKeys
      PROVE  \E q \in 0 .. n + 1 : Boundary(v, n + 1, k, q, ty, "active", com2[k])
  <2>1. PICK q \in 0 .. n : Boundary(w, n, k, q, tx, "active", com[k])
    BY DEF Running
  <2>2. \A i \in ChangesOf(w.records, k, n) :
          /\ v.records[i] = w.records[i] /\ w.records[i].txn_id \in WalTxns /\ i \in 1 .. n
    BY <1>1, <1>2 DEF ChangesOf, EndsLogged
  <2>3. ChangesOf(v.records, k, n + 1) = ChangesOf(w.records, k, n)
    BY <1>2
  <2>4. ASSUME NEW h \in ChangesOf(w.records, k, n), w.records[h].txn_id = t
        PROVE  \E p \in 0 .. n + 1 : Boundary(v, n + 1, k, p, ty, "active", com2[k])
    <3>1. h > q
      BY <2>1, <2>2, <2>4 DEF Boundary
    <3>2. \A i \in ChangesOf(w.records, k, n) : ty[v.records[i].txn_id] = "committed"
      <4> TAKE i \in ChangesOf(w.records, k, n)
      <4>1. CASE i <= q
        BY <1>3, <2>1, <2>2, <4>1 DEF Boundary
      <4>2. CASE i > q
        <5>1. w.records[i].txn_id = w.records[h].txn_id
          BY <2>1, <3>1, <4>2 DEF Boundary
        <5> QED
          BY <1>3, <2>2, <2>4, <5>1
      <4>3. i <= q \/ i > q
        <5>1. i \in Int /\ q \in Int
          BY <1>2, <2>2
        <5> QED
          BY <5>1
      <4> QED
        BY <4>1, <4>2, <4>3
    <3>3. com2[k] = ValueAt(v.records, k, n)
      <4>1. com2[k] = mem[k]
        BY <2>4 DEF Taken
      <4>2. n \in 0 .. n
        BY <1>2
      <4> QED
        BY <1>2, <4>1, <4>2 DEF Running
    <3>4. \A i \in ChangesOf(w.records, k, n) : ~(i > n)
      <4>1. \A i \in 1 .. n : ~(i > n)
        BY <1>2
      <4> QED
        BY <2>2, <4>1
    <3>5. Boundary(v, n + 1, k, n, ty, "active", com2[k])
      BY <2>3, <3>2, <3>3, <3>4 DEF Boundary
    <3>6. n \in 0 .. n + 1
      BY <1>2
    <3> QED
      BY <3>5, <3>6
  <2>5. ASSUME \A i \in ChangesOf(w.records, k, n) : w.records[i].txn_id # t
        PROVE  \E p \in 0 .. n + 1 : Boundary(v, n + 1, k, p, ty, "active", com2[k])
    <3>1. com2[k] = ValueAt(v.records, k, q)
      <4>1. com2[k] = com[k]
        BY <2>5 DEF Taken
      <4> QED
        BY <1>2, <2>1, <4>1 DEF Boundary
    <3>2. \A i \in ChangesOf(w.records, k, n) : ty[v.records[i].txn_id] = tx[w.records[i].txn_id]
      BY <1>3, <2>2, <2>5
    <3>3. \A i \in ChangesOf(w.records, k, n) :
            /\ i <= q => ty[v.records[i].txn_id] = "committed"
            /\ i > q => ty[v.records[i].txn_id] = "active"
      BY <2>1, <3>2 DEF Boundary
    <3>4. \A i, j \in ChangesOf(w.records, k, n) :
            i > q /\ j > q => v.records[i].txn_id = v.records[j].txn_id
      <4> TAKE i, j \in ChangesOf(w.records, k, n)
      <4>1. i > q /\ j > q => w.records[i].txn_id = w.records[j].txn_id
        BY <2>1 DEF Boundary
      <4> QED
        BY <2>2, <4>1
    <3>5. Boundary(v, n + 1, k, q, ty, "active", com2[k])
      BY <2>3, <3>1, <3>3, <3>4 DEF Boundary
    <3>6. q \in 0 .. n + 1
      BY <1>2
    <3> QED
      BY <3>5, <3>6
  <2> QED
    BY <2>4, <2>5
<1>6. \A k \in WalKeys : mem[k] = ValueAt(v.records, k, n + 1)
  BY <1>2 DEF Running
<1>7. \A k \in WalKeys : PageOk(v, k, n + 1, pages[k])
  <2> TAKE k \in WalKeys
  <2>1. PICK p \in 0 .. f : w.checkpoint_lsn <= p + 1 /\ pages[k] = ValueAt(w.records, k, p)
    BY DEF Running, PageOk
  <2>2. p \in 0 .. n /\ p \in 0 .. n + 1
    BY <1>1, <1>2
  <2> QED
    BY <1>2, <2>1, <2>2 DEF PageOk
<1>8. /\ n + 1 \in 0 .. n + 1 /\ n + 2 = n + 1 + 1 /\ v.checkpoint_lsn \in 0 .. n + 1
      /\ v.flushed_lsn = n + 1
  BY <1>1, <1>2
<1>9. Running(v, n + 1, n + 1, ty, mem, pages, com2)
  BY <1>2, <1>4, <1>5, <1>6, <1>7, <1>8 DEF Running
<1> QED
  BY <1>9 DEF ty

(* A change moves the value of its key and no boundary.                      *)
LEMMA ChangeRuns ==
  ASSUME NEW w, NEW v, NEW n, NEW f, NEW tx, NEW mem, NEW pages, NEW com,
         NEW rec \in WALRecord, NEW t \in WalTxns, NEW key \in WalKeys,
         Running(w, n, f, tx, mem, pages, com),
         mem \in [WalKeys -> WalValues \cup {Absent}],
         v.records = Append(w.records, rec), rec.lsn = n + 1,
         rec.type = "DATA", rec.txn_id = t, rec.key = key, rec.old_value = mem[key],
         v.next_lsn = n + 2, v.flushed_lsn = f, v.checkpoint_lsn = w.checkpoint_lsn,
         tx[t] = "active",
         \A i \in ChangesOf(w.records, key, n) :
           tx[w.records[i].txn_id] = "active" => w.records[i].txn_id = t
  PROVE  Running(v, n + 1, f, tx, [mem EXCEPT ![key] = rec.new_value], pages, com)
<1>1. /\ LogOk(w, n) /\ f \in 0 .. n /\ EndsLogged(w, n, f, tx) /\ w.checkpoint_lsn \in 0 .. n
      /\ n \in Nat
  BY DEF Running, LogOk
<1>2. Grown(w, v, n, rec)
  <2>1. rec.type = "DATA" => rec.old_value = ValueAt(w.records, rec.key, n)
    BY DEF Running
  <2>2. rec.type # "ABORT"
    OBVIOUS
  <2> QED
    BY <1>1, <2>1, <2>2, LogGrows
<1>3. /\ LogOk(v, n + 1) /\ Len(v.records) = n + 1
      /\ \A i \in 1 .. n : v.records[i] = w.records[i]
      /\ v.records[n + 1] = rec
      /\ \A k : \A m \in 0 .. n : ValueAt(v.records, k, m) = ValueAt(w.records, k, m)
  BY <1>2 DEF Grown, LogOk
<1>4. \A k \in WalKeys : k # key => ChangesOf(v.records, k, n + 1) = ChangesOf(w.records, k, n)
  BY <1>2 DEF Grown
<1>5. ChangesOf(v.records, key, n + 1) = ChangesOf(w.records, key, n) \cup {n + 1}
  BY <1>2 DEF Grown
<1>6. EndsLogged(v, n + 1, f, tx)
  <2>1. \A i \in 1 .. n + 1 : i \in 1 .. n \/ i = n + 1
    BY <1>1
  <2>2. 1 .. n \subseteq 1 .. n + 1
    BY <1>1
  <2>3. \A i \in 1 .. n + 1 : v.records[i].type = "COMMIT" =>
          v.records[i].txn_id \in WalTxns /\ tx[v.records[i].txn_id] = "committed"
    <3> SUFFICES ASSUME NEW i \in 1 .. n + 1, v.records[i].type = "COMMIT"
                 PROVE  v.records[i].txn_id \in WalTxns /\ tx[v.records[i].txn_id] = "committed"
      OBVIOUS
    <3>1. i \in 1 .. n
      BY <1>3, <2>1
    <3> QED
      BY <1>1, <1>3, <3>1 DEF EndsLogged
  <2>4. \A s \in WalTxns : tx[s] = "committed" =>
          \E i \in 1 .. n + 1 : /\ i <= f /\ v.records[i].type = "COMMIT"
                                /\ v.records[i].txn_id = s
    <3> SUFFICES ASSUME NEW s \in WalTxns, tx[s] = "committed"
                 PROVE  \E i \in 1 .. n + 1 : /\ i <= f /\ v.records[i].type = "COMMIT"
                                              /\ v.records[i].txn_id = s
      OBVIOUS
    <3>1. PICK i \in 1 .. n : i <= f /\ w.records[i].type = "COMMIT" /\ w.records[i].txn_id = s
      BY <1>1 DEF EndsLogged
    <3> QED
      BY <1>3, <2>2, <3>1
  <2>5. \A i \in 1 .. n + 1 : v.records[i].type = "DATA" =>
          /\ v.records[i].txn_id \in WalTxns
          /\ tx[v.records[i].txn_id] = "committed" => i <= f
    <3> SUFFICES ASSUME NEW i \in 1 .. n + 1, v.records[i].type = "DATA"
                 PROVE  /\ v.records[i].txn_id \in WalTxns
                        /\ tx[v.records[i].txn_id] = "committed" => i <= f
      OBVIOUS
    <3>1. CASE i \in 1 .. n
      BY <1>1, <1>3, <3>1 DEF EndsLogged
    <3>2. CASE i = n + 1
      BY <1>3, <3>2
    <3> QED
      BY <2>1, <3>1, <3>2
  <2> QED
    BY <2>3, <2>4, <2>5 DEF EndsLogged
<1>7. ASSUME NEW k \in WalKeys
      PROVE  \E q \in 0 .. n + 1 : Boundary(v, n + 1, k, q, tx, "active", com[k])
  <2>1. PICK q \in 0 .. n : Boundary(w, n, k, q, tx, "active", com[k])
    BY DEF Running
  <2>2. \A i \in ChangesOf(w.records, k, n) : v.records[i] = w.records[i] /\ i \in 1 .. n
    BY <1>3 DEF ChangesOf
  <2>3. com[k] = ValueAt(v.records, k, q)
    BY <1>3, <2>1 DEF Boundary
  <2>4. \A i \in ChangesOf(v.records, k, n + 1) :
          \/ i \in ChangesOf(w.records, k, n)
          \/ k = key /\ i = n + 1 /\ v.records[i].txn_id = t
    BY <1>3, <1>4, <1>5
  <2>5. \A i \in ChangesOf(w.records, k, n) :
          /\ i <= q => tx[v.records[i].txn_id] = "committed"
          /\ i > q => tx[v.records[i].txn_id] = "active"
    BY <2>1, <2>2 DEF Boundary
  <2>6. \A i \in ChangesOf(v.records, k, n + 1) :
          /\ i <= q => tx[v.records[i].txn_id] = "committed"
          /\ i > q => tx[v.records[i].txn_id] = "active"
    <3>1. n + 1 > q /\ ~(n + 1 <= q)
      BY <1>1
    <3> QED
      BY <2>4, <2>5, <3>1
  <2>7. \A i, j \in ChangesOf(v.records, k, n + 1) :
          i > q /\ j > q => v.records[i].txn_id = v.records[j].txn_id
    <3>1. CASE k = key
      <4>1. \A i \in ChangesOf(v.records, k, n + 1) : i > q => v.records[i].txn_id = t
        <5> TAKE i \in ChangesOf(v.records, k, n + 1)
        <5>1. CASE i \in ChangesOf(w.records, k, n)
          BY <2>2, <2>5, <3>1, <5>1
        <5> QED
          BY <2>4, <5>1
      <4> QED
        BY <4>1
    <3>2. CASE k # key
      <4> SUFFICES ASSUME NEW i \in ChangesOf(v.records, k, n + 1),
                          NEW j \in ChangesOf(v.records, k, n + 1)
                   PROVE  i > q /\ j > q => v.records[i].txn_id = v.records[j].txn_id
        OBVIOUS
      <4>1. i \in ChangesOf(w.records, k, n) /\ j \in ChangesOf(w.records, k, n)
        BY <2>4, <3>2
      <4>2. i > q /\ j > q => w.records[i].txn_id = w.records[j].txn_id
        BY <2>1, <4>1 DEF Boundary
      <4> QED
        BY <2>2, <4>1, <4>2
    <3> QED
      BY <3>1, <3>2
  <2>8. Boundary(v, n + 1, k, q, tx, "active", com[k])
    BY <2>3, <2>6, <2>7 DEF Boundary
  <2>9. q \in 0 .. n + 1
    BY <1>1
  <2> QED
    BY <2>8, <2>9
<1>8. ASSUME NEW k \in WalKeys
      PROVE  [mem EXCEPT ![key] = rec.new_value][k] = ValueAt(v.records, k, n + 1)
  <2>1. CASE k = key
    <3>1. PICK l \in Nat : l = n + 1
      BY <1>1
    <3>2. l \in ChangesOf(v.records, k, l)
      BY <1>5, <2>1, <3>1
    <3>3. \A i \in ChangesOf(v.records, k, l) : i <= l
      BY DEF ChangesOf
    <3>4. IsLast(v.records, k, l, l)
      BY <3>2, <3>3 DEF IsLast
    <3>5. ValueAt(v.records, k, l) = v.records[l].new_value
      <4>1. PICK r : r = v.records
        OBVIOUS
      <4>2. IsLast(r, k, l, l)
        BY <3>4, <4>1
      <4>3. ValueAt(r, k, l) = r[l].new_value
        BY <4>2, ValueLast
      <4> QED
        BY <4>1, <4>3
    <3> QED
      BY <1>3, <2>1, <3>1, <3>5
  <2>2. CASE k # key
    <3>1. \A i \in ChangesOf(v.records, k, n + 1) : i <= n
      <4>1. \A i \in ChangesOf(w.records, k, n) : i \in 1 .. n
        BY DEF ChangesOf
      <4>2. \A i \in 1 .. n : i <= n
        BY <1>1
      <4> QED
        BY <1>4, <2>2, <4>1, <4>2
    <3>2. ValueAt(v.records, k, n + 1) = ValueAt(v.records, k, n)
      BY <1>1, <3>1, ValueSkip
    <3>3. mem[k] = ValueAt(w.records, k, n)
      BY DEF Running
    <3> QED
      BY <1>1, <1>3, <2>2, <3>2, <3>3
  <2> QED
    BY <2>1, <2>2
<1>9. \A k \in WalKeys : PageOk(v, k, f, pages[k])
  <2> TAKE k \in WalKeys
  <2>1. PICK p \in 0 .. f : w.checkpoint_lsn <= p + 1 /\ pages[k] = ValueAt(w.records, k, p)
    BY DEF Running, PageOk
  <2>2. p \in 0 .. n
    BY <1>1
  <2> QED
    BY <1>3, <2>1, <2>2 DEF PageOk
<1>10. /\ f \in 0 .. n + 1 /\ n + 2 = n + 1 + 1 /\ v.checkpoint_lsn \in 0 .. n + 1
  BY <1>1
<1> QED
  BY <1>3, <1>6, <1>7, <1>8, <1>9, <1>10 DEF Running

(* More of the log is flushed, and pages are written.                        *)
LEMMA FlushRuns ==
  ASSUME NEW w, NEW v, NEW n, NEW f, NEW g, NEW tx, NEW mem, NEW pages, NEW swapped, NEW com,
         Running(w, n, f, tx, mem, pages, com),
         v.records = w.records, v.next_lsn = w.next_lsn, v.flushed_lsn = g, g \in f .. n,
         v.checkpoint_lsn = w.checkpoint_lsn,
         \A k \in WalKeys :
           \/ swapped[k] = pages[k]
           \/ swapped[k] = mem[k] /\ \A i \in ChangesOf(w.records, k, n) : i <= g
  PROVE  /\ Running(v, n, g, tx, mem, swapped, com)
<1>1. /\ LogOk(w, n) /\ n \in Nat /\ f \in 0 .. n /\ EndsLogged(w, n, f, tx)
      /\ w.checkpoint_lsn \in 0 .. n
  BY DEF Running, LogOk
<1>2. LogOk(v, n)
  BY <1>1 DEF LogOk
<1>3. EndsLogged(v, n, g, tx)
  <2>1. \A i \in Int : i <= f => i <= g
    BY <1>1
  <2>2. \A i \in 1 .. n : i \in Int
    BY <1>1
  <2> QED
    BY <1>1, <2>1, <2>2 DEF EndsLogged
<1>4. ASSUME NEW k \in WalKeys
      PROVE  PageOk(v, k, g, swapped[k])
  <2>1. PICK p \in 0 .. f : w.checkpoint_lsn <= p + 1 /\ pages[k] = ValueAt(w.records, k, p)
    BY DEF Running, PageOk
  <2>2. CASE swapped[k] = pages[k]
    <3>1. p \in 0 .. g
      BY <1>1
    <3> QED
      BY <2>1, <2>2, <3>1 DEF PageOk
  <2>3. CASE swapped[k] = mem[k] /\ \A i \in ChangesOf(w.records, k, n) : i <= g
    <3>1. g \in Nat /\ g <= n /\ g \in 0 .. g /\ w.checkpoint_lsn <= g + 1
      BY <1>1, <2>1
    <3>2. ValueAt(w.records, k, n) = ValueAt(w.records, k, g)
      BY <1>1, <2>3, <3>1, ValueSkip
    <3>3. mem[k] = ValueAt(w.records, k, n)
      BY DEF Running
    <3> QED
      BY <2>3, <3>1, <3>2, <3>3 DEF PageOk
  <2> QED
    BY <2>2, <2>3
<1>5. \A k \in WalKeys : \E q \in 0 .. n : Boundary(v, n, k, q, tx, "active", com[k])
  BY DEF Running, Boundary
<1>6. g \in 0 .. n
  BY <1>1
<1> QED
  BY <1>1, <1>2, <1>3, <1>4, <1>5, <1>6 DEF Running

(* A crash keeps the flushed beginning of the log.                           *)
LEMMA KeptPrefix ==
  ASSUME NEW w, NEW n, LogOk(w, n), w.flushed_lsn \in 0 .. n
  PROVE  /\ Kept(w) \in Seq(WALRecord) /\ Len(Kept(w)) = w.flushed_lsn
         /\ \A i \in 1 .. w.flushed_lsn : Kept(w)[i] = w.records[i]
<1> DEFINE f == w.flushed_lsn
           kept == {i \in Positions(w) : w.records[i].lsn <= w.flushed_lsn}
           Nth(j) == CHOOSE i \in kept : Cardinality({h \in kept : h <= i}) = j
<1>1. n \in Nat /\ f \in Nat /\ f <= n /\ Len(w.records) = n
      /\ \A i \in 1 .. n : w.records[i].lsn = i
  BY DEF LogOk
<1>2. kept = 1 .. f
  BY <1>1 DEF Positions
<1>3. Kept(w) = [j \in 1 .. Cardinality(kept) |-> w.records[Nth(j)]]
  BY DEF Kept
<1>4. \A i \in kept : Cardinality({h \in kept : h <= i}) = i
  <2> TAKE i \in kept
  <2>1. i \in Nat /\ i <= f
    BY <1>1, <1>2
  <2>2. {h \in kept : h <= i} = 1 .. i
    BY <1>1, <1>2, <2>1
  <2>3. Cardinality(1 .. i) = i
    BY <2>1, FS_Interval
  <2> QED
    BY <2>2, <2>3
<1>5. \A j \in 1 .. f : Nth(j) = j
  <2> TAKE j \in 1 .. f
  <2>1. j \in kept
    BY <1>2
  <2> HIDE DEF kept
  <2>2. Cardinality({h \in kept : h <= j}) = j
    BY <1>4, <2>1
  <2>3. Nth(j) \in kept /\ Cardinality({h \in kept : h <= Nth(j)}) = j
    BY <2>1, <2>2
  <2> HIDE DEF Nth
  <2> QED
    BY <1>4, <2>3
<1>6. Cardinality(kept) = f
  <2>1. Cardinality(1 .. f) = f
    <3> HIDE DEF f
    <3> QED  BY <1>1, FS_Interval
  <2> QED
    BY <1>2, <2>1
<1> HIDE DEF kept, Nth
<1>7. Kept(w) = [j \in 1 .. f |-> w.records[j]]
  BY <1>3, <1>5, <1>6
<1>8. \A j \in 1 .. f : w.records[j] \in WALRecord
  BY <1>1 DEF LogOk
<1> QED
  BY <1>1, <1>7, <1>8

LEMMA CrashFalls ==
  ASSUME NEW w, NEW v, NEW n, NEW f, NEW tx, NEW ty, NEW mem, NEW pages, NEW com,
         Running(w, n, f, tx, mem, pages, com), v.records = Kept(w),
         v.checkpoint_lsn = IF w.checkpoint_lsn <= f THEN w.checkpoint_lsn ELSE 0,
         tx \in [WalTxns -> {"new", "active", "committed"}],
         ty = [t \in WalTxns |-> IF tx[t] = "active" THEN "lost" ELSE tx[t]]
  PROVE  Fallen(v, f, ty, pages, com)
<1>1. /\ LogOk(w, n) /\ n \in Nat /\ f \in 0 .. n /\ f \in Nat /\ f <= n
      /\ f = w.flushed_lsn /\ EndsLogged(w, n, f, tx)
      /\ w.checkpoint_lsn \in 0 .. n
  BY DEF Running, LogOk
<1>2. /\ v.records \in Seq(WALRecord) /\ Len(v.records) = f
      /\ \A i \in 1 .. f : v.records[i] = w.records[i]
  BY <1>1, KeptPrefix
<1>3. \A i \in 1 .. f : i \in 1 .. n /\ i <= f /\ i \in Nat /\ i - 1 \in Nat /\ i - 1 <= f
  BY <1>1
<1>4. \A k : \A m \in Nat : m <= f => /\ ValueAt(v.records, k, m) = ValueAt(w.records, k, m)
                                      /\ ChangesOf(v.records, k, m) = ChangesOf(w.records, k, m)
  <2> SUFFICES ASSUME NEW k, NEW m \in Nat, m <= f
               PROVE  /\ ValueAt(v.records, k, m) = ValueAt(w.records, k, m)
                      /\ ChangesOf(v.records, k, m) = ChangesOf(w.records, k, m)
    OBVIOUS
  <2>1. \A i \in 1 .. m : v.records[i] = w.records[i]
    BY <1>1, <1>2
  <2> QED
    BY <2>1, ValueFrame
<1>5. LogOk(v, f)
  <2>1. ASSUME NEW i \in 1 .. f
        PROVE  /\ v.records[i].lsn = i /\ v.records[i].type # "ABORT"
               /\ v.records[i].type = "DATA" =>
                    v.records[i].old_value = ValueAt(v.records, v.records[i].key, i - 1)
    <3>1. /\ w.records[i].lsn = i /\ w.records[i].type # "ABORT"
          /\ w.records[i].type = "DATA" =>
               w.records[i].old_value = ValueAt(w.records, w.records[i].key, i - 1)
      BY <1>1, <1>3 DEF LogOk
    <3>2. ValueAt(v.records, w.records[i].key, i - 1) = ValueAt(w.records, w.records[i].key, i - 1)
      BY <1>3, <1>4
    <3> QED
      BY <1>2, <3>1, <3>2
  <2> QED
    BY <1>1, <1>2, <2>1 DEF LogOk
<1>6. \A t \in WalTxns : /\ ty[t] = "committed" <=> tx[t] = "committed"
                         /\ tx[t] = "active" => ty[t] = "lost"
  OBVIOUS
<1>7. EndsLogged(v, f, f, ty)
  <2>1. \A t \in WalTxns : ty[t] = "committed" =>
          \E i \in 1 .. f : /\ i <= f /\ v.records[i].type = "COMMIT"
                            /\ v.records[i].txn_id = t
    <3> SUFFICES ASSUME NEW t \in WalTxns, tx[t] = "committed"
                 PROVE  \E i \in 1 .. f : /\ i <= f /\ v.records[i].type = "COMMIT"
                                          /\ v.records[i].txn_id = t
      BY <1>6
    <3>1. PICK i \in 1 .. n : i <= f /\ w.records[i].type = "COMMIT" /\ w.records[i].txn_id = t
      BY <1>1 DEF EndsLogged
    <3>2. i \in 1 .. f
      BY <1>1, <3>1
    <3> QED
      BY <1>2, <3>1, <3>2
  <2>2. ASSUME NEW i \in 1 .. f
        PROVE  /\ v.records[i].type = "COMMIT" =>
                    v.records[i].txn_id \in WalTxns /\ ty[v.records[i].txn_id] = "committed"
               /\ v.records[i].type = "DATA" => v.records[i].txn_id \in WalTxns
    BY <1>1, <1>2, <1>3, <1>6 DEF EndsLogged
  <2> QED
    BY <1>3, <2>1, <2>2 DEF EndsLogged
<1>8. ASSUME NEW k \in WalKeys
      PROVE  /\ PageOk(v, k, f, pages[k])
             /\ \E q \in 0 .. f : Boundary(v, f, k, q, ty, "lost", com[k])
  <2>1. PICK p \in 0 .. f : w.checkpoint_lsn <= p + 1 /\ pages[k] = ValueAt(w.records, k, p)
    BY DEF Running, PageOk
  <2>2. PageOk(v, k, f, pages[k])
    <3>1. p \in Nat /\ p <= f /\ v.checkpoint_lsn <= p + 1
      BY <1>1, <2>1
    <3>2. pages[k] = ValueAt(v.records, k, p)
      BY <1>4, <2>1, <3>1
    <3> QED
      BY <3>1, <3>2 DEF PageOk
  <2>3. PICK q \in 0 .. n : Boundary(w, n, k, q, tx, "active", com[k])
    BY DEF Running
  <2>4. \A i \in ChangesOf(w.records, k, n) :
          i \in 1 .. n /\ w.records[i].type = "DATA" /\ w.records[i].txn_id \in WalTxns
    BY <1>1 DEF ChangesOf, EndsLogged
  <2>5. \A i \in ChangesOf(v.records, k, f) :
          i \in ChangesOf(w.records, k, n) /\ i \in 1 .. f /\ v.records[i] = w.records[i]
    BY <1>2, <1>3 DEF ChangesOf
  <2>6. \A i \in ChangesOf(v.records, k, f) :
          /\ i <= q => ty[v.records[i].txn_id] = "committed"
          /\ i > q => ty[v.records[i].txn_id] = "lost"
    <3> TAKE i \in ChangesOf(v.records, k, f)
    <3>1. /\ i <= q => tx[w.records[i].txn_id] = "committed"
          /\ i > q => tx[w.records[i].txn_id] = "active"
      BY <2>3, <2>5 DEF Boundary
    <3> QED
      BY <1>6, <2>4, <2>5, <3>1
  <2>7. \A i, j \in ChangesOf(v.records, k, f) :
          i > q /\ j > q => v.records[i].txn_id = v.records[j].txn_id
    <3> SUFFICES ASSUME NEW i \in ChangesOf(v.records, k, f), NEW j \in ChangesOf(v.records, k, f)
                 PROVE  i > q /\ j > q => v.records[i].txn_id = v.records[j].txn_id
      OBVIOUS
    <3>1. i > q /\ j > q => w.records[i].txn_id = w.records[j].txn_id
      BY <2>3, <2>5 DEF Boundary
    <3> QED
      BY <2>5, <3>1
  <2>8. CASE q <= f
    <3>1. com[k] = ValueAt(v.records, k, q) /\ q \in 0 .. f
      BY <1>1, <1>4, <2>3, <2>8 DEF Boundary
    <3>2. Boundary(v, f, k, q, ty, "lost", com[k])
      BY <2>6, <2>7, <3>1 DEF Boundary
    <3> QED
      BY <2>2, <3>1, <3>2
  <2>9. CASE f < q
    <3>1. \A i \in ChangesOf(w.records, k, q) : i <= f
      <4> TAKE i \in ChangesOf(w.records, k, q)
      <4>1. i \in ChangesOf(w.records, k, n) /\ i <= q
        BY <1>1 DEF ChangesOf
      <4>2. tx[w.records[i].txn_id] = "committed"
        BY <2>3, <4>1 DEF Boundary
      <4> QED
        BY <1>1, <2>4, <4>1, <4>2 DEF EndsLogged
    <3>2. q \in Nat /\ f <= q /\ f \in 0 .. f
      BY <1>1, <2>9
    <3>3. ValueAt(w.records, k, q) = ValueAt(w.records, k, f)
      BY <1>1, <3>1, <3>2, ValueSkip
    <3>4. com[k] = ValueAt(v.records, k, f)
      <4>1. com[k] = ValueAt(w.records, k, q)
        BY <2>3 DEF Boundary
      <4>2. ValueAt(v.records, k, f) = ValueAt(w.records, k, f)
        BY <1>1, <1>4
      <4> QED
        BY <3>3, <4>1, <4>2
    <3>5. \A i \in ChangesOf(v.records, k, f) : i <= q /\ i <= f /\ ~(i > f)
      <4>1. \A i \in 1 .. f : i <= q /\ i <= f /\ ~(i > f)
        BY <1>1, <3>2
      <4> QED
        BY <2>5, <4>1
    <3>6. Boundary(v, f, k, f, ty, "lost", com[k])
      BY <2>6, <3>4, <3>5 DEF Boundary
    <3> QED
      BY <2>2, <3>2, <3>6
  <2> QED
    BY <1>1, <2>8, <2>9
<1>9. v.checkpoint_lsn \in Nat
  BY <1>1
<1> QED
  BY <1>2, <1>5, <1>7, <1>8, <1>9 DEF Fallen

(* In a table that is large enough the analysis finds every transaction.     *)
LEMMA AllTracked ==
  ASSUME NEW w, NEW n, LogOk(w, n), Cardinality(Logged(w)) <= MaxTracked
  PROVE  wal_analyze_pass(w) = {t \in Logged(w) : ~Ended(w, t)}
<1>1. IsFiniteSet(Logged(w))
  <2> DEFINE T == {w.records[i].txn_id : i \in 1 .. n}
             g == [i \in 1 .. n |-> w.records[i].txn_id]
  <2>1. n \in Nat /\ Positions(w) = 1 .. n
    BY DEF LogOk, Positions
  <2>2. IsFiniteSet(1 .. n)
    BY <2>1, FS_Interval
  <2>3. g \in Surjection(1 .. n, T)
    BY DEF Surjection
  <2>4. Logged(w) \subseteq T
    BY <2>1 DEF Logged
  <2> HIDE DEF g, T
  <2>5. IsFiniteSet(T)
    BY <2>2, <2>3, FS_Surjection
  <2> QED
    BY <2>4, <2>5, FS_Subset
<1>2. ASSUME NEW t \in Logged(w)
      PROVE  Cardinality({s \in Logged(w) : FirstOf(w, s) < FirstOf(w, t)}) < MaxTracked
  <2> DEFINE S == {s \in Logged(w) : FirstOf(w, s) < FirstOf(w, t)}
  <2>1. FirstOf(w, t) \in Nat
    <3> DEFINE P == {i \in Positions(w) : w.records[i].txn_id = t}
    <3>1. P \subseteq Nat /\ P # {} /\ Positions(w) \subseteq Nat
      BY DEF Logged, Positions, LogOk
    <3>2. PICK i \in P : \A j \in P : i <= j
      <4> HIDE DEF P
      <4> QED  BY <3>1, LeastExists
    <3>3. \E h \in Positions(w) : /\ w.records[h].txn_id = t
                                  /\ \A j \in Positions(w) : w.records[j].txn_id = t => h <= j
      BY <3>2
    <3>4. FirstOf(w, t) \in Positions(w)
      BY <3>3 DEF FirstOf
    <3> QED
      BY <3>1, <3>4
  <2>2. ~(FirstOf(w, t) < FirstOf(w, t))
    BY <2>1
  <2>3. S \subseteq Logged(w) /\ t \notin S
    BY <2>2
  <2> HIDE DEF S
  <2>4. IsFiniteSet(S) /\ Cardinality(S) <= Cardinality(Logged(w))
        /\ (Cardinality(S) = Cardinality(Logged(w)) => S = Logged(w))
    BY <1>1, <2>3, FS_Subset
  <2>5. Cardinality(S) \in Nat /\ Cardinality(Logged(w)) \in Nat
    BY <1>1, <2>4, FS_CardinalityType
  <2>6. Cardinality(S) < MaxTracked
    BY <2>3, <2>4, <2>5, WalAssumption
  <2> QED
    BY <2>6 DEF S
<1> QED
  BY <1>2 DEF wal_analyze_pass, Tracked

(* Redo brings every key to its value at the end of the log.                 *)
LEMMA RedoAdvances ==
  ASSUME NEW w, NEW n, NEW tx, NEW mem, NEW com, Fallen(w, n, tx, mem, com),
         NEW start, start = IF w.checkpoint_lsn > 0 THEN w.checkpoint_lsn ELSE 1,
         NEW k \in WalKeys
  PROVE  wal_redo_pass(w, start, mem)[k] = ValueAt(w.records, k, n)
<1> DEFINE rs == RedoOf(w, start, k)
           m == CHOOSE i \in rs : \A j \in rs : j <= i
<1>1. /\ n \in Nat /\ Positions(w) = 1 .. n /\ \A i \in 1 .. n : w.records[i].lsn = i
      /\ w.checkpoint_lsn \in Nat /\ start \in Nat
  BY DEF Fallen, LogOk, Positions
<1>2. rs = {i \in ChangesOf(w.records, k, n) : i >= start}
  BY <1>1 DEF RedoOf, ChangesOf
<1>3. wal_redo_pass(w, start, mem)[k] = IF rs = {} THEN mem[k] ELSE w.records[m].new_value
  BY DEF wal_redo_pass
<1>4. ChangesOf(w.records, k, n) \subseteq 1 .. n
  BY DEF ChangesOf
<1> HIDE DEF rs, m
<1>5. CASE rs = {}
  <2>1. PICK p \in 0 .. n : w.checkpoint_lsn <= p + 1 /\ mem[k] = ValueAt(w.records, k, p)
    BY DEF Fallen, PageOk
  <2>2. \A i \in ChangesOf(w.records, k, n) : i <= p
    <3>1. \A i \in ChangesOf(w.records, k, n) : i \in 1 .. n /\ ~(i >= start)
      BY <1>2, <1>4, <1>5
    <3>2. \A i \in 1 .. n : ~(i >= start) => i <= p
      BY <1>1, <2>1
    <3> QED
      BY <3>1, <3>2
  <2>3. p \in Nat /\ p <= n
    BY <1>1
  <2>4. ValueAt(w.records, k, n) = ValueAt(w.records, k, p)
    BY <1>1, <2>2, <2>3, ValueSkip
  <2> QED
    BY <1>3, <1>5, <2>1, <2>4
<1>6. CASE rs # {}
  <2>1. rs \subseteq 0 .. n
    BY <1>1, <1>2, <1>4
  <2>2. m \in rs /\ \A j \in rs : j <= m
    <3>1. \E i \in rs : \A j \in rs : j <= i
      BY <1>1, <1>6, <2>1, GreatestExists
    <3> QED
      BY <3>1 DEF m
  <2>3. \A j \in ChangesOf(w.records, k, n) : j <= m
    <3> TAKE j \in ChangesOf(w.records, k, n)
    <3>1. j \in Nat /\ m \in Nat /\ m >= start
      BY <1>2, <1>4, <2>2
    <3>2. CASE j >= start
      BY <1>2, <2>2, <3>2
    <3>3. CASE ~(j >= start)
      BY <1>1, <3>1, <3>3
    <3> QED
      BY <3>2, <3>3
  <2>4. IsLast(w.records, k, n, m)
    BY <1>2, <2>2, <2>3 DEF IsLast
  <2>5. ValueAt(w.records, k, n) = w.records[m].new_value
    BY <1>1, <2>4, ValueLast
  <2> QED
    BY <1>3, <1>6, <2>5
<1> QED
  BY <1>5, <1>6

(* Undo takes every key back to its boundary.                                *)
LEMMA UndoReturns ==
  ASSUME NEW w, NEW n, NEW tx, NEW mem, NEW com, Fallen(w, n, tx, mem, com), NEW losers,
         losers = {t \in Logged(w) : ~Ended(w, t)},
         NEW image, NEW k \in WalKeys, image[k] = ValueAt(w.records, k, n)
  PROVE  wal_undo_pass(w, losers, image)[k] = com[k]
<1> DEFINE rs == UndoOf(w, losers, k)
           m == CHOOSE i \in rs : \A j \in rs : i <= j
<1>1. /\ LogOk(w, n) /\ n \in Nat /\ Positions(w) = 1 .. n /\ EndsLogged(w, n, n, tx)
  BY DEF Fallen, LogOk, Positions
<1>2. PICK q \in 0 .. n : Boundary(w, n, k, q, tx, "lost", com[k])
  BY DEF Fallen
<1>3. ChangesOf(w.records, k, n) \subseteq 1 .. n
  BY DEF ChangesOf
<1>4. \A i \in 1 .. n : i \in Int /\ q \in Int
  BY <1>1
<1>5. \A t \in WalTxns : Ended(w, t) <=> tx[t] = "committed"
  <2> TAKE t \in WalTxns
  <2>1. ASSUME Ended(w, t)
        PROVE  tx[t] = "committed"
    <3>1. PICK i \in 1 .. n : w.records[i].txn_id = t /\ w.records[i].type \in {"COMMIT", "ABORT"}
      BY <1>1, <2>1 DEF Ended
    <3>2. w.records[i].type # "ABORT"
      BY <1>1 DEF LogOk
    <3> QED
      BY <1>1, <3>1, <3>2 DEF EndsLogged
  <2>2. ASSUME tx[t] = "committed"
        PROVE  Ended(w, t)
    BY <1>1, <2>2 DEF EndsLogged, Ended
  <2> QED
    BY <2>1, <2>2
<1>6. \A i \in ChangesOf(w.records, k, n) : w.records[i].txn_id \in Logged(w)
  <2> TAKE i \in ChangesOf(w.records, k, n)
  <2>1. w.records[i].txn_id \in WalTxns /\ i \in 1 .. n
    BY <1>1, <1>3 DEF EndsLogged, ChangesOf
  <2> QED
    BY <1>1, <2>1 DEF Logged
<1>7. rs = {i \in ChangesOf(w.records, k, n) : i > q}
  <2>1. rs = {i \in ChangesOf(w.records, k, n) : w.records[i].txn_id \in losers}
    BY <1>1 DEF UndoOf, ChangesOf
  <2>2. ASSUME NEW i \in ChangesOf(w.records, k, n)
        PROVE  w.records[i].txn_id \in losers <=> i > q
    <3>1. w.records[i].txn_id \in losers <=> tx[w.records[i].txn_id] # "committed"
      BY <1>5, <1>6 DEF Logged
    <3>2. /\ i <= q => tx[w.records[i].txn_id] = "committed"
          /\ i > q => tx[w.records[i].txn_id] = "lost"
      BY <1>2 DEF Boundary
    <3>3. i <= q <=> ~(i > q)
      BY <1>3, <1>4
    <3> QED
      BY <3>1, <3>2, <3>3
  <2> HIDE DEF rs
  <2> QED
    BY <2>1, <2>2
<1>8. wal_undo_pass(w, losers, image)[k] = IF rs = {} THEN image[k] ELSE w.records[m].old_value
  BY DEF wal_undo_pass
<1>9. com[k] = ValueAt(w.records, k, q) /\ q \in Nat /\ q <= n
  BY <1>1, <1>2 DEF Boundary
<1> HIDE DEF rs, m
<1>10. CASE rs = {}
  <2>1. \A i \in ChangesOf(w.records, k, n) : i <= q
    <3>1. \A i \in ChangesOf(w.records, k, n) : i \in 1 .. n /\ ~(i > q)
      BY <1>3, <1>7, <1>10
    <3>2. \A i \in 1 .. n : ~(i > q) => i <= q
      BY <1>1
    <3> QED
      BY <3>1, <3>2
  <2>2. ValueAt(w.records, k, n) = ValueAt(w.records, k, q)
    BY <1>1, <1>9, <2>1, ValueSkip
  <2> QED
    BY <1>8, <1>9, <1>10, <2>2
<1>11. CASE rs # {}
  <2>1. rs \subseteq Nat
    BY <1>3, <1>7
  <2>2. m \in rs /\ \A j \in rs : m <= j
    <3>1. \E i \in rs : \A j \in rs : i <= j
      BY <1>11, <2>1, LeastExists
    <3> QED
      BY <3>1 DEF m
  <2>3. m \in 1 .. n /\ m > q /\ w.records[m].type = "DATA" /\ w.records[m].key = k
    BY <1>3, <1>7, <2>2 DEF ChangesOf
  <2>4. w.records[m].old_value = ValueAt(w.records, k, m - 1)
    BY <1>1, <2>3 DEF LogOk
  <2>5. PICK l \in Nat : l = m - 1 /\ q <= l /\ l <= n
    BY <1>1, <1>9, <2>3
  <2>6. \A i \in ChangesOf(w.records, k, l) : i <= q
    <3> TAKE i \in ChangesOf(w.records, k, l)
    <3>1. i \in ChangesOf(w.records, k, n) /\ i \in Nat /\ i <= l
      BY <1>1, <2>5 DEF ChangesOf
    <3>2. ASSUME i > q
          PROVE  FALSE
      <4>1. i \in rs
        BY <1>7, <3>1, <3>2
      <4>2. m <= i
        BY <2>2, <4>1
      <4> QED
        BY <1>1, <2>3, <2>5, <3>1, <4>2
    <3> QED
      BY <1>9, <3>1, <3>2
  <2>7. ValueAt(w.records, k, l) = ValueAt(w.records, k, q)
    BY <1>9, <2>5, <2>6, ValueSkip
  <2> QED
    BY <1>8, <1>9, <1>11, <2>4, <2>5, <2>7
<1> QED
  BY <1>10, <1>11

LEMMA BeginKeeps ==
  ASSUME WalInv, crashes = 0, NEW t \in WalTxns, Begin(t)
  PROVE  WalInv'
<1>0. /\ Fields(wm) /\ wm.is_circular \in BOOLEAN
      /\ walTxn \in [WalTxns -> {"new", "active", "committed"}]
      /\ walTxn[t] = "new" /\ walTxn' = [walTxn EXCEPT ![t] = "active"]
      /\ wm' = wal_append(wm, Mark("BEGIN", t))
      /\ UNCHANGED <<db, disk, crashes, truth>> /\ mode' = "up"
  BY DEF WalInv, Begin
<1> DEFINE rec == [Mark("BEGIN", t) EXCEPT !.lsn = wm.next_lsn]
<1>1. /\ Fields(wm') /\ wm'.is_circular \in BOOLEAN
      /\ ~wm'.is_circular =>
            /\ ~wm.is_circular
            /\ wm'.records = Append(wm.records, rec)
            /\ wm'.next_lsn = wm.next_lsn + 1
            /\ wm'.flushed_lsn = wm.flushed_lsn
            /\ wm'.checkpoint_lsn = wm.checkpoint_lsn
  BY <1>0, AppendShape
<1>2. ASSUME ~wm'.is_circular
      PROVE  Running(wm', Len(wm'.records), wm'.flushed_lsn, walTxn', db, disk, truth)
  <2>1. PICK n, f : /\ Running(wm, n, f, walTxn, db, disk, truth)
                    /\ n = Len(wm.records) /\ f = wm.flushed_lsn
    BY <1>1, <1>2 DEF WalInv
  <2>2. /\ n \in Nat /\ wm.next_lsn = n + 1 /\ f \in 0 .. n /\ wm.checkpoint_lsn \in 0 .. n
        /\ Len(wm'.records) = n + 1 /\ wm'.flushed_lsn = f
    BY <1>1, <1>2, <2>1 DEF Running, LogOk
  <2>3. rec \in WALRecord /\ rec.lsn = n + 1 /\ rec.type = "BEGIN"
    BY <2>2 DEF WALRecord, Mark, wal_record_init
  <2> HIDE DEF rec
  <2>4. \A k \in WalKeys : PageOk(wm', k, f, disk[k])
    <3> TAKE k \in WalKeys
    <3>1. PICK p \in 0 .. f : wm.checkpoint_lsn <= p + 1 /\ disk[k] = ValueAt(wm.records, k, p)
      BY <2>1 DEF Running, PageOk
    <3>2. Marked(wm, wm', n, rec)
      BY <1>1, <1>2, <2>1, <2>3, MarkGrows DEF Running
    <3>3. p \in 0 .. n
      BY <2>2
    <3> QED
      BY <1>1, <1>2, <3>1, <3>2, <3>3 DEF PageOk, Marked
  <2>5. /\ rec.type \in {"BEGIN", "CHECKPOINT"} /\ wm'.next_lsn = n + 2 /\ f \in f .. n
        /\ wm'.checkpoint_lsn \in 0 .. n + 1
        /\ wm'.records = Append(wm.records, rec)
    BY <1>1, <1>2, <2>2, <2>3
  <2>6. \A s \in WalTxns : walTxn'[s] = walTxn[s] \/ (walTxn[s] = "new" /\ walTxn'[s] = "active")
    BY <1>0
  <2>7. Running(wm', n + 1, f, walTxn', db, disk, truth)
    BY <2>1, <2>2, <2>3, <2>4, <2>5, <2>6, MarkRuns
  <2> QED
    BY <2>2, <2>7
<1> QED
  BY <1>0, <1>1, <1>2 DEF WalInv

LEMMA ChangeKeeps ==
  ASSUME WalInv, crashes = 0, NEW t \in WalTxns, NEW key \in WalKeys,
         NEW val \in WalValues \cup {Absent}, Change(t, key, val)
  PROVE  WalInv'
<1>0. /\ Fields(wm) /\ wm.is_circular \in BOOLEAN
      /\ db \in [WalKeys -> WalValues \cup {Absent}]
      /\ walTxn[t] = "active" /\ LockedBy(key) \subseteq {t}
      /\ wm' = wal_append(wm, wal_record_init("DATA", t, key, db[key], val))
      /\ db' = [db EXCEPT ![key] = val]
      /\ UNCHANGED <<disk, walTxn, crashes, truth>> /\ mode' = "up"
  BY DEF WalInv, Change
<1> DEFINE rec == [wal_record_init("DATA", t, key, db[key], val) EXCEPT !.lsn = wm.next_lsn]
<1>1. /\ Fields(wm') /\ wm'.is_circular \in BOOLEAN
      /\ ~wm'.is_circular =>
            /\ ~wm.is_circular
            /\ wm'.records = Append(wm.records, rec)
            /\ wm'.next_lsn = wm.next_lsn + 1
            /\ wm'.flushed_lsn = wm.flushed_lsn
            /\ wm'.checkpoint_lsn = wm.checkpoint_lsn
  BY <1>0, AppendShape
<1>2. ASSUME ~wm'.is_circular
      PROVE  Running(wm', Len(wm'.records), wm'.flushed_lsn, walTxn, db', disk, truth)
  <2>1. PICK n, f : /\ Running(wm, n, f, walTxn, db, disk, truth)
                    /\ n = Len(wm.records) /\ f = wm.flushed_lsn
    BY <1>1, <1>2 DEF WalInv
  <2>2. /\ n \in Nat /\ wm.next_lsn = n + 1 /\ f \in 0 .. n
        /\ Len(wm'.records) = n + 1 /\ wm'.flushed_lsn = f /\ EndsLogged(wm, n, f, walTxn)
    BY <1>1, <1>2, <2>1 DEF Running, LogOk
  <2>3. /\ rec \in WALRecord /\ rec.lsn = n + 1 /\ rec.type = "DATA" /\ rec.txn_id = t
        /\ rec.key = key /\ rec.old_value = db[key] /\ rec.new_value = val
    BY <1>0, <2>2 DEF WALRecord, wal_record_init
  <2> HIDE DEF rec
  <2>4. \A i \in ChangesOf(wm.records, key, n) :
          walTxn[wm.records[i].txn_id] = "active" => wm.records[i].txn_id = t
    <3> SUFFICES ASSUME NEW i \in ChangesOf(wm.records, key, n),
                        walTxn[wm.records[i].txn_id] = "active"
                 PROVE  wm.records[i].txn_id = t
      OBVIOUS
    <3>1. i \in 1 .. n /\ wm.records[i].type = "DATA" /\ wm.records[i].key = key
      BY DEF ChangesOf
    <3>2. wm.records[i].txn_id \in WalTxns
      BY <2>2, <3>1 DEF EndsLogged
    <3>3. wm.records[i].txn_id \in LockedBy(key)
      BY <2>1, <3>1, <3>2 DEF LockedBy, Positions
    <3> QED
      BY <1>0, <3>3
  <2>5. wm'.next_lsn = n + 2 /\ wm'.checkpoint_lsn = wm.checkpoint_lsn
        /\ wm'.records = Append(wm.records, rec)
    BY <1>1, <1>2, <2>2
  <2>6. Running(wm', n + 1, f, walTxn, [db EXCEPT ![key] = rec.new_value], disk, truth)
    BY <1>0, <2>1, <2>2, <2>3, <2>4, <2>5, ChangeRuns
  <2> QED
    BY <1>0, <2>2, <2>3, <2>6
<1> QED
  BY <1>0, <1>1, <1>2 DEF WalInv

LEMMA WalCommitKeeps ==
  ASSUME WalInv, crashes = 0, NEW t \in WalTxns, Commit(t)
  PROVE  WalInv'
<1>0. /\ Fields(wm) /\ wm.is_circular \in BOOLEAN
      /\ walTxn \in [WalTxns -> {"new", "active", "committed"}]
      /\ db \in [WalKeys -> WalValues \cup {Absent}]
      /\ truth \in [WalKeys -> WalValues \cup {Absent}]
      /\ walTxn[t] = "active" /\ walTxn' = [walTxn EXCEPT ![t] = "committed"]
      /\ wm' = wal_flush(wal_append(wm, Mark("COMMIT", t)))
      /\ truth' = [k \in WalKeys |-> IF t \in LockedBy(k) THEN db[k] ELSE truth[k]]
      /\ UNCHANGED <<db, disk, crashes>> /\ mode' = "up"
  BY DEF WalInv, Commit
<1> DEFINE rec == [Mark("COMMIT", t) EXCEPT !.lsn = wm.next_lsn]
<1>a. PICK u : u = wal_append(wm, Mark("COMMIT", t))
  OBVIOUS
<1>b. /\ Fields(u) /\ u.is_circular \in BOOLEAN
      /\ ~u.is_circular =>
            /\ ~wm.is_circular
            /\ u.records = Append(wm.records, rec)
            /\ u.next_lsn = wm.next_lsn + 1
            /\ u.checkpoint_lsn = wm.checkpoint_lsn
  BY <1>0, <1>a, AppendShape
<1>c. /\ Fields(wm') /\ wm'.is_circular = u.is_circular /\ wm'.records = u.records
      /\ wm'.next_lsn = u.next_lsn /\ wm'.checkpoint_lsn = u.checkpoint_lsn
      /\ wm'.flushed_lsn = u.next_lsn - 1
  BY <1>0, <1>a, <1>b, FlushShape
<1>2. ASSUME ~wm'.is_circular
      PROVE  Running(wm', Len(wm'.records), wm'.flushed_lsn, walTxn', db, disk, truth')
  <2>1. PICK n, f : /\ Running(wm, n, f, walTxn, db, disk, truth)
                    /\ n = Len(wm.records) /\ f = wm.flushed_lsn
    BY <1>b, <1>c, <1>2 DEF WalInv
  <2>2. /\ n \in Nat /\ wm.next_lsn = n + 1
        /\ Len(wm'.records) = n + 1 /\ wm'.flushed_lsn = n + 1
    BY <1>b, <1>c, <1>2, <2>1 DEF Running, LogOk
  <2>3. /\ rec \in WALRecord /\ rec.lsn = n + 1 /\ rec.type = "COMMIT" /\ rec.txn_id = t
    BY <2>2 DEF WALRecord, Mark, wal_record_init
  <2> HIDE DEF rec
  <2>4. Taken(wm, n, t, db, truth, truth')
    <3>1. ASSUME NEW k \in WalKeys
          PROVE  t \in LockedBy(k) <=>
                   \E i \in ChangesOf(wm.records, k, n) : wm.records[i].txn_id = t
      BY <1>0, <2>1 DEF LockedBy, ChangesOf, Positions
    <3> QED
      BY <1>0, <3>1 DEF Taken
  <2>5. wm'.next_lsn = n + 2 /\ wm'.checkpoint_lsn = wm.checkpoint_lsn
        /\ wm'.records = Append(wm.records, rec)
    BY <1>b, <1>c, <1>2, <2>2
  <2>6. Running(wm', n + 1, n + 1, [walTxn EXCEPT ![t] = "committed"], db, disk, truth')
    BY <1>0, <2>1, <2>2, <2>3, <2>4, <2>5, CommitRuns
  <2> QED
    BY <1>0, <2>2, <2>6
<1>3. /\ wm'.is_circular \in BOOLEAN
      /\ walTxn' \in [WalTxns -> {"new", "active", "committed"}]
      /\ truth' \in [WalKeys -> WalValues \cup {Absent}]
  BY <1>0, <1>b, <1>c
<1> QED
  BY <1>0, <1>c, <1>2, <1>3 DEF WalInv

LEMMA WritePageKeeps ==
  ASSUME WalInv, crashes = 0, NEW key \in WalKeys, WritePage(key)
  PROVE  WalInv'
<1> DEFINE lsns == {wm.records[i].lsn : i \in RedoOf(wm, 0, key)}
           top == CHOOSE l \in lsns : \A m \in lsns : m <= l
<1>0. /\ Fields(wm) /\ wm.is_circular \in BOOLEAN
      /\ disk \in [WalKeys -> WalValues \cup {Absent}]
      /\ db \in [WalKeys -> WalValues \cup {Absent}]
      /\ wm' = IF lsns = {} THEN wm ELSE wal_flush_to(wm, top)
      /\ disk' = [disk EXCEPT ![key] = db[key]]
      /\ UNCHANGED <<db, walTxn, mode, crashes, truth>> /\ mode = "up"
  BY DEF WalInv, WritePage
<1>1. /\ Fields(wm') /\ wm'.is_circular = wm.is_circular /\ wm'.records = wm.records
      /\ wm'.next_lsn = wm.next_lsn /\ wm'.checkpoint_lsn = wm.checkpoint_lsn
  <2> HIDE DEF lsns, top
  <2> QED
    BY <1>0, FlushShape
<1>2. ASSUME ~wm'.is_circular
      PROVE  Running(wm', Len(wm'.records), wm'.flushed_lsn, walTxn, db, disk', truth)
  <2>1. PICK n, f : /\ Running(wm, n, f, walTxn, db, disk, truth)
                    /\ n = Len(wm.records) /\ f = wm.flushed_lsn
    BY <1>1, <1>2 DEF WalInv
  <2>2. /\ n \in Nat /\ wm.next_lsn = n + 1 /\ f \in 0 .. n
        /\ \A i \in 1 .. n : wm.records[i].lsn = i
        /\ Len(wm'.records) = n
    BY <1>1, <2>1 DEF Running, LogOk
  <2>3. lsns = ChangesOf(wm.records, key, n)
    <3>1. RedoOf(wm, 0, key) = ChangesOf(wm.records, key, n)
      BY <2>1, <2>2 DEF RedoOf, ChangesOf, Positions
    <3>2. \A i \in ChangesOf(wm.records, key, n) : wm.records[i].lsn = i
      BY <2>2 DEF ChangesOf
    <3> QED
      BY <3>1, <3>2
  <2>4. PICK g : /\ wm'.flushed_lsn = g /\ g \in f .. n
                 /\ \A i \in ChangesOf(wm.records, key, n) : i <= g
    <3>1. CASE lsns = {}
      <4>1. wm'.flushed_lsn = f
        BY <1>0, <2>1, <3>1
      <4>2. f \in f .. n
        BY <2>2
      <4>3. \A i \in ChangesOf(wm.records, key, n) : i <= f
        BY <2>3, <3>1
      <4> QED
        BY <4>1, <4>2, <4>3
    <3>2. CASE lsns # {}
      <4>1. lsns \subseteq 0 .. n
        BY <2>3 DEF ChangesOf
      <4> HIDE DEF lsns
      <4>2. \E l \in lsns : \A m \in lsns : m <= l
        BY <2>2, <3>2, <4>1, GreatestExists
      <4>3. top \in lsns /\ \A m \in lsns : m <= top
        BY <4>2
      <4> HIDE DEF top
      <4>4. top \in 0 .. n
        BY <4>1, <4>3
      <4>5. wm' = wal_flush_to(wm, top)
        BY <1>0, <3>2
      <4>6. wm'.flushed_lsn = IF top > f THEN top ELSE f
        <5>1. wm.next_lsn - 1 = n
          BY <2>2
        <5>2. wm'.flushed_lsn
                = LET to == IF top < wm.next_lsn - 1 THEN top ELSE wm.next_lsn - 1
                  IN  IF to > wm.flushed_lsn THEN to ELSE wm.flushed_lsn
          BY <1>0, <4>5 DEF wal_flush_to, Fields
        <5>3. (IF top < n THEN top ELSE n) = top
          BY <2>2, <4>4
        <5> QED
          BY <2>1, <5>1, <5>2, <5>3
      <4>7. wm'.flushed_lsn \in f .. n /\ top <= wm'.flushed_lsn
        BY <2>2, <4>4, <4>6
      <4>8. \A i \in lsns : i <= wm'.flushed_lsn
        <5> TAKE i \in lsns
        <5>1. i <= top /\ i \in Int
          BY <4>1, <4>3
        <5> QED
          BY <2>2, <4>4, <4>7, <5>1
      <4> QED
        BY <2>3, <4>7, <4>8
    <3> QED
      BY <3>1, <3>2
  <2> HIDE DEF lsns, top
  <2>5. \A k \in WalKeys :
          \/ disk'[k] = disk[k]
          \/ disk'[k] = db[k] /\ \A i \in ChangesOf(wm.records, k, n) : i <= g
    BY <1>0, <2>4
  <2>6. Running(wm', n, g, walTxn, db, disk', truth)
    BY <1>1, <2>1, <2>4, <2>5, FlushRuns
  <2> QED
    BY <2>2, <2>4, <2>6
<1> QED
  BY <1>0, <1>1, <1>2 DEF WalInv

LEMMA CheckpointKeeps ==
  ASSUME WalInv, crashes = 0, Checkpoint
  PROVE  WalInv'
<1>0. /\ Fields(wm) /\ wm.is_circular \in BOOLEAN
      /\ db \in [WalKeys -> WalValues \cup {Absent}]
      /\ wm' = wal_checkpoint(wal_flush(wm)) /\ disk' = db
      /\ UNCHANGED <<db, walTxn, crashes, truth>> /\ mode' = "up"
  BY DEF WalInv, Checkpoint
<1> DEFINE rec == [Mark("CHECKPOINT", NoTxn) EXCEPT !.lsn = wm.next_lsn]
<1>a. PICK u : u = wal_flush(wm)
  OBVIOUS
<1>b. /\ Fields(u) /\ u.is_circular = wm.is_circular /\ u.records = wm.records
      /\ u.next_lsn = wm.next_lsn /\ u.flushed_lsn = wm.next_lsn - 1
  BY <1>0, <1>a, FlushShape
<1>c. wm' = [u EXCEPT !.records = Append(u.records, rec), !.checkpoint_lsn = u.next_lsn,
                      !.next_lsn = u.next_lsn + 1]
  BY <1>0, <1>a, <1>b DEF wal_checkpoint
<1>1. /\ Fields(wm') /\ wm'.is_circular = wm.is_circular
      /\ wm'.records = Append(wm.records, rec)
      /\ wm'.next_lsn = wm.next_lsn + 1 /\ wm'.checkpoint_lsn = wm.next_lsn
      /\ wm'.flushed_lsn = wm.next_lsn - 1
  <2> HIDE DEF rec
  <2> QED
    BY <1>b, <1>c DEF Fields
<1>2. ASSUME ~wm'.is_circular
      PROVE  Running(wm', Len(wm'.records), wm'.flushed_lsn, walTxn, db, db, truth)
  <2>1. PICK n, f : /\ Running(wm, n, f, walTxn, db, disk, truth)
                    /\ n = Len(wm.records) /\ f = wm.flushed_lsn
    BY <1>1, <1>2 DEF WalInv
  <2>2. /\ n \in Nat /\ wm.next_lsn = n + 1 /\ f \in 0 .. n
        /\ Len(wm'.records) = n + 1 /\ wm'.flushed_lsn = n /\ LogOk(wm, n)
    BY <1>1, <2>1 DEF Running, LogOk
  <2>3. rec \in WALRecord /\ rec.lsn = n + 1 /\ rec.type = "CHECKPOINT"
    BY <2>2 DEF WALRecord, Mark, wal_record_init
  <2> HIDE DEF rec
  <2>4. \A k \in WalKeys : PageOk(wm', k, n, db[k])
    <3> TAKE k \in WalKeys
    <3>1. db[k] = ValueAt(wm.records, k, n)
      BY <2>1 DEF Running
    <3>2. Marked(wm, wm', n, rec)
      <4>1. rec.type \notin {"ABORT", "DATA"}
        BY <2>3
      <4> QED
        BY <1>1, <2>2, <2>3, <4>1, MarkGrows
    <3>3. n \in 0 .. n /\ wm'.checkpoint_lsn <= n + 1
      BY <1>1, <2>2
    <3> QED
      BY <3>1, <3>2, <3>3 DEF PageOk, Marked
  <2>5. /\ rec.type \in {"BEGIN", "CHECKPOINT"} /\ wm'.next_lsn = n + 2 /\ n \in f .. n
        /\ wm'.checkpoint_lsn \in 0 .. n + 1
    BY <1>1, <2>2, <2>3
  <2>6. \A s \in WalTxns : walTxn[s] = walTxn[s]
    OBVIOUS
  <2>7. Running(wm', n + 1, n, walTxn, db, db, truth)
    BY <1>1, <2>1, <2>2, <2>3, <2>4, <2>5, <2>6, MarkRuns
  <2> QED
    BY <2>2, <2>7
<1> QED
  BY <1>0, <1>1, <1>2 DEF WalInv

LEMMA CrashKeeps ==
  ASSUME WalInv, Crash
  PROVE  WalInv'
<1>1. /\ crashes \in Nat /\ crashes' = crashes + 1 /\ mode' = "down"
      /\ db' = disk /\ truth' = truth
  BY DEF WalInv, Crash
<1>2. CASE crashes = 0
  <2>0. /\ Fields(wm) /\ walTxn \in [WalTxns -> {"new", "active", "committed"}]
        /\ truth \in [WalKeys -> WalValues \cup {Absent}]
        /\ walTxn' = [t \in WalTxns |-> IF walTxn[t] = "active" THEN "lost" ELSE walTxn[t]]
    BY <1>2 DEF WalInv, Crash
  <2>1. /\ wm'.is_circular = wm.is_circular /\ wm'.records = Kept(wm)
        /\ wm'.checkpoint_lsn
             = IF wm.checkpoint_lsn <= wm.flushed_lsn THEN wm.checkpoint_lsn ELSE 0
    <3> DEFINE n == Len(Kept(wm))
               K == Kept(wm)
               N == wm.flushed_lsn + 1
               C == IF wm.checkpoint_lsn <= wm.flushed_lsn THEN wm.checkpoint_lsn ELSE 0
               W == IF n = 0 THEN 0 ELSE n - 1
    <3>1. wm' = [wm EXCEPT !.records = K, !.next_lsn = N, !.checkpoint_lsn = C,
                           !.write_pos = W, !.flush_pos = W]
      BY DEF Crash
    <3> HIDE DEF K, N, C, W
    <3>2. wm'.is_circular = wm.is_circular /\ wm'.records = K /\ wm'.checkpoint_lsn = C
      BY <2>0, <3>1 DEF Fields
    <3> QED
      BY <3>2 DEF K, C
  <2>2. ASSUME ~wm'.is_circular
        PROVE  Fallen(wm', Len(wm'.records), walTxn', disk, truth)
    <3>1. PICK n, f : /\ Running(wm, n, f, walTxn, db, disk, truth)
                      /\ n = Len(wm.records) /\ f = wm.flushed_lsn
      BY <1>2, <2>1, <2>2 DEF WalInv
    <3>2. Fallen(wm', f, walTxn', disk, truth)
      BY <2>0, <2>1, <3>1, CrashFalls
    <3>3. f = Len(wm'.records)
      BY <3>2 DEF Fallen
    <3> QED
      BY <3>2, <3>3
  <2> QED
    BY <1>1, <1>2, <2>0, <2>2 DEF WalInv
<1>3. CASE crashes # 0
  BY <1>1, <1>3 DEF WalInv
<1> QED
  BY <1>2, <1>3

LEMMA RecoverRestores ==
  ASSUME WalInv, wal_recover, crashes = 1, ~wm.is_circular,
         Cardinality(Logged(wm)) <= MaxTracked
  PROVE  db' = truth
<1> DEFINE start == IF wm.checkpoint_lsn > 0 THEN wm.checkpoint_lsn ELSE 1
           redone == wal_redo_pass(wm, start, db)
           losers == wal_analyze_pass(wm)
<1>1. mode = "down" /\ db' = wal_undo_pass(wm, losers, redone)
  BY DEF wal_recover
<1>2. PICK n : Fallen(wm, n, walTxn, db, truth) /\ n = Len(wm.records)
  BY <1>1 DEF WalInv
<1>3. losers = {t \in Logged(wm) : ~Ended(wm, t)}
  <2>1. LogOk(wm, n)
    BY <1>2 DEF Fallen
  <2> QED
    BY <2>1, AllTracked
<1>4. \A k \in WalKeys : redone[k] = ValueAt(wm.records, k, n)
  BY <1>2, RedoAdvances
<1> HIDE DEF losers, redone
<1>5. \A k \in WalKeys : wal_undo_pass(wm, losers, redone)[k] = truth[k]
  BY <1>2, <1>3, <1>4, UndoReturns
<1>6. /\ truth \in [WalKeys -> WalValues \cup {Absent}]
      /\ wal_undo_pass(wm, losers, redone)
           = [k \in WalKeys |-> wal_undo_pass(wm, losers, redone)[k]]
  BY <1>1 DEF WalInv, wal_undo_pass
<1>7. wal_undo_pass(wm, losers, redone) = [k \in WalKeys |-> truth[k]]
  BY <1>5, <1>6
<1> QED
  BY <1>1, <1>6, <1>7

LEMMA WalInvHolds == WalSpec => []WalInv
<1>1. WalInit => WalInv
  <2> SUFFICES ASSUME WalInit PROVE WalInv
    OBVIOUS
  <2>1. /\ wm = [ records |-> <<>>, next_lsn |-> 1, flushed_lsn |-> 0, checkpoint_lsn |-> 0,
                  write_pos |-> 0, flush_pos |-> 0, is_circular |-> FALSE ]
        /\ db = [k \in WalKeys |-> Absent] /\ disk = db /\ truth = db
        /\ walTxn = [t \in WalTxns |-> "new"] /\ mode = "up" /\ crashes = 0
    BY DEF WalInit, wal_manager_init
  <2>2. \A k : ChangesOf(<<>>, k, 0) = {}
    BY DEF ChangesOf
  <2>3. \A k : ValueAt(<<>>, k, 0) = Absent
    BY <2>2 DEF ValueAt
  <2>4. LogOk(wm, 0)
    BY <2>1 DEF LogOk
  <2>5. EndsLogged(wm, 0, 0, walTxn)
    BY <2>1 DEF EndsLogged
  <2>6. \A k \in WalKeys : PageOk(wm, k, 0, disk[k]) /\ Boundary(wm, 0, k, 0, walTxn, "active", truth[k])
    BY <2>1, <2>2, <2>3 DEF PageOk, Boundary
  <2>7. \A k \in WalKeys : db[k] = ValueAt(wm.records, k, 0)
    BY <2>1, <2>3
  <2>8. Running(wm, 0, 0, walTxn, db, disk, truth)
    BY <2>1, <2>4, <2>5, <2>6, <2>7 DEF Running
  <2>9. Fields(wm) /\ Len(wm.records) = 0 /\ wm.flushed_lsn = 0
    BY <2>1 DEF Fields
  <2> QED
    BY <2>1, <2>8, <2>9 DEF WalInv
<1>2. WalInv /\ [WalNext]_walVars => WalInv'
  <2> SUFFICES ASSUME WalInv, [WalNext]_walVars
               PROVE  WalInv'
    OBVIOUS
  <2>1. CASE UNCHANGED walVars
    BY <2>1 DEF WalInv, walVars
  <2>2. CASE Crash
    BY <2>2, CrashKeeps
  <2>3. CASE wal_recover
    <3>1. mode = "down" /\ mode' = "recovered" /\ crashes' = crashes
      BY <2>3 DEF wal_recover
    <3> QED
      BY <3>1 DEF WalInv
  <2>4. ASSUME NEW t \in WalTxns, \/ Begin(t) \/ Commit(t)
                                  \/ \E k \in WalKeys, v \in WalValues \cup {Absent} : Change(t, k, v)
        PROVE  WalInv'
    <3>1. CASE crashes = 0
      BY <2>4, <3>1, BeginKeeps, WalCommitKeeps, ChangeKeeps
    <3>2. CASE crashes # 0
      BY <2>4, <3>2 DEF WalInv, Begin, Commit, Change
    <3> QED
      BY <3>1, <3>2
  <2>5. ASSUME NEW k \in WalKeys, WritePage(k)
        PROVE  WalInv'
    <3>1. CASE crashes = 0
      BY <2>5, <3>1, WritePageKeeps
    <3>2. CASE crashes # 0
      BY <2>5, <3>2 DEF WalInv, WritePage
    <3> QED
      BY <3>1, <3>2
  <2>6. CASE Checkpoint
    <3>1. CASE crashes = 0
      BY <2>6, <3>1, CheckpointKeeps
    <3>2. CASE crashes # 0
      BY <2>6, <3>2 DEF WalInv, Checkpoint
    <3> QED
      BY <3>1, <3>2
  <2> QED
    BY <2>1, <2>2, <2>3, <2>4, <2>5, <2>6 DEF WalNext
<1> QED
  BY <1>1, <1>2, PTL DEF WalSpec

(* wal_recover: after the first crash, from whatever pages had been written   *)
(* and whatever part of the log was flushed, recovery restores exactly what   *)
(* the committed transactions wrote.                                          *)
THEOREM RecoveryCorrect == WalSpec => RecoveryExact
<1>1. WalInv /\ [WalNext]_walVars => [RecoveryRestores]_walVars
  <2> SUFFICES ASSUME WalInv, WalNext, mode = "down", mode' = "recovered", crashes = 1,
                      ~wm.is_circular, Cardinality(Logged(wm)) <= MaxTracked
               PROVE  db' = truth'
    BY DEF RecoveryRestores
  <2>1. wal_recover
    BY DEF WalNext, Begin, Commit, Change, WritePage, Checkpoint, Crash, CanLog
  <2>2. truth' = truth
    BY <2>1 DEF wal_recover
  <2> QED
    BY <2>1, <2>2, RecoverRestores
<1> QED
  BY <1>1, WalInvHolds, PTL DEF WalSpec, RecoveryExact
=============================================================================
