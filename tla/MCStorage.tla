----------------------------- MODULE MCStorage ------------------------------
(***************************************************************************)
(* The storage engines of mini-dist-transaction for TLC: optimistic and     *)
(* multi-version concurrency control and the write-ahead log.  They share   *)
(* no state, so a behaviour exercises one of them, named by part, and       *)
(* leaves the others as they were initialised.  Serializable is stated in   *)
(* Occ, SnapshotIsolation in Mvcc, RecoveryExact in Wal.                     *)
(***************************************************************************)
EXTENDS Occ, Mvcc, Wal

VARIABLE part

allVars == <<part, vars, mvVars, walVars>>

MCInit ==
  /\ part \in {"occ", "mvcc", "wal"}
  /\ Init /\ MvInit /\ WalInit

MCNext ==
  \/ part = "occ" /\ Next /\ UNCHANGED <<part, mvVars, walVars>>
  \/ part = "mvcc" /\ MvNext /\ UNCHANGED <<part, vars, walVars>>
  \/ part = "wal" /\ WalNext /\ UNCHANGED <<part, vars, mvVars>>

MCSpec == MCInit /\ [][MCNext]_allVars

(* The instance uses the same model values for Keys and MvTxns, for MvKeys,    *)
(* WalKeys and Txns, and for MvValues and WalValues.                           *)
Symmetry == Permutations(Keys) \cup Permutations(MvKeys) \cup Permutations(MvValues)
=============================================================================
