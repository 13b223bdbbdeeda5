--------------------------- MODULE PaxosAcceptor ----------------------------
(***************************************************************************)
(* The acceptor and the proposal numbers of mini-dist-protocol/src/paxos.c, *)
(* shared by the single-decree protocol (Paxos) and the replicated log      *)
(* (MultiPaxos), which work on one PaxosCluster.                            *)
(***************************************************************************)
EXTENDS Integers, FiniteSets

CONSTANTS
  N,       \* node_count: every node is an acceptor, a learner and a proposer
  Values,
  Stride   \* the 1000 of paxos_run_instance and multi_paxos_become_leader

ASSUME PaxosAssumption ==
  /\ N \in Nat \ {0}
  /\ Stride \in Nat \ {0}
  /\ 0 \notin Values

Node == 0 .. N - 1

quorum == N \div 2 + 1

(* The number 0 and the value 0 are what paxos_init_cluster stores.          *)
PaxosAcceptor ==
  [ promised_num   : Nat,
    accepted_num   : Nat,
    accepted_value : Values \cup {0},
    has_accepted   : BOOLEAN ]

FreshAcceptor ==
  [promised_num |-> 0, accepted_num |-> 0, accepted_value |-> 0, has_accepted |-> FALSE]

(* A learner: the whole array is assigned in one loop, so one record stands  *)
(* for it.                                                                   *)
PaxosLearner ==
  [learned_value : Values \cup {0}, learned_round : Nat, has_learned : BOOLEAN]

FreshLearner == [learned_value |-> 0, learned_round |-> 0, has_learned |-> FALSE]

(* The next number of proposer p, drawn from a range of its own; after       *)
(* Stride rounds the range starts again.                                     *)
NextProposal(p, num) == (p + 1) * Stride + (num % Stride) + 1

-----------------------------------------------------------------------------
Promises(acc, num) == num > acc.promised_num

paxos_promise(acc, num) ==
  IF Promises(acc, num) THEN [acc EXCEPT !.promised_num = num] ELSE acc

(* Mutant: the promise to a higher number is forgotten.                      *)
AcceptsAnything(acc, num) == TRUE

Accepts(acc, num) == num >= acc.promised_num

(* The promise itself is not raised.                                         *)
paxos_accepted(acc, num, v) ==
  IF Accepts(acc, num)
  THEN [acc EXCEPT !.accepted_num = num, !.accepted_value = v, !.has_accepted = TRUE]
  ELSE acc
=============================================================================
