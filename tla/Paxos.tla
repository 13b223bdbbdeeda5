------------------------------- MODULE Paxos --------------------------------
(***************************************************************************)
(* Single-decree Paxos of mini-dist-protocol/src/paxos.c.                   *)
(*                                                                          *)
(* paxos_run_instance chooses a number, calls paxos_promise on every        *)
(* acceptor in turn, then paxos_accepted on every acceptor in turn, and     *)
(* stores the value with the learners if a majority accepted.  Those calls  *)
(* are the messages of the protocol, and paxos.h exports each of them: one  *)
(* call on one acceptor is one step here, and the rounds of several         *)
(* proposers interleave.  paxos_run_instance as the library runs it, from   *)
(* beginning to end, is the case without interleaving.                      *)
(*                                                                          *)
(* A proposer's record holds the fields of PaxosProposer and the locals of  *)
(* its running paxos_run_instance; the two counters are the sets they count.*)
(***************************************************************************)
EXTENDS PaxosAcceptor

CONSTANT Proposers   \* bound of the model: the nodes that propose

ASSUME ProposersAssumption == Proposers \subseteq Node

VARIABLES acceptors, proposers, learners

vars == <<acceptors, proposers, learners>>

PaxosProposer ==
  [ proposal_num : Nat,
    value        : Values \cup {0},
    phase        : {"idle", "prepare", "accept"},
    next         : 0 .. N,
    promises     : SUBSET Node,
    highest_num  : Nat,
    highest_val  : Values \cup {0},
    accepts      : SUBSET Node ]

FreshProposer ==
  [ proposal_num |-> 0, value |-> 0, phase |-> "idle", next |-> 0,
    promises |-> {}, highest_num |-> 0, highest_val |-> 0, accepts |-> {} ]

(* paxos_init_cluster.                                                       *)
Init ==
  /\ acceptors = [a \in Node |-> FreshAcceptor]
  /\ proposers = [p \in Proposers |-> FreshProposer]
  /\ learners = FreshLearner

(* The record of a proposer between two calls: the locals are gone.          *)
Returned(pr) ==
  [FreshProposer EXCEPT !.proposal_num = pr.proposal_num, !.value = pr.value]

paxos_reset_proposer(p) ==
  /\ proposers[p].phase = "idle"
  /\ proposers' = [proposers EXCEPT ![p] = FreshProposer]
  /\ UNCHANGED <<acceptors, learners>>

(* paxos_run_instance up to the call of paxos_prepare.                       *)
StartInstance(p, v) ==
  /\ proposers[p].phase = "idle"
  /\ proposers' = [proposers EXCEPT ![p] =
       [FreshProposer EXCEPT
          !.proposal_num = NextProposal(p, proposers[p].proposal_num),
          !.value = v,
          !.phase = "prepare"]]
  /\ UNCHANGED <<acceptors, learners>>

(* The promise carries an accepted value above those seen so far.            *)
HeardHigher(pr, acc) == acc.has_accepted /\ acc.accepted_num > pr.highest_num

(* One iteration of the loop of paxos_prepare.                               *)
paxos_prepare(p) ==
  LET pr  == proposers[p]
      acc == acceptors[pr.next]
      yes == Promises(acc, pr.proposal_num)
      up  == yes /\ HeardHigher(pr, acc)
  IN  /\ pr.phase = "prepare" /\ pr.next < N
      /\ acceptors' = [acceptors EXCEPT ![pr.next] = paxos_promise(@, pr.proposal_num)]
      /\ proposers' = [proposers EXCEPT ![p] =
           [pr EXCEPT !.next = @ + 1,
                      !.promises = IF yes THEN @ \cup {pr.next} ELSE @,
                      !.highest_num = IF up THEN acc.accepted_num ELSE @,
                      !.highest_val = IF up THEN acc.accepted_value ELSE @]]
      /\ UNCHANGED learners

(* Mutant: the accept phase starts as soon as a majority has promised.       *)
PreparedEarly(p) ==
  LET pr    == proposers[p]
      final == IF pr.highest_num > 0 THEN pr.highest_val ELSE pr.value
      many  == Cardinality(pr.promises) >= quorum
  IN  /\ pr.phase = "prepare" /\ (pr.next = N \/ many)
      /\ proposers' = [proposers EXCEPT ![p] =
           IF many THEN [pr EXCEPT !.phase = "accept", !.next = 0, !.value = final]
           ELSE Returned([pr EXCEPT !.value = final])]
      /\ UNCHANGED <<acceptors, learners>>

(* paxos_prepare returns: without a majority the instance fails; otherwise   *)
(* the accept phase starts, with the highest accepted value if there is one. *)
Prepared(p) ==
  LET pr    == proposers[p]
      final == IF pr.highest_num > 0 THEN pr.highest_val ELSE pr.value
  IN  /\ pr.phase = "prepare" /\ pr.next = N
      /\ proposers' = [proposers EXCEPT ![p] =
           IF Cardinality(pr.promises) >= quorum
           THEN [pr EXCEPT !.phase = "accept", !.next = 0, !.value = final]
           ELSE Returned([pr EXCEPT !.value = final])]
      /\ UNCHANGED <<acceptors, learners>>

(* One iteration of the loop of paxos_accept.                                *)
paxos_accept(p) ==
  LET pr  == proposers[p]
      yes == Accepts(acceptors[pr.next], pr.proposal_num)
  IN  /\ pr.phase = "accept" /\ pr.next < N
      /\ acceptors' = [acceptors EXCEPT ![pr.next] =
                         paxos_accepted(@, pr.proposal_num, pr.value)]
      /\ proposers' = [proposers EXCEPT ![p] =
           [pr EXCEPT !.next = @ + 1,
                      !.accepts = IF yes THEN @ \cup {pr.next} ELSE @]]
      /\ UNCHANGED learners

(* paxos_accept returns, and paxos_run_instance with it.                     *)
Learn(p) ==
  LET pr == proposers[p]
  IN  /\ pr.phase = "accept" /\ pr.next = N
      /\ learners' = IF Cardinality(pr.accepts) >= quorum
                     THEN [ learned_value |-> pr.value,
                            learned_round |-> pr.proposal_num,
                            has_learned   |-> TRUE ]
                     ELSE learners
      /\ proposers' = [proposers EXCEPT ![p] = Returned(pr)]
      /\ UNCHANGED acceptors

Next ==
  \E p \in Proposers :
    \/ paxos_reset_proposer(p)
    \/ \E v \in Values : StartInstance(p, v)
    \/ paxos_prepare(p)
    \/ Prepared(p)
    \/ paxos_accept(p)
    \/ Learn(p)

Spec == Init /\ [][Next]_vars

-----------------------------------------------------------------------------
(* Properties.                                                               *)

(* Every field keeps its type.                                               *)
TypeOK ==
  /\ acceptors \in [Node -> PaxosAcceptor]
  /\ proposers \in [Proposers -> PaxosProposer]
  /\ learners \in PaxosLearner

(* What paxos_run_instance stores with the learners is a choice of the       *)
(* abstract specification: however rounds interleave, fail, are repeated     *)
(* with a reused number or restart after paxos_reset_proposer, the learners  *)
(* never change the value they have learned.                                 *)
Abstract == INSTANCE Consensus WITH
              chosen <- IF learners.has_learned THEN {learners.learned_value} ELSE {}

ImplementsConsensus == Abstract!Spec

(* When a proposer reaches its accept phase, every acceptor has promised it  *)
(* or a higher number, so an acceptor never accepts beyond its promise,      *)
(* although paxos_accepted does not raise promised_num: the loop of          *)
(* paxos_prepare asks all acceptors, not just a majority.                    *)
AcceptedWithinPromise ==
  /\ \A a \in Node : acceptors[a].accepted_num <= acceptors[a].promised_num
  /\ \A p \in Proposers : proposers[p].phase = "accept" =>
       \A a \in Node : acceptors[a].promised_num >= proposers[p].proposal_num
=============================================================================
