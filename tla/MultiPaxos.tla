----------------------------- MODULE MultiPaxos -----------------------------
(***************************************************************************)
(* The replicated log of mini-dist-protocol/src/paxos.c (multi_paxos_* and  *)
(* its file-level variables) on a cluster that also runs single instances.  *)
(* Calls run to completion, so each is one step.                            *)
(*                                                                          *)
(* promised_to is a history variable: the proposer whose number the         *)
(* acceptors promised last.                                                 *)
(***************************************************************************)
EXTENDS PaxosAcceptor, Sequences

CONSTANTS
  MaxLog,   \* PAXOS_MAX_LOG_ENTRIES
  Tries,    \* how often multi_paxos_become_leader prepares (3)
  MaxNum    \* bound of the model: numbers stay below it

ASSUME MultiPaxosAssumption == Tries \in Nat \ {0}

VARIABLES logAcceptors, proposal_num, logLearners, multi_paxos_leader, multi_paxos_log,
          promised_to

multiVars == <<logAcceptors, proposal_num, logLearners, multi_paxos_leader, multi_paxos_log,
          promised_to>>

NoLeader == -1

(* paxos_init_cluster.                                                       *)
MultiInit ==
  /\ logAcceptors = [a \in Node |-> FreshAcceptor]
  /\ proposal_num = [p \in Node |-> 0]
  /\ logLearners = FreshLearner
  /\ multi_paxos_leader = NoLeader
  /\ multi_paxos_log = <<>>
  /\ promised_to = NoLeader

-----------------------------------------------------------------------------
(* paxos_prepare and paxos_accept on all acceptors.                          *)
Promisers(accs, num) == {a \in Node : Promises(accs[a], num)}

PrepareAll(accs, num) == [a \in Node |-> paxos_promise(accs[a], num)]

Accepters(accs, num) == {a \in Node : Accepts(accs[a], num)}

AcceptAll(accs, num, v) == [a \in Node |-> paxos_accepted(accs[a], num, v)]

Majority(S) == Cardinality(S) >= quorum

(* The value of the highest-numbered proposal the promisers accepted, or v.  *)
FinalValue(accs, S, v) ==
  LET had == {a \in S : accs[a].has_accepted}
  IN  IF had = {} THEN v
      ELSE accs[CHOOSE a \in had :
                  \A b \in had : accs[b].accepted_num <= accs[a].accepted_num].accepted_value

LearnedAt(num, v) == [learned_value |-> v, learned_round |-> num, has_learned |-> TRUE]

paxos_run_instance(p, v) ==
  LET num   == NextProposal(p, proposal_num[p])
      yes   == Promisers(logAcceptors, num)
      accs  == PrepareAll(logAcceptors, num)
      final == FinalValue(logAcceptors, yes, v)
      ok    == Majority(yes)
  IN  /\ proposal_num' = [proposal_num EXCEPT ![p] = num]
      /\ logAcceptors' = IF ok THEN AcceptAll(accs, num, final) ELSE accs
      /\ logLearners' = IF ok /\ Majority(Accepters(accs, num))
                     THEN LearnedAt(num, final) ELSE logLearners
      /\ promised_to' = IF yes = {} THEN promised_to ELSE p
      /\ UNCHANGED <<multi_paxos_leader, multi_paxos_log>>

multi_reset_proposer(p) ==
  /\ proposal_num' = [proposal_num EXCEPT ![p] = 0]
  /\ UNCHANGED <<logAcceptors, logLearners, multi_paxos_leader, multi_paxos_log, promised_to>>

(* Every try raises the number by Stride; the first that a majority promises *)
(* makes p the leader.  A failed try still leaves its promises behind.       *)
multi_paxos_become_leader(p) ==
  LET num(k) == proposal_num[p] + k * Stride
      good   == {k \in 1 .. Tries : Majority(Promisers(logAcceptors, num(k)))}
      last   == IF good = {} THEN Tries ELSE CHOOSE k \in good : \A l \in good : k <= l
  IN  /\ num(Tries) <= MaxNum
      /\ proposal_num' = [proposal_num EXCEPT ![p] = num(last)]
      /\ logAcceptors' = PrepareAll(logAcceptors, num(last))
      /\ multi_paxos_leader' = IF good = {} THEN NoLeader ELSE p
      /\ promised_to' = IF Promisers(logAcceptors, num(last)) = {} THEN promised_to ELSE p
      /\ UNCHANGED <<logLearners, multi_paxos_log>>

(* The entry is in the log whether or not a majority accepts it.             *)
multi_paxos_replicate(p, v) ==
  /\ p = multi_paxos_leader
  /\ Len(multi_paxos_log) < MaxLog
  /\ multi_paxos_log' = Append(multi_paxos_log, v)
  /\ logAcceptors' = AcceptAll(logAcceptors, proposal_num[p], v)
  /\ logLearners' = IF Majority(Accepters(logAcceptors, proposal_num[p]))
                 THEN LearnedAt(proposal_num[p], v) ELSE logLearners
  /\ UNCHANGED <<proposal_num, multi_paxos_leader, promised_to>>

MultiNext ==
  \E p \in Node :
    \/ \E v \in Values : paxos_run_instance(p, v) \/ multi_paxos_replicate(p, v)
    \/ multi_paxos_become_leader(p)
    \/ multi_reset_proposer(p)

MultiSpec == MultiInit /\ [][MultiNext]_multiVars

-----------------------------------------------------------------------------
(* Properties.                                                               *)

(* Every variable keeps its type and the log its capacity.                   *)
MultiTypeOK ==
  /\ logAcceptors \in [Node -> PaxosAcceptor]
  /\ proposal_num \in [Node -> 0 .. MaxNum]
  /\ logLearners \in PaxosLearner
  /\ multi_paxos_leader \in Node \cup {NoLeader}
  /\ multi_paxos_log \in Seq(Values) /\ Len(multi_paxos_log) <= MaxLog

(* A leader whose entries the acceptors take is the proposer they promised   *)
(* last, although numbers of different proposers collide (each call of       *)
(* multi_paxos_become_leader adds Stride to whatever number was left) and    *)
(* paxos_accepted also takes a number equal to the promise.                  *)
LeaderHoldsPromise ==
  multi_paxos_leader # NoLeader =>
    (Majority(Accepters(logAcceptors, proposal_num[multi_paxos_leader])) =>
       promised_to = multi_paxos_leader)

(* A step: the learners never go back to an older round, whichever of        *)
(* leaders, deposed leaders and single instances write.                      *)
LearnsForward == logLearners'.learned_round >= logLearners.learned_round
=============================================================================
