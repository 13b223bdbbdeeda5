--------------------------- MODULE ConsensusProof ---------------------------
(***************************************************************************)
(* Proofs about mini-dist-protocol: Paxos and, at the end, the lease manager *)
(* and the transaction over values of distributed_apps.c.                   *)
(*                                                                          *)
(* The refinement of Consensus by Paxos is proved for every number of       *)
(* nodes, every set of proposers and values and every stride of the         *)
(* proposal numbers.                                                        *)
(*                                                                          *)
(* Acceptors remember only what they accepted last and proposal numbers are *)
(* used again after a wrap-around or a reset, so the proof cannot follow    *)
(* the usual history of votes.  Three facts replace it.  The prepare loop   *)
(* visits every acceptor, so no accepted number exceeds any promise         *)
(* (Below); hence a number that is used again gets no promise, and a round  *)
(* with a promise has a number nobody has accepted (FreshNumber).  And a    *)
(* round that can still reach a majority locks its value (Lock): every      *)
(* acceptance and every running round with a higher number has the same.    *)
(***************************************************************************)
EXTENDS Paxos, DistributedApps, TLAPS, FiniteSetTheorems, WellFoundedInduction

-----------------------------------------------------------------------------
(* Majorities.                                                               *)

Quorum(S) == Cardinality(S) >= quorum

(* The nodes are finitely many, N of them.                                   *)
LEMMA NodesFinite ==
  /\ IsFiniteSet(Node)
  /\ Cardinality(Node) = N
  /\ Node \subseteq Nat
  /\ N \in Node \cup Nat
<1>1. 0 \in Int /\ N - 1 \in Int
  BY PaxosAssumption
<1>2. IsFiniteSet(0 .. N - 1) /\ Cardinality(0 .. N - 1) = IF 0 > N - 1 THEN 0 ELSE (N - 1) - 0 + 1
  BY <1>1, FS_Interval
<1> QED
  BY <1>2, PaxosAssumption DEF Node

(* Two majorities have more members than there are nodes.                    *)
LEMMA QuorumSize == quorum \in Nat /\ quorum > 0 /\ quorum + quorum > N
  BY PaxosAssumption DEF quorum

(* Two majorities share a node.                                              *)
LEMMA QuorumsMeet ==
  ASSUME NEW S \in SUBSET Node, NEW T \in SUBSET Node, Quorum(S), Quorum(T)
  PROVE  \E a \in Node : a \in S /\ a \in T
<1>1. Cardinality(S) \in Nat /\ Cardinality(T) \in Nat
  BY NodesFinite, FS_Subset, FS_CardinalityType
<1>2. Cardinality(S) + Cardinality(T) > Cardinality(Node)
  BY <1>1, NodesFinite, QuorumSize, PaxosAssumption DEF Quorum
<1>3. S \cap T # {}
  BY <1>2, NodesFinite, FS_MajoritiesIntersect
<1> QED
  BY <1>3

(* A superset of a majority is a majority.                                   *)
LEMMA QuorumGrows ==
  ASSUME NEW S \in SUBSET Node, NEW T \in SUBSET Node, S \subseteq T, Quorum(S)
  PROVE  Quorum(T)
<1>1. IsFiniteSet(T) /\ IsFiniteSet(S)
  BY NodesFinite, FS_Subset
<1>2. Cardinality(S) <= Cardinality(T)
  BY <1>1, FS_Subset
<1>3. Cardinality(S) \in Nat /\ Cardinality(T) \in Nat
  BY <1>1, FS_CardinalityType
<1> QED
  BY <1>2, <1>3, QuorumSize DEF Quorum

(* A majority has a member.                                                  *)
LEMMA QuorumMember ==
  ASSUME NEW S \in SUBSET Node, Quorum(S)
  PROVE  \E a \in Node : a \in S
<1>1. CASE S = {}
  BY <1>1, FS_EmptySet, QuorumSize DEF Quorum
<1> QED
  BY <1>1

-----------------------------------------------------------------------------
(* Proposal numbers.                                                         *)

InRange(p, n) == (p + 1) * Stride < n /\ n <= (p + 2) * Stride

(* paxos_run_instance draws its number from the proposer's own range.        *)
LEMMA NextInRange ==
  ASSUME NEW p \in Node, NEW n \in Nat
  PROVE  /\ NextProposal(p, n) \in Nat
         /\ NextProposal(p, n) > 0
         /\ InRange(p, NextProposal(p, n))
<1> DEFINE base == (p + 1) * Stride
<1>1. p \in Nat /\ Stride \in Nat /\ Stride > 0
  BY NodesFinite, PaxosAssumption
<1>2. base \in Nat /\ (p + 2) * Stride = base + Stride
  BY <1>1
<1>3. n % Stride \in 0 .. Stride - 1
  BY <1>1
<1>4. NextProposal(p, n) = base + (n % Stride) + 1
  BY DEF NextProposal
<1> HIDE DEF base
<1>5. (p + 1) * Stride = base
  BY DEF base
<1> QED
  BY <1>1, <1>2, <1>3, <1>4, <1>5 DEF InRange

(* The ranges of two proposers are disjoint.                                 *)
LEMMA RangesDisjoint ==
  ASSUME NEW p \in Node, NEW q \in Node, NEW n \in Nat, InRange(p, n), InRange(q, n)
  PROVE  p = q
<1>1. ASSUME NEW i \in Node, NEW j \in Node, i < j
      PROVE  (i + 2) * Stride <= (j + 1) * Stride
  <2>1. i \in Nat /\ j \in Nat /\ Stride \in Nat
    BY NodesFinite, PaxosAssumption
  <2>2. PICK d \in Nat : j + 1 = (i + 2) + d
    BY <1>1, <2>1, (j + 1) - (i + 2) \in Nat
  <2>3. (j + 1) * Stride = (i + 2) * Stride + d * Stride
    BY <2>1, <2>2
  <2>4. d * Stride \in Nat /\ (i + 2) * Stride \in Nat
    BY <2>1, <2>2
  <2> QED
    BY <2>3, <2>4
<1>2. /\ (p + 2) * Stride \in Int /\ (q + 2) * Stride \in Int
      /\ (p + 1) * Stride \in Int /\ (q + 1) * Stride \in Int
  BY NodesFinite, PaxosAssumption
<1>3. ~(p < q)
  BY <1>1, <1>2 DEF InRange
<1>4. ~(q < p)
  BY <1>1, <1>2 DEF InRange
<1> QED
  BY <1>3, <1>4, NodesFinite

-----------------------------------------------------------------------------
(* The inductive invariant.                                                  *)

(* Numbers of running rounds come from the proposer's own range.             *)
Numbers ==
  \A p \in Proposers : proposers[p].phase # "idle" => InRange(p, proposers[p].proposal_num)

(* What is accepted, heard of or proposed is a proposed value.               *)
Proposed ==
  /\ \A a \in Node : acceptors[a].accepted_num > 0 =>
       acceptors[a].has_accepted /\ acceptors[a].accepted_value \in Values
  /\ \A p \in Proposers : proposers[p].phase # "idle" =>
       /\ proposers[p].value \in Values
       /\ proposers[p].highest_num > 0 => proposers[p].highest_val \in Values

(* Every acceptor a round has visited has promised it or a higher number.    *)
Visited ==
  \A p \in Proposers :
    /\ proposers[p].phase = "prepare" =>
       /\ proposers[p].accepts = {}
       /\ \A a \in Node :
           /\ a \in proposers[p].promises => a < proposers[p].next
           /\ a < proposers[p].next => acceptors[a].promised_num >= proposers[p].proposal_num
    /\ proposers[p].phase = "accept" =>
         \A a \in Node : acceptors[a].promised_num >= proposers[p].proposal_num

(* No accepted number, now or when it was heard of, exceeds any promise.     *)
Below ==
  \A c \in Node :
    /\ \A a \in Node : acceptors[a].accepted_num <= acceptors[c].promised_num
    /\ \A p \in Proposers : proposers[p].phase = "prepare" =>
         proposers[p].highest_num <= acceptors[c].promised_num

(* A round that has got a promise uses its number for the first time.        *)
FreshNumber ==
  \A p \in Proposers : proposers[p].phase = "prepare" /\ proposers[p].promises # {} =>
    /\ \A a \in Node : acceptors[a].accepted_num # proposers[p].proposal_num
    /\ \A q \in Proposers : proposers[q].phase = "prepare" =>
         proposers[q].highest_num # proposers[p].proposal_num

Base == TypeOK /\ Numbers /\ Proposed /\ Visited /\ Below /\ FreshNumber

(* The acceptors in S have accepted number b with value v, or were overruled *)
(* by equals: whatever has number b or higher carries v, and every promise   *)
(* that a member of S gave to a higher number reported it.                   *)
Lock(acc, pro, b, S, v) ==
  /\ \A a \in Node : acc[a].promised_num >= b
  /\ \A a \in S : acc[a].accepted_num >= b
  /\ \A a \in Node : acc[a].accepted_num >= b => acc[a].accepted_value = v
  /\ \A q \in Proposers : pro[q].phase = "accept" /\ pro[q].proposal_num >= b => pro[q].value = v
  /\ \A q \in Proposers : pro[q].phase = "prepare" =>
       /\ pro[q].proposal_num = b => pro[q].promises = {}
       /\ pro[q].proposal_num > b /\ (\E a \in S : a \in pro[q].promises) => pro[q].highest_num >= b
       /\ pro[q].highest_num >= b => pro[q].highest_val = v

(* The acceptors that still can take part in a majority for a round.         *)
Pot(acc, pr) ==
  pr.accepts \cup {a \in Node : a >= pr.next /\ acc[a].promised_num <= pr.proposal_num}

(* A round in its accept phase that can reach a majority locks its value.    *)
Rounds ==
  \A p \in Proposers :
    proposers[p].phase = "accept" /\ Quorum(Pot(acceptors, proposers[p])) =>
      Lock(acceptors, proposers, proposers[p].proposal_num, proposers[p].accepts, proposers[p].value)

(* The learned value is locked by a majority, and so are the rounds with a   *)
(* lower number that are still running.                                      *)
Learned ==
  learners.has_learned =>
    /\ learners.learned_value \in Values
    /\ learners.learned_round > 0
    /\ \E S \in SUBSET Node :
         Quorum(S) /\ Lock(acceptors, proposers, learners.learned_round, S, learners.learned_value)
    /\ \A q \in Proposers :
         proposers[q].phase = "accept" /\ Quorum(Pot(acceptors, proposers[q])) =>
           proposers[q].value = learners.learned_value

IInv == Base /\ Rounds /\ Learned

-----------------------------------------------------------------------------
(* What each action does, field by field.                                    *)

(* Proposers are nodes, and a record of the right type stays one.            *)
LEMMA ProposerIsNode == \A p \in Proposers : p \in Node /\ p \in Nat
  BY ProposersAssumption, NodesFinite

(* The record between two calls, and at the start of one.                    *)
LEMMA FreshType == FreshProposer \in PaxosProposer
  BY PaxosAssumption DEF FreshProposer, PaxosProposer

(* The record between two calls keeps number and value only.                 *)
LEMMA ReturnedType ==
  ASSUME NEW pr \in PaxosProposer
  PROVE  /\ Returned(pr) \in PaxosProposer
         /\ Returned(pr).phase = "idle"
         /\ Returned(pr).proposal_num = pr.proposal_num
         /\ Returned(pr).value = pr.value
<1>1. PICK f \in PaxosProposer : f = FreshProposer
  BY FreshType
<1>2. PICK g : g = [f EXCEPT !.proposal_num = pr.proposal_num, !.value = pr.value]
  OBVIOUS
<1>3. pr.proposal_num \in Nat /\ pr.value \in Values \cup {0}
  BY DEF PaxosProposer
<1>4. /\ g \in PaxosProposer /\ g.phase = "idle"
      /\ g.proposal_num = pr.proposal_num /\ g.value = pr.value
  BY <1>1, <1>2, <1>3 DEF FreshProposer, PaxosProposer
<1> QED
  BY <1>1, <1>2, <1>4 DEF Returned

(* The record with which paxos_run_instance starts.                          *)
LEMMA StartedType ==
  \A n \in Nat, v \in Values : \E g \in PaxosProposer :
    /\ g = [FreshProposer EXCEPT !.proposal_num = n, !.value = v, !.phase = "prepare"]
    /\ g.phase = "prepare" /\ g.next = 0 /\ g.promises = {} /\ g.accepts = {}
    /\ g.highest_num = 0 /\ g.value = v /\ g.proposal_num = n
<1> SUFFICES ASSUME NEW n \in Nat, NEW v \in Values
             PROVE  \E g \in PaxosProposer :
               /\ g = [FreshProposer EXCEPT !.proposal_num = n, !.value = v, !.phase = "prepare"]
               /\ g.phase = "prepare" /\ g.next = 0 /\ g.promises = {} /\ g.accepts = {}
               /\ g.highest_num = 0 /\ g.value = v /\ g.proposal_num = n
  BY Zenon
<1>1. PICK f \in PaxosProposer : f = FreshProposer
  BY FreshType
<1>2. PICK g : g = [f EXCEPT !.proposal_num = n, !.value = v, !.phase = "prepare"]
  OBVIOUS
<1>3. /\ g \in PaxosProposer
      /\ g.phase = "prepare" /\ g.next = 0 /\ g.promises = {} /\ g.accepts = {}
      /\ g.highest_num = 0 /\ g.value = v /\ g.proposal_num = n
  BY <1>1, <1>2 DEF FreshProposer, PaxosProposer
<1> QED
  BY <1>1, <1>2, <1>3

(* paxos_reset_proposer touches one idle proposer.                           *)
LEMMA ResetEffect ==
  ASSUME TypeOK, NEW p \in Proposers, paxos_reset_proposer(p)
  PROVE  /\ acceptors' = acceptors /\ learners' = learners
         /\ \A q \in Proposers : q # p => proposers'[q] = proposers[q]
         /\ proposers'[p] = FreshProposer
         /\ proposers' \in [Proposers -> PaxosProposer]
<1>1. FreshProposer \in PaxosProposer
  BY PaxosAssumption DEF FreshProposer, PaxosProposer
<1> QED
  BY <1>1 DEF TypeOK, paxos_reset_proposer

(* A new instance starts with a number of the proposer's own range.          *)
LEMMA StartEffect ==
  ASSUME TypeOK, NEW p \in Proposers, NEW v \in Values, StartInstance(p, v)
  PROVE  /\ acceptors' = acceptors /\ learners' = learners
         /\ \A q \in Proposers : q # p => proposers'[q] = proposers[q]
         /\ proposers'[p].phase = "prepare" /\ proposers'[p].next = 0
         /\ proposers'[p].promises = {} /\ proposers'[p].highest_num = 0
         /\ proposers'[p].accepts = {}
         /\ proposers'[p].value = v
         /\ InRange(p, proposers'[p].proposal_num)
         /\ proposers' \in [Proposers -> PaxosProposer]
<1>1. proposers[p].proposal_num \in Nat
  BY DEF TypeOK, PaxosProposer
<1>2. PICK num \in Nat : num = NextProposal(p, proposers[p].proposal_num) /\ InRange(p, num)
  BY <1>1, ProposerIsNode, NextInRange
<1>3. PICK new \in PaxosProposer :
        /\ new = [FreshProposer EXCEPT !.proposal_num = num, !.value = v, !.phase = "prepare"]
        /\ new.phase = "prepare" /\ new.next = 0 /\ new.promises = {} /\ new.accepts = {}
        /\ new.highest_num = 0 /\ new.value = v /\ new.proposal_num = num
  BY StartedType, Zenon
<1>4. proposers' = [proposers EXCEPT ![p] = new] /\ acceptors' = acceptors /\ learners' = learners
  BY <1>2, <1>3 DEF StartInstance
<1>5. proposers'[p] = new /\ \A q \in Proposers : q # p => proposers'[q] = proposers[q]
  BY <1>4 DEF TypeOK
<1>6. proposers' \in [Proposers -> PaxosProposer]
  BY <1>3, <1>4 DEF TypeOK
<1> QED
  BY <1>2, <1>3, <1>4, <1>5, <1>6

(* One iteration of the prepare loop asks one acceptor.                      *)
LEMMA PrepareEffect ==
  ASSUME TypeOK, NEW p \in Proposers, paxos_prepare(p)
  PROVE  LET a   == proposers[p].next
             num == proposers[p].proposal_num
             yes == num > acceptors[a].promised_num
             up  == yes /\ acceptors[a].has_accepted
                        /\ acceptors[a].accepted_num > proposers[p].highest_num
         IN  /\ learners' = learners
             /\ a \in Node
             /\ \A c \in Node :
                  /\ acceptors'[c].accepted_num = acceptors[c].accepted_num
                  /\ acceptors'[c].accepted_value = acceptors[c].accepted_value
                  /\ acceptors'[c].has_accepted = acceptors[c].has_accepted
                  /\ c # a => acceptors'[c].promised_num = acceptors[c].promised_num
             /\ acceptors'[a].promised_num = IF yes THEN num ELSE acceptors[a].promised_num
             /\ \A q \in Proposers : q # p => proposers'[q] = proposers[q]
             /\ proposers[p].phase = "prepare" /\ proposers'[p].phase = "prepare"
             /\ proposers'[p].proposal_num = num
             /\ proposers'[p].value = proposers[p].value
             /\ proposers'[p].accepts = proposers[p].accepts
             /\ proposers'[p].next = a + 1
             /\ proposers'[p].promises =
                  IF yes THEN proposers[p].promises \cup {a} ELSE proposers[p].promises
             /\ proposers'[p].highest_num =
                  IF up THEN acceptors[a].accepted_num ELSE proposers[p].highest_num
             /\ proposers'[p].highest_val =
                  IF up THEN acceptors[a].accepted_value ELSE proposers[p].highest_val
             /\ acceptors' \in [Node -> PaxosAcceptor]
             /\ proposers' \in [Proposers -> PaxosProposer]
<1> DEFINE pr  == proposers[p]
           a   == pr.next
           ac  == acceptors[a]
           num == pr.proposal_num
           yes == Promises(ac, num)
           up  == yes /\ HeardHigher(pr, ac)
           newA == paxos_promise(ac, num)
           newP == [pr EXCEPT !.next = @ + 1,
                              !.promises = IF yes THEN @ \cup {a} ELSE @,
                              !.highest_num = IF up THEN ac.accepted_num ELSE @,
                              !.highest_val = IF up THEN ac.accepted_value ELSE @]
<1>1. pr \in PaxosProposer /\ pr.phase = "prepare" /\ a \in Node
  BY NodesFinite, PaxosAssumption DEF TypeOK, PaxosProposer, paxos_prepare, Node
<1>2. ac \in PaxosAcceptor
  BY <1>1 DEF TypeOK
<1>3. /\ newA \in PaxosAcceptor
      /\ newA.accepted_num = ac.accepted_num /\ newA.accepted_value = ac.accepted_value
      /\ newA.has_accepted = ac.has_accepted
      /\ newA.promised_num = IF yes THEN num ELSE ac.promised_num
  BY <1>1, <1>2 DEF PaxosAcceptor, PaxosProposer, paxos_promise, Promises
<1>4. /\ newP.phase = "prepare" /\ newP.proposal_num = num /\ newP.value = pr.value
      /\ newP.next = a + 1 /\ newP.accepts = pr.accepts
      /\ newP.promises = IF yes THEN pr.promises \cup {a} ELSE pr.promises
      /\ newP.highest_num = IF up THEN ac.accepted_num ELSE pr.highest_num
      /\ newP.highest_val = IF up THEN ac.accepted_value ELSE pr.highest_val
  BY <1>1 DEF PaxosProposer
<1>5. newP \in PaxosProposer
  <2>1. pr.next + 1 \in 0 .. N
    BY <1>1, PaxosAssumption DEF Node
  <2>2. (IF yes THEN pr.promises \cup {a} ELSE pr.promises) \in SUBSET Node
    BY <1>1 DEF PaxosProposer
  <2>3. (IF up THEN ac.accepted_num ELSE pr.highest_num) \in Nat
    BY <1>1, <1>2 DEF PaxosProposer, PaxosAcceptor
  <2>4. (IF up THEN ac.accepted_value ELSE pr.highest_val) \in Values \cup {0}
    BY <1>1, <1>2 DEF PaxosProposer, PaxosAcceptor
  <2>5. PICK r \in PaxosProposer, nx \in 0 .. N, ps \in SUBSET Node, hn \in Nat,
             hv \in Values \cup {0} :
          /\ r = pr /\ nx = pr.next + 1
          /\ ps = (IF yes THEN pr.promises \cup {a} ELSE pr.promises)
          /\ hn = (IF up THEN ac.accepted_num ELSE pr.highest_num)
          /\ hv = (IF up THEN ac.accepted_value ELSE pr.highest_val)
    <3> HIDE DEF pr, a, ac, yes, up, num
    <3> QED
      BY <1>1, <2>1, <2>2, <2>3, <2>4
  <2>6. [r EXCEPT !.next = nx, !.promises = ps, !.highest_num = hn, !.highest_val = hv]
          \in PaxosProposer
    BY DEF PaxosProposer
  <2> QED
    BY <2>5, <2>6
<1>6. /\ acceptors' = [acceptors EXCEPT ![a] = newA]
      /\ proposers' = [proposers EXCEPT ![p] = newP]
      /\ learners' = learners
  BY DEF paxos_prepare
<1>7. acceptors'[a] = newA /\ \A c \in Node : c # a => acceptors'[c] = acceptors[c]
  BY <1>1, <1>6 DEF TypeOK
<1>8. proposers'[p] = newP /\ \A q \in Proposers : q # p => proposers'[q] = proposers[q]
  BY <1>6 DEF TypeOK
<1>9. acceptors' \in [Node -> PaxosAcceptor] /\ proposers' \in [Proposers -> PaxosProposer]
  BY <1>1, <1>3, <1>5, <1>6 DEF TypeOK
<1> HIDE DEF newA, newP
<1> QED
  BY <1>1, <1>3, <1>4, <1>6, <1>7, <1>8, <1>9 DEF HeardHigher, Promises

(* The end of the prepare loop changes the proposer only.                    *)
LEMMA PreparedEffect ==
  ASSUME TypeOK, NEW p \in Proposers, Prepared(p)
  PROVE  /\ acceptors' = acceptors /\ learners' = learners
         /\ \A q \in Proposers : q # p => proposers'[q] = proposers[q]
         /\ proposers[p].phase = "prepare" /\ proposers[p].next = N
         /\ proposers'[p].phase = IF Quorum(proposers[p].promises) THEN "accept" ELSE "idle"
         /\ proposers'[p].proposal_num = proposers[p].proposal_num
         /\ Quorum(proposers[p].promises) =>
              /\ proposers'[p].next = 0 /\ proposers'[p].accepts = proposers[p].accepts
              /\ proposers'[p].highest_num = proposers[p].highest_num
              /\ proposers'[p].highest_val = proposers[p].highest_val
         /\ proposers'[p].value =
              IF proposers[p].highest_num > 0 THEN proposers[p].highest_val ELSE proposers[p].value
         /\ proposers' \in [Proposers -> PaxosProposer]
<1> DEFINE pr    == proposers[p]
           final == IF pr.highest_num > 0 THEN pr.highest_val ELSE pr.value
           many  == Cardinality(pr.promises) >= quorum
           newP  == IF many THEN [pr EXCEPT !.phase = "accept", !.next = 0, !.value = final]
                    ELSE Returned([pr EXCEPT !.value = final])
<1>1. pr \in PaxosProposer /\ pr.phase = "prepare" /\ pr.next = N
  BY DEF TypeOK, Prepared
<1>2. /\ newP \in PaxosProposer
      /\ newP.phase = IF many THEN "accept" ELSE "idle"
      /\ newP.proposal_num = pr.proposal_num /\ newP.value = final
      /\ many => /\ newP.next = 0 /\ newP.accepts = pr.accepts
                 /\ newP.highest_num = pr.highest_num /\ newP.highest_val = pr.highest_val
  <2>0. final \in Values \cup {0}
    BY <1>1 DEF PaxosProposer
  <2> HIDE DEF final
  <2>1. CASE many
    <3>1. PICK r \in PaxosProposer, z \in 0 .. N, v \in Values \cup {0} :
            r = pr /\ z = 0 /\ v = final
      BY <1>1, <2>0, PaxosAssumption
    <3>2. PICK g : g = [r EXCEPT !.phase = "accept", !.next = z, !.value = v]
      OBVIOUS
    <3>3. /\ g \in PaxosProposer /\ g.phase = "accept" /\ g.next = z /\ g.value = v
          /\ g.proposal_num = r.proposal_num /\ g.accepts = r.accepts
          /\ g.highest_num = r.highest_num /\ g.highest_val = r.highest_val
      BY <3>2 DEF PaxosProposer
    <3> QED
      BY <2>1, <3>1, <3>2, <3>3
  <2>2. CASE ~many
    <3>1. [pr EXCEPT !.value = final] \in PaxosProposer
      BY <1>1, <2>0 DEF PaxosProposer
    <3>2. /\ [pr EXCEPT !.value = final].value = final
          /\ [pr EXCEPT !.value = final].proposal_num = pr.proposal_num
      BY <1>1 DEF PaxosProposer
    <3> QED
      BY <2>2, <3>1, <3>2, ReturnedType
  <2> QED
    BY <2>1, <2>2
<1>3. proposers' = [proposers EXCEPT ![p] = newP] /\ acceptors' = acceptors /\ learners' = learners
  BY DEF Prepared
<1> HIDE DEF newP
<1>4. proposers'[p] = newP /\ \A q \in Proposers : q # p => proposers'[q] = proposers[q]
  BY <1>3 DEF TypeOK
<1>5. proposers' \in [Proposers -> PaxosProposer]
  BY <1>2, <1>3 DEF TypeOK
<1> QED
  BY <1>1, <1>2, <1>3, <1>4, <1>5 DEF Quorum

(* One iteration of the accept loop asks one acceptor.                       *)
LEMMA AcceptEffect ==
  ASSUME TypeOK, NEW p \in Proposers, paxos_accept(p)
  PROVE  LET a   == proposers[p].next
             num == proposers[p].proposal_num
             yes == num >= acceptors[a].promised_num
         IN  /\ learners' = learners
             /\ a \in Node
             /\ \A c \in Node :
                  /\ acceptors'[c].promised_num = acceptors[c].promised_num
                  /\ c # a \/ ~yes => acceptors'[c] = acceptors[c]
             /\ yes => /\ acceptors'[a].accepted_num = num
                       /\ acceptors'[a].accepted_value = proposers[p].value
                       /\ acceptors'[a].has_accepted
             /\ \A q \in Proposers : q # p => proposers'[q] = proposers[q]
             /\ proposers[p].phase = "accept" /\ proposers'[p].phase = "accept"
             /\ proposers'[p].proposal_num = num
             /\ proposers'[p].value = proposers[p].value
             /\ proposers'[p].highest_num = proposers[p].highest_num
             /\ proposers'[p].highest_val = proposers[p].highest_val
             /\ proposers'[p].next = a + 1
             /\ proposers'[p].accepts =
                  IF yes THEN proposers[p].accepts \cup {a} ELSE proposers[p].accepts
             /\ acceptors' \in [Node -> PaxosAcceptor]
             /\ proposers' \in [Proposers -> PaxosProposer]
<1> DEFINE pr  == proposers[p]
           a   == pr.next
           ac  == acceptors[a]
           num == pr.proposal_num
           yes == Accepts(ac, num)
           newA == paxos_accepted(ac, num, pr.value)
           newP == [pr EXCEPT !.next = @ + 1, !.accepts = IF yes THEN @ \cup {a} ELSE @]
<1>1. pr \in PaxosProposer /\ pr.phase = "accept" /\ a \in Node
  BY NodesFinite, PaxosAssumption DEF TypeOK, PaxosProposer, paxos_accept, Node
<1>2. ac \in PaxosAcceptor
  BY <1>1 DEF TypeOK
<1>3. /\ newA \in PaxosAcceptor
      /\ newA.promised_num = ac.promised_num
      /\ ~yes => newA = ac
      /\ yes => newA.accepted_num = num /\ newA.accepted_value = pr.value /\ newA.has_accepted
  BY <1>1, <1>2 DEF PaxosAcceptor, PaxosProposer, paxos_accepted, Accepts
<1>4. /\ newP.phase = "accept" /\ newP.proposal_num = num /\ newP.value = pr.value
      /\ newP.next = a + 1
      /\ newP.highest_num = pr.highest_num /\ newP.highest_val = pr.highest_val
      /\ newP.accepts = IF yes THEN pr.accepts \cup {a} ELSE pr.accepts
  BY <1>1 DEF PaxosProposer
<1>5. newP \in PaxosProposer
  <2>1. pr.next + 1 \in 0 .. N
    BY <1>1, PaxosAssumption DEF Node
  <2>2. (IF yes THEN pr.accepts \cup {a} ELSE pr.accepts) \in SUBSET Node
    BY <1>1 DEF PaxosProposer
  <2>3. PICK r \in PaxosProposer, nx \in 0 .. N, as \in SUBSET Node :
          /\ r = pr /\ nx = pr.next + 1
          /\ as = (IF yes THEN pr.accepts \cup {a} ELSE pr.accepts)
    <3> HIDE DEF pr, a, ac, yes, num
    <3> QED
      BY <1>1, <2>1, <2>2
  <2>4. [r EXCEPT !.next = nx, !.accepts = as] \in PaxosProposer
    BY DEF PaxosProposer
  <2> QED
    BY <2>3, <2>4
<1>6. /\ acceptors' = [acceptors EXCEPT ![a] = newA]
      /\ proposers' = [proposers EXCEPT ![p] = newP]
      /\ learners' = learners
  BY DEF paxos_accept
<1>7. acceptors'[a] = newA /\ \A c \in Node : c # a => acceptors'[c] = acceptors[c]
  BY <1>1, <1>6 DEF TypeOK
<1>8. proposers'[p] = newP /\ \A q \in Proposers : q # p => proposers'[q] = proposers[q]
  BY <1>6 DEF TypeOK
<1>9. acceptors' \in [Node -> PaxosAcceptor] /\ proposers' \in [Proposers -> PaxosProposer]
  BY <1>1, <1>3, <1>5, <1>6 DEF TypeOK
<1> HIDE DEF newA, newP
<1> QED
  BY <1>1, <1>3, <1>4, <1>6, <1>7, <1>8, <1>9 DEF Accepts

(* The end of paxos_run_instance changes proposer and learners.              *)
LEMMA LearnEffect ==
  ASSUME TypeOK, NEW p \in Proposers, Learn(p)
  PROVE  /\ acceptors' = acceptors
         /\ \A q \in Proposers : q # p => proposers'[q] = proposers[q]
         /\ proposers[p].phase = "accept" /\ proposers[p].next = N
         /\ proposers'[p].phase = "idle"
         /\ learners' \in PaxosLearner
         /\ ~Quorum(proposers[p].accepts) => learners' = learners
         /\ Quorum(proposers[p].accepts) =>
              /\ learners'.has_learned
              /\ learners'.learned_value = proposers[p].value
              /\ learners'.learned_round = proposers[p].proposal_num
         /\ proposers' \in [Proposers -> PaxosProposer]
<1>1. proposers[p] \in PaxosProposer /\ learners \in PaxosLearner
  BY DEF TypeOK
<1>2. Returned(proposers[p]) \in PaxosProposer /\ Returned(proposers[p]).phase = "idle"
  BY <1>1, ReturnedType
<1>3. proposers' = [proposers EXCEPT ![p] = Returned(proposers[p])]
  BY DEF Learn
<1>4. /\ proposers'[p] = Returned(proposers[p])
      /\ \A q \in Proposers : q # p => proposers'[q] = proposers[q]
      /\ proposers' \in [Proposers -> PaxosProposer]
  BY <1>2, <1>3 DEF TypeOK
<1>5. /\ learners' \in PaxosLearner
      /\ ~Quorum(proposers[p].accepts) => learners' = learners
      /\ Quorum(proposers[p].accepts) =>
           /\ learners'.has_learned
           /\ learners'.learned_value = proposers[p].value
           /\ learners'.learned_round = proposers[p].proposal_num
  BY <1>1 DEF Learn, Quorum, PaxosLearner, PaxosProposer
<1> QED
  BY <1>2, <1>4, <1>5 DEF Learn

(* The types that arithmetic needs.                                          *)
LEMMA Types ==
  ASSUME TypeOK
  PROVE  /\ \A a \in Node :
              acceptors[a].promised_num \in Nat /\ acceptors[a].accepted_num \in Nat
         /\ \A p \in Proposers :
              /\ proposers[p].proposal_num \in Nat /\ proposers[p].highest_num \in Nat
              /\ proposers[p].next \in 0 .. N
              /\ proposers[p].promises \in SUBSET Node
              /\ proposers[p].accepts \in SUBSET Node
              /\ proposers[p].phase \in {"idle", "prepare", "accept"}
  BY DEF TypeOK, PaxosAcceptor, PaxosProposer

-----------------------------------------------------------------------------
(* Base is inductive.                                                        *)

(* paxos_reset_proposer keeps Base.                                          *)
LEMMA BaseReset ==
  ASSUME Base, NEW p \in Proposers, paxos_reset_proposer(p)
  PROVE  Base'
<1>1. FreshProposer.phase = "idle"
  BY DEF FreshProposer
<1>2. TypeOK'
  BY ResetEffect DEF Base, TypeOK
<1>3. Numbers' /\ Proposed'
  BY <1>1, ResetEffect DEF Base, Numbers, Proposed
<1>4. Visited' /\ Below' /\ FreshNumber'
  BY <1>1, ResetEffect DEF Base, Visited, Below, FreshNumber
<1> QED
  BY <1>2, <1>3, <1>4 DEF Base

(* The start of an instance keeps Base.                                      *)
LEMMA BaseStart ==
  ASSUME Base, NEW p \in Proposers, NEW v \in Values, StartInstance(p, v)
  PROVE  Base'
<1>0. TypeOK
  BY DEF Base
<1> USE <1>0, StartEffect
<1>1. TypeOK'
  BY DEF Base, TypeOK
<1>2. Numbers' /\ Proposed'
  BY DEF Base, Numbers, Proposed
<1>3. Visited'
  BY NodesFinite DEF Base, Visited
<1>4. Below'
  BY Types DEF Base, Below
<1>5. FreshNumber'
  <2>1. ASSUME NEW q \in Proposers, proposers'[q].phase = "prepare", proposers'[q].promises # {}
        PROVE  /\ \A a \in Node : acceptors'[a].accepted_num # proposers'[q].proposal_num
               /\ \A r \in Proposers : proposers'[r].phase = "prepare" =>
                    proposers'[r].highest_num # proposers'[q].proposal_num
    <3>1. q # p /\ proposers'[q] = proposers[q]
      BY <2>1
    <3>2. proposers[q].proposal_num > 0
      <4>1. (q + 1) * Stride >= 0 /\ (q + 1) * Stride \in Int
        BY ProposerIsNode, PaxosAssumption
      <4> QED
        BY <2>1, <3>1, <4>1, Types DEF Base, Numbers, InRange
    <3> QED
      BY <2>1, <3>1, <3>2 DEF Base, FreshNumber
  <2> QED
    BY <2>1 DEF FreshNumber
<1> QED
  BY <1>1, <1>2, <1>3, <1>4, <1>5 DEF Base

(* A call of paxos_promise keeps Base.                                       *)
LEMMA BasePrepare ==
  ASSUME Base, NEW p \in Proposers, paxos_prepare(p)
  PROVE  Base'
<1> DEFINE a   == proposers[p].next
           num == proposers[p].proposal_num
           yes == num > acceptors[a].promised_num
           up  == yes /\ acceptors[a].has_accepted
                      /\ acceptors[a].accepted_num > proposers[p].highest_num
<1>0. TypeOK /\ a \in Node
  BY PrepareEffect DEF Base
<1>1. TypeOK'
  BY PrepareEffect DEF Base, TypeOK
<1>a. /\ \A c \in Node :
           /\ acceptors'[c].accepted_num = acceptors[c].accepted_num
           /\ acceptors'[c].accepted_value = acceptors[c].accepted_value
           /\ acceptors'[c].has_accepted = acceptors[c].has_accepted
           /\ c # a => acceptors'[c].promised_num = acceptors[c].promised_num
      /\ acceptors'[a].promised_num = IF yes THEN num ELSE acceptors[a].promised_num
  BY <1>0, PrepareEffect
<1>b. /\ proposers[p].phase = "prepare" /\ proposers'[p].phase = "prepare"
      /\ proposers'[p].proposal_num = num
      /\ proposers'[p].value = proposers[p].value
      /\ proposers'[p].accepts = proposers[p].accepts
      /\ proposers'[p].next = a + 1
      /\ proposers'[p].promises =
           IF yes THEN proposers[p].promises \cup {a} ELSE proposers[p].promises
      /\ proposers'[p].highest_num =
           IF up THEN acceptors[a].accepted_num ELSE proposers[p].highest_num
      /\ proposers'[p].highest_val =
           IF up THEN acceptors[a].accepted_value ELSE proposers[p].highest_val
  BY <1>0, PrepareEffect
<1>c. \A q \in Proposers : q # p => proposers'[q] = proposers[q]
  BY <1>0, PrepareEffect
<1>d. /\ num \in Nat /\ proposers[p].highest_num \in Nat /\ a \in Nat
      /\ \A c \in Node : /\ acceptors[c].promised_num \in Nat /\ acceptors[c].accepted_num \in Nat
                          /\ c \in Nat
      /\ \A q \in Proposers : proposers[q].proposal_num \in Nat /\ proposers[q].highest_num \in Nat
  BY <1>0, Types, NodesFinite
<1> HIDE DEF a, num, up
<1>2. \A c \in Node : /\ acceptors'[c].promised_num >= acceptors[c].promised_num
                     /\ acceptors'[c].promised_num \in Nat
  BY <1>0, <1>a, <1>d
<1>3. Numbers'
  BY <1>b, <1>c DEF Base, Numbers, num
<1>4. Proposed'
  <2>1. \A c \in Node : acceptors'[c].accepted_num > 0 =>
          acceptors'[c].has_accepted /\ acceptors'[c].accepted_value \in Values
    BY <1>a DEF Base, Proposed
  <2>2. proposers'[p].value \in Values
    BY <1>b DEF Base, Proposed
  <2>3. up => acceptors[a].accepted_num > 0
    BY <1>0, <1>d DEF up
  <2>4. up => acceptors[a].accepted_value \in Values
    BY <1>0, <2>3 DEF Base, Proposed
  <2>5. proposers'[p].highest_num > 0 => proposers'[p].highest_val \in Values
    BY <1>b, <2>4 DEF Base, Proposed
  <2>6. \A q \in Proposers : q # p => (proposers'[q].phase # "idle" =>
          /\ proposers'[q].value \in Values
          /\ proposers'[q].highest_num > 0 => proposers'[q].highest_val \in Values)
    BY <1>c DEF Base, Proposed
  <2> QED
    BY <2>1, <2>2, <2>5, <2>6 DEF Proposed
<1>5. Visited'
  <2>1. ASSUME NEW q \in Proposers, q # p
        PROVE  /\ proposers'[q].phase = "prepare" =>
                  /\ proposers'[q].accepts = {}
                  /\ \A c \in Node :
                       /\ c \in proposers'[q].promises => c < proposers'[q].next
                       /\ c < proposers'[q].next =>
                            acceptors'[c].promised_num >= proposers'[q].proposal_num
               /\ proposers'[q].phase = "accept" =>
                  \A c \in Node : acceptors'[c].promised_num >= proposers'[q].proposal_num
    BY <1>2, <1>c, <1>d, <2>1 DEF Base, Visited
  <2>2. /\ proposers[p].accepts = {}
        /\ \A c \in Node : c \in proposers[p].promises => c < a
        /\ \A c \in Node : c < a => acceptors[c].promised_num >= num
    BY <1>b DEF Base, Visited, a, num
  <2>3. \A c \in Node : c \in proposers'[p].promises => c < proposers'[p].next
    BY <1>b, <1>d, <2>2
  <2>4. \A c \in Node : c < proposers'[p].next =>
          acceptors'[c].promised_num >= proposers'[p].proposal_num
    <3>1. ASSUME NEW c \in Node, c < a + 1
          PROVE  acceptors'[c].promised_num >= num
      <4>1. CASE c = a
        BY <1>0, <1>a, <1>d, <4>1
      <4>2. CASE c # a
        BY <1>a, <1>d, <2>2, <3>1, <4>2
      <4> QED
        BY <4>1, <4>2
    <3> QED
      BY <1>b, <3>1
  <2> QED
    BY <1>b, <2>1, <2>2, <2>3, <2>4 DEF Visited
<1>6. Below'
  <2>1. \A c, d \in Node : acceptors'[d].accepted_num <= acceptors'[c].promised_num
    BY <1>2, <1>a, <1>d DEF Base, Below
  <2>2. \A c \in Node : proposers'[p].highest_num <= acceptors[c].promised_num
    BY <1>0, <1>b DEF Base, Below
  <2>3. \A c \in Node : proposers'[p].highest_num <= acceptors'[c].promised_num
    <3>1. proposers'[p].highest_num \in Nat
      BY <1>0, <1>b, <1>d
    <3> QED
      BY <1>2, <1>d, <2>2, <3>1
  <2>4. \A c \in Node, q \in Proposers : q # p /\ proposers'[q].phase = "prepare" =>
          proposers'[q].highest_num <= acceptors'[c].promised_num
    BY <1>2, <1>c, <1>d DEF Base, Below
  <2> QED
    BY <2>1, <2>3, <2>4 DEF Below
<1>7. FreshNumber'
  <2>1. ASSUME NEW q \in Proposers, proposers'[q].phase = "prepare", proposers'[q].promises # {}
        PROVE  /\ \A c \in Node : acceptors[c].accepted_num # proposers[q].proposal_num
               /\ \A r \in Proposers : proposers[r].phase = "prepare" =>
                    proposers[r].highest_num # proposers[q].proposal_num
    <3>1. proposers[q].phase = "prepare"
      BY <1>b, <1>c, <2>1
    <3>2. CASE proposers[q].promises # {}
      BY <3>1, <3>2 DEF Base, FreshNumber
    <3>3. CASE proposers[q].promises = {}
      <4>1. q = p /\ proposers[q].proposal_num > acceptors[a].promised_num
        BY <1>b, <1>c, <2>1, <3>3 DEF num
      <4>2. \A c \in Node : acceptors[c].accepted_num <= acceptors[a].promised_num
        BY <1>0 DEF Base, Below
      <4>3. \A r \in Proposers : proposers[r].phase = "prepare" =>
              proposers[r].highest_num <= acceptors[a].promised_num
        BY <1>0 DEF Base, Below
      <4> QED
        BY <1>0, <1>d, <4>1, <4>2, <4>3
    <3> QED
      BY <3>2, <3>3
  <2>2. \A r \in Proposers : proposers'[r].phase = "prepare" =>
          \/ \E t \in Proposers : /\ proposers[t].phase = "prepare"
                                   /\ proposers'[r].highest_num = proposers[t].highest_num
          \/ \E c \in Node : proposers'[r].highest_num = acceptors[c].accepted_num
    BY <1>0, <1>b, <1>c
  <2>3. \A q \in Proposers : proposers'[q].proposal_num = proposers[q].proposal_num
    BY <1>b, <1>c DEF num
  <2>4. \A q \in Proposers : proposers'[q].phase = "prepare" /\ proposers'[q].promises # {} =>
          \A c \in Node : acceptors'[c].accepted_num # proposers'[q].proposal_num
    BY <1>a, <2>1, <2>3
  <2>5. \A q \in Proposers : proposers'[q].phase = "prepare" /\ proposers'[q].promises # {} =>
          \A r \in Proposers : proposers'[r].phase = "prepare" =>
            proposers'[r].highest_num # proposers'[q].proposal_num
    BY <2>1, <2>2, <2>3
  <2> QED
    BY <2>4, <2>5 DEF FreshNumber
<1> QED
  BY <1>1, <1>3, <1>4, <1>5, <1>6, <1>7 DEF Base

(* The end of the prepare loop keeps Base.                                   *)
LEMMA BasePrepared ==
  ASSUME Base, NEW p \in Proposers, Prepared(p)
  PROVE  Base'
<1>0. TypeOK
  BY DEF Base
<1>1. TypeOK'
  BY PreparedEffect DEF Base, TypeOK
<1>2. Numbers'
  BY <1>0, PreparedEffect DEF Base, Numbers
<1>3. Proposed'
  BY <1>0, PreparedEffect DEF Base, Proposed
<1>4. Visited'
  <2>1. \A c \in Node : c < N
    BY PaxosAssumption DEF Node
  <2> QED
    BY <1>0, <2>1, PreparedEffect DEF Base, Visited
<1>5. Below' /\ FreshNumber'
  BY <1>0, PreparedEffect DEF Base, Below, FreshNumber
<1> QED
  BY <1>1, <1>2, <1>3, <1>4, <1>5 DEF Base

(* A call of paxos_accepted keeps Base.                                      *)
LEMMA BaseAccept ==
  ASSUME Base, NEW p \in Proposers, paxos_accept(p)
  PROVE  Base'
<1> DEFINE a   == proposers[p].next
           num == proposers[p].proposal_num
           yes == num >= acceptors[a].promised_num
<1>0. TypeOK /\ a \in Node
  BY AcceptEffect DEF Base
<1>1. TypeOK'
  BY AcceptEffect DEF Base, TypeOK
<1>a. /\ \A c \in Node :
           /\ acceptors'[c].promised_num = acceptors[c].promised_num
           /\ c # a \/ ~yes => acceptors'[c] = acceptors[c]
      /\ yes => /\ acceptors'[a].accepted_num = num
                /\ acceptors'[a].accepted_value = proposers[p].value
                /\ acceptors'[a].has_accepted
  BY <1>0, AcceptEffect
<1>b. /\ proposers[p].phase = "accept" /\ proposers'[p].phase = "accept"
      /\ proposers'[p].proposal_num = num
      /\ proposers'[p].value = proposers[p].value
      /\ proposers'[p].highest_num = proposers[p].highest_num
      /\ proposers'[p].highest_val = proposers[p].highest_val
  BY <1>0, AcceptEffect
<1>c. \A q \in Proposers : q # p => proposers'[q] = proposers[q]
  BY <1>0, AcceptEffect
<1> HIDE DEF a, num, yes
<1>2. \A c \in Node :
        \/ acceptors'[c] = acceptors[c]
        \/ /\ acceptors'[c].accepted_num = num
           /\ acceptors'[c].accepted_value = proposers[p].value
           /\ acceptors'[c].has_accepted
  BY <1>a
<1>3. Numbers'
  BY <1>b, <1>c DEF Base, Numbers, num
<1>4. Proposed'
  <2>1. proposers[p].value \in Values
    BY <1>b DEF Base, Proposed
  <2>2. \A c \in Node : acceptors'[c].accepted_num > 0 =>
          acceptors'[c].has_accepted /\ acceptors'[c].accepted_value \in Values
    BY <1>2, <2>1 DEF Base, Proposed
  <2>3. \A q \in Proposers : proposers'[q].phase # "idle" =>
          /\ proposers'[q].value \in Values
          /\ proposers'[q].highest_num > 0 => proposers'[q].highest_val \in Values
    BY <1>b, <1>c DEF Base, Proposed
  <2> QED
    BY <2>2, <2>3 DEF Proposed
<1>5. Visited'
  <2>1. \A c \in Node : acceptors[c].promised_num >= num
    BY <1>b DEF Base, Visited, num
  <2>2. \A c \in Node : acceptors'[c].promised_num >= proposers'[p].proposal_num
    BY <1>a, <1>b, <2>1
  <2>3. ASSUME NEW q \in Proposers, q # p
        PROVE  /\ proposers'[q].phase = "prepare" =>
                  /\ proposers'[q].accepts = {}
                  /\ \A c \in Node :
                       /\ c \in proposers'[q].promises => c < proposers'[q].next
                       /\ c < proposers'[q].next =>
                            acceptors'[c].promised_num >= proposers'[q].proposal_num
               /\ proposers'[q].phase = "accept" =>
                  \A c \in Node : acceptors'[c].promised_num >= proposers'[q].proposal_num
    BY <1>a, <1>c, <2>3 DEF Base, Visited
  <2> QED
    BY <1>b, <2>2, <2>3 DEF Visited
<1>6. Below'
  <2>1. \A c \in Node : num <= acceptors[c].promised_num
    BY <1>0, <1>b, Types DEF Base, Visited, num
  <2>2. \A c, d \in Node : acceptors'[d].accepted_num <= acceptors'[c].promised_num
    BY <1>2, <1>a, <2>1 DEF Base, Below
  <2>3. \A c \in Node, q \in Proposers : proposers'[q].phase = "prepare" =>
          proposers'[q].highest_num <= acceptors'[c].promised_num
    BY <1>a, <1>b, <1>c DEF Base, Below
  <2> QED
    BY <2>2, <2>3 DEF Below
<1>7. FreshNumber'
  <2>1. ASSUME NEW q \in Proposers, proposers'[q].phase = "prepare", proposers'[q].promises # {}
        PROVE  /\ \A c \in Node : acceptors'[c].accepted_num # proposers'[q].proposal_num
               /\ \A r \in Proposers : proposers'[r].phase = "prepare" =>
                    proposers'[r].highest_num # proposers'[q].proposal_num
    <3>1. q # p /\ proposers'[q] = proposers[q]
      BY <1>b, <1>c, <2>1
    <3>2. num # proposers[q].proposal_num
      <4>1. InRange(p, num) /\ InRange(q, proposers[q].proposal_num)
        BY <1>b, <2>1, <3>1 DEF Base, Numbers, num
      <4>2. num \in Nat /\ p \in Node /\ q \in Node
        BY <1>0, ProposerIsNode, Types DEF num
      <4> QED
        BY <3>1, <4>1, <4>2, RangesDisjoint
    <3>3. /\ \A c \in Node : acceptors[c].accepted_num # proposers[q].proposal_num
          /\ \A r \in Proposers : proposers[r].phase = "prepare" =>
               proposers[r].highest_num # proposers[q].proposal_num
      BY <2>1, <3>1 DEF Base, FreshNumber
    <3> QED
      BY <1>2, <1>b, <1>c, <3>1, <3>2, <3>3
  <2> QED
    BY <2>1 DEF FreshNumber
<1> QED
  BY <1>1, <1>3, <1>4, <1>5, <1>6, <1>7 DEF Base

(* The end of an instance keeps Base.                                        *)
LEMMA BaseLearn ==
  ASSUME Base, NEW p \in Proposers, Learn(p)
  PROVE  Base'
<1>0. TypeOK
  BY DEF Base
<1>1. TypeOK'
  BY LearnEffect DEF Base, TypeOK
<1>2. Numbers' /\ Proposed'
  BY <1>0, LearnEffect DEF Base, Numbers, Proposed
<1>3. Visited' /\ Below' /\ FreshNumber'
  BY <1>0, LearnEffect DEF Base, Visited, Below, FreshNumber
<1> QED
  BY <1>1, <1>2, <1>3 DEF Base

(* Every step keeps Base.                                                    *)
LEMMA BaseStep ==
  ASSUME Base, [Next]_vars
  PROVE  Base'
<1>1. CASE UNCHANGED vars
  BY <1>1 DEF vars, Base, TypeOK, Numbers, Proposed, Visited, Below, FreshNumber
<1>2. CASE Next
  BY <1>2, BaseReset, BaseStart, BasePrepare, BasePrepared, BaseAccept, BaseLearn DEF Next
<1> QED
  BY <1>1, <1>2

-----------------------------------------------------------------------------
(* A lock is never opened, as long as a majority consists of its members and *)
(* of acceptors that have promised nothing higher.                           *)

(* A call of paxos_promise keeps every lock.                                 *)
LEMMA LockPrepare ==
  ASSUME Base, NEW p \in Proposers, paxos_prepare(p),
         NEW b \in Nat, b > 0, NEW S \in SUBSET Node, NEW v \in Values,
         Lock(acceptors, proposers, b, S, v)
  PROVE  Lock(acceptors', proposers', b, S, v)
<1> DEFINE a   == proposers[p].next
           num == proposers[p].proposal_num
           yes == num > acceptors[a].promised_num
           up  == yes /\ acceptors[a].has_accepted
                      /\ acceptors[a].accepted_num > proposers[p].highest_num
<1>0. TypeOK /\ a \in Node
  BY PrepareEffect DEF Base
<1>a. /\ \A c \in Node :
           /\ acceptors'[c].accepted_num = acceptors[c].accepted_num
           /\ acceptors'[c].accepted_value = acceptors[c].accepted_value
           /\ c # a => acceptors'[c].promised_num = acceptors[c].promised_num
      /\ acceptors'[a].promised_num = IF yes THEN num ELSE acceptors[a].promised_num
  BY <1>0, PrepareEffect
<1>b. /\ proposers[p].phase = "prepare" /\ proposers'[p].phase = "prepare"
      /\ proposers'[p].proposal_num = num
      /\ proposers'[p].promises =
           IF yes THEN proposers[p].promises \cup {a} ELSE proposers[p].promises
      /\ proposers'[p].highest_num =
           IF up THEN acceptors[a].accepted_num ELSE proposers[p].highest_num
      /\ proposers'[p].highest_val =
           IF up THEN acceptors[a].accepted_value ELSE proposers[p].highest_val
  BY <1>0, PrepareEffect
<1>c. \A q \in Proposers : q # p => proposers'[q] = proposers[q]
  BY <1>0, PrepareEffect
<1>d. /\ num \in Nat /\ proposers[p].highest_num \in Nat
      /\ \A c \in Node : acceptors[c].promised_num \in Nat /\ acceptors[c].accepted_num \in Nat
  BY <1>0, Types
<1>e. /\ \A c \in Node : acceptors[c].promised_num >= b
      /\ \A c \in S : acceptors[c].accepted_num >= b
      /\ \A c \in Node : acceptors[c].accepted_num >= b => acceptors[c].accepted_value = v
  BY DEF Lock
<1>f. /\ num = b => proposers[p].promises = {}
      /\ num > b /\ (\E c \in S : c \in proposers[p].promises) => proposers[p].highest_num >= b
      /\ proposers[p].highest_num >= b => proposers[p].highest_val = v
  BY <1>b DEF Lock
<1>g. acceptors[a].accepted_num > 0 => acceptors[a].has_accepted
  BY <1>0 DEF Base, Proposed
<1> HIDE DEF a, num
<1>1. \A c \in Node : acceptors'[c].promised_num >= b
  BY <1>0, <1>a, <1>d, <1>e
<1>2. num = b => proposers'[p].promises = {}
  BY <1>0, <1>b, <1>d, <1>e, <1>f
<1>3. ASSUME num > b, NEW c \in S, c \in proposers'[p].promises
      PROVE  proposers'[p].highest_num >= b
  <2>1. CASE c \in proposers[p].promises
    <3>1. proposers[p].highest_num >= b
      BY <1>3, <1>f, <2>1
    <3> QED
      BY <1>0, <1>b, <1>d, <3>1
  <2>2. CASE c \notin proposers[p].promises
    <3>1. c = a /\ yes
      BY <1>3, <1>b, <2>2
    <3>2. acceptors[a].accepted_num >= b /\ acceptors[a].has_accepted
      BY <1>0, <1>d, <1>e, <1>g, <3>1
    <3> QED
      BY <1>0, <1>b, <1>d, <3>1, <3>2
  <2> QED
    BY <2>1, <2>2
<1>4. proposers'[p].highest_num >= b => proposers'[p].highest_val = v
  BY <1>0, <1>b, <1>e, <1>f
<1>5. \A q \in Proposers : proposers'[q].phase = "prepare" =>
        /\ proposers'[q].proposal_num = b => proposers'[q].promises = {}
        /\ proposers'[q].proposal_num > b /\ (\E c \in S : c \in proposers'[q].promises) =>
             proposers'[q].highest_num >= b
        /\ proposers'[q].highest_num >= b => proposers'[q].highest_val = v
  <2>1. /\ proposers'[p].proposal_num = b => proposers'[p].promises = {}
        /\ proposers'[p].proposal_num > b /\ (\E c \in S : c \in proposers'[p].promises) =>
             proposers'[p].highest_num >= b
        /\ proposers'[p].highest_num >= b => proposers'[p].highest_val = v
    BY <1>2, <1>3, <1>4, <1>b
  <2>2. ASSUME NEW q \in Proposers, q # p, proposers'[q].phase = "prepare"
        PROVE  /\ proposers'[q].proposal_num = b => proposers'[q].promises = {}
               /\ proposers'[q].proposal_num > b /\ (\E c \in S : c \in proposers'[q].promises) =>
                    proposers'[q].highest_num >= b
               /\ proposers'[q].highest_num >= b => proposers'[q].highest_val = v
    BY <1>c, <2>2 DEF Lock
  <2> QED
    BY <2>1, <2>2
<1>6. \A q \in Proposers : proposers'[q].phase = "accept" /\ proposers'[q].proposal_num >= b =>
        proposers'[q].value = v
  BY <1>b, <1>c DEF Lock
<1>7. /\ \A c \in S : acceptors'[c].accepted_num >= b
      /\ \A c \in Node : acceptors'[c].accepted_num >= b => acceptors'[c].accepted_value = v
  BY <1>a, <1>e
<1> QED
  BY <1>1, <1>5, <1>6, <1>7 DEF Lock

(* A call of paxos_accepted keeps every lock.                                *)
LEMMA LockAccept ==
  ASSUME Base, NEW p \in Proposers, paxos_accept(p),
         NEW b \in Nat, b > 0, NEW S \in SUBSET Node, NEW v \in Values,
         Lock(acceptors, proposers, b, S, v)
  PROVE  Lock(acceptors', proposers', b, S, v)
<1> DEFINE a   == proposers[p].next
           num == proposers[p].proposal_num
           yes == num >= acceptors[a].promised_num
<1>0. TypeOK /\ a \in Node
  BY AcceptEffect DEF Base
<1>a. /\ \A c \in Node :
           /\ acceptors'[c].promised_num = acceptors[c].promised_num
           /\ c # a \/ ~yes => acceptors'[c] = acceptors[c]
      /\ yes => /\ acceptors'[a].accepted_num = num
                /\ acceptors'[a].accepted_value = proposers[p].value
  BY <1>0, AcceptEffect
<1>b. /\ proposers[p].phase = "accept" /\ proposers'[p].phase = "accept"
      /\ proposers'[p].proposal_num = num
      /\ proposers'[p].value = proposers[p].value
  BY <1>0, AcceptEffect
<1>c. \A q \in Proposers : q # p => proposers'[q] = proposers[q]
  BY <1>0, AcceptEffect
<1>d. num \in Nat /\ \A c \in Node : acceptors[c].promised_num \in Nat
  BY <1>0, Types
<1>e. /\ \A c \in Node : acceptors[c].promised_num >= b
      /\ \A c \in S : acceptors[c].accepted_num >= b
      /\ \A c \in Node : acceptors[c].accepted_num >= b => acceptors[c].accepted_value = v
      /\ num >= b => proposers[p].value = v
  BY <1>b DEF Lock
<1>1. yes => num >= b /\ proposers[p].value = v
  BY <1>0, <1>d, <1>e
<1> HIDE DEF a, num, yes
<1>2. \A c \in Node :
        \/ acceptors'[c] = acceptors[c]
        \/ acceptors'[c].accepted_num >= b /\ acceptors'[c].accepted_value = v
  BY <1>a, <1>1
<1>3. /\ \A c \in Node : acceptors'[c].promised_num >= b
      /\ \A c \in S : acceptors'[c].accepted_num >= b
      /\ \A c \in Node : acceptors'[c].accepted_num >= b => acceptors'[c].accepted_value = v
  BY <1>2, <1>a, <1>e
<1>4. \A q \in Proposers : proposers'[q].phase = "accept" /\ proposers'[q].proposal_num >= b =>
        proposers'[q].value = v
  BY <1>b, <1>c, <1>e DEF Lock
<1>5. \A q \in Proposers : proposers'[q].phase = "prepare" =>
        /\ proposers'[q].proposal_num = b => proposers'[q].promises = {}
        /\ proposers'[q].proposal_num > b /\ (\E c \in S : c \in proposers'[q].promises) =>
             proposers'[q].highest_num >= b
        /\ proposers'[q].highest_num >= b => proposers'[q].highest_val = v
  BY <1>b, <1>c DEF Lock
<1> QED
  BY <1>3, <1>4, <1>5 DEF Lock

(* A majority of promises meets the lock, and so the proposer has heard of it.*)
LEMMA LockPrepared ==
  ASSUME Base, NEW p \in Proposers, Prepared(p),
         NEW b \in Nat, b > 0, NEW S \in SUBSET Node, NEW v \in Values,
         Lock(acceptors, proposers, b, S, v),
         Quorum(S \cup {a \in Node : acceptors[a].promised_num <= b})
  PROVE  Lock(acceptors', proposers', b, S, v)
<1>0. TypeOK
  BY DEF Base
<1> DEFINE num == proposers[p].proposal_num
<1>b. /\ acceptors' = acceptors
      /\ proposers[p].phase = "prepare" /\ proposers'[p].proposal_num = num
      /\ proposers'[p].phase # "prepare"
      /\ proposers'[p].phase = "accept" => Quorum(proposers[p].promises)
      /\ proposers'[p].value =
           IF proposers[p].highest_num > 0 THEN proposers[p].highest_val ELSE proposers[p].value
  BY <1>0, PreparedEffect
<1>c. \A q \in Proposers : q # p => proposers'[q] = proposers[q]
  BY <1>0, PreparedEffect
<1>d. /\ num \in Nat /\ proposers[p].highest_num \in Nat
      /\ proposers[p].promises \in SUBSET Node
      /\ \A c \in Node : acceptors[c].promised_num \in Nat
  BY <1>0, Types
<1>e. /\ num = b => proposers[p].promises = {}
      /\ num > b /\ (\E c \in S : c \in proposers[p].promises) => proposers[p].highest_num >= b
      /\ proposers[p].highest_num >= b => proposers[p].highest_val = v
  BY <1>b DEF Lock
<1>f. \A c \in Node : c \in proposers[p].promises => acceptors[c].promised_num >= num
  BY <1>b DEF Base, Visited
<1> HIDE DEF num
<1>1. ASSUME proposers'[p].phase = "accept", num >= b
      PROVE  proposers'[p].value = v
  <2>1. Quorum(proposers[p].promises)
    BY <1>1, <1>b
  <2>2. num > b
    <3>1. num # b
      BY <1>d, <1>e, <2>1, QuorumMember
    <3> QED
      BY <1>1, <1>d, <3>1
  <2>3. PICK c \in Node : /\ c \in proposers[p].promises
                         /\ c \in S \cup {a \in Node : acceptors[a].promised_num <= b}
    <3>1. (S \cup {a \in Node : acceptors[a].promised_num <= b}) \in SUBSET Node
      OBVIOUS
    <3> QED
      BY <1>d, <2>1, <3>1, QuorumsMeet
  <2>4. c \in S
    BY <1>d, <1>f, <2>2, <2>3
  <2>5. proposers[p].highest_num >= b
    BY <1>e, <2>2, <2>3, <2>4
  <2> QED
    BY <1>b, <1>d, <1>e, <2>5
<1>2. \A q \in Proposers : proposers'[q].phase = "accept" /\ proposers'[q].proposal_num >= b =>
        proposers'[q].value = v
  BY <1>1, <1>b, <1>c DEF Lock
<1>3. \A q \in Proposers : proposers'[q].phase = "prepare" =>
        /\ proposers'[q].proposal_num = b => proposers'[q].promises = {}
        /\ proposers'[q].proposal_num > b /\ (\E c \in S : c \in proposers'[q].promises) =>
             proposers'[q].highest_num >= b
        /\ proposers'[q].highest_num >= b => proposers'[q].highest_val = v
  BY <1>b, <1>c DEF Lock
<1> QED
  BY <1>2, <1>3, <1>b DEF Lock

(* Calls that begin or end cannot touch a lock.                              *)
LEMMA LockOther ==
  ASSUME Base, NEW p \in Proposers,
         \/ paxos_reset_proposer(p)
         \/ \E u \in Values : StartInstance(p, u)
         \/ Learn(p),
         NEW b \in Nat, b > 0, NEW S \in SUBSET Node, NEW v \in Values,
         Lock(acceptors, proposers, b, S, v)
  PROVE  Lock(acceptors', proposers', b, S, v)
<1>0. TypeOK /\ FreshProposer.phase = "idle"
  BY DEF Base, FreshProposer
<1>1. /\ acceptors' = acceptors
      /\ \A q \in Proposers : q # p => proposers'[q] = proposers[q]
      /\ \/ proposers'[p].phase = "idle"
         \/ /\ proposers'[p].phase = "prepare" /\ proposers'[p].promises = {}
            /\ proposers'[p].highest_num = 0
  <2>1. CASE paxos_reset_proposer(p)
    BY <1>0, <2>1, ResetEffect
  <2>2. CASE \E u \in Values : StartInstance(p, u)
    <3>1. PICK u \in Values : StartInstance(p, u)
      BY <2>2
    <3> QED
      BY <1>0, <3>1, StartEffect
  <2>3. CASE Learn(p)
    BY <1>0, <2>3, LearnEffect
  <2> QED
    BY <2>1, <2>2, <2>3
<1>2. \A q \in Proposers : proposers'[q].phase = "accept" /\ proposers'[q].proposal_num >= b =>
        proposers'[q].value = v
  BY <1>1 DEF Lock
<1>3. \A q \in Proposers : proposers'[q].phase = "prepare" =>
        /\ proposers'[q].proposal_num = b => proposers'[q].promises = {}
        /\ proposers'[q].proposal_num > b /\ (\E c \in S : c \in proposers'[q].promises) =>
             proposers'[q].highest_num >= b
        /\ proposers'[q].highest_num >= b => proposers'[q].highest_val = v
  BY <1>1 DEF Lock
<1> QED
  BY <1>1, <1>2, <1>3 DEF Lock

(* Every step keeps every lock that a majority backs.                        *)
LEMMA LockStep ==
  ASSUME Base, Next
  PROVE  \A b \in Nat, S \in SUBSET Node, v \in Values :
           /\ b > 0
           /\ Lock(acceptors, proposers, b, S, v)
           /\ Quorum(S \cup {a \in Node : acceptors[a].promised_num <= b})
           => Lock(acceptors', proposers', b, S, v)
<1> SUFFICES ASSUME NEW b \in Nat, NEW S \in SUBSET Node, NEW v \in Values, b > 0,
                    Lock(acceptors, proposers, b, S, v),
                    Quorum(S \cup {a \in Node : acceptors[a].promised_num <= b})
             PROVE  Lock(acceptors', proposers', b, S, v)
  OBVIOUS
<1>1. PICK p \in Proposers :
        \/ paxos_reset_proposer(p) \/ (\E u \in Values : StartInstance(p, u)) \/ Learn(p)
        \/ paxos_prepare(p) \/ Prepared(p) \/ paxos_accept(p)
  BY DEF Next
<1>2. CASE paxos_reset_proposer(p) \/ (\E u \in Values : StartInstance(p, u)) \/ Learn(p)
  BY <1>2, LockOther
<1>3. CASE paxos_prepare(p)
  BY <1>3, LockPrepare
<1>4. CASE Prepared(p)
  BY <1>4, LockPrepared
<1>5. CASE paxos_accept(p)
  BY <1>5, LockAccept
<1> QED
  BY <1>1, <1>2, <1>3, <1>4, <1>5

-----------------------------------------------------------------------------
(* Rounds and Learned are kept.                                              *)

(* Promises only grow, and a round in its accept phase was there before, with *)
(* all its fields or after one more answer, or has just been prepared.       *)
LEMMA Moves ==
  ASSUME Base, Next
  PROVE  /\ \A c \in Node : /\ acceptors'[c].promised_num \in Nat
                           /\ acceptors'[c].promised_num >= acceptors[c].promised_num
         /\ \A q \in Proposers : proposers'[q].phase = "accept" =>
              proposers'[q] = proposers[q] \/ paxos_accept(q) \/ Prepared(q)
<1>0. TypeOK /\ FreshProposer.phase = "idle"
  BY DEF Base, FreshProposer
<1>t. \A c \in Node : acceptors[c].promised_num \in Nat
  BY <1>0, Types
<1>p. \A p \in Proposers : proposers[p].proposal_num \in Nat
  BY <1>0, Types
<1>1. PICK p \in Proposers :
        \/ paxos_reset_proposer(p) \/ (\E u \in Values : StartInstance(p, u)) \/ Learn(p)
        \/ paxos_prepare(p) \/ Prepared(p) \/ paxos_accept(p)
  BY DEF Next
<1>2. CASE paxos_reset_proposer(p)
  BY <1>0, <1>t, <1>2, ResetEffect
<1>3. CASE \E u \in Values : StartInstance(p, u)
  <2>1. PICK u \in Values : StartInstance(p, u)
    BY <1>3
  <2> QED
    BY <1>0, <1>t, <2>1, StartEffect
<1>4. CASE Learn(p)
  BY <1>0, <1>t, <1>4, LearnEffect
<1>5. CASE paxos_prepare(p)
  <2> DEFINE a == proposers[p].next
  <2>1. /\ a \in Node
        /\ \A c \in Node : c # a => acceptors'[c].promised_num = acceptors[c].promised_num
        /\ acceptors'[a].promised_num = IF proposers[p].proposal_num > acceptors[a].promised_num
                                        THEN proposers[p].proposal_num
                                        ELSE acceptors[a].promised_num
    BY <1>0, <1>5, PrepareEffect
  <2>2. /\ \A q \in Proposers : q # p => proposers'[q] = proposers[q]
        /\ proposers'[p].phase = "prepare"
    BY <1>0, <1>5, PrepareEffect
  <2> HIDE DEF a
  <2> QED
    BY <1>t, <1>p, <2>1, <2>2
<1>6. CASE Prepared(p)
  BY <1>0, <1>t, <1>6, PreparedEffect
<1>7. CASE paxos_accept(p)
  <2>1. \A c \in Node : acceptors'[c].promised_num = acceptors[c].promised_num
    BY <1>0, <1>7, AcceptEffect
  <2>2. \A q \in Proposers : q # p => proposers'[q] = proposers[q]
    BY <1>0, <1>7, AcceptEffect
  <2> QED
    BY <1>t, <1>7, <2>1, <2>2
<1> QED
  BY <1>1, <1>2, <1>3, <1>4, <1>5, <1>6, <1>7

(* The acceptors a round can still win are nodes.                            *)
LEMMA PotType ==
  ASSUME TypeOK, NEW p \in Proposers
  PROVE  Pot(acceptors, proposers[p]) \in SUBSET Node
  BY Types DEF Pot

(* A round can only lose acceptors it could have won.                        *)
LEMMA PotShrinks ==
  ASSUME Base, Next, TypeOK', NEW q \in Proposers,
         proposers'[q] = proposers[q] \/ paxos_accept(q),
         Quorum(Pot(acceptors', proposers'[q]))
  PROVE  Quorum(Pot(acceptors, proposers[q]))
<1>0. TypeOK
  BY DEF Base
<1>1. Pot(acceptors, proposers[q]) \in SUBSET Node /\ Pot(acceptors', proposers'[q]) \in SUBSET Node
  <2>1. proposers'[q].accepts \in SUBSET Node
    BY DEF TypeOK, PaxosProposer
  <2> QED
    BY <1>0, <2>1, PotType DEF Pot
<1>2. Pot(acceptors', proposers'[q]) \subseteq Pot(acceptors, proposers[q])
  <2>1. CASE proposers'[q] = proposers[q]
    <3>1. \A c \in Node : acceptors'[c].promised_num <= proposers[q].proposal_num =>
                            acceptors[c].promised_num <= proposers[q].proposal_num
      BY <1>0, Moves, Types
    <3> QED
      BY <2>1, <3>1 DEF Pot
  <2>2. CASE paxos_accept(q)
    <3> DEFINE a   == proposers[q].next
               num == proposers[q].proposal_num
    <3>1. /\ a \in Node
          /\ \A c \in Node : acceptors'[c].promised_num = acceptors[c].promised_num
          /\ proposers'[q].proposal_num = num /\ proposers'[q].next = a + 1
          /\ proposers'[q].accepts =
               IF num >= acceptors[a].promised_num THEN proposers[q].accepts \cup {a}
               ELSE proposers[q].accepts
      BY <1>0, <2>2, AcceptEffect
    <3>2. num \in Nat /\ a \in Nat /\ acceptors[a].promised_num \in Nat /\ \A c \in Node : c \in Nat
      BY <1>0, <3>1, Types, NodesFinite
    <3> HIDE DEF a, num
    <3>3. ASSUME NEW c \in Pot(acceptors', proposers'[q])
          PROVE  c \in proposers[q].accepts \/
                 (c \in Node /\ c >= a /\ acceptors[c].promised_num <= num)
      <4>1. CASE c \in proposers'[q].accepts
        BY <3>1, <3>2, <4>1
      <4>2. CASE /\ c \in Node /\ c >= proposers'[q].next
                 /\ acceptors'[c].promised_num <= proposers'[q].proposal_num
        <5>1. c \in Nat /\ c >= a + 1
          BY <3>1, <3>2, <4>2
        <5>2. c >= a
          BY <3>2, <5>1
        <5>3. acceptors[c].promised_num <= num
          BY <3>1, <4>2
        <5> QED
          BY <4>2, <5>2, <5>3
      <4> QED
        BY <4>1, <4>2 DEF Pot
    <3> QED
      BY <3>3 DEF Pot, a, num
  <2> QED
    BY <2>1, <2>2
<1> QED
  BY <1>1, <1>2, QuorumGrows

(* What a majority needs is among the members of a round's lock and the      *)
(* acceptors that promised nothing higher.                                   *)
LEMMA PotCovers ==
  ASSUME TypeOK, NEW q \in Proposers, Quorum(Pot(acceptors, proposers[q]))
  PROVE  Quorum(proposers[q].accepts \cup
                {a \in Node : acceptors[a].promised_num <= proposers[q].proposal_num})
<1> DEFINE T == proposers[q].accepts \cup
                {a \in Node : acceptors[a].promised_num <= proposers[q].proposal_num}
<1>1. Pot(acceptors, proposers[q]) \subseteq T /\ T \in SUBSET Node
  BY Types DEF Pot
<1>2. Pot(acceptors, proposers[q]) \in SUBSET Node
  BY PotType
<1> HIDE DEF T
<1>3. Quorum(T)
  BY <1>1, <1>2, QuorumGrows
<1> QED
  BY <1>3 DEF T

(* Numbers of running rounds are positive.                                   *)
LEMMA NumberPositive ==
  ASSUME Base, NEW q \in Proposers, proposers[q].phase # "idle"
  PROVE  proposers[q].proposal_num \in Nat /\ proposers[q].proposal_num > 0
<1>1. (q + 1) * Stride >= 0 /\ (q + 1) * Stride \in Int
  BY ProposerIsNode, PaxosAssumption
<1>2. proposers[q].proposal_num \in Nat
  BY Types DEF Base
<1> QED
  BY <1>1, <1>2 DEF Base, Numbers, InRange

(* A round that enters its accept phase and can still win locks its value.   *)
LEMMA RoundOpens ==
  ASSUME Base, NEW q \in Proposers, Prepared(q), proposers'[q].phase = "accept",
         Quorum(Pot(acceptors', proposers'[q]))
  PROVE  Lock(acceptors', proposers', proposers'[q].proposal_num, proposers'[q].accepts,
              proposers'[q].value)
<1> DEFINE num == proposers[q].proposal_num
<1>0. TypeOK
  BY DEF Base
<1>b. /\ acceptors' = acceptors
      /\ proposers[q].phase = "prepare" /\ proposers[q].next = N
      /\ Quorum(proposers[q].promises)
      /\ proposers'[q].proposal_num = num
      /\ proposers'[q].accepts = proposers[q].accepts
  BY <1>0, PreparedEffect
<1>c. \A r \in Proposers : r # q => proposers'[r] = proposers[r]
  BY <1>0, PreparedEffect
<1>d. /\ num \in Nat
      /\ \A c \in Node : acceptors[c].promised_num \in Nat /\ acceptors[c].accepted_num \in Nat
      /\ \A r \in Proposers : proposers[r].proposal_num \in Nat /\ proposers[r].highest_num \in Nat
  BY <1>0, Types
<1>1. proposers'[q].accepts = {} /\ \A c \in Node : acceptors[c].promised_num >= num
  <2>1. \A c \in Node : c < N
    BY PaxosAssumption DEF Node
  <2> QED
    BY <1>b, <2>1 DEF Base, Visited
<1>2. PICK c \in Node : acceptors[c].promised_num <= num
  <2>1. Pot(acceptors', proposers'[q]) \in SUBSET Node
    BY <1>1 DEF Pot
  <2>2. PICK c \in Node : c \in Pot(acceptors', proposers'[q])
    BY <2>1, QuorumMember
  <2> QED
    BY <1>1, <1>b, <2>2 DEF Pot
<1>3. proposers[q].promises # {}
  <2>1. proposers[q].promises \in SUBSET Node
    BY <1>0, Types
  <2> QED
    BY <1>b, <2>1, QuorumMember
<1>4. \A a \in Node : ~(acceptors[a].accepted_num >= num)
  <2>1. \A a \in Node : acceptors[a].accepted_num # num
    BY <1>3, <1>b DEF Base, FreshNumber
  <2>2. \A a \in Node : acceptors[a].accepted_num <= acceptors[c].promised_num
    BY DEF Base, Below
  <2> QED
    BY <1>2, <1>d, <2>1, <2>2
<1>5. \A r \in Proposers : proposers[r].phase = "prepare" => ~(proposers[r].highest_num >= num)
  <2>1. \A r \in Proposers : proposers[r].phase = "prepare" => proposers[r].highest_num # num
    BY <1>3, <1>b DEF Base, FreshNumber
  <2>2. \A r \in Proposers : proposers[r].phase = "prepare" =>
          proposers[r].highest_num <= acceptors[c].promised_num
    BY DEF Base, Below
  <2> QED
    BY <1>2, <1>d, <2>1, <2>2
<1>6. \A r \in Proposers : r # q /\ proposers[r].phase # "idle" => proposers[r].proposal_num # num
  <2>1. ASSUME NEW r \in Proposers, proposers[r].phase # "idle", proposers[r].proposal_num = num
        PROVE  r = q
    <3>1. InRange(q, num) /\ InRange(r, num)
      BY <1>b, <2>1 DEF Base, Numbers
    <3> QED
      BY <1>d, <3>1, RangesDisjoint, ProposerIsNode
  <2> QED
    BY <2>1
<1>7. \A r \in Proposers : r # q /\ proposers[r].phase = "accept" => ~(proposers[r].proposal_num >= num)
  <2>1. \A r \in Proposers : proposers[r].phase = "accept" =>
          acceptors[c].promised_num >= proposers[r].proposal_num
    BY DEF Base, Visited
  <2> QED
    BY <1>2, <1>6, <1>d, <2>1
<1> HIDE DEF num
<1>8. \A r \in Proposers : proposers'[r].phase = "accept" /\ proposers'[r].proposal_num >= num =>
        proposers'[r].value = proposers'[q].value
  BY <1>7, <1>c
<1>9. \A r \in Proposers : proposers'[r].phase = "prepare" =>
        /\ proposers'[r].proposal_num # num
        /\ ~(proposers'[r].highest_num >= num)
  BY <1>5, <1>6, <1>c
<1> QED
  BY <1>1, <1>4, <1>8, <1>9, <1>b DEF Lock

(* One more acceptance joins the lock of its round.                          *)
LEMMA RoundGrows ==
  ASSUME Base, Next, Rounds, NEW q \in Proposers, paxos_accept(q),
         Quorum(Pot(acceptors, proposers[q]))
  PROVE  Lock(acceptors', proposers', proposers'[q].proposal_num, proposers'[q].accepts,
              proposers'[q].value)
<1> DEFINE a   == proposers[q].next
           num == proposers[q].proposal_num
           yes == num >= acceptors[a].promised_num
           S   == proposers[q].accepts
           v   == proposers[q].value
<1>0. TypeOK /\ a \in Node
  BY AcceptEffect DEF Base
<1>a. /\ \A c \in Node : acceptors'[c].promised_num = acceptors[c].promised_num
      /\ yes => acceptors'[a].accepted_num = num
      /\ proposers[q].phase = "accept" /\ proposers'[q].phase = "accept"
      /\ proposers'[q].proposal_num = num /\ proposers'[q].value = v
      /\ proposers'[q].accepts = IF yes THEN S \cup {a} ELSE S
  BY <1>0, AcceptEffect
<1>c. \A r \in Proposers : r # q => proposers'[r] = proposers[r]
  BY <1>0, AcceptEffect
<1>d. /\ num \in Nat /\ num > 0 /\ S \in SUBSET Node /\ v \in Values
      /\ acceptors[a].promised_num \in Nat
      /\ \A r \in Proposers : proposers[r].proposal_num \in Nat
  BY <1>0, <1>a, Types, NumberPositive DEF Base, Proposed
<1>1. Lock(acceptors', proposers', num, S, v)
  <2>1. Lock(acceptors, proposers, num, S, v)
    BY <1>a DEF Rounds
  <2>2. Quorum(S \cup {c \in Node : acceptors[c].promised_num <= num})
    BY <1>0, PotCovers
  <2> HIDE DEF num, S, v
  <2> QED
    BY <1>d, <2>1, <2>2, LockStep
<1>e. \A r \in Proposers, c \in Node :
        proposers[r].phase = "prepare" /\ c \in proposers[r].promises =>
          acceptors[c].promised_num >= proposers[r].proposal_num
  BY DEF Base, Visited
<1> HIDE DEF a, num, S, v
<1>2. CASE ~yes
  BY <1>1, <1>2, <1>a
<1>3. CASE yes
  <2>1. \A r \in Proposers : proposers'[r].phase = "prepare" /\ proposers'[r].proposal_num > num =>
          a \notin proposers'[r].promises
    BY <1>0, <1>3, <1>a, <1>c, <1>d, <1>e
  <2>2. acceptors'[a].accepted_num >= num
    BY <1>3, <1>a, <1>d
  <2>3. Lock(acceptors', proposers', num, S \cup {a}, v)
    <3>1. \A r \in Proposers : proposers'[r].phase = "prepare" =>
            /\ proposers'[r].proposal_num > num /\ (\E c \in S \cup {a} : c \in proposers'[r].promises) =>
                 proposers'[r].highest_num >= num
      BY <1>1, <2>1 DEF Lock
    <3> QED
      BY <1>1, <2>2, <3>1 DEF Lock
  <2> QED
    BY <1>3, <1>a, <2>3
<1> QED
  BY <1>2, <1>3

(* Every step keeps Rounds.                                                  *)
LEMMA RoundsStep ==
  ASSUME Base, Rounds, Next
  PROVE  Rounds'
<1>0. TypeOK /\ TypeOK'
  BY BaseStep DEF Base
<1>1. ASSUME NEW q \in Proposers, proposers'[q].phase = "accept",
             Quorum(Pot(acceptors', proposers'[q]))
      PROVE  Lock(acceptors', proposers', proposers'[q].proposal_num, proposers'[q].accepts,
                  proposers'[q].value)
  <2>1. CASE proposers'[q] = proposers[q]
    <3> DEFINE b == proposers[q].proposal_num
               S == proposers[q].accepts
               v == proposers[q].value
    <3>1. Quorum(Pot(acceptors, proposers[q]))
      BY <1>0, <1>1, <2>1, PotShrinks
    <3>2. Lock(acceptors, proposers, b, S, v)
      BY <1>1, <2>1, <3>1 DEF Rounds
    <3>3. Quorum(S \cup {a \in Node : acceptors[a].promised_num <= b})
      BY <1>0, <3>1, PotCovers
    <3>4. b \in Nat /\ b > 0 /\ S \in SUBSET Node /\ v \in Values
      BY <1>0, <1>1, <2>1, NumberPositive, Types DEF Base, Proposed
    <3> HIDE DEF b, S, v
    <3>5. Lock(acceptors', proposers', b, S, v)
      BY <3>2, <3>3, <3>4, LockStep
    <3> QED
      BY <2>1, <3>5 DEF b, S, v
  <2>2. CASE paxos_accept(q)
    BY <1>0, <1>1, <2>2, PotShrinks, RoundGrows
  <2>3. CASE Prepared(q)
    BY <1>1, <2>3, RoundOpens
  <2> QED
    BY <1>1, <2>1, <2>2, <2>3, Moves
<1> QED
  BY <1>1 DEF Rounds

(* A round in its accept phase that can win still agrees with a value that   *)
(* was learned before.                                                       *)
LEMMA LearnedRounds ==
  ASSUME Base, Learned, Next, learners.has_learned,
         NEW S \in SUBSET Node,
         Lock(acceptors, proposers, learners.learned_round, S, learners.learned_value),
         Lock(acceptors', proposers', learners.learned_round, S, learners.learned_value),
         NEW q \in Proposers, proposers'[q].phase = "accept",
         Quorum(Pot(acceptors', proposers'[q]))
  PROVE  proposers'[q].value = learners.learned_value
<1>0. TypeOK /\ TypeOK'
  BY BaseStep DEF Base
<1>1. CASE proposers'[q] = proposers[q]
  BY <1>0, <1>1, PotShrinks DEF Learned
<1>2. CASE paxos_accept(q)
  <2>1. proposers[q].phase = "accept" /\ proposers'[q].value = proposers[q].value
    BY <1>0, <1>2, AcceptEffect
  <2>2. Quorum(Pot(acceptors, proposers[q]))
    BY <1>0, <1>2, PotShrinks
  <2> QED
    BY <2>1, <2>2 DEF Learned
<1>3. CASE Prepared(q)
  <2>1. /\ proposers[q].phase = "prepare" /\ acceptors' = acceptors
        /\ Quorum(proposers[q].promises)
        /\ proposers'[q].accepts = proposers[q].accepts
        /\ proposers'[q].proposal_num \in Nat
    BY <1>0, <1>3, PreparedEffect, Types
  <2>2. proposers'[q].accepts = {}
    BY <2>1 DEF Base, Visited
  <2>3. Pot(acceptors', proposers'[q]) \in SUBSET Node
    BY <2>2 DEF Pot
  <2>4. PICK c \in Node : c \in Pot(acceptors', proposers'[q])
    BY <2>3, QuorumMember
  <2>5. acceptors[c].promised_num <= proposers'[q].proposal_num
    BY <2>1, <2>2, <2>4 DEF Pot
  <2>6. acceptors[c].promised_num >= learners.learned_round
    BY <2>4 DEF Lock
  <2>7. learners.learned_round \in Nat /\ acceptors[c].promised_num \in Nat
    BY <1>0, Types DEF TypeOK, PaxosLearner
  <2>8. proposers'[q].proposal_num >= learners.learned_round
    BY <2>1, <2>5, <2>6, <2>7
  <2> QED
    BY <2>8 DEF Lock
<1> QED
  BY <1>1, <1>2, <1>3, Moves

(* Steps that learn nothing keep what is known of the learned value.         *)
LEMMA LearnedKept ==
  ASSUME Base, Learned, Next, learners' = learners
  PROVE  Learned'
<1> SUFFICES ASSUME learners.has_learned
             PROVE  Learned'
  BY DEF Learned
<1>1. PICK S \in SUBSET Node :
        /\ Quorum(S)
        /\ Lock(acceptors, proposers, learners.learned_round, S, learners.learned_value)
  BY DEF Learned
<1>2. /\ learners.learned_value \in Values
      /\ learners.learned_round \in Nat /\ learners.learned_round > 0
  BY DEF Learned, Base, TypeOK, PaxosLearner
<1> DEFINE T == S \cup {a \in Node : acceptors[a].promised_num <= learners.learned_round}
<1>3. Quorum(T)
  <2>1. S \subseteq T /\ T \in SUBSET Node
    OBVIOUS
  <2> HIDE DEF T
  <2> QED
    BY <1>1, <2>1, QuorumGrows
<1>4. Lock(acceptors', proposers', learners.learned_round, S, learners.learned_value)
  BY <1>1, <1>2, <1>3, LockStep
<1>5. \A q \in Proposers :
        proposers'[q].phase = "accept" /\ Quorum(Pot(acceptors', proposers'[q])) =>
          proposers'[q].value = learners.learned_value
  BY <1>1, <1>4, LearnedRounds
<1> QED
  BY <1>1, <1>2, <1>4, <1>5 DEF Learned

(* A majority of acceptances turns the lock of its round into the lock of    *)
(* the learned value.                                                        *)
LEMMA LearnedNew ==
  ASSUME Base, Rounds, Next, NEW p \in Proposers, Learn(p), Quorum(proposers[p].accepts)
  PROVE  Learned'
<1> DEFINE num == proposers[p].proposal_num
           S   == proposers[p].accepts
           v   == proposers[p].value
<1>0. TypeOK
  BY DEF Base
<1>1. /\ acceptors' = acceptors
      /\ \A q \in Proposers : q # p => proposers'[q] = proposers[q]
      /\ proposers[p].phase = "accept" /\ proposers'[p].phase = "idle"
      /\ learners'.learned_value = v
      /\ learners'.learned_round = num
  BY <1>0, LearnEffect
<1>2. num \in Nat /\ num > 0 /\ S \in SUBSET Node /\ v \in Values
  BY <1>0, <1>1, Types, NumberPositive DEF Base, Proposed
<1>3. Lock(acceptors, proposers, num, S, v)
  <2>1. S \subseteq Pot(acceptors, proposers[p])
    BY DEF Pot
  <2>2. Quorum(Pot(acceptors, proposers[p]))
    BY <1>0, <1>2, <2>1, PotType, QuorumGrows
  <2> QED
    BY <1>1, <2>2 DEF Rounds
<1>4. Quorum(S)
  OBVIOUS
<1>5. Lock(acceptors', proposers', num, S, v)
  <2> DEFINE T == S \cup {a \in Node : acceptors[a].promised_num <= num}
  <2>1. S \subseteq T /\ T \in SUBSET Node
    BY <1>2
  <2>2. Quorum(T)
    <3> HIDE DEF T
    <3> QED
      BY <1>2, <1>4, <2>1, QuorumGrows
  <2> HIDE DEF num, S, v
  <2> QED
    BY <1>2, <1>3, <2>2, LockStep
<1>6. ASSUME NEW q \in Proposers, proposers'[q].phase = "accept",
             Quorum(Pot(acceptors', proposers'[q]))
      PROVE  proposers'[q].value = v
  <2>1. q # p /\ proposers'[q] = proposers[q]
    BY <1>1, <1>6
  <2>2. proposers[q].proposal_num \in Nat
    BY <1>0, Types
  <2>3. CASE proposers[q].proposal_num >= num
    BY <1>3, <1>6, <2>1, <2>3 DEF Lock
  <2>4. CASE num >= proposers[q].proposal_num
    <3>1. Lock(acceptors, proposers, proposers[q].proposal_num, proposers[q].accepts,
               proposers[q].value)
      BY <1>1, <1>6, <2>1 DEF Rounds
    <3>2. v = proposers[q].value
      BY <1>1, <2>4, <3>1 DEF Lock
    <3> QED
      BY <2>1, <3>2
  <2> QED
    BY <1>2, <2>2, <2>3, <2>4
<1> HIDE DEF num, S, v
<1> QED
  BY <1>1, <1>2, <1>4, <1>5, <1>6 DEF Learned

(* Only a majority of acceptances changes the learners.                      *)
LEMMA LearnersChange ==
  ASSUME TypeOK, [Next]_vars
  PROVE  learners' = learners \/ \E p \in Proposers : Learn(p) /\ Quorum(proposers[p].accepts)
<1>1. CASE UNCHANGED vars
  BY <1>1 DEF vars
<1>2. CASE Next
  <2>1. PICK p \in Proposers :
          \/ paxos_reset_proposer(p) \/ (\E u \in Values : StartInstance(p, u))
          \/ paxos_prepare(p) \/ Prepared(p) \/ paxos_accept(p) \/ Learn(p)
    BY <1>2 DEF Next
  <2>2. CASE Learn(p)
    BY <2>2, LearnEffect
  <2>3. CASE \E u \in Values : StartInstance(p, u)
    BY <2>3 DEF StartInstance
  <2>4. CASE paxos_reset_proposer(p) \/ Prepared(p)
    BY <2>4 DEF paxos_reset_proposer, Prepared
  <2>5. CASE paxos_prepare(p)
    BY <2>5, PrepareEffect
  <2>6. CASE paxos_accept(p)
    BY <2>6, AcceptEffect
  <2> QED
    BY <2>1, <2>2, <2>3, <2>4, <2>5, <2>6
<1> QED
  BY <1>1, <1>2

(* Every step keeps Learned.                                                 *)
LEMMA LearnedStep ==
  ASSUME Base, Rounds, Learned, Next
  PROVE  Learned'
<1>1. CASE learners' = learners
  BY <1>1, LearnedKept
<1>2. CASE \E p \in Proposers : Learn(p) /\ Quorum(proposers[p].accepts)
  BY <1>2, LearnedNew
<1> QED
  BY <1>1, <1>2, LearnersChange DEF Base

-----------------------------------------------------------------------------
(* The theorems.                                                             *)

(* paxos_init_cluster establishes the invariant.                             *)
LEMMA IInvInit == Init => IInv
<1> SUFFICES ASSUME Init
             PROVE  IInv
  OBVIOUS
<1>1. FreshAcceptor \in PaxosAcceptor /\ FreshLearner \in PaxosLearner
  BY DEF FreshAcceptor, PaxosAcceptor, FreshLearner, PaxosLearner
<1>2. TypeOK
  BY <1>1, FreshType DEF Init, TypeOK
<1>3. /\ \A a \in Node : acceptors[a].promised_num = 0 /\ acceptors[a].accepted_num = 0
      /\ \A p \in Proposers : proposers[p].phase = "idle"
      /\ ~learners.has_learned
  BY DEF Init, FreshAcceptor, FreshProposer, FreshLearner
<1>4. Base
  BY <1>2, <1>3 DEF Base, Numbers, Proposed, Visited, Below, FreshNumber
<1>5. Rounds /\ Learned
  BY <1>3 DEF Rounds, Learned
<1> QED
  BY <1>4, <1>5 DEF IInv

(* Every step keeps the invariant.                                           *)
LEMMA IInvStep == IInv /\ [Next]_vars => IInv'
<1> SUFFICES ASSUME IInv, [Next]_vars
             PROVE  IInv'
  OBVIOUS
<1>1. Base'
  BY BaseStep DEF IInv
<1>2. CASE Next
  BY <1>1, <1>2, RoundsStep, LearnedStep DEF IInv
<1>3. CASE UNCHANGED vars
  <2>1. acceptors' = acceptors /\ proposers' = proposers /\ learners' = learners
    BY <1>3 DEF vars
  <2>2. Rounds'
    BY <2>1 DEF IInv, Rounds
  <2>3. Learned'
    BY <2>1 DEF IInv, Learned
  <2> QED
    BY <1>1, <2>2, <2>3 DEF IInv
<1> QED
  BY <1>2, <1>3

(* The invariant holds in every reachable state.                             *)
LEMMA Invariant == Spec => []IInv
  BY IInvInit, IInvStep, PTL DEF Spec

(* The fields of acceptors, proposers and learners keep their types.         *)
THEOREM TypeCorrect == Spec => []TypeOK
<1>1. IInv => TypeOK
  BY DEF IInv, Base
<1> QED
  BY <1>1, Invariant, PTL

(* No acceptor accepts beyond its promise, although paxos_accepted does not  *)
(* raise promised_num.                                                       *)
THEOREM AcceptedWithin == Spec => []AcceptedWithinPromise
<1>1. IInv => AcceptedWithinPromise
  BY DEF IInv, Base, Below, Visited, AcceptedWithinPromise
<1> QED
  BY <1>1, Invariant, PTL

(* A step of Paxos is a choice or leaves what is chosen alone.               *)
LEMMA StepRefines ==
  ASSUME IInv, IInv', [Next]_vars
  PROVE  [Abstract!Next]_(IF learners.has_learned THEN {learners.learned_value} ELSE {})
<1> DEFINE chosen(l) == IF l.has_learned THEN {l.learned_value} ELSE {}
<1>0. TypeOK
  BY DEF IInv, Base
<1>1. CASE learners' = learners
  BY <1>1 DEF Abstract!Next, Abstract!Choose
<1>2. CASE \E p \in Proposers : Learn(p) /\ Quorum(proposers[p].accepts)
  <2>1. PICK p \in Proposers : Learn(p) /\ Quorum(proposers[p].accepts)
    BY <1>2
  <2>2. /\ learners'.has_learned
        /\ learners'.learned_value = proposers[p].value
        /\ proposers[p].phase = "accept"
    BY <1>0, <2>1, LearnEffect
  <2>3. learners'.learned_value \in Values
    BY <2>2 DEF IInv, Learned
  <2>4. CASE ~learners.has_learned
    BY <2>2, <2>3, <2>4 DEF Abstract!Next, Abstract!Choose
  <2>5. CASE learners.has_learned
    <3>1. Quorum(Pot(acceptors, proposers[p]))
      <4>1. proposers[p].accepts \subseteq Pot(acceptors, proposers[p])
        BY DEF Pot
      <4>2. proposers[p].accepts \in SUBSET Node
        BY <1>0, Types
      <4> QED
        BY <1>0, <2>1, <4>1, <4>2, PotType, QuorumGrows
    <3>2. proposers[p].value = learners.learned_value
      BY <2>2, <2>5, <3>1 DEF IInv, Learned
    <3> QED
      BY <2>2, <2>5, <3>2
  <2> QED
    BY <2>4, <2>5
<1>3. learners' = learners \/ \E p \in Proposers : Learn(p) /\ Quorum(proposers[p].accepts)
  BY <1>0, LearnersChange
<1> QED
  BY <1>1, <1>2, <1>3

(* Whatever the interleaving of rounds, repeated numbers and resets, the     *)
(* learners never change the value they have learned: Paxos implements       *)
(* Consensus.                                                                *)
THEOREM Refines == Spec => ImplementsConsensus
<1>1. Init => Abstract!Init
  BY DEF Init, FreshLearner, Abstract!Init
<1>2. IInv /\ IInv' /\ [Next]_vars =>
        [Abstract!Next]_(IF learners.has_learned THEN {learners.learned_value} ELSE {})
  BY StepRefines
<1> QED
  BY <1>1, <1>2, Invariant, PTL DEF Spec, ImplementsConsensus, Abstract!Spec

-----------------------------------------------------------------------------
(***************************************************************************)
(* The lease manager of distributed_apps.c.  A promise is an absolute time  *)
(* in a client's hands, the lease an unsigned time in the manager's books;  *)
(* LeasesKept becomes inductive when the two are tied together: a promise   *)
(* that still runs is the very expiry in the books of a lock granted to     *)
(* that client.  The manager's clock is at least that of every lock, so the *)
(* next grant gets a clock no lock has.                                     *)
(***************************************************************************)

IsClient(x) ==
  /\ x = [logical_clock |-> x.logical_clock, held_locks |-> x.held_locks]
  /\ x.logical_clock \in Nat

LeaseTypes ==
  /\ locks \in [Locks -> DLMLock]
  /\ DOMAIN clients = Clients /\ \A c \in Clients : IsClient(clients[c])
  /\ clients = [c \in Clients |-> clients[c]]
  /\ global_clock \in Nat
  /\ current_time_ms \in Nat
  /\ promise \in [Clients -> [Locks -> Int]]

(* A running promise is what the manager has booked.                          *)
Booked ==
  \A l \in Locks, c \in Clients :
    promise[c][l] > current_time_ms =>
      Owns(c, l) /\ locks[l].lease_expiry_ms = promise[c][l]

ClocksBelow == \A l \in Locks : locks[l].logical_clock <= global_clock

ClocksDiffer ==
  \A l, m \in Locks : l # m /\ locks[l].logical_clock = locks[m].logical_clock
                        => locks[l].logical_clock = 0

OwnersAhead ==
  \A c \in Clients, l \in Locks : Owns(c, l) =>
    locks[l].logical_clock \in 1 .. clients[c].logical_clock

LeaseInv == LeaseTypes /\ Booked /\ ClocksBelow /\ ClocksDiffer /\ OwnersAhead

LEMMA LeaseInvImplies == LeaseInv => LeasesKept
  BY LeaseAssumption DEF LeaseInv, LeaseTypes, Booked, ClocksDiffer, OwnersAhead, LeasesKept,
     dlm_lock_owner, Owns, DLMLock

LEMMA LeaseInitially == dlm_init => LeaseInv
<1> SUFFICES ASSUME dlm_init PROVE LeaseInv
  OBVIOUS
<1>1. LeaseTypes
  BY LeaseAssumption DEF dlm_init, LeaseTypes, IsClient, DLMLock, None
<1> QED
  BY <1>1 DEF dlm_init, LeaseInv, Booked, ClocksBelow, ClocksDiffer, OwnersAhead, Owns, None

(* The new end of a lease: what is promised is what is booked, unless the     *)
(* sum wrapped around, and then nothing is promised.                          *)
LEMMA PromiseIsExpiry ==
  ASSUME current_time_ms \in Nat, NEW ttl \in Ttls
  PROVE  /\ Expiry(ttl) \in 0 .. TimeWidth - 1
         /\ Promised(ttl) \in Int
         /\ Promised(ttl) > current_time_ms => Promised(ttl) = Expiry(ttl)
<1> DEFINE e == current_time_ms + Ttl(ttl)
<1>1. e \in Nat /\ TimeWidth \in Nat \ {0}
  BY LeaseAssumption DEF Ttl
<1>2. Expiry(ttl) = e % TimeWidth /\ Promised(ttl) = IF e < TimeWidth THEN e ELSE None
  BY DEF Expiry, Promised
<1> HIDE DEF e
<1>3. e % TimeWidth \in 0 .. TimeWidth - 1
  BY <1>1
<1>4. e < TimeWidth => e % TimeWidth = e
  BY <1>1
<1> QED
  BY <1>1, <1>2, <1>3, <1>4 DEF None

LEMMA AcquireKeepsLeases ==
  ASSUME LeaseInv, NEW c \in Clients, NEW l \in Locks, NEW ttl \in Ttls,
         dlm_acquire(c, l, ttl)
  PROVE  LeaseInv'
<1> DEFINE clock == dlm_update_clock(clients[c].logical_clock)
<1>1. /\ LeaseTypes /\ Booked /\ ClocksBelow /\ ClocksDiffer /\ OwnersAhead
      /\ clients[c].logical_clock \in Nat
  BY DEF LeaseInv, LeaseTypes, IsClient
<1>2. clock \in Nat /\ clock > global_clock /\ clock \in 1 .. MaxClock
  BY <1>1, LeaseAssumption DEF dlm_update_clock, dlm_acquire, LeaseTypes
<1>3. global_clock' = clock /\ current_time_ms' = current_time_ms
  BY DEF dlm_acquire
<1>4. CASE Blocked(c, l)
  <2>1. locks' = locks /\ clients' = clients /\ promise' = promise
    BY <1>4 DEF dlm_acquire
  <2>2. LeaseTypes'
    BY <1>1, <1>2, <1>3, <2>1 DEF LeaseTypes
  <2>3. ClocksBelow'
    BY <1>1, <1>2, <1>3, <2>1 DEF ClocksBelow, LeaseTypes, DLMLock
  <2> QED
    BY <1>1, <1>3, <2>1, <2>2, <2>3 DEF LeaseInv, Booked, ClocksDiffer, OwnersAhead, Owns
<1>5. CASE ~Blocked(c, l)
  <2> DEFINE new == [owner_id |-> c, granted |-> TRUE,
                     lease_expiry_ms |-> Expiry(ttl), logical_clock |-> clock]
             reclaimed == IF locks[l].granted /\ locks[l].owner_id # c
                          THEN [clients EXCEPT ![locks[l].owner_id].held_locks = Untracked(@, l)]
                          ELSE clients
  <2>1. /\ locks' = [locks EXCEPT ![l] = new]
        /\ clients' = [reclaimed EXCEPT ![c] =
                         [logical_clock |-> clock, held_locks |-> Tracked(@.held_locks, l)]]
        /\ promise' = [promise EXCEPT ![c][l] = Promised(ttl)]
    BY <1>5 DEF dlm_acquire
  <2>2. /\ Expiry(ttl) \in 0 .. TimeWidth - 1 /\ Promised(ttl) \in Int
        /\ Promised(ttl) > current_time_ms => Promised(ttl) = Expiry(ttl)
    BY <1>1, PromiseIsExpiry DEF LeaseTypes
  <2>3. new \in DLMLock
    BY <1>2, <2>2 DEF DLMLock
  <2>4. /\ DOMAIN reclaimed = Clients
        /\ \A d \in Clients : /\ IsClient(reclaimed[d])
                              /\ reclaimed[d].logical_clock = clients[d].logical_clock
    <3>1. CASE locks[l].granted /\ locks[l].owner_id # c
      <4> DEFINE o == locks[l].owner_id
                 h == Untracked(clients[o].held_locks, l)
      <4>1. reclaimed = [d \in Clients |-> IF d = o THEN [clients[o] EXCEPT !.held_locks = h]
                                                     ELSE clients[d]]
        BY <1>1, <3>1 DEF LeaseTypes
      <4>2. ASSUME NEW d \in Clients
            PROVE  IsClient(reclaimed[d]) /\ reclaimed[d].logical_clock = clients[d].logical_clock
        <5> HIDE DEF h, reclaimed
        <5>1. clients[d] = [logical_clock |-> clients[d].logical_clock, held_locks |-> clients[d].held_locks]
              /\ clients[d].logical_clock \in Nat
          BY <1>1 DEF LeaseTypes, IsClient
        <5>2. CASE d = o
          <6>1. reclaimed[d] = [clients[d] EXCEPT !.held_locks = h]
            BY <4>1, <5>2
          <6>2. reclaimed[d] = [logical_clock |-> clients[d].logical_clock, held_locks |-> h]
            BY <5>1, <6>1
          <6> QED
            BY <5>1, <6>2 DEF IsClient
        <5>3. CASE d # o
          BY <4>1, <5>1, <5>3 DEF IsClient
        <5> QED
          BY <5>2, <5>3
      <4> QED
        BY <4>1, <4>2
    <3>2. CASE ~(locks[l].granted /\ locks[l].owner_id # c)
      BY <1>1, <3>2 DEF LeaseTypes
    <3> QED
      BY <3>1, <3>2
  <2> HIDE DEF new, reclaimed
  <2>5. /\ DOMAIN clients' = Clients /\ clients' = [d \in Clients |-> clients'[d]]
        /\ clients'[c] = [logical_clock |-> clock, held_locks |-> Tracked(reclaimed[c].held_locks, l)]
        /\ \A d \in Clients \ {c} : clients'[d] = reclaimed[d]
    BY <2>1, <2>4
  <2>6. \A d \in Clients : IsClient(clients'[d])
    <3>1. IsClient(clients'[c])
      BY <1>2, <2>5 DEF IsClient
    <3> QED
      BY <2>4, <2>5, <3>1
  <2>7. LeaseTypes'
    BY <1>1, <1>2, <1>3, <2>1, <2>2, <2>3, <2>5, <2>6 DEF LeaseTypes
  <2>8. /\ \A m \in Locks \ {l} : locks'[m] = locks[m]
        /\ locks'[l] = new
        /\ \A d \in Clients, m \in Locks : promise'[d][m] =
             IF d = c /\ m = l THEN Promised(ttl) ELSE promise[d][m]
    BY <1>1, <2>1 DEF LeaseTypes
  <2>9. Booked'
    <3> SUFFICES ASSUME NEW m \in Locks, NEW d \in Clients, promise'[d][m] > current_time_ms
                 PROVE  Owns(d, m)' /\ locks'[m].lease_expiry_ms = promise'[d][m]
      BY <1>3 DEF Booked
    <3>1. CASE d = c /\ m = l
      BY <2>2, <2>8, <3>1 DEF Owns, new
    <3>2. CASE m # l
      BY <1>1, <2>8, <3>2 DEF Owns, Booked
    <3>3. CASE d # c /\ m = l
      <4>1. locks[l].granted /\ locks[l].owner_id = d /\ locks[l].lease_expiry_ms > current_time_ms
        BY <1>1, <2>8, <3>3 DEF Booked, Owns
      <4>2. locks[l].lease_expiry_ms \in Nat /\ current_time_ms \in Nat
        BY <1>1 DEF LeaseTypes, DLMLock
      <4> QED
        BY <1>5, <3>3, <4>1, <4>2 DEF Blocked
    <3> QED
      BY <3>1, <3>2, <3>3
  <2>10. \A m \in Locks : locks[m].logical_clock \in Nat /\ locks[m].logical_clock < clock
    BY <1>1, <1>2 DEF LeaseTypes, DLMLock, ClocksBelow
  <2>11. new.logical_clock = clock /\ new.owner_id = c
    BY DEF new
  <2>12. ClocksBelow'
    BY <1>2, <1>3, <2>8, <2>10, <2>11 DEF ClocksBelow
  <2>13. ClocksDiffer'
    BY <1>1, <1>2, <2>8, <2>10, <2>11 DEF ClocksDiffer
  <2>14. OwnersAhead'
    <3> SUFFICES ASSUME NEW d \in Clients, NEW m \in Locks, Owns(d, m)'
                 PROVE  locks'[m].logical_clock \in 1 .. clients'[d].logical_clock
      BY DEF OwnersAhead
    <3>1. CASE m = l
      BY <1>2, <2>5, <2>8, <2>11, <3>1 DEF Owns
    <3>2. CASE m # l
      <4>1. Owns(d, m) /\ locks'[m] = locks[m]
        BY <2>8, <3>2 DEF Owns
      <4>2. locks[m].logical_clock \in 1 .. clients[d].logical_clock
        BY <1>1, <4>1 DEF OwnersAhead
      <4>3. CASE d = c
        BY <1>2, <2>5, <2>10, <4>1, <4>2, <4>3
      <4>4. CASE d # c
        BY <2>4, <2>5, <4>1, <4>2, <4>4
      <4> QED
        BY <4>3, <4>4
    <3> QED
      BY <3>1, <3>2
  <2> QED
    BY <2>7, <2>9, <2>12, <2>13, <2>14 DEF LeaseInv
<1> QED
  BY <1>4, <1>5
(* What release, renewal and the tick do to one lock and one client keeps the  *)
(* clocks: they touch neither the clock of a lock nor that of a client, and    *)
(* nobody becomes an owner.                                                    *)
LEMMA ClocksUntouched ==
  ASSUME LeaseInv, global_clock' = global_clock,
         \A l \in Locks : locks'[l].logical_clock = locks[l].logical_clock,
         \A c \in Clients : clients'[c].logical_clock = clients[c].logical_clock,
         \A c \in Clients, l \in Locks : Owns(c, l)' => Owns(c, l)
  PROVE  ClocksBelow' /\ ClocksDiffer' /\ OwnersAhead'
BY DEF LeaseInv, ClocksBelow, ClocksDiffer, OwnersAhead

(* Setting the list of held locks of a client leaves a client.                *)
LEMMA HeldChanged ==
  ASSUME NEW x, IsClient(x), NEW h, NEW y, y = [x EXCEPT !.held_locks = h]
  PROVE  IsClient(y) /\ y.logical_clock = x.logical_clock
<1>1. /\ x = [logical_clock |-> x.logical_clock, held_locks |-> x.held_locks]
      /\ x.logical_clock \in Nat
  BY DEF IsClient
<1>2. y = [logical_clock |-> x.logical_clock, held_locks |-> h]
  BY <1>1
<1> QED
  BY <1>1, <1>2 DEF IsClient

LEMMA ReleaseKeepsLeases ==
  ASSUME LeaseInv, NEW c \in Clients, NEW l \in Locks, dlm_release(c, l)
  PROVE  LeaseInv'
<1>1. LeaseTypes /\ Booked
  BY DEF LeaseInv
<1>2. /\ Owns(c, l)
      /\ locks' = [locks EXCEPT ![l] = Freed(@)]
      /\ clients' = [clients EXCEPT ![c].held_locks = Untracked(@, l)]
      /\ promise' = [promise EXCEPT ![c][l] = None]
      /\ global_clock' = global_clock /\ current_time_ms' = current_time_ms
  BY DEF dlm_release
<1>3. /\ Freed(locks[l]) \in DLMLock /\ ~Freed(locks[l]).granted
      /\ Freed(locks[l]).logical_clock = locks[l].logical_clock
  BY <1>1 DEF LeaseTypes, Freed, DLMLock
<1>4. /\ \A m \in Locks \ {l} : locks'[m] = locks[m]
      /\ locks'[l] = Freed(locks[l])
      /\ \A d \in Clients, m \in Locks : promise'[d][m] =
           IF d = c /\ m = l THEN None ELSE promise[d][m]
  BY <1>1, <1>2 DEF LeaseTypes
<1>5. /\ DOMAIN clients' = Clients /\ clients' = [d \in Clients |-> clients'[d]]
      /\ \A d \in Clients : IsClient(clients'[d]) /\ clients'[d].logical_clock = clients[d].logical_clock
  <2> DEFINE h == Untracked(clients[c].held_locks, l)
  <2>1. /\ DOMAIN clients' = Clients /\ clients' = [d \in Clients |-> clients'[d]]
        /\ clients'[c] = [clients[c] EXCEPT !.held_locks = h]
        /\ \A d \in Clients \ {c} : clients'[d] = clients[d]
    BY <1>1, <1>2 DEF LeaseTypes
  <2> HIDE DEF h
  <2>2. \A d \in Clients : IsClient(clients[d])
    BY <1>1 DEF LeaseTypes
  <2>3. IsClient(clients'[c]) /\ clients'[c].logical_clock = clients[c].logical_clock
    BY <2>1, <2>2, HeldChanged
  <2> QED
    BY <2>1, <2>2, <2>3
<1>6. LeaseTypes'
  <2>1. locks' \in [Locks -> DLMLock]
    BY <1>1, <1>2, <1>3 DEF LeaseTypes
  <2>2. promise' \in [Clients -> [Locks -> Int]]
    BY <1>1, <1>2 DEF LeaseTypes, None
  <2> QED
    BY <1>1, <1>2, <1>5, <2>1, <2>2 DEF LeaseTypes
<1>7. \A d \in Clients, m \in Locks : Owns(d, m)' => Owns(d, m) /\ m # l
  BY <1>3, <1>4 DEF Owns
<1>8. \A m \in Locks : locks'[m].logical_clock = locks[m].logical_clock
  BY <1>3, <1>4
<1>9. ClocksBelow' /\ ClocksDiffer' /\ OwnersAhead'
  BY <1>2, <1>5, <1>7, <1>8, ClocksUntouched
<1>10. Booked'
  <2> SUFFICES ASSUME NEW m \in Locks, NEW d \in Clients, promise'[d][m] > current_time_ms
               PROVE  Owns(d, m)' /\ locks'[m].lease_expiry_ms = promise'[d][m]
    BY <1>2 DEF Booked
  <2>1. ~(d = c /\ m = l)
    BY <1>1, <1>4 DEF None, LeaseTypes
  <2>2. Owns(d, m) /\ locks[m].lease_expiry_ms = promise[d][m]
    BY <1>1, <1>4, <2>1 DEF Booked
  <2>3. m # l
    BY <1>2, <2>1, <2>2 DEF Owns
  <2> QED
    BY <1>4, <2>1, <2>2, <2>3 DEF Owns
<1> QED
  BY <1>6, <1>9, <1>10 DEF LeaseInv

LEMMA RenewKeepsLeases ==
  ASSUME LeaseInv, NEW c \in Clients, NEW l \in Locks, NEW ttl \in Ttls, dlm_renew(c, l, ttl)
  PROVE  LeaseInv'
<1>1. LeaseTypes /\ Booked
  BY DEF LeaseInv
<1>2. /\ Owns(c, l)
      /\ locks' = [locks EXCEPT ![l].lease_expiry_ms = Expiry(ttl)]
      /\ promise' = [promise EXCEPT ![c][l] = Promised(ttl)]
      /\ clients' = clients /\ global_clock' = global_clock
      /\ current_time_ms' = current_time_ms
  BY DEF dlm_renew
<1>3. /\ Expiry(ttl) \in 0 .. TimeWidth - 1 /\ Promised(ttl) \in Int
      /\ Promised(ttl) > current_time_ms => Promised(ttl) = Expiry(ttl)
  BY <1>1, PromiseIsExpiry DEF LeaseTypes
<1> DEFINE new == [locks[l] EXCEPT !.lease_expiry_ms = Expiry(ttl)]
<1>4. /\ new \in DLMLock /\ new.lease_expiry_ms = Expiry(ttl)
      /\ new.logical_clock = locks[l].logical_clock
      /\ new.granted = locks[l].granted /\ new.owner_id = locks[l].owner_id
  <2>1. locks[l] \in DLMLock
    BY <1>1 DEF LeaseTypes
  <2> QED
    BY <1>3, <2>1 DEF DLMLock
<1>5. /\ \A m \in Locks \ {l} : locks'[m] = locks[m]
      /\ locks'[l] = new
      /\ \A d \in Clients, m \in Locks : promise'[d][m] =
           IF d = c /\ m = l THEN Promised(ttl) ELSE promise[d][m]
  BY <1>1, <1>2 DEF LeaseTypes
<1> HIDE DEF new
<1>6. LeaseTypes'
  <2>1. locks' \in [Locks -> DLMLock]
    <3>1. locks' = [locks EXCEPT ![l] = new]
      BY <1>2 DEF new
    <3> QED
      BY <1>1, <1>4, <3>1 DEF LeaseTypes
  <2>2. promise' \in [Clients -> [Locks -> Int]]
    BY <1>1, <1>2, <1>3 DEF LeaseTypes
  <2> QED
    BY <1>1, <1>2, <2>1, <2>2 DEF LeaseTypes
<1>7. \A d \in Clients, m \in Locks : Owns(d, m)' <=> Owns(d, m)
  BY <1>4, <1>5 DEF Owns
<1>8. \A m \in Locks : locks'[m].logical_clock = locks[m].logical_clock
  BY <1>4, <1>5
<1>9. ClocksBelow' /\ ClocksDiffer' /\ OwnersAhead'
  BY <1>2, <1>7, <1>8, ClocksUntouched
<1>10. Booked'
  <2> SUFFICES ASSUME NEW m \in Locks, NEW d \in Clients, promise'[d][m] > current_time_ms
               PROVE  Owns(d, m)' /\ locks'[m].lease_expiry_ms = promise'[d][m]
    BY <1>2 DEF Booked
  <2>1. CASE d = c /\ m = l
    BY <1>2, <1>3, <1>4, <1>5, <1>7, <2>1
  <2>2. CASE ~(d = c /\ m = l)
    <3>1. Owns(d, m) /\ locks[m].lease_expiry_ms = promise[d][m]
      BY <1>1, <1>5, <2>2 DEF Booked
    <3>2. m # l
      BY <1>2, <2>2, <3>1 DEF Owns
    <3> QED
      BY <1>5, <1>7, <2>2, <3>1, <3>2
  <2> QED
    BY <2>1, <2>2
<1> QED
  BY <1>6, <1>9, <1>10 DEF LeaseInv

(* The sweep takes only leases that are over: no running promise rests on one. *)
LEMMA TickKeepsLeases ==
  ASSUME LeaseInv, NEW delta \in Ttls, dlm_tick(delta)
  PROVE  LeaseInv'
<1> DEFINE later == current_time_ms + delta
           expired == {l \in Locks : locks[l].granted /\ later >= locks[l].lease_expiry_ms}
           held(c) == FoldLeft(Untracked, clients[c].held_locks,
                               SetToSortSeq({l \in expired : locks[l].owner_id = c}, <))
<1>1. LeaseTypes /\ Booked
  BY DEF LeaseInv
<1>2. /\ current_time_ms' = later
      /\ locks' = [l \in Locks |-> IF l \in expired THEN Freed(locks[l]) ELSE locks[l]]
      /\ clients' = [c \in Clients |-> [clients[c] EXCEPT !.held_locks = held(c)]]
      /\ global_clock' = global_clock /\ promise' = promise
  BY DEF dlm_tick
<1>3. later \in Nat /\ later >= current_time_ms /\ current_time_ms \in Nat
  BY <1>1, LeaseAssumption DEF LeaseTypes
<1> HIDE DEF held, later
<1>4. \A c \in Clients : IsClient(clients'[c]) /\ clients'[c].logical_clock = clients[c].logical_clock
  <2>1. \A c \in Clients : IsClient(clients[c])
    BY <1>1 DEF LeaseTypes
  <2> SUFFICES ASSUME NEW c \in Clients
               PROVE  IsClient(clients'[c]) /\ clients'[c].logical_clock = clients[c].logical_clock
    OBVIOUS
  <2>2. clients'[c] = [clients[c] EXCEPT !.held_locks = held(c)]
    BY <1>2
  <2>3. IsClient(clients[c])
    BY <2>1
  <2> QED
    BY <2>2, <2>3, HeldChanged
<1>5. ASSUME NEW l \in Locks
      PROVE  /\ locks'[l] \in DLMLock
             /\ locks'[l].logical_clock = locks[l].logical_clock
             /\ l \in expired => ~locks'[l].granted
             /\ l \notin expired => locks'[l] = locks[l]
  <2>1. locks[l] \in DLMLock
    BY <1>1 DEF LeaseTypes
  <2> QED
    BY <1>2, <2>1 DEF Freed, DLMLock
<1>6. LeaseTypes'
  <2>1. locks' \in [Locks -> DLMLock]
    BY <1>2, <1>5
  <2>2. DOMAIN clients' = Clients /\ clients' = [c \in Clients |-> clients'[c]]
    BY <1>2
  <2> QED
    BY <1>1, <1>2, <1>3, <1>4, <2>1, <2>2 DEF LeaseTypes
<1>7. \A d \in Clients, m \in Locks : Owns(d, m)' => Owns(d, m) /\ m \notin expired
  BY <1>5 DEF Owns
<1>8. ClocksBelow' /\ ClocksDiffer' /\ OwnersAhead'
  BY <1>2, <1>4, <1>5, <1>7, ClocksUntouched
<1>9. Booked'
  <2> SUFFICES ASSUME NEW m \in Locks, NEW d \in Clients, promise[d][m] > later
               PROVE  Owns(d, m)' /\ locks'[m].lease_expiry_ms = promise[d][m]
    BY <1>2 DEF Booked
  <2>1. promise[d][m] \in Int /\ promise[d][m] > current_time_ms
    BY <1>1, <1>3 DEF LeaseTypes
  <2>2. Owns(d, m) /\ locks[m].lease_expiry_ms = promise[d][m]
    BY <1>1, <2>1 DEF Booked
  <2>3. m \notin expired
    BY <1>3, <2>1, <2>2
  <2> QED
    BY <1>5, <2>2, <2>3 DEF Owns
<1> QED
  BY <1>6, <1>8, <1>9 DEF LeaseInv

(* Lease manager: a client that was told it holds a lock owns it until its    *)
(* lease ends, whoever else asks, renews or sweeps and although the expiry    *)
(* may wrap around; and grants are ordered by their clocks.                   *)
THEOREM PromisedLeasesKept == DlmSpec => []LeasesKept
<1>1. dlm_init => LeaseInv
  BY LeaseInitially
<1>2. LeaseInv /\ [DlmNext]_dlmVars => LeaseInv'
  <2> SUFFICES ASSUME LeaseInv, [DlmNext]_dlmVars
               PROVE  LeaseInv'
    OBVIOUS
  <2>1. CASE UNCHANGED dlmVars
    BY <2>1 DEF dlmVars, LeaseInv, LeaseTypes, Booked, ClocksBelow, ClocksDiffer, OwnersAhead,
       Owns
  <2>2. ASSUME NEW c \in Clients, NEW l \in Locks, NEW ttl \in Ttls,
               dlm_acquire(c, l, ttl) \/ dlm_renew(c, l, ttl)
        PROVE  LeaseInv'
    BY <2>2, AcquireKeepsLeases, RenewKeepsLeases
  <2>3. ASSUME NEW c \in Clients, NEW l \in Locks, dlm_release(c, l)
        PROVE  LeaseInv'
    BY <2>3, ReleaseKeepsLeases
  <2>4. ASSUME NEW delta \in Ttls \ {0}, dlm_tick(delta)
        PROVE  LeaseInv'
    BY <2>4, TickKeepsLeases
  <2> QED
    BY <2>1, <2>2, <2>3, <2>4 DEF DlmNext
<1> QED
  BY <1>1, <1>2, LeaseInvImplies, PTL DEF DlmSpec
-----------------------------------------------------------------------------
(***************************************************************************)
(* The transaction over values of distributed_apps.c.  A commit writes what *)
(* the participants prepared, so what it leaves behind depends on the round *)
(* of votes before it: once PREPARED, everybody has voted yes for a value   *)
(* that is not 0.                                                           *)
(***************************************************************************)

DtxParticipant ==
  [state : {"INIT", "PREPARING", "PREPARED", "COMMITTED", "ABORTED"},
   vote_yes : BOOLEAN, data_value : Int, prepared_value : Int]

DtxInv ==
  /\ participants \in [Pids -> DtxParticipant]
  /\ coordinator_state \in {"INIT", "PREPARING", "PREPARED", "COMMITTED", "ABORTED"}
  /\ coordinator_state = "PREPARED" =>
       \A p \in Pids : participants[p].vote_yes /\ participants[p].prepared_value # 0
  /\ OneOutcome

(* Transaction over values: every participant has the coordinator's outcome,  *)
(* and a commit leaves no refused value anywhere, in whatever order a client  *)
(* sets values, prepares, commits and aborts.                                 *)
THEOREM OutcomeShared == DtxSpec => []OneOutcome
<1> USE DtxValuesAssumption DEF DtxInv, OneOutcome, DtxParticipant
<1>1. dtx_init => DtxInv
  BY DEF dtx_init
<1>2. DtxInv /\ [DtxNext]_dtxVars => DtxInv'
  <2> SUFFICES ASSUME DtxInv, [DtxNext]_dtxVars
               PROVE  DtxInv'
    OBVIOUS
  <2>1. ASSUME NEW pid \in Pids, NEW value \in DataValues, dtx_set_value(pid, value)
        PROVE  DtxInv'
    BY <2>1 DEF dtx_set_value
  <2>2. CASE dtx_prepare
    <3>1. \A p \in Pids : /\ participants'[p] = Vote(participants[p])
                          /\ participants[p] \in DtxParticipant
      BY <2>2 DEF dtx_prepare
    <3>2. ASSUME NEW p \in Pids
          PROVE  /\ participants'[p] \in DtxParticipant
                 /\ participants'[p].vote_yes => participants'[p].prepared_value # 0
                 /\ participants'[p].state \in {"PREPARED", "PREPARING"}
      <4> DEFINE x == participants[p]
      <4>1. x \in DtxParticipant /\ participants'[p] = Vote(x)
        BY <3>1
      <4> HIDE DEF x
      <4>2. CASE x.data_value # 0
        <5>1. Vote(x) = [state |-> "PREPARED", vote_yes |-> TRUE, data_value |-> x.data_value,
                         prepared_value |-> x.data_value]
          BY <4>1, <4>2 DEF Vote
        <5> QED
          BY <4>1, <4>2, <5>1
      <4>3. CASE x.data_value = 0
        <5>1. Vote(x) = [state |-> "PREPARING", vote_yes |-> FALSE, data_value |-> x.data_value,
                         prepared_value |-> x.prepared_value]
          BY <4>1, <4>3 DEF Vote
        <5> QED
          BY <4>1, <4>3, <5>1
      <4> QED
        BY <4>2, <4>3
    <3>3. participants' \in [Pids -> DtxParticipant]
      BY <2>2, <3>2 DEF dtx_prepare
    <3>4. /\ coordinator_state' \in {"PREPARED", "PREPARING"}
          /\ coordinator_state' = "PREPARED" => \A p \in Pids : participants'[p].vote_yes
      BY <2>2 DEF dtx_prepare, Decided
    <3> QED
      BY <3>2, <3>3, <3>4
  <2>3. CASE dtx_commit
    <3>1. ASSUME NEW p \in Pids
          PROVE  /\ participants'[p] \in DtxParticipant
                 /\ participants'[p].data_value # 0
                 /\ participants'[p].state = "COMMITTED"
      <4> DEFINE x == participants[p]
      <4>1. x \in DtxParticipant /\ x.prepared_value # 0
        BY <2>3 DEF dtx_commit
      <4>2. participants'[p] = [x EXCEPT !.state = "COMMITTED", !.data_value = x.prepared_value]
        BY <2>3 DEF dtx_commit
      <4> HIDE DEF x
      <4>3. participants'[p] = [state |-> "COMMITTED", vote_yes |-> x.vote_yes,
                                data_value |-> x.prepared_value,
                                prepared_value |-> x.prepared_value]
        BY <4>1, <4>2
      <4> QED
        BY <4>1, <4>3
    <3>2. participants' \in [Pids -> DtxParticipant] /\ coordinator_state' = "COMMITTED"
      BY <2>3, <3>1 DEF dtx_commit
    <3> QED
      BY <3>1, <3>2
  <2>4. CASE dtx_abort
    <3>1. ASSUME NEW p \in Pids
          PROVE  participants'[p] \in DtxParticipant /\ participants'[p].state = "ABORTED"
      <4> DEFINE x == participants[p]
      <4>1. x \in DtxParticipant
        OBVIOUS
      <4>2. participants'[p] = [x EXCEPT !.state = "ABORTED", !.data_value = 0,
                                         !.prepared_value = 0]
        BY <2>4 DEF dtx_abort
      <4> HIDE DEF x
      <4>3. participants'[p] = [state |-> "ABORTED", vote_yes |-> x.vote_yes,
                                data_value |-> 0, prepared_value |-> 0]
        BY <4>1, <4>2
      <4> QED
        BY <4>1, <4>3
    <3>2. participants' \in [Pids -> DtxParticipant] /\ coordinator_state' = "ABORTED"
      BY <2>4, <3>1 DEF dtx_abort
    <3> QED
      BY <3>1, <3>2
  <2>5. CASE UNCHANGED dtxVars
    BY <2>5 DEF dtxVars
  <2> QED
    BY <2>1, <2>2, <2>3, <2>4, <2>5 DEF DtxNext
<1>3. DtxInv => OneOutcome
  OBVIOUS
<1> QED
  BY <1>1, <1>2, <1>3, PTL DEF DtxSpec
-----------------------------------------------------------------------------
(* Loops.  What a loop computes is proved by the least iteration at which it *)
(* would go wrong.                                                           *)

(* A set of natural numbers that is not empty has a least element.           *)
LEMMA LeastNumber ==
  ASSUME NEW S, S \subseteq Nat, S # {}
  PROVE  \E x \in S : \A y \in S : x <= y
<1> DEFINE R == {p \in Nat \X Nat : p[1] < p[2]}
<1>1. IsWellFoundedOn(R, Nat)
  BY NatLessThanWellFounded, Zenon DEF OpToRel
<1>2. PICK x \in S : \A y \in S : ~(<<y, x>> \in R)
  <2> HIDE DEF R
  <2> QED
    BY <1>1, WFMin
<1>3. ASSUME NEW y \in S, y < x
      PROVE  FALSE
  BY <1>2, <1>3
<1> QED
  BY <1>3

(* What holds before a loop and is kept by every iteration holds throughout. *)
LEMMA LoopKeeps ==
  ASSUME NEW n \in Nat, NEW g, NEW P,
         g[0] \in P,
         \A k \in 1 .. n : g[k - 1] \in P => g[k] \in P
  PROVE  \A k \in 0 .. n : g[k] \in P
<1> DEFINE Bad == {k \in 0 .. n : g[k] \notin P}
<1>1. CASE Bad = {}
  BY <1>1
<1>2. CASE Bad # {}
  <2>1. PICK k \in Bad : \A l \in Bad : k <= l
    <3>1. Bad \subseteq Nat
      OBVIOUS
    <3> HIDE DEF Bad
    <3> QED
      BY <3>1, <1>2, LeastNumber
  <2>2. k # 0 /\ k \in 1 .. n /\ k - 1 \in 0 .. n
    OBVIOUS
  <2>3. g[k - 1] \in P
    <3>1. k - 1 \notin Bad
      <4> HIDE DEF Bad
      <4> QED
        BY <2>1, <2>2
    <3> QED
      BY <2>2, <3>1
  <2> QED
    BY <2>1, <2>2, <2>3
<1> QED
  BY <1>1, <1>2

(* A loop of n iterations from base has a course.                            *)
Course(g, n, S, base, step) ==
  /\ g \in [0 .. n -> S]
  /\ g[0] = base
  /\ \A k \in 1 .. n : g[k] = step[k][g[k - 1]]

LEMMA CourseGrows ==
  ASSUME NEW n \in Nat, NEW m \in Nat, m + 1 <= n, NEW S, NEW base \in S,
         NEW step \in [1 .. n -> [S -> S]], NEW g, Course(g, m, S, base, step)
  PROVE  \E h : Course(h, m + 1, S, base, step)
<1> DEFINE h == [k \in 0 .. m + 1 |-> IF k = m + 1 THEN step[m + 1][g[m]] ELSE g[k]]
<1>1. g \in [0 .. m -> S] /\ g[m] \in S /\ m \in 0 .. m
  BY DEF Course
<1>2. step[m + 1][g[m]] \in S
  <2>1. step[m + 1] \in [S -> S]
    OBVIOUS
  <2> QED
    BY <1>1, <2>1
<1>3. h \in [0 .. m + 1 -> S]
  BY <1>1, <1>2
<1>4. h[0] = base
  BY DEF Course
<1>5. ASSUME NEW k \in 1 .. m + 1
      PROVE  h[k] = step[k][h[k - 1]]
  <2>1. CASE k = m + 1
    <3>1. h[k - 1] = g[m]
      BY <2>1
    <3>2. h[k] = step[m + 1][g[m]]
      BY <2>1
    <3> QED
      BY <2>1, <3>1, <3>2
  <2>2. CASE k # m + 1
    <3>1. k \in 1 .. m /\ k - 1 \in 0 .. m /\ k - 1 # m + 1
      BY <2>2
    <3>2. h[k] = g[k] /\ h[k - 1] = g[k - 1]
      BY <2>2, <3>1
    <3> HIDE DEF h
    <3> QED
      BY <3>1, <3>2 DEF Course
  <2> QED
    BY <2>1, <2>2
<1> HIDE DEF h
<1> QED
  BY <1>3, <1>4, <1>5 DEF Course

LEMMA CourseExists ==
  ASSUME NEW n \in Nat, NEW S, NEW base \in S, NEW step \in [1 .. n -> [S -> S]]
  PROVE  \E g : Course(g, n, S, base, step)
<1> DEFINE Bad == {m \in 0 .. n : ~\E g : Course(g, m, S, base, step)}
<1>1. CASE Bad = {}
  <2>1. n \in 0 .. n
    OBVIOUS
  <2> QED
    BY <1>1, <2>1
<1>2. CASE Bad # {}
  <2>1. PICK m \in Bad : \A l \in Bad : m <= l
    <3>1. Bad \subseteq Nat
      OBVIOUS
    <3> HIDE DEF Bad
    <3> QED
      BY <3>1, <1>2, LeastNumber
  <2>2. m \in 0 .. n /\ ~\E g : Course(g, m, S, base, step)
    OBVIOUS
  <2>3. m # 0
    <3> DEFINE f == [k \in 0 .. 0 |-> base]
    <3>1. Course(f, 0, S, base, step)
      BY DEF Course
    <3> HIDE DEF f
    <3> QED
      BY <2>2, <3>1
  <2>4. m - 1 \in Nat /\ m - 1 \in 0 .. n /\ (m - 1) + 1 <= n /\ (m - 1) + 1 = m
    BY <2>2, <2>3
  <2>5. m - 1 \notin Bad
    <3> HIDE DEF Bad
    <3> QED
      BY <2>1, <2>2, <2>4
  <2>6. \E g : Course(g, m - 1, S, base, step)
    BY <2>4, <2>5
  <2>7. \E h : Course(h, (m - 1) + 1, S, base, step)
    BY <2>4, <2>6, CourseGrows
  <2> QED
    BY <2>2, <2>4, <2>7
<1> QED
  BY <1>1, <1>2
-----------------------------------------------------------------------------
(* The log on top of Paxos.  paxos_prepare asks every acceptor, so they all  *)
(* have promised the same number, the highest anybody ever prepared.         *)

Top == logAcceptors[0].promised_num

(* Every number in use, and the round that was learned, is within it.        *)
TopCovers ==
  /\ \A a \in Node : logAcceptors[a].promised_num = Top
  /\ \A p \in Node : proposal_num[p] <= Top
  /\ logLearners.learned_round <= Top

(* Who took the promise away from a leader did so with a number of its own   *)
(* range, and the leader's number is not that one.                           *)
LeaderOvertaken ==
  multi_paxos_leader # NoLeader /\ promised_to # multi_paxos_leader =>
    /\ promised_to \in Node
    /\ InRange(promised_to, Top)
    /\ proposal_num[multi_paxos_leader] # Top

(* An acceptor, whatever it accepted.                                        *)
IsAcceptor(acc) ==
  /\ acc = [ promised_num   |-> acc.promised_num,
             accepted_num   |-> acc.accepted_num,
             accepted_value |-> acc.accepted_value,
             has_accepted   |-> acc.has_accepted ]
  /\ acc.promised_num \in Nat

Acceptors(accs) == accs = [a \in Node |-> accs[a]] /\ \A a \in Node : IsAcceptor(accs[a])

MultiTypes ==
  /\ Acceptors(logAcceptors)
  /\ proposal_num \in [Node -> Nat]
  /\ logLearners.learned_round \in Nat
  /\ multi_paxos_leader \in Node \cup {NoLeader}

MultiInv == MultiTypes /\ TopCovers /\ LeaderOvertaken

LEMMA ZeroIsNode == 0 \in Node
  BY PaxosAssumption DEF Node

(* No majority is empty.                                                     *)
LEMMA MajorityMember ==
  ASSUME NEW S \in SUBSET Node, Majority(S)
  PROVE  \E a \in Node : a \in S
  BY QuorumMember DEF Majority, Quorum

(* What the two phases do to the promises.                                   *)
LEMMA PrepareAllEffect ==
  ASSUME NEW accs, NEW num \in Nat, NEW top \in Nat,
         Acceptors(accs),
         \A a \in Node : accs[a].promised_num = top
  PROVE  /\ Acceptors(PrepareAll(accs, num))
         /\ \A a \in Node : PrepareAll(accs, num)[a].promised_num =
                              IF num > top THEN num ELSE top
         /\ num > top => Promisers(accs, num) = Node
         /\ num <= top => Promisers(accs, num) = {}
<1>1. ASSUME NEW a \in Node
      PROVE  /\ IsAcceptor(paxos_promise(accs[a], num))
             /\ paxos_promise(accs[a], num).promised_num = IF num > top THEN num ELSE top
  BY DEF paxos_promise, Promises, Acceptors, IsAcceptor
<1>2. Promisers(accs, num) = {a \in Node : num > top}
  BY DEF Promisers, Promises
<1>3. /\ PrepareAll(accs, num) = [a \in Node |-> PrepareAll(accs, num)[a]]
      /\ \A a \in Node : PrepareAll(accs, num)[a] = paxos_promise(accs[a], num)
  BY DEF PrepareAll
<1>4. /\ num > top => Promisers(accs, num) = Node
      /\ num <= top => Promisers(accs, num) = {}
  BY <1>2
<1>5. Acceptors(PrepareAll(accs, num))
  BY <1>1, <1>3 DEF Acceptors
<1> QED
  BY <1>1, <1>3, <1>4, <1>5

LEMMA AcceptAllEffect ==
  ASSUME NEW accs, NEW num \in Nat, NEW v, Acceptors(accs)
  PROVE  /\ Acceptors(AcceptAll(accs, num, v))
         /\ \A a \in Node : AcceptAll(accs, num, v)[a].promised_num = accs[a].promised_num
<1>1. ASSUME NEW a \in Node
      PROVE  /\ IsAcceptor(paxos_accepted(accs[a], num, v))
             /\ paxos_accepted(accs[a], num, v).promised_num = accs[a].promised_num
  <2>1. IsAcceptor(accs[a])
    BY DEF Acceptors
  <2>2. CASE ~Accepts(accs[a], num)
    BY <2>1, <2>2 DEF paxos_accepted
  <2>3. CASE Accepts(accs[a], num)
    <3>1. paxos_accepted(accs[a], num, v) =
            [ promised_num |-> accs[a].promised_num, accepted_num |-> num,
              accepted_value |-> v, has_accepted |-> TRUE ]
      BY <2>1, <2>3 DEF paxos_accepted, IsAcceptor
    <3> QED
      BY <2>1, <3>1 DEF IsAcceptor
  <2> QED
    BY <2>2, <2>3
<1>2. /\ AcceptAll(accs, num, v) = [a \in Node |-> AcceptAll(accs, num, v)[a]]
      /\ \A a \in Node : AcceptAll(accs, num, v)[a] = paxos_accepted(accs[a], num, v)
  BY DEF AcceptAll
<1> QED
  BY <1>1, <1>2 DEF Acceptors

(* A majority that accepts a number has promised nothing above it.           *)
LEMMA AccepterBound ==
  ASSUME NEW accs, NEW num \in Nat, NEW top \in Nat,
         \A a \in Node : accs[a].promised_num = top,
         Majority(Accepters(accs, num))
  PROVE  num >= top
<1>1. PICK a \in Node : a \in Accepters(accs, num)
  BY MajorityMember DEF Accepters
<1> QED
  BY <1>1 DEF Accepters, Accepts

LEMMA MultiInitially == MultiInit => MultiInv
<1> SUFFICES ASSUME MultiInit PROVE MultiInv
  OBVIOUS
<1>1. IsAcceptor(FreshAcceptor) /\ FreshAcceptor.promised_num = 0
  BY DEF IsAcceptor, FreshAcceptor
<1>2. Acceptors(logAcceptors) /\ \A a \in Node : logAcceptors[a].promised_num = 0
  BY <1>1 DEF MultiInit, Acceptors
<1>3. Top = 0
  BY <1>2, ZeroIsNode DEF Top
<1> QED
  BY <1>2, <1>3 DEF MultiInit, MultiInv, MultiTypes, TopCovers, LeaderOvertaken, FreshLearner, NoLeader

LEMMA TopType == MultiInv => Top \in Nat
  BY ZeroIsNode DEF MultiInv, MultiTypes, Acceptors, IsAcceptor, Top

LEMMA MultiRun ==
  ASSUME MultiInv, NEW p \in Node, NEW v \in Values, paxos_run_instance(p, v)
  PROVE  MultiInv' /\ LearnsForward
<1> DEFINE num == NextProposal(p, proposal_num[p])
           accs == PrepareAll(logAcceptors, num)
           yes == Promisers(logAcceptors, num)
<1>1. Top \in Nat /\ Acceptors(logAcceptors) /\ \A a \in Node : logAcceptors[a].promised_num = Top
  BY TopType DEF MultiInv, MultiTypes, TopCovers
<1>2. num \in Nat /\ num > 0 /\ InRange(p, num)
  BY NextInRange DEF MultiInv, MultiTypes
<1>3. /\ Acceptors(accs)
      /\ \A a \in Node : accs[a].promised_num = IF num > Top THEN num ELSE Top
      /\ num > Top => yes = Node
      /\ num <= Top => yes = {}
  BY <1>1, <1>2, PrepareAllEffect
<1> DEFINE top == IF num > Top THEN num ELSE Top
           final == FinalValue(logAcceptors, yes, v)
<1>4. /\ logAcceptors' = IF Majority(yes) THEN AcceptAll(accs, num, final) ELSE accs
      /\ proposal_num' = [proposal_num EXCEPT ![p] = num]
      /\ logLearners' = IF Majority(yes) /\ Majority(Accepters(accs, num))
                        THEN LearnedAt(num, final) ELSE logLearners
      /\ promised_to' = IF yes = {} THEN promised_to ELSE p
      /\ multi_paxos_leader' = multi_paxos_leader
  BY DEF paxos_run_instance
<1> HIDE DEF num, accs, yes, final
<1>5. Acceptors(logAcceptors') /\ \A a \in Node : logAcceptors'[a].promised_num = top
  BY <1>2, <1>3, <1>4, AcceptAllEffect
<1>6. Top' = top
  BY <1>5, ZeroIsNode DEF Top
<1>7. \/ logLearners'.learned_round = logLearners.learned_round
      \/ logLearners'.learned_round = num /\ num >= top
  <2>1. CASE Majority(yes) /\ Majority(Accepters(accs, num))
    <3>1. num >= top
      BY <2>1, <1>1, <1>2, <1>3, AccepterBound
    <3> QED
      BY <2>1, <3>1, <1>4 DEF LearnedAt
  <2> QED
    BY <2>1, <1>4
<1>8. TopCovers' /\ LearnsForward /\ MultiTypes'
  <2>1. \A q \in Node : proposal_num'[q] \in Nat /\ proposal_num'[q] <= top
    BY <1>1, <1>2, <1>4 DEF MultiInv, MultiTypes, TopCovers
  <2>2. logLearners.learned_round \in Nat /\ logLearners.learned_round <= Top
    BY DEF MultiInv, MultiTypes, TopCovers
  <2>3. proposal_num' \in [Node -> Nat]
    BY <1>2, <1>4 DEF MultiInv, MultiTypes
  <2> QED
    BY <1>1, <1>2, <1>4, <1>5, <1>6, <1>7, <2>1, <2>2, <2>3
       DEF TopCovers, LearnsForward, MultiTypes, MultiInv
<1>9. LeaderOvertaken'
  <2> SUFFICES ASSUME multi_paxos_leader # NoLeader, promised_to' # multi_paxos_leader
               PROVE  /\ promised_to' \in Node
                      /\ InRange(promised_to', top)
                      /\ proposal_num'[multi_paxos_leader] # top
    BY <1>4, <1>6 DEF LeaderOvertaken, InRange
  <2>0. multi_paxos_leader \in Node /\ proposal_num[multi_paxos_leader] \in Nat
        /\ proposal_num[multi_paxos_leader] <= Top /\ proposal_num \in [Node -> Nat]
    BY DEF MultiInv, MultiTypes, TopCovers
  <2>1. CASE num > Top
    <3>1. promised_to' = p /\ top = num
      BY <2>1, <1>3, <1>4, ZeroIsNode
    <3>2. proposal_num'[multi_paxos_leader] = proposal_num[multi_paxos_leader]
      BY <3>1, <2>0, <1>4
    <3> QED
      BY <2>0, <2>1, <3>1, <3>2, <1>1, <1>2
  <2>2. CASE num <= Top
    <3>1. promised_to' = promised_to /\ top = Top
      BY <2>2, <1>1, <1>2, <1>3, <1>4
    <3>2. /\ promised_to \in Node /\ InRange(promised_to, Top)
          /\ proposal_num[multi_paxos_leader] # Top
      BY <3>1 DEF MultiInv, LeaderOvertaken
    <3>3. CASE multi_paxos_leader = p
      <4>1. num # Top
        BY <1>1, <1>2, <3>1, <3>2, <3>3, RangesDisjoint
      <4> QED
        BY <4>1, <3>1, <3>2, <3>3, <2>0, <1>4
    <3>4. CASE multi_paxos_leader # p
      BY <3>1, <3>2, <3>4, <2>0, <1>4
    <3> QED
      BY <3>3, <3>4
  <2> QED
    BY <2>1, <2>2, <1>1, <1>2
<1> QED
  BY <1>8, <1>9 DEF MultiInv

LEMMA MultiReset ==
  ASSUME MultiInv, NEW p \in Node, multi_reset_proposer(p)
  PROVE  MultiInv' /\ LearnsForward
<1>1. /\ proposal_num' = [proposal_num EXCEPT ![p] = 0]
      /\ logAcceptors' = logAcceptors /\ logLearners' = logLearners
      /\ multi_paxos_leader' = multi_paxos_leader /\ promised_to' = promised_to
  BY DEF multi_reset_proposer
<1>2. Top \in Nat /\ Top' = Top
  BY <1>1, TopType DEF Top
<1>3. ASSUME NEW q \in Node, InRange(q, Top) PROVE Top # 0
  <2>1. (q + 1) * Stride \in Nat
    BY NodesFinite, PaxosAssumption
  <2> QED
    BY <1>2, <1>3, <2>1 DEF InRange
<1>4. MultiTypes' /\ TopCovers' /\ LearnsForward
  BY <1>1, <1>2 DEF MultiInv, MultiTypes, TopCovers, LearnsForward
<1>5. LeaderOvertaken'
  BY <1>1, <1>2, <1>3 DEF MultiInv, MultiTypes, LeaderOvertaken, InRange
<1> QED
  BY <1>4, <1>5 DEF MultiInv

LEMMA MultiReplicate ==
  ASSUME MultiInv, NEW p \in Node, NEW v \in Values, multi_paxos_replicate(p, v)
  PROVE  MultiInv' /\ LearnsForward
<1> DEFINE num == proposal_num[p]
<1>1. /\ Top \in Nat /\ Acceptors(logAcceptors) /\ num \in Nat /\ num <= Top
      /\ \A a \in Node : logAcceptors[a].promised_num = Top
  BY TopType DEF MultiInv, MultiTypes, TopCovers
<1>2. /\ logAcceptors' = AcceptAll(logAcceptors, num, v)
      /\ logLearners' = IF Majority(Accepters(logAcceptors, num))
                        THEN LearnedAt(num, v) ELSE logLearners
      /\ proposal_num' = proposal_num /\ promised_to' = promised_to
      /\ multi_paxos_leader' = multi_paxos_leader
  BY DEF multi_paxos_replicate
<1> HIDE DEF num
<1>3. Acceptors(logAcceptors') /\ \A a \in Node : logAcceptors'[a].promised_num = Top
  BY <1>1, <1>2, AcceptAllEffect
<1>4. Top' = Top
  BY <1>3, ZeroIsNode DEF Top
<1>5. \/ logLearners'.learned_round = logLearners.learned_round
      \/ logLearners'.learned_round = num /\ num >= Top
  <2>1. CASE Majority(Accepters(logAcceptors, num))
    BY <2>1, <1>1, <1>2, AccepterBound DEF LearnedAt
  <2> QED
    BY <2>1, <1>2
<1>6. logLearners.learned_round \in Nat /\ logLearners.learned_round <= Top
  BY DEF MultiInv, MultiTypes, TopCovers
<1>7. MultiTypes' /\ TopCovers' /\ LearnsForward
  BY <1>1, <1>2, <1>3, <1>4, <1>5, <1>6
     DEF MultiInv, MultiTypes, TopCovers, LearnsForward
<1>8. LeaderOvertaken'
  BY <1>2, <1>4 DEF MultiInv, LeaderOvertaken, InRange
<1> QED
  BY <1>7, <1>8 DEF MultiInv

LEMMA MultiBecome ==
  ASSUME MultiInv, NEW p \in Node, multi_paxos_become_leader(p)
  PROVE  MultiInv' /\ LearnsForward
<1> DEFINE Num(k) == proposal_num[p] + k * Stride
           good == {k \in 1 .. Tries : Majority(Promisers(logAcceptors, Num(k)))}
           last == IF good = {} THEN Tries ELSE CHOOSE k \in good : \A l \in good : k <= l
           num == Num(last)
<1>1. Top \in Nat /\ Acceptors(logAcceptors) /\ \A a \in Node : logAcceptors[a].promised_num = Top
  BY TopType DEF MultiInv, MultiTypes, TopCovers
<1>2. /\ proposal_num' = [proposal_num EXCEPT ![p] = num]
      /\ logAcceptors' = PrepareAll(logAcceptors, num)
      /\ multi_paxos_leader' = IF good = {} THEN NoLeader ELSE p
      /\ promised_to' = IF Promisers(logAcceptors, num) = {} THEN promised_to ELSE p
      /\ logLearners' = logLearners
  BY DEF multi_paxos_become_leader
<1>3. last \in Nat /\ (good # {} => last \in good)
  <2>1. CASE good = {}
    BY <2>1, MultiPaxosAssumption
  <2>2. CASE good # {}
    <3>1. good \in SUBSET Nat
      BY MultiPaxosAssumption
    <3> HIDE DEF good
    <3>2. \E k \in good : \A l \in good : k <= l
      BY <3>1, <2>2, LeastNumber
    <3> QED
      BY <2>2, <3>1, <3>2
  <2> QED
    BY <2>1, <2>2
<1>4. num \in Nat
  <2>1. proposal_num[p] \in Nat /\ Stride \in Nat
    BY PaxosAssumption DEF MultiInv, MultiTypes
  <2> HIDE DEF last
  <2>2. last * Stride \in Nat
    BY <2>1, <1>3
  <2> QED
    BY <2>1, <2>2
<1>5. good # {} => Majority(Promisers(logAcceptors, num))
  BY <1>3
<1> HIDE DEF num, good
<1> DEFINE top == IF num > Top THEN num ELSE Top
<1>6. /\ Acceptors(logAcceptors')
      /\ \A a \in Node : logAcceptors'[a].promised_num = top
      /\ num > Top => Promisers(logAcceptors, num) = Node
      /\ num <= Top => Promisers(logAcceptors, num) = {}
  BY <1>1, <1>2, <1>4, PrepareAllEffect
<1>7. Top' = top
  BY <1>6, ZeroIsNode DEF Top
<1>8. good # {} => promised_to' = p
  <2>1. ASSUME good # {} PROVE Promisers(logAcceptors, num) # {}
    BY <2>1, <1>5, MajorityMember DEF Promisers
  <2> QED
    BY <1>2, <2>1
<1>9. \A q \in Node : proposal_num'[q] \in Nat /\ proposal_num'[q] <= top
  BY <1>1, <1>2, <1>4 DEF MultiInv, MultiTypes, TopCovers
<1>10. proposal_num' \in [Node -> Nat]
  BY <1>2, <1>4 DEF MultiInv, MultiTypes
<1>11. MultiTypes' /\ TopCovers' /\ LearnsForward
  BY <1>1, <1>2, <1>4, <1>6, <1>7, <1>9, <1>10
     DEF MultiInv, MultiTypes, TopCovers, LearnsForward
<1>12. LeaderOvertaken'
  BY <1>2, <1>8 DEF LeaderOvertaken
<1> QED
  BY <1>11, <1>12 DEF MultiInv

LEMMA MultiStep == MultiInv /\ [MultiNext]_multiVars => MultiInv' /\ LearnsForward
<1> SUFFICES ASSUME MultiInv, [MultiNext]_multiVars PROVE MultiInv' /\ LearnsForward
  OBVIOUS
<1>1. CASE UNCHANGED multiVars
  BY <1>1 DEF multiVars, MultiInv, MultiTypes, TopCovers, LeaderOvertaken, Top, InRange, LearnsForward
<1>2. CASE MultiNext
  BY <1>2, MultiRun, MultiReset, MultiReplicate, MultiBecome DEF MultiNext
<1> QED
  BY <1>1, <1>2

LEMMA MultiInvariant == MultiSpec => []MultiInv
  BY MultiInitially, MultiStep, PTL DEF MultiSpec

(* multi_paxos_become_leader, multi_paxos_replicate: the acceptors take      *)
(* entries only from the leader to which they promised last.                 *)
THEOREM LeaderHolds == MultiSpec => []LeaderHoldsPromise
<1>1. MultiInv => LeaderHoldsPromise
  <2> SUFFICES ASSUME MultiInv, multi_paxos_leader # NoLeader,
                      Majority(Accepters(logAcceptors, proposal_num[multi_paxos_leader])),
                      promised_to # multi_paxos_leader
               PROVE  FALSE
    BY DEF LeaderHoldsPromise
  <2>1. /\ multi_paxos_leader \in Node
        /\ proposal_num[multi_paxos_leader] \in Nat
        /\ proposal_num[multi_paxos_leader] <= Top
        /\ \A a \in Node : logAcceptors[a].promised_num = Top
        /\ Top \in Nat
        /\ proposal_num[multi_paxos_leader] # Top
    BY TopType DEF MultiInv, MultiTypes, TopCovers, LeaderOvertaken
  <2>2. proposal_num[multi_paxos_leader] >= Top
    BY <2>1, AccepterBound
  <2> QED
    BY <2>1, <2>2
<1> QED
  BY <1>1, MultiInvariant, PTL
-----------------------------------------------------------------------------
(* SWIM.  Every lookup finds the first entry with an id, so an entry behind  *)
(* another one with its id stays as it was when it joined; a first entry's   *)
(* incarnation is at least that of every message sent about it.  Merging     *)
(* what was sent, at once or later, therefore changes nothing.               *)

(* Entries behind another one with the same id.                              *)
IsFirst(ms, k) == \A j \in DOMAIN ms : j < k => ms[j].id # ms[k].id

LaterFresh(ms) ==
  \A k \in DOMAIN ms : ~IsFirst(ms, k) => ms[k].state = "ALIVE"

Table(ms) == ms \in Seq(SWIMMember) /\ LaterFresh(ms)

SentOld(ms, msgs) ==
  \A c \in msgs :
    c.incarnation \in Nat /\ HasId(ms, c.id) /\ c.incarnation <= ms[Find(ms, c.id)].incarnation

InTime(ms, now) ==
  \A k \in DOMAIN ms :
    ms[k].active /\ ms[k].state = "SUSPECTED" => now - ms[k].suspect_since_ms <= DeadTimeout

(* The timer of a suspect is the time at which its suspicion began.           *)
Watched ==
  \A k \in DOMAIN members :
    members[k].state = "SUSPECTED" => since[k] = members[k].suspect_since_ms

SwimInv ==
  /\ Table(members)
  /\ time \in Nat
  /\ SentOld(members, sent)
  /\ InTime(members, time)
  /\ Watched

(* What a call may do to an entry: incarnations grow, with every change of   *)
(* state, and the dead stay dead.                                            *)
EntryGrows(m, n) ==
  /\ n.id = m.id
  /\ n.incarnation >= m.incarnation
  /\ m.state = "DEAD" => n.state = "DEAD"
  /\ m.state # n.state => n.incarnation > m.incarnation

Grows(ms, ns) ==
  /\ Table(ns)
  /\ Len(ms) <= Len(ns)
  /\ \A k \in DOMAIN ms : EntryGrows(ms[k], ns[k])

LEMMA MemberFields ==
  ASSUME NEW m \in SWIMMember
  PROVE  m.id \in Nat /\ m.incarnation \in Nat /\ m.suspect_since_ms \in Nat
         /\ m.state \in {"ALIVE", "SUSPECTED", "DEAD"}
  BY DEF SWIMMember

LEMMA TableEntry ==
  ASSUME NEW ms \in Seq(SWIMMember), NEW k \in DOMAIN ms
  PROVE  /\ ms[k] \in SWIMMember /\ k \in Nat /\ k \in 1 .. Len(ms)
         /\ ms[k].id \in Nat /\ ms[k].incarnation \in Nat /\ ms[k].suspect_since_ms \in Nat
         /\ ms[k].state \in {"ALIVE", "SUSPECTED", "DEAD"}
<1>1. ms[k] \in SWIMMember /\ k \in Nat /\ k \in 1 .. Len(ms)
  OBVIOUS
<1> QED
  BY <1>1, MemberFields

LEMMA FindFirst ==
  ASSUME NEW ms \in Seq(SWIMMember), NEW id, HasId(ms, id)
  PROVE  /\ Find(ms, id) \in DOMAIN ms
         /\ ms[Find(ms, id)].id = id
         /\ \A j \in DOMAIN ms : ms[j].id = id => Find(ms, id) <= j
<1> DEFINE S == {k \in DOMAIN ms : ms[k].id = id}
<1>1. S \subseteq Nat /\ S # {}
  BY DEF HasId
<1>2. \E x \in S : \A y \in S : x <= y
  <2> HIDE DEF S
  <2> QED
    BY <1>1, LeastNumber
<1>3. Min(S) \in S /\ \A y \in S : Min(S) <= y
  <2> HIDE DEF S
  <2> QED
    BY <1>2 DEF Min
<1>4. Find(ms, id) = Min(S)
  BY DEF Find
<1> HIDE DEF S
<1>5. \A k : k \in S <=> k \in DOMAIN ms /\ ms[k].id = id
  BY DEF S
<1> QED
  BY <1>3, <1>4, <1>5

LEMMA FirstIsFound ==
  ASSUME NEW ms \in Seq(SWIMMember), NEW k \in DOMAIN ms, IsFirst(ms, k)
  PROVE  HasId(ms, ms[k].id) /\ Find(ms, ms[k].id) = k
<1>1. HasId(ms, ms[k].id)
  BY DEF HasId
<1>2. /\ Find(ms, ms[k].id) \in DOMAIN ms
      /\ ms[Find(ms, ms[k].id)].id = ms[k].id
      /\ Find(ms, ms[k].id) <= k
  BY <1>1, FindFirst
<1>3. Find(ms, ms[k].id) \in Nat /\ k \in Nat
  BY <1>2
<1> QED
  BY <1>1, <1>2, <1>3 DEF IsFirst

(* A table that grew finds what the old one found.                           *)
LEMMA FindKept ==
  ASSUME NEW ms \in Seq(SWIMMember), NEW ns, Grows(ms, ns), NEW id, HasId(ms, id)
  PROVE  HasId(ns, id) /\ Find(ns, id) = Find(ms, id)
<1>0. ns \in Seq(SWIMMember) /\ Len(ms) \in Nat /\ Len(ns) \in Nat /\ Len(ms) <= Len(ns)
  BY DEF Grows, Table
<1>1. DOMAIN ms = 1 .. Len(ms) /\ DOMAIN ns = 1 .. Len(ns)
  BY <1>0
<1>2. \A k \in DOMAIN ms : k \in DOMAIN ns /\ ns[k].id = ms[k].id
  BY <1>0, <1>1 DEF Grows, EntryGrows
<1>3. /\ Find(ms, id) \in DOMAIN ms /\ ms[Find(ms, id)].id = id
      /\ \A j \in DOMAIN ms : ms[j].id = id => Find(ms, id) <= j
  BY FindFirst
<1>4. HasId(ns, id)
  BY <1>2, <1>3 DEF HasId
<1>5. /\ Find(ns, id) \in DOMAIN ns /\ ns[Find(ns, id)].id = id
      /\ \A j \in DOMAIN ns : ns[j].id = id => Find(ns, id) <= j
  BY <1>0, <1>4, FindFirst
<1>6. Find(ns, id) <= Find(ms, id)
  BY <1>2, <1>3, <1>5
<1>7. Find(ns, id) \in DOMAIN ms
  BY <1>0, <1>1, <1>3, <1>5, <1>6
<1> QED
  BY <1>1, <1>2, <1>3, <1>4, <1>5, <1>6, <1>7

LEMMA SentKept ==
  ASSUME NEW ms \in Seq(SWIMMember), NEW ns, Grows(ms, ns), NEW msgs, SentOld(ms, msgs)
  PROVE  SentOld(ns, msgs)
<1> SUFFICES ASSUME NEW c \in msgs
             PROVE  /\ c.incarnation \in Nat
                    /\ HasId(ns, c.id) /\ c.incarnation <= ns[Find(ns, c.id)].incarnation
  BY DEF SentOld
<1>1. c.incarnation \in Nat /\ HasId(ms, c.id) /\ c.incarnation <= ms[Find(ms, c.id)].incarnation
  BY DEF SentOld
<1>2. HasId(ns, c.id) /\ Find(ns, c.id) = Find(ms, c.id)
  BY <1>1, FindKept
<1>3. Find(ms, c.id) \in DOMAIN ms /\ ns \in Seq(SWIMMember) /\ Find(ns, c.id) \in DOMAIN ns
  BY <1>1, <1>2, FindFirst DEF Grows, Table
<1>4. /\ ms[Find(ms, c.id)].incarnation \in Nat
      /\ ns[Find(ns, c.id)].incarnation \in Nat
      /\ ns[Find(ms, c.id)].incarnation >= ms[Find(ms, c.id)].incarnation
  BY <1>3, TableEntry DEF Grows, EntryGrows
<1> QED
  BY <1>1, <1>2, <1>4

LEMMA GrowsTrans ==
  ASSUME NEW ms, NEW ns, NEW os, Table(ms), Grows(ms, ns), Grows(ns, os)
  PROVE  Grows(ms, os)
<1>1. /\ ms \in Seq(SWIMMember) /\ ns \in Seq(SWIMMember) /\ os \in Seq(SWIMMember)
      /\ Len(ms) <= Len(ns) /\ Len(ns) <= Len(os)
  BY DEF Grows, Table
<1>2. Len(ms) \in Nat /\ Len(ns) \in Nat /\ Len(os) \in Nat
  BY <1>1
<1>3. ASSUME NEW k \in DOMAIN ms
      PROVE  EntryGrows(ms[k], os[k])
  <2>1. k \in DOMAIN ns /\ k \in DOMAIN os
    BY <1>1, <1>2
  <2>2. /\ ms[k].incarnation \in Nat /\ ns[k].incarnation \in Nat /\ os[k].incarnation \in Nat
    BY <1>1, <2>1, TableEntry
  <2>3. EntryGrows(ms[k], ns[k]) /\ EntryGrows(ns[k], os[k])
    BY <2>1 DEF Grows
  <2> QED
    BY <2>2, <2>3 DEF EntryGrows
<1> QED
  BY <1>1, <1>2, <1>3 DEF Grows

LEMMA GrowsRefl ==
  ASSUME NEW ms, Table(ms)
  PROVE  Grows(ms, ms)
<1>1. ms \in Seq(SWIMMember) /\ Len(ms) \in Nat
  BY DEF Table
<1>2. ASSUME NEW k \in DOMAIN ms PROVE EntryGrows(ms[k], ms[k])
  BY <1>1, TableEntry DEF EntryGrows
<1> QED
  BY <1>1, <1>2 DEF Grows

(* A call that changes entries in place, and only first ones.                *)
LEMMA GrowsInPlace ==
  ASSUME NEW ms, Table(ms), NEW ns \in Seq(SWIMMember), Len(ns) = Len(ms),
         \A k \in DOMAIN ms :
           /\ EntryGrows(ms[k], ns[k])
           /\ ms[k].state = "ALIVE" /\ ns[k].state # "ALIVE" => IsFirst(ms, k)
  PROVE  Grows(ms, ns)
<1>1. ms \in Seq(SWIMMember) /\ LaterFresh(ms) /\ Len(ms) \in Nat
  BY DEF Table
<1>2. DOMAIN ns = DOMAIN ms
  BY <1>1
<1>3. \A k \in DOMAIN ms : IsFirst(ns, k) <=> IsFirst(ms, k)
  BY <1>2 DEF IsFirst, EntryGrows
<1>4. LaterFresh(ns)
  BY <1>1, <1>2, <1>3 DEF LaterFresh
<1> QED
  BY <1>1, <1>4 DEF Grows, Table

LEMMA ChangedEntry ==
  ASSUME NEW m \in SWIMMember, NEW s \in {"ALIVE", "SUSPECTED", "DEAD"}
  PROVE  /\ Changed(m, s) \in SWIMMember
         /\ Changed(m, s).id = m.id /\ Changed(m, s).state = s
         /\ Changed(m, s).incarnation = m.incarnation + 1
         /\ Changed(m, s).suspect_since_ms = m.suspect_since_ms
         /\ Changed(m, s).active = m.active
<1> DEFINE n == [m EXCEPT !.state = s]
<1>1. /\ n \in SWIMMember /\ n.id = m.id /\ n.state = s /\ n.incarnation = m.incarnation
      /\ n.suspect_since_ms = m.suspect_since_ms /\ n.active = m.active
  BY DEF SWIMMember
<1>2. m.incarnation \in Nat
  BY MemberFields
<1>3. Changed(m, s) = [n EXCEPT !.incarnation = n.incarnation + 1]
  BY DEF Changed
<1> HIDE DEF n
<1>4. LET o == [n EXCEPT !.incarnation = n.incarnation + 1]
      IN  /\ o \in SWIMMember /\ o.id = n.id /\ o.state = n.state
          /\ o.incarnation = n.incarnation + 1
          /\ o.suspect_since_ms = n.suspect_since_ms /\ o.active = n.active
  BY <1>1, <1>2 DEF SWIMMember
<1> QED
  BY <1>1, <1>3, <1>4

LEMMA SuspectEntry ==
  ASSUME NEW m \in SWIMMember, NEW now \in Nat
  PROVE  LET n == [Changed(m, "SUSPECTED") EXCEPT !.suspect_since_ms = now]
         IN  /\ n \in SWIMMember
             /\ n.id = m.id /\ n.state = "SUSPECTED"
             /\ n.incarnation = m.incarnation + 1
             /\ n.suspect_since_ms = now
             /\ n.active = m.active
<1> DEFINE c == Changed(m, "SUSPECTED")
<1>1. /\ c \in SWIMMember /\ c.id = m.id /\ c.state = "SUSPECTED"
      /\ c.incarnation = m.incarnation + 1 /\ c.active = m.active
  BY ChangedEntry
<1> HIDE DEF c
<1>2. LET n == [c EXCEPT !.suspect_since_ms = now]
      IN  /\ n \in SWIMMember /\ n.id = c.id /\ n.state = c.state
          /\ n.incarnation = c.incarnation
          /\ n.suspect_since_ms = now /\ n.active = c.active
  BY <1>1 DEF SWIMMember
<1> QED
  BY <1>1, <1>2 DEF c

LEMMA RaisedEntry ==
  ASSUME NEW m \in SWIMMember, NEW i \in Nat, i >= m.incarnation
  PROVE  LET n == [m EXCEPT !.incarnation = i]
         IN  /\ n \in SWIMMember
             /\ n.id = m.id /\ n.state = m.state
             /\ n.incarnation = i
             /\ n.suspect_since_ms = m.suspect_since_ms
             /\ n.active = m.active
  BY DEF SWIMMember

LEMMA MaxOfTwo ==
  ASSUME NEW a \in Nat, NEW b \in Nat
  PROVE  Max({a, b}) \in Nat /\ Max({a, b}) >= a /\ Max({a, b}) >= b
<1>1. \E x \in {a, b} : \A y \in {a, b} : x >= y
  OBVIOUS
<1> QED
  BY <1>1 DEF Max

(* The entry that a lookup finds is replaced.                                *)
LEMMA EditFirst ==
  ASSUME NEW ms, Table(ms), NEW id, HasId(ms, id), NEW m \in SWIMMember,
         EntryGrows(ms[Find(ms, id)], m)
  PROVE  Grows(ms, [ms EXCEPT ![Find(ms, id)] = m])
<1> DEFINE k == Find(ms, id)
           ns == [ms EXCEPT ![k] = m]
<1>1. ms \in Seq(SWIMMember)
  BY DEF Table
<1>2. k \in DOMAIN ms /\ ms[k].id = id /\ \A j \in DOMAIN ms : ms[j].id = id => k <= j
  BY <1>1, FindFirst
<1> HIDE DEF k
<1>3. ns \in Seq(SWIMMember) /\ Len(ns) = Len(ms) /\ DOMAIN ns = DOMAIN ms
  BY <1>1, <1>2
<1>4. IsFirst(ms, k)
  BY <1>1, <1>2 DEF IsFirst
<1>5. ASSUME NEW j \in DOMAIN ms
      PROVE  /\ EntryGrows(ms[j], ns[j])
             /\ ms[j].state = "ALIVE" /\ ns[j].state # "ALIVE" => IsFirst(ms, j)
  <2>1. CASE j = k
    BY <2>1, <1>1, <1>2, <1>4 DEF k
  <2>2. CASE j # k
    <3>1. ns[j] = ms[j]
      BY <2>2, <1>1
    <3> QED
      BY <3>1, <1>1, TableEntry DEF EntryGrows
  <2> QED
    BY <2>1, <2>2
<1> QED
  BY <1>3, <1>5, GrowsInPlace DEF k

LEMMA EditInTime ==
  ASSUME NEW ms, NEW now, InTime(ms, now), NEW k, NEW m,
         m.active /\ m.state = "SUSPECTED" => now - m.suspect_since_ms <= DeadTimeout
  PROVE  InTime([ms EXCEPT ![k] = m], now)
<1>1. ASSUME NEW j \in DOMAIN ms
      PROVE  [ms EXCEPT ![k] = m][j] = IF j = k THEN m ELSE ms[j]
  OBVIOUS
<1>2. DOMAIN [ms EXCEPT ![k] = m] = DOMAIN ms
  OBVIOUS
<1> QED
  BY <1>1, <1>2 DEF InTime

LEMMA SuspectedEffect ==
  ASSUME NEW ms, Table(ms), NEW id, NEW now \in Nat, InTime(ms, now)
  PROVE  Grows(ms, Suspected(ms, id, now)) /\ InTime(Suspected(ms, id, now), now)
<1> DEFINE k == Find(ms, id)
           n == [Changed(ms[k], "SUSPECTED") EXCEPT !.suspect_since_ms = now]
<1>1. CASE HasId(ms, id) /\ ms[k].state = "ALIVE"
  <2>1. ms \in Seq(SWIMMember) /\ k \in DOMAIN ms /\ ms[k] \in SWIMMember
        /\ ms[k].incarnation \in Nat
    BY <1>1, FindFirst, TableEntry DEF Table
  <2>2. /\ n \in SWIMMember /\ n.id = ms[k].id /\ n.state = "SUSPECTED"
        /\ n.incarnation = ms[k].incarnation + 1 /\ n.suspect_since_ms = now
    BY <2>1, SuspectEntry
  <2>3. Suspected(ms, id, now) = [ms EXCEPT ![k] = n]
    BY <1>1, <2>1 DEF Suspected
  <2> HIDE DEF n
  <2>4. EntryGrows(ms[k], n)
    BY <1>1, <2>1, <2>2 DEF EntryGrows
  <2>5. now - n.suspect_since_ms <= DeadTimeout
    BY <2>2, SwimAssumption
  <2>6. Grows(ms, [ms EXCEPT ![k] = n])
    BY <1>1, <2>2, <2>4, EditFirst
  <2>7. InTime([ms EXCEPT ![k] = n], now)
    BY <2>5, EditInTime
  <2> QED
    BY <2>3, <2>6, <2>7
<1>2. CASE ~(HasId(ms, id) /\ ms[k].state = "ALIVE")
  <2>1. Suspected(ms, id, now) = ms
    BY <1>2 DEF Suspected
  <2> QED
    BY <2>1, GrowsRefl
<1> QED
  BY <1>1, <1>2

LEMMA AnsweredEffect ==
  ASSUME NEW ms, Table(ms), NEW id, NEW inc \in Nat, NEW now, InTime(ms, now)
  PROVE  /\ Grows(ms, Answered(ms, id, inc)) /\ InTime(Answered(ms, id, inc), now)
         /\ \A k \in DOMAIN ms : ms[k].state = "ALIVE" => Answered(ms, id, inc)[k].state = "ALIVE"
<1> DEFINE k == Find(ms, id)
           i == Max({ms[k].incarnation, inc})
           m == [ms[k] EXCEPT !.incarnation = i]
           n == IF m.state = "SUSPECTED" THEN Changed(m, "ALIVE") ELSE m
<1>1. CASE HasId(ms, id)
  <2>1. ms \in Seq(SWIMMember) /\ k \in DOMAIN ms /\ ms[k] \in SWIMMember
        /\ ms[k].incarnation \in Nat
    BY <1>1, FindFirst, TableEntry DEF Table
  <2>2. i \in Nat /\ i >= ms[k].incarnation
    BY <2>1, MaxOfTwo
  <2> HIDE DEF i
  <2>3. /\ m \in SWIMMember /\ m.id = ms[k].id /\ m.state = ms[k].state
        /\ m.incarnation = i /\ m.suspect_since_ms = ms[k].suspect_since_ms
        /\ m.active = ms[k].active
    BY <2>1, <2>2, RaisedEntry
  <2>4. Answered(ms, id, inc) = [ms EXCEPT ![k] = n]
    BY <1>1, <2>1 DEF Answered, i
  <2> HIDE DEF m
  <2>5. /\ n \in SWIMMember /\ n.id = ms[k].id /\ n.incarnation >= ms[k].incarnation
        /\ ms[k].state = "SUSPECTED" => n.state = "ALIVE" /\ n.incarnation > ms[k].incarnation
        /\ ms[k].state # "SUSPECTED" => n.state = ms[k].state
    <3>1. CASE m.state = "SUSPECTED"
      BY <3>1, <2>1, <2>2, <2>3, ChangedEntry
    <3>2. CASE m.state # "SUSPECTED"
      BY <3>2, <2>1, <2>2, <2>3
    <3> QED
      BY <3>1, <3>2
  <2> HIDE DEF n
  <2>6. EntryGrows(ms[k], n)
    BY <2>1, <2>5 DEF EntryGrows
  <2>7. n.state # "SUSPECTED"
    BY <2>5
  <2>8. Grows(ms, [ms EXCEPT ![k] = n])
    BY <1>1, <2>5, <2>6, EditFirst
  <2>9. InTime([ms EXCEPT ![k] = n], now)
    BY <2>7, EditInTime
  <2>10. \A j \in DOMAIN ms : ms[j].state = "ALIVE" => [ms EXCEPT ![k] = n][j].state = "ALIVE"
    BY <2>1, <2>5
  <2> QED
    BY <2>4, <2>8, <2>9, <2>10
<1>2. CASE ~HasId(ms, id)
  <2>1. Answered(ms, id, inc) = ms
    BY <1>2 DEF Answered
  <2> QED
    BY <2>1, GrowsRefl
<1> QED
  BY <1>1, <1>2

LEMMA SweepEffect ==
  ASSUME NEW ms, Table(ms), NEW now \in Nat
  PROVE  /\ Grows(ms, Sweep(ms, now)) /\ InTime(Sweep(ms, now), now)
         /\ DOMAIN Sweep(ms, now) = DOMAIN ms
         /\ \A k \in DOMAIN ms : ms[k].state = "ALIVE" => Sweep(ms, now)[k] = ms[k]
<1> DEFINE ns == Sweep(ms, now)
           over(k) == ms[k].active /\ ms[k].state = "SUSPECTED"
                        /\ now - ms[k].suspect_since_ms > DeadTimeout
<1>1. ms \in Seq(SWIMMember)
  BY DEF Table
<1>2. DOMAIN ns = DOMAIN ms /\ ns = [k \in DOMAIN ms |-> ns[k]]
      /\ \A k \in DOMAIN ms : ns[k] = IF over(k) THEN Changed(ms[k], "DEAD") ELSE ms[k]
  BY DEF Sweep
<1>3. ASSUME NEW k \in DOMAIN ms
      PROVE  /\ ns[k] \in SWIMMember
             /\ EntryGrows(ms[k], ns[k])
             /\ ms[k].state = "ALIVE" => ns[k] = ms[k]
             /\ ns[k].active /\ ns[k].state = "SUSPECTED" =>
                  now - ns[k].suspect_since_ms <= DeadTimeout
  <2>1. ms[k] \in SWIMMember /\ ms[k].incarnation \in Nat /\ ms[k].suspect_since_ms \in Nat
    BY <1>1, TableEntry
  <2>2. CASE over(k)
    <3>1. ns[k] = Changed(ms[k], "DEAD")
      BY <1>2, <2>2
    <3> QED
      BY <2>1, <2>2, <3>1, ChangedEntry DEF EntryGrows
  <2>3. CASE ~over(k)
    <3>1. ns[k] = ms[k]
      BY <1>2, <2>3
    <3> QED
      BY <2>1, <2>3, <3>1, SwimAssumption DEF EntryGrows
  <2> QED
    BY <2>2, <2>3
<1> HIDE DEF ns
<1>4. ns \in Seq(SWIMMember) /\ Len(ns) = Len(ms)
  BY <1>1, <1>2, <1>3
<1>5. Grows(ms, ns)
  BY <1>3, <1>4, GrowsInPlace
<1>6. InTime(ns, now)
  BY <1>2, <1>3 DEF InTime
<1> QED
  BY <1>2, <1>3, <1>5, <1>6 DEF ns

LEMMA JoinEffect ==
  ASSUME NEW ms, Table(ms), NEW id \in Nat, NEW now, InTime(ms, now)
  PROVE  Grows(ms, Append(ms, Fresh(id))) /\ InTime(Append(ms, Fresh(id)), now)
<1> DEFINE ns == Append(ms, Fresh(id))
<1>1. ms \in Seq(SWIMMember) /\ LaterFresh(ms) /\ Len(ms) \in Nat /\ DOMAIN ms = 1 .. Len(ms)
  BY DEF Table
<1>2. Fresh(id) \in SWIMMember /\ Fresh(id).state = "ALIVE"
  BY DEF Fresh, SWIMMember
<1>3. /\ ns \in Seq(SWIMMember) /\ Len(ns) = Len(ms) + 1 /\ DOMAIN ns = 1 .. Len(ms) + 1
      /\ \A k \in DOMAIN ms : ns[k] = ms[k]
      /\ ns[Len(ms) + 1] = Fresh(id)
  BY <1>1, <1>2
<1> HIDE DEF ns
<1>4. ASSUME NEW k \in DOMAIN ns, ns[k].state # "ALIVE"
      PROVE  k \in DOMAIN ms /\ IsFirst(ns, k)
  <2>1. k \in DOMAIN ms
    BY <1>1, <1>2, <1>3, <1>4
  <2>2. IsFirst(ms, k)
    BY <1>1, <1>3, <1>4, <2>1 DEF LaterFresh
  <2>3. \A j \in DOMAIN ns : j < k => j \in DOMAIN ms
    BY <1>1, <1>3, <2>1
  <2> QED
    BY <1>3, <2>1, <2>2, <2>3 DEF IsFirst
<1>5. Table(ns)
  BY <1>3, <1>4 DEF Table, LaterFresh
<1>6. ASSUME NEW k \in DOMAIN ms PROVE EntryGrows(ms[k], ns[k])
  BY <1>1, <1>3, TableEntry DEF EntryGrows
<1>7. Grows(ms, ns)
  BY <1>1, <1>3, <1>5, <1>6 DEF Grows
<1>8. InTime(ns, now)
  BY <1>3, <1>4 DEF InTime
<1> QED
  BY <1>7, <1>8 DEF ns

LEMMA LeaveEffect ==
  ASSUME NEW ms, Table(ms), NEW id, HasId(ms, id), NEW now, InTime(ms, now)
  PROVE  LET ns == [ms EXCEPT ![Find(ms, id)] = Changed(@, "DEAD")]
         IN  Grows(ms, ns) /\ InTime(ns, now)
<1> DEFINE k == Find(ms, id)
           n == Changed(ms[k], "DEAD")
<1>1. ms \in Seq(SWIMMember) /\ k \in DOMAIN ms /\ ms[k] \in SWIMMember
      /\ ms[k].incarnation \in Nat
  BY FindFirst, TableEntry DEF Table
<1>2. /\ n \in SWIMMember /\ n.id = ms[k].id /\ n.state = "DEAD"
      /\ n.incarnation = ms[k].incarnation + 1
  BY <1>1, ChangedEntry
<1>3. [ms EXCEPT ![k] = Changed(@, "DEAD")] = [ms EXCEPT ![k] = n]
  BY <1>1
<1> HIDE DEF n
<1>4. EntryGrows(ms[k], n)
  BY <1>1, <1>2 DEF EntryGrows
<1>5. Grows(ms, [ms EXCEPT ![k] = n])
  BY <1>2, <1>4, EditFirst
<1>6. InTime([ms EXCEPT ![k] = n], now)
  BY <1>2, EditInTime
<1> QED
  BY <1>3, <1>5, <1>6

LEMMA CrashEntry ==
  ASSUME NEW m \in SWIMMember
  PROVE  LET n == [m EXCEPT !.active = FALSE]
         IN  /\ n \in SWIMMember /\ n.id = m.id /\ n.state = m.state
             /\ n.incarnation = m.incarnation /\ n.active = FALSE
  BY DEF SWIMMember

LEMMA CrashEffect ==
  ASSUME NEW ms, Table(ms), NEW k \in DOMAIN ms, NEW now, InTime(ms, now)
  PROVE  LET ns == [ms EXCEPT ![k].active = FALSE]
         IN  Grows(ms, ns) /\ InTime(ns, now)
<1> DEFINE n == [ms[k] EXCEPT !.active = FALSE]
           ns == [ms EXCEPT ![k] = n]
<1>1. ms \in Seq(SWIMMember) /\ ms[k] \in SWIMMember /\ ms[k].incarnation \in Nat
  BY TableEntry DEF Table
<1>2. /\ n \in SWIMMember /\ n.id = ms[k].id /\ n.state = ms[k].state
      /\ n.incarnation = ms[k].incarnation /\ n.active = FALSE
  BY <1>1, CrashEntry
<1>3. [ms EXCEPT ![k].active = FALSE] = ns
  BY <1>1
<1> HIDE DEF n
<1>4. ns \in Seq(SWIMMember) /\ Len(ns) = Len(ms)
  BY <1>1, <1>2
<1>5. ASSUME NEW j \in DOMAIN ms
      PROVE  /\ EntryGrows(ms[j], ns[j])
             /\ ms[j].state = "ALIVE" /\ ns[j].state # "ALIVE" => IsFirst(ms, j)
  <2>1. CASE j = k
    BY <2>1, <1>1, <1>2 DEF EntryGrows
  <2>2. CASE j # k
    <3>1. ns[j] = ms[j]
      BY <2>2, <1>1
    <3> QED
      BY <3>1, <1>1, TableEntry DEF EntryGrows
  <2> QED
    BY <2>1, <2>2
<1>6. Grows(ms, ns)
  BY <1>4, <1>5, GrowsInPlace
<1>7. InTime(ns, now)
  BY <1>2, EditInTime
<1> QED
  BY <1>3, <1>6, <1>7

(* A message that is not newer than the table changes nothing.               *)
LEMMA MergeNothing ==
  ASSUME NEW ms \in Seq(SWIMMember), NEW msgs, SentOld(ms, msgs), NEW c \in msgs, NEW now
  PROVE  Merge(ms, c, now) = ms
<1>1. c.incarnation \in Nat /\ HasId(ms, c.id) /\ c.incarnation <= ms[Find(ms, c.id)].incarnation
  BY DEF SentOld
<1>2. ms[Find(ms, c.id)].incarnation \in Nat
  BY <1>1, FindFirst, TableEntry
<1> QED
  BY <1>1, <1>2 DEF Merge

(* Every entry that is sent is the first with its id, so the table learns    *)
(* nothing from its own messages.                                            *)
LEMMA OwnNewsOld ==
  ASSUME NEW ms, Table(ms)
  PROVE  /\ SentOld(ms, {ms[k] : k \in Changes(ms)})
         /\ SentOld(ms, {News(ms[k]) : k \in Changes(ms)})
<1>1. ms \in Seq(SWIMMember)
  BY DEF Table
<1>2. ASSUME NEW k \in Changes(ms)
      PROVE  /\ ms[k].incarnation \in Nat /\ HasId(ms, ms[k].id)
             /\ ms[k].incarnation <= ms[Find(ms, ms[k].id)].incarnation
  <2>1. k \in DOMAIN ms /\ IsFirst(ms, k)
    BY DEF Changes, Table, LaterFresh
  <2>2. ms[k].incarnation \in Nat
    BY <1>1, <2>1, TableEntry
  <2> QED
    BY <1>1, <2>1, <2>2, FirstIsFound
<1>3. \A k : News(ms[k]).id = ms[k].id /\ News(ms[k]).incarnation = ms[k].incarnation
  BY DEF News
<1> HIDE DEF Changes
<1>4. SentOld(ms, {ms[k] : k \in Changes(ms)})
  BY <1>2 DEF SentOld
<1>5. SentOld(ms, {News(ms[k]) : k \in Changes(ms)})
  BY <1>2, <1>3 DEF SentOld
<1> QED
  BY <1>4, <1>5

LEMMA MergeChangesNothing ==
  ASSUME NEW ms, Table(ms), NEW now
  PROVE  MergeChanges(ms, now) = ms
<1> DEFINE n == Len(ms)
           F(g) == [k \in 0 .. n |->
                      IF k = 0 THEN ms
                      ELSE IF k \in Changes(ms) THEN Merge(g[k - 1], ms[k], now)
                      ELSE g[k - 1]]
           h == CHOOSE g : g = F(g)
           c == [k \in 0 .. n |-> ms]
<1>1. ms \in Seq(SWIMMember) /\ n \in Nat
  BY DEF Table
<1>2. ASSUME NEW k \in Changes(ms) PROVE Merge(ms, ms[k], now) = ms
  <2>1. ms[k] \in {ms[j] : j \in Changes(ms)}
    OBVIOUS
  <2> HIDE DEF Changes
  <2>2. SentOld(ms, {ms[j] : j \in Changes(ms)})
    BY OwnNewsOld
  <2> QED
    BY <1>1, <2>1, <2>2, MergeNothing
<1>3. c = F(c)
  <2>1. ASSUME NEW k \in 0 .. n
        PROVE  c[k] = IF k = 0 THEN ms
                      ELSE IF k \in Changes(ms) THEN Merge(c[k - 1], ms[k], now)
                      ELSE c[k - 1]
    <3>1. CASE k = 0
      BY <3>1
    <3>2. CASE k # 0
      <4>1. c[k] = ms /\ c[k - 1] = ms
        BY <1>1, <3>2
      <4> HIDE DEF c
      <4> QED
        BY <3>2, <4>1, <1>2
    <3> QED
      BY <3>1, <3>2
  <2> QED
    BY <2>1, Zenon
<1>4. h = F(h)
  <2> HIDE DEF F, c
  <2>1. \E g : g = F(g)
    BY <1>3
  <2> QED
    BY <2>1
<1>5. /\ h[0] = ms
      /\ \A k \in 1 .. n : h[k] = IF k \in Changes(ms) THEN Merge(h[k - 1], ms[k], now) ELSE h[k - 1]
  <2> HIDE DEF h
  <2>1. \A k \in 0 .. n : h[k] = F(h)[k]
    BY <1>4
  <2>2. \A k \in 0 .. n : F(h)[k] = IF k = 0 THEN ms
                      ELSE IF k \in Changes(ms) THEN Merge(h[k - 1], ms[k], now)
                      ELSE h[k - 1]
    OBVIOUS
  <2> HIDE DEF F
  <2>3. 0 \in 0 .. n /\ \A k \in 1 .. n : k \in 0 .. n /\ k # 0
    BY <1>1
  <2> QED
    BY <2>1, <2>2, <2>3
<1>6. MergeChanges(ms, now) = h[n]
  BY DEF MergeChanges
<1> HIDE DEF h
<1>7. \A k \in 1 .. n : h[k - 1] \in {ms} => h[k] \in {ms}
  BY <1>2, <1>5
<1>8. \A k \in 0 .. n : h[k] \in {ms}
  <2>1. h[0] \in {ms}
    BY <1>5
  <2> HIDE DEF n
  <2> QED
    BY <1>1, <1>7, <2>1, LoopKeeps
<1> QED
  BY <1>1, <1>6, <1>8

(* The three outcomes of the ping of a period.                               *)
LEMMA PingedCases ==
  ASSUME NEW ms, NEW now, NEW ns \in Pinged(ms, now)
  PROVE  \/ ns = ms
         \/ \E t : ns = Answered(ms, t, 0)
         \/ \E t : ns = Suspected(ms, t, now) /\ \E ok \in ReadsActive(ms, t) : ~ok
<1> DEFINE from    == ping_sequence_index
           targets == swim_random_member(ms, from)
           helpers(t) == {k \in DOMAIN ms : ms[k].id \notin {from, t} /\ ms[k].active}
           one(t) == {IF ok THEN ms ELSE Suspected(ms, t, now) :
                           ok \in swim_indirect_ping(ms, t)}
           after(t) == {Answered(ms, t, 0)} \cup
                       (IF helpers(t) = {} THEN {ms} ELSE one(t))
<1>1. Pinged(ms, now) = IF targets = {} THEN {ms} ELSE UNION {after(t) : t \in targets}
  BY Zenon DEF Pinged
<1> HIDE DEF targets, helpers
<1>2. CASE targets = {}
  BY <1>1, <1>2
<1>3. CASE targets # {}
  <2>1. PICK t \in targets : ns \in after(t)
    <3> HIDE DEF after
    <3> QED
      BY <1>1, <1>3
  <2>2. CASE ns = Answered(ms, t, 0)
    BY <2>2
  <2>3. CASE ns = ms
    BY <2>3
  <2>4. CASE ns # ms /\ ns \in one(t)
    <3>1. PICK ok \in swim_indirect_ping(ms, t) : ns = IF ok THEN ms ELSE Suspected(ms, t, now)
      BY <2>4, Zenon
    <3>2. swim_indirect_ping(ms, t) \subseteq ReadsActive(ms, t)
      BY Zenon DEF swim_indirect_ping
    <3>3. ~ok /\ ns = Suspected(ms, t, now)
      BY <2>4, <3>1, Zenon
    <3> QED
      BY <3>1, <3>2, <3>3
  <2> HIDE DEF one
  <2> QED
    BY <2>1, <2>2, <2>3, <2>4
<1> QED
  BY <1>2, <1>3

(* A tick that suspects an entry whose id is its index finds it stopped.     *)
LEMMA SuspectedStopped ==
  ASSUME NEW ms, Table(ms), NEW t, NEW now, \E ok \in ReadsActive(ms, t) : ~ok,
         NEW k \in DOMAIN ms, ms[k].state = "ALIVE", ms[k].id = k - 1,
         Suspected(ms, t, now)[k].state = "SUSPECTED"
  PROVE  ~ms[k].active
<1> DEFINE f == Find(ms, t)
           n == [Changed(ms[f], "SUSPECTED") EXCEPT !.suspect_since_ms = now]
<1>1. HasId(ms, t) /\ f = k
  <2>1. ms \in Seq(SWIMMember)
    BY DEF Table
  <2>2. Suspected(ms, t, now) # ms
    OBVIOUS
  <2>3. HasId(ms, t) /\ ms[f].state = "ALIVE"
    BY <2>2 DEF Suspected
  <2>4. Suspected(ms, t, now) = [ms EXCEPT ![f] = n]
    BY <2>1, <2>3, FindFirst DEF Suspected
  <2> HIDE DEF n, f
  <2>5. f # k => [ms EXCEPT ![f] = n][k] = ms[k]
    BY <2>1
  <2> QED
    BY <2>3, <2>4, <2>5
<1>2. ms[k].id = t /\ t + 1 = k
  <2>1. ms[f].id = t /\ k \in Nat
    BY <1>1, FindFirst DEF Table
  <2> QED
    BY <1>1, <2>1
<1>3. ReadsActive(ms, t) = {ms[k].active}
  BY <1>2 DEF ReadsActive
<1> QED
  BY <1>3, Zenon

LEMMA PingedEffect ==
  ASSUME NEW ms, Table(ms), NEW now \in Nat, InTime(ms, now), NEW ns \in Pinged(ms, now)
  PROVE  /\ Grows(ms, ns) /\ InTime(ns, now)
         /\ \A k \in DOMAIN ms :
              ms[k].state = "ALIVE" /\ ns[k].state = "SUSPECTED" /\ ms[k].id = k - 1 => ~ms[k].active
<1>1. CASE ns = ms
  BY <1>1, GrowsRefl
<1>2. CASE \E t : ns = Answered(ms, t, 0)
  <2>1. PICK t : ns = Answered(ms, t, 0)
    BY <1>2
  <2> QED
    BY <2>1, AnsweredEffect
<1>3. CASE \E t : ns = Suspected(ms, t, now) /\ \E ok \in ReadsActive(ms, t) : ~ok
  <2>1. PICK t : ns = Suspected(ms, t, now) /\ \E ok \in ReadsActive(ms, t) : ~ok
    BY <1>3
  <2>2. \A k \in DOMAIN ms :
          ms[k].state = "ALIVE" /\ ns[k].state = "SUSPECTED" /\ ms[k].id = k - 1 => ~ms[k].active
    BY <2>1, SuspectedStopped
  <2> QED
    BY <2>1, <2>2, SuspectedEffect
<1> QED
  BY <1>1, <1>2, <1>3, PingedCases

(* No timer is started again: a suspect keeps its own, a new one starts now.  *)
Timed(ms, ns, now) ==
  \A k \in DOMAIN ns :
    ns[k].state = "SUSPECTED" =>
      ns[k].suspect_since_ms = IF IsSuspect(ms, k) THEN ms[k].suspect_since_ms ELSE now

LEMMA TimedRefl ==
  ASSUME NEW ms, NEW now
  PROVE  Timed(ms, ms, now)
  BY DEF Timed, IsSuspect

LEMMA EditTimed ==
  ASSUME NEW ms, NEW now, NEW k \in DOMAIN ms, NEW m,
         m.state = "SUSPECTED" =>
           m.suspect_since_ms = IF ms[k].state = "SUSPECTED" THEN ms[k].suspect_since_ms ELSE now
  PROVE  Timed(ms, [ms EXCEPT ![k] = m], now)
<1>1. ASSUME NEW j \in DOMAIN ms
      PROVE  [ms EXCEPT ![k] = m][j] = IF j = k THEN m ELSE ms[j]
  OBVIOUS
<1>2. DOMAIN [ms EXCEPT ![k] = m] = DOMAIN ms
  OBVIOUS
<1> QED
  BY <1>1, <1>2 DEF Timed, IsSuspect

LEMMA SuspectedTimed ==
  ASSUME NEW ms, Table(ms), NEW id, NEW now \in Nat
  PROVE  Timed(ms, Suspected(ms, id, now), now)
<1> DEFINE k == Find(ms, id)
           n == [Changed(ms[k], "SUSPECTED") EXCEPT !.suspect_since_ms = now]
<1>1. CASE HasId(ms, id) /\ ms[k].state = "ALIVE"
  <2>1. k \in DOMAIN ms /\ ms[k] \in SWIMMember
    BY <1>1, FindFirst, TableEntry DEF Table
  <2>2. n.suspect_since_ms = now
    BY <2>1, SuspectEntry
  <2>3. Suspected(ms, id, now) = [ms EXCEPT ![k] = n]
    BY <1>1, <2>1 DEF Suspected
  <2>4. ms[k].state # "SUSPECTED"
    BY <1>1
  <2> HIDE DEF n, k
  <2>5. Timed(ms, [ms EXCEPT ![k] = n], now)
    BY <2>1, <2>2, <2>4, EditTimed
  <2> QED
    BY <2>3, <2>5
<1>2. CASE ~(HasId(ms, id) /\ ms[k].state = "ALIVE")
  BY <1>2, TimedRefl DEF Suspected
<1> QED
  BY <1>1, <1>2

LEMMA AnsweredTimed ==
  ASSUME NEW ms, Table(ms), NEW id, NEW inc \in Nat, NEW now
  PROVE  Timed(ms, Answered(ms, id, inc), now)
<1> DEFINE k == Find(ms, id)
           i == Max({ms[k].incarnation, inc})
           m == [ms[k] EXCEPT !.incarnation = i]
           n == IF m.state = "SUSPECTED" THEN Changed(m, "ALIVE") ELSE m
<1>1. CASE HasId(ms, id)
  <2>1. k \in DOMAIN ms /\ ms[k] \in SWIMMember /\ ms[k].incarnation \in Nat
    BY <1>1, FindFirst, TableEntry DEF Table
  <2>2. i \in Nat /\ i >= ms[k].incarnation
    BY <2>1, MaxOfTwo
  <2> HIDE DEF i
  <2>3. m \in SWIMMember /\ m.incarnation = i
    BY <2>1, <2>2, RaisedEntry
  <2>4. Answered(ms, id, inc) = [ms EXCEPT ![k] = n]
    BY <1>1, <2>1 DEF Answered, i
  <2> HIDE DEF m
  <2>5. n.state # "SUSPECTED"
    BY <2>2, <2>3, ChangedEntry
  <2> HIDE DEF n, k
  <2>6. Timed(ms, [ms EXCEPT ![k] = n], now)
    BY <2>1, <2>5, EditTimed
  <2> QED
    BY <2>4, <2>6
<1>2. CASE ~HasId(ms, id)
  BY <1>2, TimedRefl DEF Answered
<1> QED
  BY <1>1, <1>2

LEMMA SweepTimed ==
  ASSUME NEW ms, Table(ms), NEW now \in Nat
  PROVE  /\ Timed(ms, Sweep(ms, now), now)
         /\ \A k \in DOMAIN ms :
              ms[k].state = "SUSPECTED" => Sweep(ms, now)[k].state \in {"SUSPECTED", "DEAD"}
<1> DEFINE ns == Sweep(ms, now)
<1>1. ASSUME NEW k \in DOMAIN ms
      PROVE  ns[k] = ms[k] \/ ns[k].state = "DEAD"
  <2>1. ms[k] \in SWIMMember /\ ms[k].incarnation \in Nat
    BY TableEntry DEF Table
  <2>2. ns[k] = ms[k] \/ ns[k] = Changed(ms[k], "DEAD")
    BY DEF Sweep
  <2> QED
    BY <2>1, <2>2, ChangedEntry
<1>2. DOMAIN ns = DOMAIN ms
  BY DEF Sweep
<1> HIDE DEF ns
<1>3. Timed(ms, ns, now)
  BY <1>1, <1>2 DEF Timed, IsSuspect
<1>4. \A k \in DOMAIN ms :
        ms[k].state = "SUSPECTED" => ns[k].state \in {"SUSPECTED", "DEAD"}
  BY <1>1
<1> QED
  BY <1>3, <1>4 DEF ns

LEMMA JoinTimed ==
  ASSUME NEW ms, Table(ms), NEW id \in Nat, NEW now
  PROVE  Timed(ms, Append(ms, Fresh(id)), now)
<1> DEFINE ns == Append(ms, Fresh(id))
<1>1. ms \in Seq(SWIMMember) /\ Fresh(id).state = "ALIVE"
  BY DEF Table, Fresh
<1>2. \A k \in DOMAIN ns : (k \in DOMAIN ms /\ ns[k] = ms[k]) \/ ns[k] = Fresh(id)
  BY <1>1
<1> HIDE DEF ns
<1>3. Timed(ms, ns, now)
  BY <1>1, <1>2 DEF Timed, IsSuspect
<1> QED
  BY <1>3 DEF ns

LEMMA LeaveTimed ==
  ASSUME NEW ms, Table(ms), NEW id, HasId(ms, id), NEW now
  PROVE  Timed(ms, [ms EXCEPT ![Find(ms, id)] = Changed(@, "DEAD")], now)
<1> DEFINE k == Find(ms, id)
           n == Changed(ms[k], "DEAD")
<1>1. k \in DOMAIN ms /\ ms[k] \in SWIMMember /\ ms[k].incarnation \in Nat
  BY FindFirst, TableEntry DEF Table
<1>2. n.state = "DEAD"
  BY <1>1, ChangedEntry
<1>3. [ms EXCEPT ![k] = Changed(@, "DEAD")] = [ms EXCEPT ![k] = n]
  BY <1>1
<1> HIDE DEF n
<1>4. Timed(ms, [ms EXCEPT ![k] = n], now)
  BY <1>1, <1>2, EditTimed
<1> QED
  BY <1>3, <1>4

LEMMA CrashTimed ==
  ASSUME NEW ms, Table(ms), NEW k \in DOMAIN ms, NEW now
  PROVE  Timed(ms, [ms EXCEPT ![k].active = FALSE], now)
<1> DEFINE n == [ms[k] EXCEPT !.active = FALSE]
<1>1. ms[k] \in SWIMMember
  BY TableEntry DEF Table
<1>2. n.state = ms[k].state /\ n.suspect_since_ms = ms[k].suspect_since_ms
  BY <1>1 DEF SWIMMember
<1>3. [ms EXCEPT ![k].active = FALSE] = [ms EXCEPT ![k] = n]
  OBVIOUS
<1> HIDE DEF n
<1>4. Timed(ms, [ms EXCEPT ![k] = n], now)
  BY <1>2, EditTimed
<1> QED
  BY <1>3, <1>4

LEMMA PingedTimed ==
  ASSUME NEW ms, Table(ms), NEW now \in Nat, NEW ns \in Pinged(ms, now)
  PROVE  Timed(ms, ns, now)
<1>1. \/ ns = ms
      \/ \E t : ns = Answered(ms, t, 0)
      \/ \E t : ns = Suspected(ms, t, now)
  BY PingedCases
<1> QED
  BY <1>1, TimedRefl, AnsweredTimed, SuspectedTimed

(* What a step owes: the invariant, and what the action properties say.      *)
SwimOwed ==
  /\ Table(members)' /\ time' \in Nat /\ SentOld(members, sent)' /\ InTime(members, time)'
  /\ Timed(members, members', time')
  /\ DeadStayDead /\ OnlyCrashedSuspected

LEMMA GrownTable ==
  ASSUME SwimInv, Grows(members, members'), InTime(members', time'), time' \in Nat
  PROVE  Table(members') /\ DeadStayDead /\ SentOld(members', sent)
<1>1. members \in Seq(SWIMMember) /\ SentOld(members, sent)
  BY DEF SwimInv, Table
<1>2. SentOld(members', sent)
  BY <1>1, SentKept
<1>3. DeadStayDead
  BY DEF DeadStayDead, Grows, EntryGrows
<1> QED
  BY <1>2, <1>3 DEF Grows

(* Every call but a tick.                                                    *)
LEMMA CallOwed ==
  ASSUME SwimInv, Grows(members, members'), InTime(members', time), UNCHANGED <<time, sent>>,
         Timed(members, members', time)
  PROVE  SwimOwed
<1>1. time \in Nat /\ time' = time /\ sent' = sent /\ InTime(members', time')
  BY DEF SwimInv
<1>2. Table(members') /\ DeadStayDead /\ SentOld(members', sent)
  BY <1>1, GrownTable
<1>3. OnlyCrashedSuspected
  BY <1>1 DEF OnlyCrashedSuspected
<1> QED
  BY <1>1, <1>2, <1>3 DEF SwimOwed

LEMMA TickOwed ==
  ASSUME SwimInv, NEW delta \in Deltas, swim_tick(delta)
  PROVE  SwimOwed
<1> DEFINE now == time + delta
           swept == Sweep(members, now)
<1>1. Table(members) /\ time \in Nat /\ delta \in Nat /\ now \in Nat /\ time' = now
  BY SwimAssumption DEF SwimInv, swim_tick
<1>2. /\ Grows(members, swept) /\ InTime(swept, now)
      /\ DOMAIN swept = DOMAIN members
      /\ \A k \in DOMAIN members : members[k].state = "ALIVE" => swept[k] = members[k]
  BY <1>1, SweepEffect
<1>3. Table(swept)
  BY <1>2 DEF Grows
<1>7. /\ Timed(members, swept, now)
      /\ \A k \in DOMAIN members :
           members[k].state = "SUSPECTED" => swept[k].state \in {"SUSPECTED", "DEAD"}
  BY <1>1, SweepTimed
<1>4. \/ members' = swept /\ sent' = sent
      \/ \E ms \in Pinged(swept, now) : swim_disseminate(ms)
  BY DEF swim_tick
<1> HIDE DEF swept, now
<1>5. CASE members' = swept /\ sent' = sent
  <2>1. Grows(members, members') /\ InTime(members', time')
    BY <1>1, <1>2, <1>5
  <2>2. Table(members') /\ DeadStayDead /\ SentOld(members', sent)
    BY <1>1, <2>1, GrownTable
  <2>3. OnlyCrashedSuspected
    BY <1>2, <1>5 DEF OnlyCrashedSuspected
  <2> QED
    BY <1>1, <1>5, <1>7, <2>1, <2>2, <2>3 DEF SwimOwed
<1>6. CASE \E ms \in Pinged(swept, now) : swim_disseminate(ms)
  <2>1. PICK ms \in Pinged(swept, now) : swim_disseminate(ms)
    BY <1>6
  <2>2. /\ Grows(swept, ms) /\ InTime(ms, now)
        /\ \A k \in DOMAIN swept :
             swept[k].state = "ALIVE" /\ ms[k].state = "SUSPECTED" /\ swept[k].id = k - 1
               => ~swept[k].active
    BY <1>1, <1>2, <1>3, PingedEffect
  <2>3. Table(ms)
    BY <2>2 DEF Grows
  <2>4. members' = ms
    BY <2>1, <2>3, MergeChangesNothing DEF swim_disseminate
  <2>5. Grows(members, members') /\ InTime(members', time')
    BY <1>1, <1>2, <2>2, <2>4, GrowsTrans
  <2>6. Table(members') /\ DeadStayDead /\ SentOld(members', sent)
    BY <1>1, <2>5, GrownTable
  <2>7. SentOld(members', sent')
    <3>1. sent' \subseteq sent \cup {News(ms[k]) : k \in Changes(ms)}
      BY <2>1 DEF swim_disseminate
    <3>2. SentOld(ms, {News(ms[k]) : k \in Changes(ms)})
      BY <2>3, OwnNewsOld
    <3> QED
      BY <2>4, <2>6, <3>1, <3>2 DEF SentOld
  <2>8. OnlyCrashedSuspected
    BY <1>2, <2>2, <2>4 DEF OnlyCrashedSuspected
  <2>9. Timed(members, members', time')
    <3>1. Timed(swept, ms, now)
      BY <1>1, <1>3, <2>1, PingedTimed
    <3>2. \A k \in DOMAIN swept : k \in DOMAIN ms
                                 /\ (swept[k].state = "DEAD" => ms[k].state = "DEAD")
      BY <2>2 DEF Grows, EntryGrows
    <3> QED
      BY <1>1, <1>2, <1>7, <2>4, <3>1, <3>2 DEF Timed, IsSuspect
  <2> QED
    BY <1>1, <2>5, <2>6, <2>7, <2>8, <2>9 DEF SwimOwed
<1> QED
  BY <1>4, <1>5, <1>6

LEMMA SwimInitially == SwimInit => SwimInv
<1> SUFFICES ASSUME SwimInit PROVE SwimInv
  OBVIOUS
<1>1. \A k \in 1 .. Members : k - 1 \in Nat
  BY SwimAssumption
<1>2. \A k \in 1 .. Members : Fresh(k - 1) \in SWIMMember /\ Fresh(k - 1).state = "ALIVE"
  BY <1>1 DEF Fresh, SWIMMember
<1>3. /\ members \in Seq(SWIMMember)
      /\ \A k \in DOMAIN members : members[k].state = "ALIVE"
  BY <1>2, SwimAssumption DEF SwimInit
<1>4. Table(members) /\ InTime(members, time)
  BY <1>3 DEF Table, LaterFresh, InTime
<1> QED
  BY <1>3, <1>4 DEF SwimInit, SwimInv, SentOld, Watched

LEMMA SwimStep == SwimInv /\ [SwimNext]_swimVars => SwimOwed
<1> SUFFICES ASSUME SwimInv, [SwimNext]_swimVars PROVE SwimOwed
  OBVIOUS
<1>1. /\ Table(members) /\ members \in Seq(SWIMMember) /\ time \in Nat
      /\ InTime(members, time) /\ SentOld(members, sent)
  BY DEF SwimInv, Table
<1>2. CASE UNCHANGED swimVars
  BY <1>1, <1>2, GrowsRefl, TimedRefl, CallOwed DEF swimVars
<1>3. ASSUME NEW id \in JoinIds, swim_join(id) PROVE SwimOwed
  BY <1>1, <1>3, JoinEffect, JoinTimed, CallOwed, SwimAssumption DEF swim_join
<1>4. ASSUME NEW k \in DOMAIN members, swim_leave(members[k].id) PROVE SwimOwed
  BY <1>1, <1>4, LeaveEffect, LeaveTimed, CallOwed DEF swim_leave
<1>5. ASSUME NEW k \in DOMAIN members, swim_suspect(members[k].id) PROVE SwimOwed
  BY <1>1, <1>5, SuspectedEffect, SuspectedTimed, CallOwed DEF swim_suspect
<1>6. ASSUME NEW k \in DOMAIN members, NEW inc \in 0 .. MaxInc,
             swim_ping_success(members[k].id, inc)
      PROVE  SwimOwed
  <2>1. inc \in Nat
    BY SwimAssumption
  <2> QED
    BY <1>1, <1>6, <2>1, AnsweredEffect, AnsweredTimed, CallOwed DEF swim_ping_success
<1>7. ASSUME NEW k \in DOMAIN members, Crash(k) PROVE SwimOwed
  BY <1>1, <1>7, CrashEffect, CrashTimed, CallOwed DEF Crash
<1>8. ASSUME NEW c \in sent, swim_on_receive(c) PROVE SwimOwed
  <2>1. members' = members
    BY <1>1, <1>8, MergeNothing DEF swim_on_receive
  <2> QED
    BY <1>1, <1>8, <2>1, GrowsRefl, TimedRefl, CallOwed DEF swim_on_receive
<1> QED
  BY <1>2, <1>3, <1>4, <1>5, <1>6, <1>7, <1>8, TickOwed DEF SwimNext, SwimCall

LEMMA SwimInvariant == SwimSpec => []SwimInv
<1>1. SwimInv /\ [SwimNext]_swimVars => SwimInv'
  <2> SUFFICES ASSUME SwimInv, [SwimNext]_swimVars PROVE SwimInv'
    OBVIOUS
  <2>1. SwimOwed
    BY SwimStep
  <2>2. CASE UNCHANGED swimVars
    BY <2>1, <2>2 DEF SwimOwed, SwimInv, Watched, swimVars
  <2>3. CASE SwimNext
    <3>1. since' = [k \in DOMAIN members' |->
                      IF ~IsSuspect(members', k) THEN 0
                      ELSE IF IsSuspect(members, k) THEN since[k] ELSE time']
      BY <2>3 DEF SwimNext
    <3>2. \A k \in DOMAIN members' :
            members'[k].state = "SUSPECTED" =>
              since'[k] = IF IsSuspect(members, k) THEN since[k] ELSE time'
      BY <3>1 DEF IsSuspect
    <3>3. Watched'
      BY <2>1, <3>2 DEF SwimOwed, SwimInv, Watched, Timed, IsSuspect
    <3> QED
      BY <2>1, <3>3 DEF SwimOwed, SwimInv
  <2> QED
    BY <2>2, <2>3
<1> QED
  BY <1>1, SwimInitially, PTL DEF SwimSpec

(* swim_tick, swim_disseminate, swim_on_receive: from the moment it is       *)
(* suspected, a running member is not under suspicion for longer than the    *)
(* dead timeout, whatever copies of that news are merged meanwhile.          *)
THEOREM SuspicionBounded == SwimSpec => []SuspicionEnds
<1>1. SwimInv => SuspicionEnds
  BY DEF SwimInv, InTime, Watched, SuspicionEnds
<1> QED
  BY <1>1, SwimInvariant, PTL
-----------------------------------------------------------------------------
(* multi_paxos_replicate, swim_tick, swim_on_receive: learners do not go     *)
(* back, the dead stay dead, and no tick suspects a running member.          *)
THEOREM NothingUndone == MultiSpec /\ SwimSpec => NothingTakenBack
<1>1. /\ MultiInv /\ [MultiNext]_multiVars
      /\ SwimInv /\ [SwimNext]_swimVars
      => [LearnsForward /\ DeadStayDead /\ OnlyCrashedSuspected]_<<multiVars, swimVars>>
  BY MultiStep, SwimStep DEF SwimOwed
<1> QED
  BY <1>1, MultiInvariant, SwimInvariant, PTL DEF MultiSpec, SwimSpec, NothingTakenBack
-----------------------------------------------------------------------------
(* Gossip.  No node holds a key twice: a message changes the entry of a key  *)
(* or adds one.  Nodes that hold as many keys as the first node, and all of  *)
(* its keys, therefore hold no others.                                       *)

Distinct(data) ==
  \A j, k \in DOMAIN data : data[j].key = data[k].key => j = k

Tidy == {data \in Seq(GossipDataEntry) : Distinct(data)}

GossipInv ==
  /\ gnodes \in [Peer -> GossipNode]
  /\ \A i \in Peer : gnodes[i].data \in Tidy
  /\ strategy \in {"PUSH", "PULL", "PUSH_PULL"}
  /\ at \in Nat

LEMMA LeastIsMin ==
  ASSUME NEW S, S \subseteq Nat, S # {}
  PROVE  Min(S) \in S /\ \A y \in S : Min(S) <= y
<1>1. \E x \in S : \A y \in S : x <= y
  BY LeastNumber
<1> QED
  BY <1>1 DEF Min

(* What a lookup of a key finds.                                             *)
LEMMA Lookup ==
  ASSUME NEW data \in Tidy, NEW key, Has(data, key)
  PROVE  /\ Min(Positions(data, key)) \in DOMAIN data
         /\ data[Min(Positions(data, key))].key = key
         /\ \A k \in DOMAIN data : data[k].key = key => k = Min(Positions(data, key))
<1>1. data \in Seq(GossipDataEntry) /\ Distinct(data)
  BY DEF Tidy
<1>2. Positions(data, key) \subseteq DOMAIN data /\ DOMAIN data \subseteq Nat
  BY <1>1 DEF Positions
<1>3. Min(Positions(data, key)) \in Positions(data, key)
  BY <1>2, LeastIsMin DEF Has
<1> QED
  BY <1>1, <1>3 DEF Positions, Distinct

LEMMA EditTidy ==
  ASSUME NEW data \in Tidy, NEW k \in DOMAIN data, NEW e \in GossipDataEntry, e.key = data[k].key
  PROVE  [data EXCEPT ![k] = e] \in Tidy
<1>1. data \in Seq(GossipDataEntry) /\ Distinct(data)
  BY DEF Tidy
<1> DEFINE ns == [data EXCEPT ![k] = e]
<1>2. ns \in Seq(GossipDataEntry) /\ DOMAIN ns = DOMAIN data
  BY <1>1
<1>3. \A j \in DOMAIN data : ns[j].key = data[j].key
  BY <1>1
<1> HIDE DEF ns
<1>4. Distinct(ns)
  BY <1>1, <1>2, <1>3 DEF Distinct
<1> QED
  BY <1>2, <1>4 DEF Tidy, ns

LEMMA AddTidy ==
  ASSUME NEW data \in Tidy, NEW e \in GossipDataEntry, ~Has(data, e.key)
  PROVE  Append(data, e) \in Tidy
<1>1. data \in Seq(GossipDataEntry) /\ Distinct(data) /\ Len(data) \in Nat
      /\ DOMAIN data = 1 .. Len(data)
  BY DEF Tidy
<1> DEFINE ns == Append(data, e)
<1>2. /\ ns \in Seq(GossipDataEntry) /\ DOMAIN ns = 1 .. Len(data) + 1
      /\ \A j \in DOMAIN data : ns[j] = data[j]
      /\ ns[Len(data) + 1] = e
  BY <1>1
<1>3. \A j \in DOMAIN data : data[j].key # e.key
  BY DEF Has, Positions
<1> HIDE DEF ns
<1>4. ASSUME NEW j \in DOMAIN ns, NEW k \in DOMAIN ns, ns[j].key = ns[k].key
      PROVE  j = k
  <2>1. \A l \in DOMAIN ns : l \in DOMAIN data \/ l = Len(data) + 1
    BY <1>1, <1>2
  <2> QED
    BY <1>1, <1>2, <1>3, <1>4, <2>1 DEF Distinct
<1> QED
  BY <1>2, <1>4 DEF Tidy, Distinct, ns

LEMMA MergeTidy ==
  ASSUME NEW data \in Tidy, NEW e \in GossipDataEntry
  PROVE  MergeEntry(data, e) \in Tidy
<1> DEFINE k == Min(Positions(data, e.key))
<1>1. CASE Has(data, e.key) /\ e.version > data[k].version
  <2>1. MergeEntry(data, e) = [data EXCEPT ![k] = e]
    BY <1>1 DEF MergeEntry
  <2>2. k \in DOMAIN data /\ data[k].key = e.key
    BY <1>1, Lookup
  <2> HIDE DEF k
  <2> QED
    BY <2>1, <2>2, EditTidy
<1>2. CASE ~Has(data, e.key) /\ Len(data) < MaxDataKeys
  <2>1. MergeEntry(data, e) = Append(data, e)
    BY <1>2 DEF MergeEntry
  <2> QED
    BY <1>2, <2>1, AddTidy
<1>3. CASE /\ ~(Has(data, e.key) /\ e.version > data[k].version)
           /\ ~(~Has(data, e.key) /\ Len(data) < MaxDataKeys)
  <2>1. MergeEntry(data, e) = data
    BY <1>3 DEF MergeEntry
  <2> QED
    BY <2>1
<1> QED
  BY <1>1, <1>2, <1>3

LEMMA MergeAllTidy ==
  ASSUME NEW data \in Tidy, NEW entries \in Seq(GossipDataEntry)
  PROVE  MergeEntries(data, entries) \in Tidy
<1> DEFINE n == Len(entries)
           F(g) == [k \in 0 .. n |->
                      IF k = 0 THEN data ELSE MergeEntry(g[k - 1], entries[k])]
           h == CHOOSE g : g = F(g)
           step == [k \in 1 .. n |-> [d \in Tidy |-> MergeEntry(d, entries[k])]]
<1>1. n \in Nat /\ \A k \in 1 .. n : entries[k] \in GossipDataEntry
  OBVIOUS
<1>2. step \in [1 .. n -> [Tidy -> Tidy]]
  BY <1>1, MergeTidy
<1>3. PICK c : Course(c, n, Tidy, data, step)
  <2> HIDE DEF step, n
  <2> QED
    BY <1>1, <1>2, CourseExists
<1>4. c \in [0 .. n -> Tidy] /\ c[0] = data /\ \A k \in 1 .. n : c[k] = step[k][c[k - 1]]
  BY <1>3 DEF Course
<1>5. \A k \in 1 .. n : c[k - 1] \in Tidy /\ c[k] = MergeEntry(c[k - 1], entries[k])
  BY <1>1, <1>4
<1>6. c = F(c)
  <2>1. \A k \in 0 .. n : c[k] = IF k = 0 THEN data ELSE MergeEntry(c[k - 1], entries[k])
    BY <1>1, <1>4, <1>5
  <2> QED
    BY <1>4, <2>1, Zenon
<1>7. h = F(h)
  <2> HIDE DEF F
  <2> QED
    BY <1>6
<1> HIDE DEF h
<1>8. h[0] = data /\ \A k \in 1 .. n : h[k] = MergeEntry(h[k - 1], entries[k])
  <2>1. \A k \in 0 .. n : h[k] = F(h)[k]
    BY <1>7
  <2>2. \A k \in 0 .. n : F(h)[k] = IF k = 0 THEN data ELSE MergeEntry(h[k - 1], entries[k])
    OBVIOUS
  <2> HIDE DEF F
  <2>3. 0 \in 0 .. n /\ \A k \in 1 .. n : k \in 0 .. n /\ k # 0
    BY <1>1
  <2> QED
    BY <2>1, <2>2, <2>3
<1>9. \A k \in 1 .. n : h[k - 1] \in Tidy => h[k] \in Tidy
  BY <1>1, <1>8, MergeTidy
<1>10. \A k \in 0 .. n : h[k] \in Tidy
  <2> HIDE DEF n
  <2> QED
    BY <1>1, <1>8, <1>9, LoopKeeps
<1>11. MergeEntries(data, entries) = h[n]
  BY DEF MergeEntries, h
<1> QED
  BY <1>1, <1>10, <1>11

LEMMA NodeFields ==
  ASSUME NEW nd \in GossipNode
  PROVE  nd.data \in Seq(GossipDataEntry) /\ nd.version_clock \in Nat
  BY DEF GossipNode

LEMMA NodeChanged ==
  ASSUME NEW nd \in GossipNode, NEW data \in Seq(GossipDataEntry), NEW clock \in Nat
  PROVE  LET n == [nd EXCEPT !.data = data, !.version_clock = clock]
         IN  n \in GossipNode /\ n.data = data
  BY DEF GossipNode

LEMMA ReceiveTidy ==
  ASSUME NEW nd \in GossipNode, nd.data \in Tidy, NEW entries \in Seq(GossipDataEntry)
  PROVE  /\ gossip_on_receive(nd, entries) \in GossipNode
         /\ gossip_on_receive(nd, entries).data \in Tidy
<1> DEFINE data  == MergeEntries(nd.data, entries)
           clock == IF entries # <<>> /\ entries[1].version > nd.version_clock
                    THEN entries[1].version ELSE nd.version_clock
<1>1. data \in Tidy /\ data \in Seq(GossipDataEntry)
  BY MergeAllTidy DEF Tidy
<1>2. clock \in Nat
  <2>1. entries # <<>> => entries[1] \in GossipDataEntry
    OBVIOUS
  <2>2. entries # <<>> => entries[1].version \in Nat
    BY <2>1 DEF GossipDataEntry
  <2> QED
    BY <2>2, NodeFields
<1>3. gossip_on_receive(nd, entries) = [nd EXCEPT !.data = data, !.version_clock = clock]
  BY DEF gossip_on_receive, GossipNode
<1> HIDE DEF data, clock
<1>4. /\ [nd EXCEPT !.data = data, !.version_clock = clock] \in GossipNode
      /\ [nd EXCEPT !.data = data, !.version_clock = clock].data = data
  BY <1>1, <1>2, NodeChanged
<1> QED
  BY <1>1, <1>3, <1>4

TidyNode == {nd \in GossipNode : nd.data \in Tidy}

LEMMA TidyNodes == GossipInv <=> /\ gnodes \in [Peer -> TidyNode]
                                 /\ strategy \in {"PUSH", "PULL", "PUSH_PULL"}
                                 /\ at \in Nat
  BY DEF GossipInv, TidyNode

LEMMA ExchangeTidy ==
  ASSUME GossipInv, NEW i \in Peer, NEW t \in Peer
  PROVE  Exchanged(i, t) \in [Peer -> TidyNode]
<1>1. gnodes \in [Peer -> TidyNode]
  BY TidyNodes
<1>2. ASSUME NEW x \in TidyNode, NEW y \in TidyNode
      PROVE  gossip_on_receive(x, y.data) \in TidyNode
  <2>1. x \in GossipNode /\ x.data \in Tidy /\ y.data \in Seq(GossipDataEntry)
    BY DEF TidyNode, Tidy
  <2> QED
    BY <2>1, ReceiveTidy DEF TidyNode
<1> DEFINE pushed == [gnodes EXCEPT ![t] = gossip_on_receive(gnodes[t], gnodes[i].data)]
           pulled == [gnodes EXCEPT ![i] = gossip_on_receive(gnodes[i], gnodes[t].data)]
           both == [pushed EXCEPT ![i] = gossip_on_receive(pushed[i], pushed[t].data)]
<1>3. pushed \in [Peer -> TidyNode] /\ pulled \in [Peer -> TidyNode]
  <2>1. /\ gossip_on_receive(gnodes[t], gnodes[i].data) \in TidyNode
        /\ gossip_on_receive(gnodes[i], gnodes[t].data) \in TidyNode
    BY <1>1, <1>2
  <2> QED
    BY <1>1, <2>1
<1>4. Exchanged(i, t) \in {pushed, pulled, both}
  BY <1>1, <1>3, TidyNodes DEF Exchanged
<1> HIDE DEF pushed, pulled
<1>5. both \in [Peer -> TidyNode]
  <2>1. gossip_on_receive(pushed[i], pushed[t].data) \in TidyNode
    BY <1>2, <1>3
  <2> QED
    BY <1>3, <2>1
<1> HIDE DEF both
<1> QED
  BY <1>3, <1>4, <1>5

LEMMA WriteTidy ==
  ASSUME GossipInv, NEW i \in Peer, NEW key \in GossipKeys, NEW v \in GossipValues,
         gossip_set_data(i, key, v)
  PROVE  gnodes' \in [Peer -> TidyNode]
<1> DEFINE nd    == gnodes[i]
           entry == [key |-> key, value |-> v, version |-> nd.version_clock + 1]
           data  == IF Has(nd.data, key)
                    THEN [nd.data EXCEPT ![Min(Positions(nd.data, key))] = entry]
                    ELSE Append(nd.data, entry)
           n == [nd EXCEPT !.data = data, !.version_clock = nd.version_clock + 1]
<1>1. gnodes \in [Peer -> TidyNode] /\ nd \in GossipNode /\ nd.data \in Tidy
      /\ nd.version_clock \in Nat
  BY TidyNodes, NodeFields DEF TidyNode
<1>2. entry \in GossipDataEntry /\ entry.key = key
  BY <1>1 DEF GossipDataEntry
<1>3. gnodes' = [gnodes EXCEPT ![i] = n]
  BY <1>1 DEF gossip_set_data
<1> HIDE DEF entry
<1>4. data \in Tidy
  <2>1. CASE Has(nd.data, key)
    <3> DEFINE k == Min(Positions(nd.data, key))
    <3>1. k \in DOMAIN nd.data /\ nd.data[k].key = key
      BY <1>1, <2>1, Lookup
    <3> HIDE DEF k
    <3>2. [nd.data EXCEPT ![k] = entry] \in Tidy
      BY <1>1, <1>2, <3>1, EditTidy
    <3> QED
      BY <2>1, <3>2 DEF k
  <2>2. CASE ~Has(nd.data, key)
    BY <1>1, <1>2, <2>2, AddTidy
  <2> QED
    BY <2>1, <2>2
<1> HIDE DEF data
<1>5. data \in Seq(GossipDataEntry) /\ nd.version_clock + 1 \in Nat
  BY <1>1, <1>4 DEF Tidy
<1>6. n \in GossipNode /\ n.data = data
  BY <1>1, <1>5, NodeChanged
<1> HIDE DEF n
<1> QED
  BY <1>1, <1>3, <1>4, <1>6 DEF TidyNode

LEMMA StopTidy ==
  ASSUME GossipInv, NEW i \in Peer, Stop(i)
  PROVE  gnodes' \in [Peer -> TidyNode]
<1> DEFINE n == [gnodes[i] EXCEPT !.active = FALSE]
<1>1. gnodes \in [Peer -> TidyNode] /\ gnodes[i] \in GossipNode /\ gnodes[i].data \in Tidy
  BY TidyNodes DEF TidyNode
<1>2. gnodes' = [gnodes EXCEPT ![i] = n]
  BY <1>1 DEF Stop
<1>3. n \in GossipNode /\ n.data = gnodes[i].data
  BY <1>1 DEF GossipNode
<1> HIDE DEF n
<1> QED
  BY <1>1, <1>2, <1>3 DEF TidyNode

LEMMA SenderIsPeer ==
  ASSUME at \in Nat, at < Idle
  PROVE  Sender \in Peer
<1> DEFINE q == at \div Fanout
<1>1. Fanout \in Nat /\ Fanout > 0 /\ Peers \in Nat
  BY GossipAssumption
<1>2. q \in Nat /\ q * Fanout <= at
  BY <1>1
<1> HIDE DEF q
<1>3. q * Fanout < Peers * Fanout
  BY <1>1, <1>2 DEF Idle
<1>4. ASSUME q >= Peers
      PROVE  FALSE
  <2>1. PICK d \in Nat : q = Peers + d
    BY <1>1, <1>2, <1>4
  <2>2. q * Fanout = Peers * Fanout + d * Fanout
    BY <1>1, <2>1
  <2>3. d * Fanout \in Nat /\ Peers * Fanout \in Nat
    BY <1>1, <2>1
  <2> QED
    BY <1>3, <2>2, <2>3
<1> QED
  BY <1>1, <1>2, <1>4 DEF Sender, Peer, q

LEMMA GossipInvariant == GossipSpec => []GossipInv
<1>1. GossipInit => GossipInv
  <2> SUFFICES ASSUME GossipInit PROVE GossipInv
    OBVIOUS
  <2> DEFINE n == [data |-> <<>>, version_clock |-> 0, active |-> TRUE]
  <2>1. n \in GossipNode /\ n.data = <<>>
    BY DEF GossipNode
  <2>2. <<>> \in Tidy
    BY DEF Tidy, Distinct
  <2>3. gnodes = [i \in Peer |-> n] /\ strategy = "PUSH" /\ at \in Nat
    BY GossipAssumption DEF GossipInit, Idle
  <2> HIDE DEF n
  <2> QED
    BY <2>1, <2>2, <2>3 DEF GossipInv
<1>2. GossipInv /\ [GossipNext]_gossipVars => GossipInv'
  <2> SUFFICES ASSUME GossipInv, [GossipNext]_gossipVars PROVE GossipInv'
    OBVIOUS
  <2>0. gnodes \in [Peer -> TidyNode] /\ strategy \in {"PUSH", "PULL", "PUSH_PULL"} /\ at \in Nat
    BY TidyNodes
  <2> DEFINE Control == strategy' \in {"PUSH", "PULL", "PUSH_PULL"} /\ at' \in Nat
  <2> SUFFICES gnodes' \in [Peer -> TidyNode] /\ Control
    BY DEF GossipInv, TidyNode
  <2>1. CASE UNCHANGED gossipVars
    BY <2>0, <2>1 DEF gossipVars
  <2>2. ASSUME NEW s \in {"PUSH", "PULL", "PUSH_PULL"}, Spread(s)
        PROVE  gnodes' \in [Peer -> TidyNode] /\ Control
    BY <2>0, <2>2 DEF Spread
  <2>3. CASE SkipNode \/ SkipExchange
    <3>1. Sender \in Nat /\ Fanout \in Nat
      BY <2>0, GossipAssumption DEF Sender
    <3>2. (Sender + 1) * Fanout \in Nat
      BY <3>1
    <3> QED
      BY <2>0, <2>3, <3>2 DEF SkipNode, SkipExchange
  <2>4. ASSUME NEW t \in Peer, Exchange(t)
        PROVE  gnodes' \in [Peer -> TidyNode] /\ Control
    <3>1. Sender \in Peer
      BY <2>0, <2>4, SenderIsPeer DEF Exchange
    <3> QED
      BY <2>0, <2>4, <3>1, ExchangeTidy DEF Exchange
  <2>5. ASSUME NEW i \in Peer, Stop(i)
        PROVE  gnodes' \in [Peer -> TidyNode] /\ Control
    BY <2>0, <2>5, StopTidy DEF Stop
  <2>6. ASSUME NEW i \in Peer, NEW key \in GossipKeys, NEW v \in GossipValues,
               gossip_set_data(i, key, v)
        PROVE  gnodes' \in [Peer -> TidyNode] /\ Control
    BY <2>0, <2>6, WriteTidy DEF gossip_set_data
  <2> QED
    BY <2>1, <2>2, <2>3, <2>4, <2>5, <2>6 DEF GossipNext, Round
<1> QED
  BY <1>1, <1>2, PTL DEF GossipSpec

(* Versions by key, as a set.                                                *)
Held(data) == {<<e.key, e.version>> : e \in ToSet(data)}

LEMMA HeldAt ==
  ASSUME NEW data, NEW x
  PROVE  x \in Held(data) <=> \E k \in DOMAIN data : x = <<data[k].key, data[k].version>>
  BY DEF Held, ToSet

(* As many entries, and among them all of the other's: the same entries.     *)
LEMMA SameHeld ==
  ASSUME NEW a \in Tidy, NEW b \in Tidy, Len(a) = Len(b),
         \A k \in DOMAIN a : /\ Has(b, a[k].key)
                             /\ gossip_get_data(b, a[k].key).version = a[k].version
  PROVE  Held(a) = Held(b)
<1> DEFINE S == 1 .. Len(a)
           f == [k \in S |-> Min(Positions(b, a[k].key))]
<1>1. /\ a \in Seq(GossipDataEntry) /\ b \in Seq(GossipDataEntry) /\ Distinct(a)
      /\ Len(a) \in Nat /\ DOMAIN a = S /\ DOMAIN b = S
  BY DEF Tidy
<1>2. ASSUME NEW k \in S
      PROVE  /\ f[k] \in S /\ b[f[k]].key = a[k].key /\ b[f[k]].version = a[k].version
  <2>1. Has(b, a[k].key) /\ gossip_get_data(b, a[k].key).version = a[k].version
    BY <1>1
  <2>2. f[k] = Min(Positions(b, a[k].key))
    OBVIOUS
  <2> HIDE DEF f
  <2> QED
    BY <1>1, <2>1, <2>2, Lookup DEF gossip_get_data
<1>3. f \in [S -> S]
  BY <1>2
<1> HIDE DEF f
<1>4. \A j, k \in S : f[j] = f[k] => j = k
  BY <1>1, <1>2 DEF Distinct
<1>5. f \in Injection(S, S)
  BY <1>3, <1>4 DEF Injection, IsInjective
<1>6. IsFiniteSet(S)
  BY <1>1, FS_Interval
<1> HIDE DEF S
<1>7. f \in Surjection(S, S)
  BY <1>5, <1>6, FS_Injection
<1>8. \A l \in S : \E k \in S : f[k] = l
  BY <1>7 DEF Surjection
<1>9. ASSUME NEW x \in Held(a) PROVE x \in Held(b)
  BY <1>1, <1>2, <1>9, HeldAt
<1>10. ASSUME NEW x \in Held(b) PROVE x \in Held(a)
  <2>1. PICK l \in S : x = <<b[l].key, b[l].version>>
    BY <1>1, <1>10, HeldAt
  <2>2. PICK k \in S : f[k] = l
    BY <1>8
  <2> QED
    BY <1>1, <1>2, <2>1, <2>2, HeldAt
<1> QED
  BY <1>9, <1>10

LEMMA HeldOnce ==
  ASSUME NEW data \in Tidy, NEW key
  PROVE  Cardinality(Positions(data, key)) <= 1
<1>1. CASE Has(data, key)
  <2>1. Positions(data, key) = {Min(Positions(data, key))}
    BY <1>1, Lookup DEF Positions
  <2> QED
    BY <2>1, FS_Singleton
<1>2. CASE ~Has(data, key)
  BY <1>2, FS_EmptySet DEF Has
<1> QED
  BY <1>1, <1>2

LEMMA SyncedTold == GossipInv => SyncedMeansEqual
<1> SUFFICES ASSUME GossipInv, gossip_all_synced, NEW i \in Active, NEW j \in Active
             PROVE  /\ Held(gnodes[i].data) = Held(gnodes[j].data)
                    /\ \A key \in GossipKeys : Cardinality(Positions(gnodes[i].data, key)) <= 1
  BY DEF SyncedMeansEqual, Held
<1> DEFINE ref == Min(Active)
<1>1. Active \subseteq Peer /\ Peer \subseteq Nat /\ Active # {}
  BY GossipAssumption DEF Active, Peer
<1>2. ref \in Active
  BY <1>1, LeastIsMin
<1>3. \A l \in Active : gnodes[l].data \in Tidy
  BY <1>1 DEF GossipInv
<1>4. ASSUME NEW l \in Active
      PROVE  Held(gnodes[ref].data) = Held(gnodes[l].data)
  <2>1. /\ Len(gnodes[l].data) = Len(gnodes[ref].data)
        /\ \A k \in DOMAIN gnodes[ref].data :
             /\ Has(gnodes[l].data, gnodes[ref].data[k].key)
             /\ gossip_get_data(gnodes[l].data, gnodes[ref].data[k].key).version
                  = gnodes[ref].data[k].version
    BY DEF gossip_all_synced
  <2> HIDE DEF ref
  <2> QED
    BY <1>2, <1>3, <2>1, SameHeld
<1> HIDE DEF ref
<1> QED
  BY <1>3, <1>4, HeldOnce
-----------------------------------------------------------------------------
(* The eventually consistent store.  For every key, a quorum of replicas     *)
(* covers the version acknowledged last: they hold the key at that version   *)
(* or a later one, or they have no room for it and never will.  Nothing that *)
(* a call does to a replica uncovers a version.                              *)

EcRow == [key : EcKeys \cup Nat, value : EcValues, version : Nat]

EcHint == [value : EcValues, target : EcReplica]

EcNode == [online : BOOLEAN, data : Seq(EcRow), hints : Seq(EcHint)]

Covers(r, key, v) ==
  IF HasEntry(r, key) THEN EntryOf(r, key).version >= v ELSE Len(r.data) >= MaxData

Covering(rs, key, v) == {i \in EcReplica : Covers(rs[i], key, v)}

EcInv ==
  /\ ecReplicas \in [EcReplica -> EcNode]
  /\ acked \in [EcKeys -> Nat]
  /\ \A key \in EcKeys :
       acked[key] > 0 => Cardinality(Covering(ecReplicas, key, acked[key])) >= EcQuorum

(* What was covered stays covered.                                           *)
KeepsCovered(r, s) ==
  s \in EcNode /\ \A key \in EcKeys, v \in Nat : Covers(r, key, v) => Covers(s, key, v)

LEMMA EcFields ==
  ASSUME NEW r \in EcNode
  PROVE  r.data \in Seq(EcRow) /\ r.hints \in Seq(EcHint)
  BY DEF EcNode

LEMMA EcDataChanged ==
  ASSUME NEW r \in EcNode, NEW data \in Seq(EcRow)
  PROVE  [r EXCEPT !.data = data] \in EcNode /\ [r EXCEPT !.data = data].data = data
         /\ [r EXCEPT !.data = data].hints = r.hints
         /\ [r EXCEPT !.data = data].online = r.online
  BY DEF EcNode

LEMMA EcHintsChanged ==
  ASSUME NEW r \in EcNode, NEW hints \in Seq(EcHint)
  PROVE  [r EXCEPT !.hints = hints] \in EcNode /\ [r EXCEPT !.hints = hints].data = r.data
         /\ [r EXCEPT !.hints = hints].hints = hints
         /\ [r EXCEPT !.hints = hints].online = r.online
  BY DEF EcNode

LEMMA EcOnlineChanged ==
  ASSUME NEW r \in EcNode, NEW b \in BOOLEAN
  PROVE  [r EXCEPT !.online = b] \in EcNode /\ [r EXCEPT !.online = b].data = r.data
  BY DEF EcNode

(* A lookup finds the first entry of the key.                                *)
LEMMA EcLookup ==
  ASSUME NEW r, r.data \in Seq(EcRow), NEW key
  PROVE  /\ HasEntry(r, key) <=> \E k \in DOMAIN r.data : r.data[k].key = key
         /\ HasEntry(r, key) =>
              /\ ec_find_entry(r, key) \in DOMAIN r.data
              /\ r.data[ec_find_entry(r, key)].key = key
              /\ \A k \in DOMAIN r.data : r.data[k].key = key => ec_find_entry(r, key) <= k
<1> DEFINE found == {i \in DOMAIN r.data : r.data[i].key = key}
<1>1. found \subseteq DOMAIN r.data /\ DOMAIN r.data \subseteq Nat \ {0}
  OBVIOUS
<1>2. ec_find_entry(r, key) = IF found = {} THEN 0 ELSE Min(found)
  BY DEF ec_find_entry
<1>3. CASE found = {}
  BY <1>2, <1>3 DEF HasEntry
<1>4. CASE found # {}
  <2>1. Min(found) \in found /\ \A y \in found : Min(found) <= y
    <3>1. found \subseteq Nat
      BY <1>1
    <3> HIDE DEF found
    <3> QED
      BY <1>4, <3>1, LeastIsMin
  <2>2. Min(found) # 0
    BY <1>1, <2>1
  <2> QED
    BY <1>2, <1>4, <2>1, <2>2 DEF HasEntry
<1> QED
  BY <1>3, <1>4

LEMMA EntryTyped ==
  ASSUME NEW r, r.data \in Seq(EcRow), NEW key, HasEntry(r, key)
  PROVE  EntryOf(r, key) \in EcRow /\ EntryOf(r, key).version \in Nat
         /\ EntryOf(r, key).value \in EcValues /\ EntryOf(r, key).key = key
<1>1. ec_find_entry(r, key) \in DOMAIN r.data /\ r.data[ec_find_entry(r, key)].key = key
  BY EcLookup
<1>2. EntryOf(r, key) \in EcRow /\ EntryOf(r, key).key = key
  BY <1>1 DEF EntryOf
<1> QED
  BY <1>2 DEF EcRow

(* The same array covers the same versions.                                  *)
LEMMA CoversByData ==
  ASSUME NEW r, NEW s \in EcNode, s.data = r.data
  PROVE  KeepsCovered(r, s)
<1>1. \A key : ec_find_entry(s, key) = ec_find_entry(r, key)
  BY DEF ec_find_entry
<1>2. \A key : (HasEntry(s, key) <=> HasEntry(r, key)) /\ EntryOf(s, key) = EntryOf(r, key)
  BY <1>1 DEF HasEntry, EntryOf
<1> QED
  BY <1>2 DEF KeepsCovered, Covers

LEMMA CoversTrans ==
  ASSUME NEW r, NEW s, NEW t, KeepsCovered(r, s), KeepsCovered(s, t)
  PROVE  KeepsCovered(r, t)
  BY DEF KeepsCovered

(* An entry is replaced by one of the same key that is not older.            *)
LEMMA ReplaceKeeps ==
  ASSUME NEW r \in EcNode, NEW key, HasEntry(r, key), NEW e \in EcRow, e.key = key,
         e.version >= EntryOf(r, key).version
  PROVE  LET s == [r EXCEPT !.data = [r.data EXCEPT ![ec_find_entry(r, key)] = e]]
         IN  KeepsCovered(r, s) /\ HasEntry(s, key) /\ EntryOf(s, key) = e
             /\ s.hints = r.hints /\ s.online = r.online
<1> DEFINE k == ec_find_entry(r, key)
           data == [r.data EXCEPT ![k] = e]
           s == [r EXCEPT !.data = data]
<1>1. r.data \in Seq(EcRow)
  BY EcFields
<1>2. k \in DOMAIN r.data /\ r.data[k].key = key /\ k \in Nat
  BY <1>1, EcLookup
<1>3. data \in Seq(EcRow) /\ DOMAIN data = DOMAIN r.data /\ Len(data) = Len(r.data)
  BY <1>1, <1>2
<1>4. \A j \in DOMAIN r.data : data[j].key = r.data[j].key /\ (j # k => data[j] = r.data[j])
  BY <1>1, <1>2
<1>5. data[k] = e
  BY <1>1, <1>2
<1> HIDE DEF data
<1>6. s \in EcNode /\ s.data = data /\ s.hints = r.hints /\ s.online = r.online
  BY <1>3, EcDataChanged
<1> HIDE DEF s
<1>7. \A q : ec_find_entry(s, q) = ec_find_entry(r, q)
  <2> SUFFICES ASSUME NEW q
               PROVE  {i \in DOMAIN data : data[i].key = q} = {i \in DOMAIN r.data : r.data[i].key = q}
    BY <1>6 DEF ec_find_entry
  <2> QED
    BY <1>3, <1>4
<1>8. \A q : HasEntry(s, q) <=> HasEntry(r, q)
  BY <1>7 DEF HasEntry
<1>9. EntryOf(s, key) = e
  BY <1>5, <1>6, <1>7 DEF EntryOf
<1>10. ASSUME NEW q \in EcKeys, NEW v \in Nat, Covers(r, q, v)
       PROVE  Covers(s, q, v)
  <2>1. CASE ~HasEntry(r, q)
    BY <2>1, <1>3, <1>6, <1>8, <1>10 DEF Covers
  <2>2. CASE HasEntry(r, q) /\ ec_find_entry(r, q) = k
    <3>1. EntryOf(s, q) = e /\ EntryOf(r, q) = EntryOf(r, key)
      BY <1>5, <1>6, <1>7, <2>2 DEF EntryOf
    <3>2. EntryOf(r, key).version \in Nat /\ e.version \in Nat
      BY <1>1, EntryTyped DEF EcRow
    <3> QED
      BY <1>8, <1>10, <2>2, <3>1, <3>2 DEF Covers
  <2>3. CASE HasEntry(r, q) /\ ec_find_entry(r, q) # k
    <3>1. ec_find_entry(r, q) \in DOMAIN r.data
      BY <1>1, <2>3, EcLookup
    <3>2. EntryOf(s, q) = EntryOf(r, q)
      BY <1>4, <1>6, <1>7, <2>3, <3>1 DEF EntryOf
    <3> QED
      BY <1>8, <1>10, <2>3, <3>2 DEF Covers
  <2> QED
    BY <2>1, <2>2, <2>3
<1> QED
  BY <1>6, <1>8, <1>9, <1>10 DEF KeepsCovered, s, data

(* An entry is added, behind the others.                                     *)
LEMMA AddKeeps ==
  ASSUME NEW r \in EcNode, NEW e \in EcRow, Len(r.data) < MaxData
  PROVE  LET s == [r EXCEPT !.data = Append(r.data, e)]
         IN  KeepsCovered(r, s) /\ (~HasEntry(r, e.key) => HasEntry(s, e.key) /\ EntryOf(s, e.key) = e)
             /\ s.hints = r.hints /\ s.online = r.online
<1> DEFINE data == Append(r.data, e)
           s == [r EXCEPT !.data = data]
           n == Len(r.data)
<1>1. r.data \in Seq(EcRow) /\ n \in Nat /\ DOMAIN r.data = 1 .. n
  BY EcFields
<1>2. /\ data \in Seq(EcRow) /\ DOMAIN data = 1 .. n + 1
      /\ \A j \in 1 .. n : data[j] = r.data[j]
      /\ data[n + 1] = e
  BY <1>1
<1> HIDE DEF data
<1>3. s \in EcNode /\ s.data = data /\ s.hints = r.hints /\ s.online = r.online
  BY <1>2, EcDataChanged
<1> HIDE DEF s, n
<1>4. ASSUME NEW q, HasEntry(r, q)
      PROVE  HasEntry(s, q) /\ EntryOf(s, q) = EntryOf(r, q)
  <2> DEFINE k == ec_find_entry(r, q)
             l == ec_find_entry(s, q)
  <2>1. k \in 1 .. n /\ r.data[k].key = q /\ \A j \in 1 .. n : r.data[j].key = q => k <= j
    BY <1>1, <1>4, EcLookup
  <2>2. HasEntry(s, q)
    <3>1. k \in DOMAIN s.data /\ s.data[k].key = q
      BY <1>1, <1>2, <1>3, <2>1
    <3> QED
      BY <1>2, <1>3, <3>1, EcLookup
  <2>3. l \in 1 .. n + 1 /\ data[l].key = q /\ \A j \in 1 .. n + 1 : data[j].key = q => l <= j
    BY <1>2, <1>3, <2>2, EcLookup
  <2> HIDE DEF k, l
  <2>4. l <= k
    BY <1>1, <1>2, <2>1, <2>3
  <2>5. l \in 1 .. n
    BY <1>1, <2>1, <2>3, <2>4
  <2>6. k <= l
    BY <1>2, <2>1, <2>3, <2>5
  <2>7. k = l
    BY <1>1, <2>1, <2>4, <2>5, <2>6
  <2> QED
    BY <1>2, <1>3, <2>1, <2>2, <2>7 DEF EntryOf, k, l
<1>5. ASSUME ~HasEntry(r, e.key)
      PROVE  HasEntry(s, e.key) /\ EntryOf(s, e.key) = e
  <2> DEFINE l == ec_find_entry(s, e.key)
  <2>1. \A j \in 1 .. n : r.data[j].key # e.key
    BY <1>1, <1>5, EcLookup
  <2>2. n + 1 \in DOMAIN data
    BY <1>1, <1>2
  <2>3. HasEntry(s, e.key)
    BY <1>2, <1>3, <2>2, EcLookup
  <2>4. l \in 1 .. n + 1 /\ data[l].key = e.key
    BY <1>2, <1>3, <2>3, EcLookup
  <2> HIDE DEF l
  <2>5. l = n + 1
    BY <1>1, <1>2, <2>1, <2>4
  <2> QED
    BY <1>2, <1>3, <2>3, <2>5 DEF EntryOf, l
<1>6. ASSUME NEW q \in EcKeys, NEW v \in Nat, Covers(r, q, v)
      PROVE  Covers(s, q, v)
  <2>1. HasEntry(r, q)
    BY <1>1, <1>6, EcAssumption DEF Covers, n
  <2> QED
    BY <1>4, <1>6, <2>1 DEF Covers
<1> QED
  BY <1>3, <1>5, <1>6 DEF KeepsCovered, s, data

LEMMA WithEntryKeeps ==
  ASSUME NEW r \in EcNode, NEW key \in EcKeys \cup Nat, NEW value \in EcValues,
         NEW version \in Nat, HasEntry(r, key) => version >= EntryOf(r, key).version
  PROVE  LET s == WithEntry(r, key, value, version)
         IN  KeepsCovered(r, s) /\ Covers(s, key, version) /\ s.hints = r.hints
<1> DEFINE e == [key |-> key, value |-> value, version |-> version]
           k == ec_find_entry(r, key)
           s == WithEntry(r, key, value, version)
<1>1. e \in EcRow /\ e.key = key /\ e.version = version
  BY DEF EcRow
<1>2. r.data \in Seq(EcRow) /\ Len(r.data) \in Nat
  BY EcFields
<1>3. CASE HasEntry(r, key)
  <2>1. [r EXCEPT !.data[k] = e] = [r EXCEPT !.data = [r.data EXCEPT ![k] = e]]
    BY DEF EcNode
  <2>2. s = [r EXCEPT !.data = [r.data EXCEPT ![k] = e]]
    BY <1>3, <2>1 DEF WithEntry
  <2> HIDE DEF e, s, k
  <2>3. KeepsCovered(r, s) /\ HasEntry(s, key) /\ EntryOf(s, key) = e /\ s.hints = r.hints
    BY <1>1, <1>3, <2>2, ReplaceKeeps DEF k
  <2> QED
    BY <1>1, <2>3 DEF Covers, s
<1>4. CASE ~HasEntry(r, key) /\ Len(r.data) < MaxData
  <2>1. s = [r EXCEPT !.data = Append(r.data, e)]
    BY <1>4 DEF WithEntry
  <2> HIDE DEF e, s
  <2>2. KeepsCovered(r, s) /\ HasEntry(s, key) /\ EntryOf(s, key) = e /\ s.hints = r.hints
    BY <1>1, <1>4, <2>1, AddKeeps
  <2> QED
    BY <1>1, <2>2 DEF Covers, s
<1>5. CASE ~HasEntry(r, key) /\ ~(Len(r.data) < MaxData)
  <2>1. s = r
    BY <1>5 DEF WithEntry
  <2> HIDE DEF s
  <2>2. KeepsCovered(r, s)
    BY <2>1, CoversByData
  <2>3. Covers(s, key, version)
    BY <1>2, <1>5, <2>1, EcAssumption DEF Covers
  <2> QED
    BY <2>1, <2>2, <2>3 DEF s
<1> QED
  BY <1>3, <1>4, <1>5

(* All replicas together.                                                    *)
EcState == [EcReplica -> EcNode]

AllKeep(rs, ns) == ns \in EcState /\ \A i \in EcReplica : KeepsCovered(rs[i], ns[i])

LEMMA AllKeepTrans ==
  ASSUME NEW rs, NEW ns, NEW os, AllKeep(rs, ns), AllKeep(ns, os)
  PROVE  AllKeep(rs, os)
  BY CoversTrans DEF AllKeep

LEMMA AllKeepRefl ==
  ASSUME NEW rs \in EcState
  PROVE  AllKeep(rs, rs)
  BY CoversByData DEF AllKeep, EcState

LEMMA ReplicasNatural == EcReplica \subseteq Nat
  BY EcAssumption DEF EcReplica

(* Of finitely many entries one has the highest version.                     *)
LEMMA HighestExists ==
  ASSUME NEW H, H \subseteq EcReplica, H # {}, NEW f, \A i \in H : f[i] \in Nat
  PROVE  \E i \in H : \A j \in H : f[j] <= f[i]
<1> DEFINE Under(k) == {i \in H : i < k}
           Good(k) == Under(k) = {} \/ \E i \in Under(k) : \A j \in Under(k) : f[j] <= f[i]
           Bad == {k \in 0 .. ReplicaCount : ~Good(k)}
<1>0. H \subseteq Nat /\ ReplicaCount \in Nat /\ \A i \in H : i < ReplicaCount
  BY EcAssumption, ReplicasNatural DEF EcReplica
<1>1. Under(ReplicaCount) = H
  BY <1>0
<1>2. CASE Bad = {}
  <2>1. Good(ReplicaCount)
    BY <1>0, <1>2
  <2> QED
    BY <1>1, <2>1
<1>3. CASE Bad # {}
  <2>1. PICK k \in Bad : \A l \in Bad : k <= l
    <3>1. Bad \subseteq Nat
      OBVIOUS
    <3> HIDE DEF Bad
    <3> QED
      BY <1>3, <3>1, LeastNumber
  <2>2. k \in 0 .. ReplicaCount /\ ~Good(k)
    OBVIOUS
  <2>3. k # 0
    <3>1. Under(0) = {}
      <4>1. \A i \in H : i \in Nat
        BY <1>0
      <4>2. \A i \in Nat : ~(i < 0)
        OBVIOUS
      <4> QED
        BY <4>1, <4>2
    <3> QED
      BY <2>2, <3>1
  <2>4. k - 1 \in 0 .. ReplicaCount /\ Good(k - 1)
    <3>1. k - 1 \in 0 .. ReplicaCount /\ ~(k <= k - 1)
      BY <1>0, <2>2, <2>3
    <3>2. k - 1 \notin Bad
      <4> HIDE DEF Bad
      <4> QED
        BY <2>1, <3>1
    <3> QED
      BY <3>1, <3>2
  <2>5. Under(k) = Under(k - 1) \cup (IF k - 1 \in H THEN {k - 1} ELSE {})
    <3>1. \A i \in Nat : i < k <=> i < k - 1 \/ i = k - 1
      BY <1>0, <2>2
    <3>2. \A i \in H : i < k <=> i < k - 1 \/ i = k - 1
      BY <1>0, <3>1
    <3>3. ~(k - 1 < k - 1)
      BY <1>0, <2>2
    <3> QED
      BY <3>2, <3>3
  <2> HIDE DEF Under
  <2>6. Under(k) \subseteq H /\ Under(k - 1) \subseteq H
    BY DEF Under
  <2>7. CASE k - 1 \notin H
    BY <2>2, <2>4, <2>5, <2>7
  <2>8. CASE k - 1 \in H /\ Under(k - 1) = {}
    <3>1. Under(k) = {k - 1}
      BY <2>5, <2>8
    <3> QED
      BY <2>2, <2>8, <3>1
  <2>9. CASE k - 1 \in H /\ Under(k - 1) # {}
    <3>1. PICK i \in Under(k - 1) : \A j \in Under(k - 1) : f[j] <= f[i]
      BY <2>4, <2>9
    <3>2. i \in H /\ f[i] \in Nat /\ f[k - 1] \in Nat
      BY <2>6, <2>9
    <3>3. CASE f[k - 1] <= f[i]
      <4>1. i \in Under(k) /\ \A j \in Under(k) : f[j] <= f[i]
        BY <2>5, <3>1, <3>3
      <4> QED
        BY <2>2, <4>1
    <3>4. CASE f[i] <= f[k - 1]
      <4>1. \A j \in Under(k) : f[j] <= f[k - 1]
        <5> SUFFICES ASSUME NEW j \in Under(k) PROVE f[j] <= f[k - 1]
          OBVIOUS
        <5>1. f[j] \in Nat
          BY <2>6
        <5>2. j = k - 1 \/ f[j] <= f[i]
          BY <2>5, <3>1
        <5> QED
          BY <3>2, <3>4, <5>1, <5>2
      <4>2. k - 1 \in Under(k)
        BY <2>5, <2>9
      <4> QED
        BY <2>2, <4>1, <4>2
    <3> QED
      BY <3>2, <3>3, <3>4
  <2> QED
    BY <2>7, <2>8, <2>9
<1> QED
  BY <1>2, <1>3

LEMMA BestIsHighest ==
  ASSUME NEW rs \in EcState, NEW key
  PROVE  /\ Best(rs, key).version \in Nat
         /\ Best(rs, key).version # 0 => Best(rs, key).value \in EcValues
         /\ \A j \in Holders(rs, key) :
              EntryOf(rs[j], key).version \in Nat /\ EntryOf(rs[j], key).version <= Best(rs, key).version
<1> DEFINE f == [i \in EcReplica |-> EntryOf(rs[i], key).version]
           H == Holders(rs, key)
           top == {i \in H : EntryOf(rs[i], key).version > 0
                       /\ \A j \in H : EntryOf(rs[j], key).version <= EntryOf(rs[i], key).version}
<1>1. H \subseteq EcReplica /\ \A i \in H : HasEntry(rs[i], key)
  BY DEF Holders, Online
<1>2. ASSUME NEW i \in H
      PROVE  EntryOf(rs[i], key).version \in Nat /\ EntryOf(rs[i], key).value \in EcValues
  <2>1. rs[i].data \in Seq(EcRow)
    BY <1>1, EcFields DEF EcState
  <2> QED
    BY <1>1, <2>1, EntryTyped
<1>3. Best(rs, key) = IF top = {} THEN [value |-> 0, version |-> 0]
                      ELSE [value |-> EntryOf(rs[Min(top)], key).value,
                            version |-> EntryOf(rs[Min(top)], key).version]
  BY DEF Best
<1> HIDE DEF H
<1>4. CASE top = {}
  <2>1. Best(rs, key).version = 0
    BY <1>3, <1>4
  <2>2. ASSUME NEW j \in H PROVE EntryOf(rs[j], key).version <= 0
    <3>1. \A i \in H : f[i] = EntryOf(rs[i], key).version
      BY <1>1
    <3>2. PICK i \in H : \A l \in H : f[l] <= f[i]
      <4>1. \A i \in H : f[i] \in Nat
        BY <1>2, <3>1
      <4> HIDE DEF f
      <4> QED
        BY <1>1, <2>2, <4>1, HighestExists
    <3>3. \A l \in H : EntryOf(rs[l], key).version <= EntryOf(rs[i], key).version
      BY <3>1, <3>2
    <3>4. ~(EntryOf(rs[i], key).version > 0)
      BY <1>4, <3>3
    <3> QED
      BY <1>2, <3>3, <3>4
  <2> QED
    BY <1>2, <2>1, <2>2 DEF H
<1>5. CASE top # {}
  <2>1. Min(top) \in top
    <3>1. top \subseteq Nat
      BY <1>1, ReplicasNatural
    <3> HIDE DEF top
    <3> QED
      BY <1>5, <3>1, LeastIsMin
  <2>2. Min(top) \in H /\ \A j \in H : EntryOf(rs[j], key).version <= EntryOf(rs[Min(top)], key).version
    BY <2>1
  <2> HIDE DEF top
  <2>3. /\ Best(rs, key).version = EntryOf(rs[Min(top)], key).version
        /\ Best(rs, key).value = EntryOf(rs[Min(top)], key).value
    BY <1>3, <1>5
  <2> QED
    BY <1>2, <2>2, <2>3 DEF H
<1> QED
  BY <1>4, <1>5

LEMMA RepairKeeps ==
  ASSUME NEW rs \in EcState, NEW key \in EcKeys \cup Nat
  PROVE  AllKeep(rs, ec_read_repair(rs, key))
<1> DEFINE best == Best(rs, key)
           stale(i) == HasEntry(rs[i], key) => EntryOf(rs[i], key).version < best.version
           n(i) == IF rs[i].online /\ stale(i)
                   THEN WithEntry(rs[i], key, best.value, best.version) ELSE rs[i]
<1>1. best.version \in Nat /\ (best.version # 0 => best.value \in EcValues)
  BY BestIsHighest
<1>2. CASE best.version = 0
  <2>1. ec_read_repair(rs, key) = rs
    BY <1>2 DEF ec_read_repair
  <2> QED
    BY <2>1, AllKeepRefl
<1>3. CASE best.version # 0
  <2>1. ec_read_repair(rs, key) = [i \in EcReplica |-> n(i)]
    BY <1>3 DEF ec_read_repair
  <2>2. ASSUME NEW i \in EcReplica
        PROVE  KeepsCovered(rs[i], n(i))
    <3>1. rs[i] \in EcNode /\ rs[i].data \in Seq(EcRow)
      BY EcFields DEF EcState
    <3>2. CASE rs[i].online /\ stale(i)
      <4>1. HasEntry(rs[i], key) => best.version >= EntryOf(rs[i], key).version
        BY <1>1, <3>1, <3>2, EntryTyped
      <4> HIDE DEF best
      <4>2. KeepsCovered(rs[i], WithEntry(rs[i], key, best.value, best.version))
        BY <1>1, <1>3, <3>1, <4>1, WithEntryKeeps
      <4> QED
        BY <3>2, <4>2
    <3>3. CASE ~(rs[i].online /\ stale(i))
      BY <3>1, <3>3, CoversByData
    <3> QED
      BY <3>2, <3>3
  <2>3. \A i \in EcReplica : n(i) \in EcNode
    BY <2>2 DEF KeepsCovered
  <2> HIDE DEF n
  <2>4. [i \in EcReplica |-> n(i)] \in EcState
    BY <2>3 DEF EcState
  <2> QED
    BY <2>1, <2>2, <2>4 DEF AllKeep
<1> QED
  BY <1>2, <1>3

(* One hint handed over.                                                     *)
LEMMA HandOneKeeps ==
  ASSUME NEW rs \in EcState, NEW from \in EcReplica, NEW to \in EcReplica, from # to
  PROVE  AllKeep(rs, HandOne(rs, from, to))
<1> DEFINE hints == rs[from].hints
           mine == {i \in DOMAIN hints : hints[i].target = to}
           i == Min(mine)
           e == [key |-> i - 1, value |-> hints[i].value, version |-> i - 1]
           left == Front([hints EXCEPT ![i] = Last(hints)])
           got == IF Len(rs[to].data) < MaxData THEN Append(rs[to].data, e) ELSE rs[to].data
           giver == [rs[from] EXCEPT !.hints = left]
           taker == [rs[to] EXCEPT !.data = got]
<1>1. /\ rs[from] \in EcNode /\ rs[to] \in EcNode /\ hints \in Seq(EcHint)
      /\ rs[to].data \in Seq(EcRow)
  BY EcFields DEF EcState
<1>2. CASE mine = {}
  <2>1. HandOne(rs, from, to) = rs
    BY <1>2 DEF HandOne
  <2> QED
    BY <2>1, AllKeepRefl
<1>3. CASE mine # {}
  <2>1. i \in DOMAIN hints /\ i \in Nat \ {0} /\ DOMAIN hints = 1 .. Len(hints) /\ Len(hints) \in Nat
    <3>1. mine \subseteq DOMAIN hints /\ DOMAIN hints \subseteq Nat \ {0}
      BY <1>1
    <3>2. mine \subseteq Nat
      BY <3>1
    <3>3. Min(mine) \in mine
      <4> HIDE DEF mine
      <4> QED
        BY <1>3, <3>2, LeastIsMin
    <3> HIDE DEF mine
    <3> QED
      BY <1>1, <3>1, <3>3
  <2>2. HandOne(rs, from, to) = [[rs EXCEPT ![to].data = got] EXCEPT ![from].hints = left]
    BY <1>1, <1>3 DEF HandOne
  <2> HIDE DEF i
  <2>3. hints[i].value \in EcValues
    <3>1. hints[i] \in EcHint
      BY <1>1, <2>1
    <3> QED
      BY <3>1 DEF EcHint
  <2>4. e \in EcRow
    BY <2>1, <2>3 DEF EcRow
  <2>5. left \in Seq(EcHint)
    <3> DEFINE moved == [hints EXCEPT ![i] = Last(hints)]
    <3>1. Last(hints) \in EcHint
      BY <1>1, <2>1 DEF Last
    <3>2. moved \in Seq(EcHint) /\ Len(moved) = Len(hints)
      BY <1>1, <2>1, <3>1
    <3> HIDE DEF moved
    <3>3. SubSeq(moved, 1, Len(moved) - 1) \in Seq(EcHint)
      BY <2>1, <3>2
    <3> QED
      BY <3>3 DEF Front, moved
  <2> HIDE DEF left, e
  <2>6. giver \in EcNode /\ giver.data = rs[from].data
    BY <1>1, <2>5, EcHintsChanged
  <2>7. KeepsCovered(rs[to], taker)
    <3>1. CASE Len(rs[to].data) < MaxData
      <4>1. taker = [rs[to] EXCEPT !.data = Append(rs[to].data, e)]
        BY <3>1
      <4> QED
        BY <1>1, <2>4, <3>1, <4>1, AddKeeps
    <3>2. CASE ~(Len(rs[to].data) < MaxData)
      <4>1. taker = [rs[to] EXCEPT !.data = rs[to].data]
        BY <3>2
      <4> HIDE DEF taker
      <4>2. taker \in EcNode /\ taker.data = rs[to].data
        BY <1>1, <4>1, EcDataChanged
      <4> QED
        BY <4>2, CoversByData
    <3> QED
      BY <3>1, <3>2
  <2>8. KeepsCovered(rs[from], giver)
    BY <2>6, CoversByData
  <2>9. HandOne(rs, from, to) = [[rs EXCEPT ![to] = taker] EXCEPT ![from] = giver]
    BY <2>2 DEF EcState
  <2> HIDE DEF giver, taker
  <2>10. giver \in EcNode /\ taker \in EcNode
    BY <2>6, <2>7 DEF KeepsCovered
  <2> DEFINE ns == [[rs EXCEPT ![to] = taker] EXCEPT ![from] = giver]
  <2>11. ns \in EcState
    BY <2>10 DEF EcState
  <2>12. ASSUME NEW j \in EcReplica PROVE KeepsCovered(rs[j], ns[j])
    <3>1. CASE j = from
      BY <2>8, <3>1 DEF EcState
    <3>2. CASE j = to
      BY <2>7, <3>2 DEF EcState
    <3>3. CASE j # from /\ j # to
      <4>1. ns[j] = rs[j] /\ rs[j] \in EcNode
        BY <3>3 DEF EcState
      <4> QED
        BY <4>1, CoversByData
    <3> QED
      BY <3>1, <3>2, <3>3
  <2> QED
    BY <2>9, <2>11, <2>12 DEF AllKeep
<1> QED
  BY <1>2, <1>3

(* All hints for one replica that another keeps.                             *)
LEMMA HandoffKeeps ==
  ASSUME NEW rs \in EcState, NEW from \in EcReplica, NEW to \in EcReplica, from # to
  PROVE  AllKeep(rs, ec_hinted_handoff(rs, from, to))
<1> DEFINE n == Len(rs[from].hints)
           F(g) == [k \in 0 .. n |->
                      IF k = 0 THEN rs ELSE HandOne(g[k - 1], from, to)]
           h == CHOOSE g : g = F(g)
           step == [k \in 1 .. n |-> [x \in EcState |-> HandOne(x, from, to)]]
           P == {ns \in EcState : AllKeep(rs, ns)}
<1>1. n \in Nat
  BY EcFields DEF EcState
<1>2. ASSUME NEW k \in 1 .. n, NEW x \in EcState
      PROVE  HandOne(x, from, to) \in EcState /\ (x \in P => HandOne(x, from, to) \in P)
  <2>1. AllKeep(x, HandOne(x, from, to))
    BY HandOneKeeps
  <2> QED
    BY <2>1, AllKeepTrans DEF AllKeep
<1>3. step \in [1 .. n -> [EcState -> EcState]]
  BY <1>2
<1>4. rs \in EcState /\ rs \in P
  BY AllKeepRefl
<1>5. PICK c : Course(c, n, EcState, rs, step)
  <2> HIDE DEF step, n
  <2> QED
    BY <1>1, <1>3, <1>4, CourseExists
<1>6. c \in [0 .. n -> EcState] /\ c[0] = rs /\ \A k \in 1 .. n : c[k] = step[k][c[k - 1]]
  BY <1>5 DEF Course
<1>7. c = F(c)
  <2>1. ASSUME NEW k \in 1 .. n
        PROVE  c[k] = HandOne(c[k - 1], from, to)
    <3>1. k - 1 \in 0 .. n
      BY <1>1
    <3>2. step[k] = [x \in EcState |-> HandOne(x, from, to)]
      OBVIOUS
    <3> HIDE DEF step, n
    <3>3. c[k - 1] \in EcState /\ c[k] = step[k][c[k - 1]]
      BY <1>6, <3>1
    <3> QED
      BY <3>2, <3>3
  <2>2. ASSUME NEW k \in 0 .. n
        PROVE  c[k] = IF k = 0 THEN rs ELSE HandOne(c[k - 1], from, to)
    <3>1. CASE k = 0
      BY <1>6, <3>1
    <3>2. CASE k # 0
      <4>1. k \in 1 .. n
        BY <1>1, <3>2
      <4> QED
        BY <2>1, <3>2, <4>1
    <3> QED
      BY <3>1, <3>2
  <2> QED
    BY <1>6, <2>2, Zenon
<1>8. h = F(h)
  <2> HIDE DEF F
  <2> QED
    BY <1>7
<1> HIDE DEF h
<1>9. h[0] = rs /\ \A k \in 1 .. n : h[k] = HandOne(h[k - 1], from, to)
  <2>1. \A k \in 0 .. n : h[k] = F(h)[k]
    BY <1>8
  <2>2. \A k \in 0 .. n : F(h)[k] = IF k = 0 THEN rs ELSE HandOne(h[k - 1], from, to)
    OBVIOUS
  <2> HIDE DEF F
  <2>3. 0 \in 0 .. n /\ \A k \in 1 .. n : k \in 0 .. n /\ k # 0
    BY <1>1
  <2> QED
    BY <2>1, <2>2, <2>3
<1>10. \A k \in 0 .. n : h[k] \in P
  <2>1. \A x : x \in P => x \in EcState
    OBVIOUS
  <2> HIDE DEF P, n
  <2>2. \A k \in 1 .. n : h[k - 1] \in P => h[k] \in P
    BY <1>2, <1>9, <2>1
  <2> QED
    BY <1>1, <1>4, <1>9, <2>2, LoopKeeps
<1>11. ec_hinted_handoff(rs, from, to) = h[n]
  BY DEF ec_hinted_handoff, h
<1> QED
  BY <1>1, <1>10, <1>11

(* All hints for one replica.                                                *)
LEMMA HandedOverKeeps ==
  ASSUME NEW rs \in EcState, NEW id \in EcReplica
  PROVE  AllKeep(rs, HandedOver(rs, id))
<1> DEFINE n == ReplicaCount
           F(g) == [k \in 0 .. n |->
                      IF k = 0 THEN rs ELSE (IF k - 1 # id /\ rs[k - 1].online THEN ec_hinted_handoff(g[k - 1], k - 1, id) ELSE g[k - 1])]
           h == CHOOSE g : g = F(g)
           step == [k \in 1 .. n |-> [x \in EcState |-> (IF k - 1 # id /\ rs[k - 1].online THEN ec_hinted_handoff(x, k - 1, id) ELSE x)]]
           P == {ns \in EcState : AllKeep(rs, ns)}
<1>1. n \in Nat
  BY EcAssumption
<1>2. ASSUME NEW k \in 1 .. n, NEW x \in EcState
      PROVE  (IF k - 1 # id /\ rs[k - 1].online THEN ec_hinted_handoff(x, k - 1, id) ELSE x) \in EcState /\ (x \in P => (IF k - 1 # id /\ rs[k - 1].online THEN ec_hinted_handoff(x, k - 1, id) ELSE x) \in P)
  <2>1. k - 1 \in EcReplica
    BY <1>1 DEF EcReplica
  <2>2. CASE k - 1 # id /\ rs[k - 1].online
    <3>1. AllKeep(x, ec_hinted_handoff(x, k - 1, id))
      BY <2>1, <2>2, HandoffKeeps
    <3> QED
      BY <2>2, <3>1, AllKeepTrans DEF AllKeep
  <2>3. CASE ~(k - 1 # id /\ rs[k - 1].online)
    BY <2>3
  <2> QED
    BY <2>2, <2>3
<1>3. step \in [1 .. n -> [EcState -> EcState]]
  BY <1>2
<1>4. rs \in EcState /\ rs \in P
  BY AllKeepRefl
<1>5. PICK c : Course(c, n, EcState, rs, step)
  <2> HIDE DEF step, n
  <2> QED
    BY <1>1, <1>3, <1>4, CourseExists
<1>6. c \in [0 .. n -> EcState] /\ c[0] = rs /\ \A k \in 1 .. n : c[k] = step[k][c[k - 1]]
  BY <1>5 DEF Course
<1>7. c = F(c)
  <2>1. ASSUME NEW k \in 1 .. n
        PROVE  c[k] = (IF k - 1 # id /\ rs[k - 1].online THEN ec_hinted_handoff(c[k - 1], k - 1, id) ELSE c[k - 1])
    <3>1. k - 1 \in 0 .. n
      BY <1>1
    <3>2. step[k] = [x \in EcState |-> (IF k - 1 # id /\ rs[k - 1].online THEN ec_hinted_handoff(x, k - 1, id) ELSE x)]
      OBVIOUS
    <3> HIDE DEF step, n
    <3>3. c[k - 1] \in EcState /\ c[k] = step[k][c[k - 1]]
      BY <1>6, <3>1
    <3> QED
      BY <3>2, <3>3
  <2>2. ASSUME NEW k \in 0 .. n
        PROVE  c[k] = IF k = 0 THEN rs ELSE (IF k - 1 # id /\ rs[k - 1].online THEN ec_hinted_handoff(c[k - 1], k - 1, id) ELSE c[k - 1])
    <3>1. CASE k = 0
      BY <1>6, <3>1
    <3>2. CASE k # 0
      <4>1. k \in 1 .. n
        BY <1>1, <3>2
      <4> QED
        BY <2>1, <3>2, <4>1
    <3> QED
      BY <3>1, <3>2
  <2> QED
    BY <1>6, <2>2, Zenon
<1>8. h = F(h)
  <2> HIDE DEF F
  <2> QED
    BY <1>7
<1> HIDE DEF h
<1>9. h[0] = rs /\ \A k \in 1 .. n : h[k] = (IF k - 1 # id /\ rs[k - 1].online THEN ec_hinted_handoff(h[k - 1], k - 1, id) ELSE h[k - 1])
  <2>1. \A k \in 0 .. n : h[k] = F(h)[k]
    BY <1>8
  <2>2. \A k \in 0 .. n : F(h)[k] = IF k = 0 THEN rs ELSE (IF k - 1 # id /\ rs[k - 1].online THEN ec_hinted_handoff(h[k - 1], k - 1, id) ELSE h[k - 1])
    OBVIOUS
  <2> HIDE DEF F
  <2>3. 0 \in 0 .. n /\ \A k \in 1 .. n : k \in 0 .. n /\ k # 0
    BY <1>1
  <2> QED
    BY <2>1, <2>2, <2>3
<1>10. \A k \in 0 .. n : h[k] \in P
  <2>1. \A x : x \in P => x \in EcState
    OBVIOUS
  <2> HIDE DEF P, n
  <2>2. \A k \in 1 .. n : h[k - 1] \in P => h[k] \in P
    BY <1>2, <1>9, <2>1
  <2> QED
    BY <1>1, <1>4, <1>9, <2>2, LoopKeeps
<1>11. HandedOver(rs, id) = h[n]
  BY DEF HandedOver, h
<1> QED
  BY <1>1, <1>10, <1>11

(* The repair of all keys of one replica.                                    *)
LEMMA RepairedKeeps ==
  ASSUME NEW rs \in EcState, NEW id \in EcReplica
  PROVE  AllKeep(rs, Repaired(rs, id))
<1> DEFINE n == Len(rs[id].data)
           F(g) == [k \in 0 .. n |->
                      IF k = 0 THEN rs ELSE ec_read_repair(g[k - 1], rs[id].data[k].key)]
           h == CHOOSE g : g = F(g)
           step == [k \in 1 .. n |-> [x \in EcState |-> ec_read_repair(x, rs[id].data[k].key)]]
           P == {ns \in EcState : AllKeep(rs, ns)}
<1>1. n \in Nat
  BY EcFields DEF EcState
<1>2. ASSUME NEW k \in 1 .. n, NEW x \in EcState
      PROVE  ec_read_repair(x, rs[id].data[k].key) \in EcState /\ (x \in P => ec_read_repair(x, rs[id].data[k].key) \in P)
  <2>1. rs[id].data \in Seq(EcRow)
    BY EcFields DEF EcState
  <2>2. rs[id].data[k] \in EcRow
    BY <2>1
  <2>3. rs[id].data[k].key \in EcKeys \cup Nat
    BY <2>2 DEF EcRow
  <2>4. AllKeep(x, ec_read_repair(x, rs[id].data[k].key))
    BY <2>3, RepairKeeps
  <2> QED
    BY <2>4, AllKeepTrans DEF AllKeep
<1>3. step \in [1 .. n -> [EcState -> EcState]]
  BY <1>2
<1>4. rs \in EcState /\ rs \in P
  BY AllKeepRefl
<1>5. PICK c : Course(c, n, EcState, rs, step)
  <2> HIDE DEF step, n
  <2> QED
    BY <1>1, <1>3, <1>4, CourseExists
<1>6. c \in [0 .. n -> EcState] /\ c[0] = rs /\ \A k \in 1 .. n : c[k] = step[k][c[k - 1]]
  BY <1>5 DEF Course
<1>7. c = F(c)
  <2>1. ASSUME NEW k \in 1 .. n
        PROVE  c[k] = ec_read_repair(c[k - 1], rs[id].data[k].key)
    <3>1. k - 1 \in 0 .. n
      BY <1>1
    <3>2. step[k] = [x \in EcState |-> ec_read_repair(x, rs[id].data[k].key)]
      OBVIOUS
    <3> HIDE DEF step, n
    <3>3. c[k - 1] \in EcState /\ c[k] = step[k][c[k - 1]]
      BY <1>6, <3>1
    <3> QED
      BY <3>2, <3>3
  <2>2. ASSUME NEW k \in 0 .. n
        PROVE  c[k] = IF k = 0 THEN rs ELSE ec_read_repair(c[k - 1], rs[id].data[k].key)
    <3>1. CASE k = 0
      BY <1>6, <3>1
    <3>2. CASE k # 0
      <4>1. k \in 1 .. n
        BY <1>1, <3>2
      <4> QED
        BY <2>1, <3>2, <4>1
    <3> QED
      BY <3>1, <3>2
  <2> QED
    BY <1>6, <2>2, Zenon
<1>8. h = F(h)
  <2> HIDE DEF F
  <2> QED
    BY <1>7
<1> HIDE DEF h
<1>9. h[0] = rs /\ \A k \in 1 .. n : h[k] = ec_read_repair(h[k - 1], rs[id].data[k].key)
  <2>1. \A k \in 0 .. n : h[k] = F(h)[k]
    BY <1>8
  <2>2. \A k \in 0 .. n : F(h)[k] = IF k = 0 THEN rs ELSE ec_read_repair(h[k - 1], rs[id].data[k].key)
    OBVIOUS
  <2> HIDE DEF F
  <2>3. 0 \in 0 .. n /\ \A k \in 1 .. n : k \in 0 .. n /\ k # 0
    BY <1>1
  <2> QED
    BY <2>1, <2>2, <2>3
<1>10. \A k \in 0 .. n : h[k] \in P
  <2>1. \A x : x \in P => x \in EcState
    OBVIOUS
  <2> HIDE DEF P, n
  <2>2. \A k \in 1 .. n : h[k - 1] \in P => h[k] \in P
    BY <1>2, <1>9, <2>1
  <2> QED
    BY <1>1, <1>4, <1>9, <2>2, LoopKeeps
<1>11. Repaired(rs, id) = h[n]
  BY DEF Repaired, h
<1> QED
  BY <1>1, <1>10, <1>11

(* The hints that a write leaves.                                            *)
LEMMA HintedTyped ==
  ASSUME NEW hints \in Seq(EcHint), NEW value \in EcValues, NEW absent, absent \subseteq EcReplica
  PROVE  Hinted(hints, value, absent) \in Seq(EcHint)
<1> DEFINE n == ReplicaCount
           F(g) == [k \in 0 .. n |->
                      IF k = 0 THEN hints ELSE (IF k - 1 \in absent /\ Len(g[k - 1]) < MaxData
                          THEN Append(g[k - 1], [value |-> value, target |-> k - 1]) ELSE g[k - 1])]
           h == CHOOSE g : g = F(g)
           step == [k \in 1 .. n |-> [x \in Seq(EcHint) |-> (IF k - 1 \in absent /\ Len(x) < MaxData
                          THEN Append(x, [value |-> value, target |-> k - 1]) ELSE x)]]
           P == Seq(EcHint)
<1>1. n \in Nat
  BY EcAssumption
<1>2. ASSUME NEW k \in 1 .. n, NEW x \in Seq(EcHint)
      PROVE  (IF k - 1 \in absent /\ Len(x) < MaxData
                          THEN Append(x, [value |-> value, target |-> k - 1]) ELSE x) \in Seq(EcHint) /\ (x \in P => (IF k - 1 \in absent /\ Len(x) < MaxData
                          THEN Append(x, [value |-> value, target |-> k - 1]) ELSE x) \in P)
  <2>1. k - 1 \in absent => [value |-> value, target |-> k - 1] \in EcHint
    BY DEF EcHint
  <2> QED
    BY <2>1
<1>3. step \in [1 .. n -> [Seq(EcHint) -> Seq(EcHint)]]
  BY <1>2
<1>4. hints \in Seq(EcHint) /\ hints \in P
  OBVIOUS
<1>5. PICK c : Course(c, n, Seq(EcHint), hints, step)
  <2> HIDE DEF step, n
  <2> QED
    BY <1>1, <1>3, <1>4, CourseExists
<1>6. c \in [0 .. n -> Seq(EcHint)] /\ c[0] = hints /\ \A k \in 1 .. n : c[k] = step[k][c[k - 1]]
  BY <1>5 DEF Course
<1>7. c = F(c)
  <2>1. ASSUME NEW k \in 1 .. n
        PROVE  c[k] = (IF k - 1 \in absent /\ Len(c[k - 1]) < MaxData
                          THEN Append(c[k - 1], [value |-> value, target |-> k - 1]) ELSE c[k - 1])
    <3>1. k - 1 \in 0 .. n
      BY <1>1
    <3>2. step[k] = [x \in Seq(EcHint) |-> (IF k - 1 \in absent /\ Len(x) < MaxData
                          THEN Append(x, [value |-> value, target |-> k - 1]) ELSE x)]
      OBVIOUS
    <3> HIDE DEF step, n
    <3>3. c[k - 1] \in Seq(EcHint) /\ c[k] = step[k][c[k - 1]]
      BY <1>6, <3>1
    <3> QED
      BY <3>2, <3>3
  <2>2. ASSUME NEW k \in 0 .. n
        PROVE  c[k] = IF k = 0 THEN hints ELSE (IF k - 1 \in absent /\ Len(c[k - 1]) < MaxData
                          THEN Append(c[k - 1], [value |-> value, target |-> k - 1]) ELSE c[k - 1])
    <3>1. CASE k = 0
      BY <1>6, <3>1
    <3>2. CASE k # 0
      <4>1. k \in 1 .. n
        BY <1>1, <3>2
      <4> QED
        BY <2>1, <3>2, <4>1
    <3> QED
      BY <3>1, <3>2
  <2> QED
    BY <1>6, <2>2, Zenon
<1>8. h = F(h)
  <2> HIDE DEF F
  <2> QED
    BY <1>7
<1> HIDE DEF h
<1>9. h[0] = hints /\ \A k \in 1 .. n : h[k] = (IF k - 1 \in absent /\ Len(h[k - 1]) < MaxData
                          THEN Append(h[k - 1], [value |-> value, target |-> k - 1]) ELSE h[k - 1])
  <2>1. \A k \in 0 .. n : h[k] = F(h)[k]
    BY <1>8
  <2>2. \A k \in 0 .. n : F(h)[k] = IF k = 0 THEN hints ELSE (IF k - 1 \in absent /\ Len(h[k - 1]) < MaxData
                          THEN Append(h[k - 1], [value |-> value, target |-> k - 1]) ELSE h[k - 1])
    OBVIOUS
  <2> HIDE DEF F
  <2>3. 0 \in 0 .. n /\ \A k \in 1 .. n : k \in 0 .. n /\ k # 0
    BY <1>1
  <2> QED
    BY <2>1, <2>2, <2>3
<1>10. \A k \in 0 .. n : h[k] \in P
  <2>1. \A x : x \in P => x \in Seq(EcHint)
    OBVIOUS
  <2> HIDE DEF P, n
  <2>2. \A k \in 1 .. n : h[k - 1] \in P => h[k] \in P
    BY <1>2, <1>9, <2>1
  <2> QED
    BY <1>1, <1>4, <1>9, <2>2, LoopKeeps
<1>11. Hinted(hints, value, absent) = h[n]
  BY DEF Hinted, h
<1> QED
  BY <1>1, <1>10, <1>11

LEMMA ReplicasFinite ==
  /\ IsFiniteSet(EcReplica) /\ Cardinality(EcReplica) = ReplicaCount
  /\ \A S : S \subseteq EcReplica => IsFiniteSet(S) /\ Cardinality(S) \in Nat
<1>1. 0 \in Int /\ ReplicaCount - 1 \in Int /\ ReplicaCount \in Nat
  BY EcAssumption
<1>2. /\ IsFiniteSet(0 .. ReplicaCount - 1)
      /\ Cardinality(0 .. ReplicaCount - 1)
           = IF 0 > ReplicaCount - 1 THEN 0 ELSE (ReplicaCount - 1) - 0 + 1
  BY <1>1, FS_Interval
<1>3. IsFiniteSet(EcReplica) /\ Cardinality(EcReplica) = ReplicaCount
  BY <1>1, <1>2 DEF EcReplica
<1> QED
  BY <1>3, FS_Subset, FS_CardinalityType

LEMMA CoveringGrows ==
  ASSUME NEW rs, NEW ns, AllKeep(rs, ns), NEW key \in EcKeys, NEW v \in Nat
  PROVE  Cardinality(Covering(ns, key, v)) >= Cardinality(Covering(rs, key, v))
<1>1. Covering(rs, key, v) \subseteq Covering(ns, key, v) /\ Covering(ns, key, v) \subseteq EcReplica
      /\ Covering(rs, key, v) \subseteq EcReplica
  BY DEF Covering, AllKeep, KeepsCovered
<1>2. IsFiniteSet(Covering(ns, key, v)) /\ Cardinality(Covering(ns, key, v)) \in Nat
      /\ Cardinality(Covering(rs, key, v)) \in Nat
  BY <1>1, ReplicasFinite
<1>3. Cardinality(Covering(rs, key, v)) <= Cardinality(Covering(ns, key, v))
  BY <1>1, <1>2, FS_Subset
<1> QED
  BY <1>2, <1>3

LEMMA EcQuorumSize == EcQuorum \in Nat /\ EcQuorum + EcQuorum > ReplicaCount /\ EcQuorum > 0
  BY EcAssumption DEF EcQuorum

LEMMA CoveringNatural == \A rs, key, v : Cardinality(Covering(rs, key, v)) \in Nat
<1>1. \A rs, key, v : Covering(rs, key, v) \subseteq EcReplica
  BY DEF Covering
<1> QED
  BY <1>1, ReplicasFinite

(* A call that acknowledges nothing.                                         *)
LEMMA EcCall ==
  ASSUME EcInv, AllKeep(ecReplicas, ecReplicas'), acked' = acked
  PROVE  EcInv'
<1>1. ecReplicas' \in [EcReplica -> EcNode] /\ acked' \in [EcKeys -> Nat]
  BY DEF EcInv, AllKeep, EcState
<1>2. ASSUME NEW key \in EcKeys, acked'[key] > 0
      PROVE  Cardinality(Covering(ecReplicas', key, acked'[key])) >= EcQuorum
  <2>1. acked[key] \in Nat /\ acked'[key] = acked[key]
        /\ Cardinality(Covering(ecReplicas, key, acked[key])) >= EcQuorum
    BY <1>2 DEF EcInv
  <2>2. Cardinality(Covering(ecReplicas', key, acked[key])) >= Cardinality(Covering(ecReplicas, key, acked[key]))
    BY <2>1, CoveringGrows
  <2> HIDE DEF Covering
  <2> QED
    BY <2>1, <2>2, CoveringNatural, EcQuorumSize
<1> QED
  BY <1>1, <1>2 DEF EcInv, Covering

LEMMA EcSwitched ==
  ASSUME NEW rs \in EcState, NEW id \in EcReplica, NEW b \in BOOLEAN
  PROVE  AllKeep(rs, [rs EXCEPT ![id].online = b])
<1> DEFINE r == [rs[id] EXCEPT !.online = b]
           ns == [rs EXCEPT ![id] = r]
<1>1. [rs EXCEPT ![id].online = b] = ns
  BY DEF EcState
<1>2. rs[id] \in EcNode /\ r \in EcNode /\ r.data = rs[id].data
  BY EcOnlineChanged DEF EcState
<1> HIDE DEF r
<1>3. ns \in EcState /\ \A i \in EcReplica : ns[i] = IF i = id THEN r ELSE rs[i]
  BY <1>2 DEF EcState
<1> HIDE DEF ns
<1>4. ASSUME NEW i \in EcReplica PROVE KeepsCovered(rs[i], ns[i])
  <2>1. ns[i] \in EcNode /\ ns[i].data = rs[i].data
    BY <1>2, <1>3 DEF EcState
  <2> QED
    BY <2>1, CoversByData
<1> QED
  BY <1>1, <1>3, <1>4 DEF AllKeep

(* What a write does to a replica that is on line.                           *)
LEMMA StoredKeeps ==
  ASSUME NEW r \in EcNode, NEW key \in EcKeys, NEW value \in EcValues, NEW version \in Nat
  PROVE  LET s == IF HasEntry(r, key) /\ EntryOf(r, key).version > version THEN r
                  ELSE WithEntry(r, key, value, version)
         IN  KeepsCovered(r, s) /\ Covers(s, key, version)
<1>1. r.data \in Seq(EcRow)
  BY EcFields
<1>2. CASE HasEntry(r, key) /\ EntryOf(r, key).version > version
  <2>1. KeepsCovered(r, r)
    BY CoversByData
  <2>2. EntryOf(r, key).version \in Nat
    BY <1>1, <1>2, EntryTyped
  <2>3. Covers(r, key, version)
    BY <1>2, <2>2 DEF Covers
  <2> QED
    BY <1>2, <2>1, <2>3
<1>3. CASE ~(HasEntry(r, key) /\ EntryOf(r, key).version > version)
  <2>1. HasEntry(r, key) => version >= EntryOf(r, key).version
    BY <1>1, <1>3, EntryTyped
  <2>2. KeepsCovered(r, WithEntry(r, key, value, version))
        /\ Covers(WithEntry(r, key, value, version), key, version)
    BY <2>1, WithEntryKeeps
  <2> QED
    BY <1>3, <2>2
<1> QED
  BY <1>2, <1>3

LEMMA WriteKeeps ==
  ASSUME EcInv, NEW key \in EcKeys, NEW value \in EcValues, NEW version \in Versions,
         ec_write(key, value, version)
  PROVE  /\ AllKeep(ecReplicas, ecReplicas')
         /\ \A i \in Online(ecReplicas) : Covers(ecReplicas'[i], key, version)
<1> DEFINE stored(r) == IF HasEntry(r, key) /\ EntryOf(r, key).version > version THEN r
                        ELSE WithEntry(r, key, value, version)
           absent == EcReplica \ Online(ecReplicas)
           hinted(r) == [r EXCEPT !.hints = Hinted(r.hints, value, absent)]
           on == Online(ecReplicas)
<1>1. /\ version \in Nat /\ ecReplicas \in EcState /\ on \subseteq EcReplica
      /\ absent \subseteq EcReplica /\ \A i \in EcReplica : ecReplicas[i] \in EcNode
  BY EcAssumption DEF EcInv, EcState, Online
<1>2. ecReplicas' = [i \in EcReplica |->
                        IF i \notin on THEN ecReplicas[i]
                        ELSE IF i = Min(on) THEN hinted(stored(ecReplicas[i]))
                        ELSE stored(ecReplicas[i])]
  BY DEF ec_write
<1>3. ASSUME NEW r \in EcNode
      PROVE  KeepsCovered(r, stored(r)) /\ Covers(stored(r), key, version)
  BY <1>1, StoredKeeps
<1> HIDE DEF stored, absent, on
<1>4. ASSUME NEW r \in EcNode
      PROVE  KeepsCovered(r, hinted(stored(r))) /\ Covers(hinted(stored(r)), key, version)
  <2>1. stored(r) \in EcNode
    BY <1>3 DEF KeepsCovered
  <2>2. Hinted(stored(r).hints, value, absent) \in Seq(EcHint)
    BY <1>1, <2>1, EcFields, HintedTyped
  <2>3. hinted(stored(r)) \in EcNode /\ hinted(stored(r)).data = stored(r).data
    BY <2>1, <2>2, EcHintsChanged
  <2> HIDE DEF hinted
  <2>4. KeepsCovered(stored(r), hinted(stored(r)))
    BY <2>3, CoversByData
  <2> QED
    BY <1>1, <1>3, <2>4, CoversTrans DEF KeepsCovered
<1> HIDE DEF hinted
<1>5. ASSUME NEW i \in EcReplica
      PROVE  /\ KeepsCovered(ecReplicas[i], ecReplicas'[i])
             /\ i \in on => Covers(ecReplicas'[i], key, version)
  <2>1. ecReplicas[i] \in EcNode
    BY <1>1
  <2>2. CASE i \notin on
    <3>1. ecReplicas'[i] = ecReplicas[i]
      BY <1>2, <2>2
    <3> QED
      BY <2>1, <2>2, <3>1, CoversByData
  <2>3. CASE i \in on /\ i = Min(on)
    <3>1. ecReplicas'[i] = hinted(stored(ecReplicas[i]))
      BY <1>2, <2>3
    <3> QED
      BY <1>4, <2>1, <3>1
  <2>4. CASE i \in on /\ i # Min(on)
    <3>1. ecReplicas'[i] = stored(ecReplicas[i])
      BY <1>2, <2>4
    <3> QED
      BY <1>3, <2>1, <3>1
  <2> QED
    BY <2>2, <2>3, <2>4
<1>6. ecReplicas' \in EcState
  <2>1. \A i \in EcReplica : ecReplicas'[i] \in EcNode
    BY <1>5 DEF KeepsCovered
  <2>2. ecReplicas' = [i \in EcReplica |-> ecReplicas'[i]]
    BY <1>2
  <2> QED
    BY <2>1, <2>2 DEF EcState
<1> QED
  BY <1>1, <1>5, <1>6 DEF AllKeep, on

LEMMA EcWritten ==
  ASSUME EcInv, NEW key \in EcKeys, NEW value \in EcValues, NEW version \in Versions,
         ec_write(key, value, version)
  PROVE  EcInv'
<1> DEFINE on == Online(ecReplicas)
<1>1. /\ AllKeep(ecReplicas, ecReplicas')
      /\ \A i \in on : Covers(ecReplicas'[i], key, version)
  BY WriteKeeps
<1>2. acked' = IF Cardinality(on) >= EcQuorum
               THEN [acked EXCEPT ![key] = Max({acked[key], version})] ELSE acked
  BY DEF ec_write, Enough
<1>3. on \subseteq EcReplica /\ version \in Nat /\ acked \in [EcKeys -> Nat]
  BY EcAssumption DEF Online, EcInv
<1> HIDE DEF on
<1>4. CASE ~(Cardinality(on) >= EcQuorum)
  BY <1>1, <1>2, <1>4, EcCall
<1>5. CASE Cardinality(on) >= EcQuorum /\ version <= acked[key]
  <2>1. Max({acked[key], version}) = acked[key]
    <3>1. acked[key] \in Nat
      BY <1>3
    <3> QED
      BY <1>3, <1>5, <3>1 DEF Max
  <2>2. acked' = acked
    BY <1>2, <1>3, <1>5, <2>1
  <2> QED
    BY <1>1, <2>2, EcCall
<1>6. CASE Cardinality(on) >= EcQuorum /\ version > acked[key]
  <2>1. Max({acked[key], version}) = version
    <3>1. acked[key] \in Nat
      BY <1>3
    <3> QED
      BY <1>3, <1>6, <3>1 DEF Max
  <2>2. acked' = [acked EXCEPT ![key] = version]
    BY <1>2, <1>6, <2>1
  <2>3. acked' \in [EcKeys -> Nat] /\ ecReplicas' \in [EcReplica -> EcNode]
    BY <1>1, <1>3, <2>2 DEF AllKeep, EcState
  <2>4. Cardinality(Covering(ecReplicas', key, version)) >= EcQuorum
    <3>1. on \subseteq Covering(ecReplicas', key, version)
          /\ Covering(ecReplicas', key, version) \subseteq EcReplica
      BY <1>1, <1>3 DEF Covering
    <3>2. /\ IsFiniteSet(Covering(ecReplicas', key, version))
          /\ Cardinality(Covering(ecReplicas', key, version)) \in Nat
          /\ Cardinality(on) \in Nat
      BY <1>3, <3>1, ReplicasFinite
    <3>3. Cardinality(on) <= Cardinality(Covering(ecReplicas', key, version))
      BY <3>1, <3>2, FS_Subset
    <3> HIDE DEF Covering
    <3> QED
      BY <1>6, <3>2, <3>3, EcQuorumSize
  <2>5. ASSUME NEW q \in EcKeys, acked'[q] > 0
        PROVE  Cardinality(Covering(ecReplicas', q, acked'[q])) >= EcQuorum
    <3>1. CASE q = key
      <4>1. acked'[q] = version
        BY <1>3, <2>2, <3>1
      <4> QED
        BY <2>4, <3>1, <4>1
    <3>2. CASE q # key
      <4>1. acked'[q] = acked[q] /\ acked[q] \in Nat
        BY <1>3, <2>2, <3>2
      <4>2. Cardinality(Covering(ecReplicas, q, acked[q])) >= EcQuorum
        BY <2>5, <4>1 DEF EcInv
      <4>3. Cardinality(Covering(ecReplicas', q, acked[q])) >= Cardinality(Covering(ecReplicas, q, acked[q]))
        BY <1>1, <4>1, CoveringGrows
      <4> HIDE DEF Covering
      <4> QED
        BY <4>1, <4>2, <4>3, CoveringNatural, EcQuorumSize
    <3> QED
      BY <3>1, <3>2
  <2> QED
    BY <2>3, <2>5 DEF EcInv, Covering
<1> QED
  BY <1>3, <1>4, <1>5, <1>6

LEMMA EcInvariant == EcSpec => []EcInv
<1>1. ec_init => EcInv
  <2> SUFFICES ASSUME ec_init PROVE EcInv
    OBVIOUS
  <2> DEFINE r == [online |-> TRUE, data |-> <<>>, hints |-> <<>>]
  <2>1. r \in EcNode
    BY DEF EcNode
  <2>2. ecReplicas = [i \in EcReplica |-> r] /\ acked = [k \in EcKeys |-> 0]
    BY DEF ec_init
  <2> HIDE DEF r
  <2>3. ecReplicas \in [EcReplica -> EcNode] /\ acked \in [EcKeys -> Nat]
    BY <2>1, <2>2
  <2>4. \A key \in EcKeys : ~(acked[key] > 0)
    BY <2>2
  <2> QED
    BY <2>3, <2>4 DEF EcInv
<1>2. EcInv /\ [EcNext]_ecVars => EcInv'
  <2> SUFFICES ASSUME EcInv, [EcNext]_ecVars PROVE EcInv'
    OBVIOUS
  <2>0. ecReplicas \in EcState
    BY DEF EcInv, EcState
  <2>1. CASE UNCHANGED ecVars
    BY <2>0, <2>1, AllKeepRefl, EcCall DEF ecVars
  <2>2. ASSUME NEW id \in EcReplica, ec_disconnect(id) PROVE EcInv'
    BY <2>0, <2>2, EcSwitched, EcCall DEF ec_disconnect
  <2>3. ASSUME NEW id \in EcReplica, ec_reconnect(id) PROVE EcInv'
    <3> DEFINE up == [ecReplicas EXCEPT ![id].online = TRUE]
               handed == HandedOver(up, id)
    <3>1. AllKeep(ecReplicas, up)
      BY <2>0, EcSwitched
    <3>2. AllKeep(up, handed)
      BY <3>1, HandedOverKeeps DEF AllKeep
    <3>3. AllKeep(handed, Repaired(handed, id))
      BY <3>2, RepairedKeeps DEF AllKeep
    <3>4. ecReplicas' = Repaired(handed, id) /\ acked' = acked
      BY <2>3 DEF ec_reconnect
    <3> HIDE DEF up, handed
    <3>5. AllKeep(ecReplicas, ecReplicas')
      BY <3>1, <3>2, <3>3, <3>4, AllKeepTrans
    <3> QED
      BY <3>4, <3>5, EcCall
  <2>4. ASSUME NEW key \in EcKeys, Repair(key) PROVE EcInv'
    BY <2>0, <2>4, RepairKeeps, EcCall DEF Repair
  <2> QED
    BY <2>1, <2>2, <2>3, <2>4, EcWritten DEF EcNext
<1> QED
  BY <1>1, <1>2, PTL DEF EcSpec

LEMMA ReadsFresh == EcInv => AckedReadsFresh
<1> SUFFICES ASSUME EcInv, NEW key \in EcKeys, ec_read(key).ok
             PROVE  ec_read(key).best.version >= acked[key]
  BY DEF AckedReadsFresh
<1> DEFINE H == Holders(ecReplicas, key)
           C == Covering(ecReplicas, key, acked[key])
           best == Best(ecReplicas, key)
<1>1. Cardinality(H) >= EcQuorum /\ ec_read(key).best = best
  BY DEF ec_read
<1>2. /\ ecReplicas \in EcState /\ acked[key] \in Nat
      /\ H \subseteq EcReplica /\ C \subseteq EcReplica
  BY DEF EcInv, EcState, Holders, Online, Covering
<1>3. /\ best.version \in Nat
      /\ \A j \in H : EntryOf(ecReplicas[j], key).version \in Nat
                     /\ EntryOf(ecReplicas[j], key).version <= best.version
  BY <1>2, BestIsHighest
<1>4. CASE acked[key] = 0
  BY <1>1, <1>3, <1>4
<1>5. CASE acked[key] > 0
  <2>1. Cardinality(C) >= EcQuorum
    BY <1>5 DEF EcInv
  <2>2. Cardinality(H) + Cardinality(C) > Cardinality(EcReplica)
    <3>1. Cardinality(H) \in Nat /\ Cardinality(C) \in Nat
      BY <1>2, ReplicasFinite
    <3> HIDE DEF H, C
    <3> QED
      BY <1>1, <2>1, <3>1, EcQuorumSize, ReplicasFinite, EcAssumption
  <2>3. H \cap C # {}
    <3> HIDE DEF H, C
    <3> QED
      BY <1>2, <2>2, ReplicasFinite, FS_MajoritiesIntersect
  <2>4. PICK j \in H : j \in C
    BY <2>3
  <2>5. HasEntry(ecReplicas[j], key) /\ Covers(ecReplicas[j], key, acked[key])
    BY <2>4 DEF Holders, Covering
  <2>6. EntryOf(ecReplicas[j], key).version >= acked[key]
    BY <2>5 DEF Covers
  <2> HIDE DEF H, best
  <2> QED
    BY <1>1, <1>2, <1>3, <2>4, <2>6
<1> QED
  BY <1>2, <1>4, <1>5

(* ec_read, gossip_converge, dtx_commit: a quorum read is as new as every    *)
(* acknowledged write, gossip that reports agreement has it, and every       *)
(* participant has the outcome of its transaction.                           *)
THEOREM ReportsHold == EcSpec /\ GossipSpec /\ DtxSpec => []ReportsTrue
<1>1. EcInv /\ GossipInv /\ OneOutcome => ReportsTrue
  BY ReadsFresh, SyncedTold DEF ReportsTrue
<1> QED
  BY <1>1, EcInvariant, GossipInvariant, OutcomeShared, PTL
=============================================================================
