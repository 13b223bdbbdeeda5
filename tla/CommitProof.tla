---------------------------- MODULE CommitProof -----------------------------
(***************************************************************************)
(* Atomicity of the commit protocols of mini-dist-transaction, for every    *)
(* number of participants, steps, resources and resource managers, in       *)
(* whatever order the calls come: two-phase and three-phase commit, sagas,  *)
(* try-confirm-cancel and XA.  The protocols share no state; each part      *)
(* below states the inductive invariant of one of them, proves that every   *)
(* call keeps it, and derives the property the model checker checks.        *)
(***************************************************************************)
EXTENDS TwoPC, Compensation, TLAPS

(* A sequence whose elements are replaced one by one keeps its length.        *)
LEMMA MapSeq ==
  ASSUME NEW S, NEW n \in Nat, NEW f, f \in [1 .. n -> S]
  PROVE  f \in Seq(S) /\ Len(f) = n /\ DOMAIN f = 1 .. n
  OBVIOUS

LEMMA SeqDomain ==
  ASSUME NEW S, NEW q \in Seq(S)
  PROVE  /\ Len(q) \in Nat
         /\ DOMAIN q = 1 .. Len(q)
         /\ \A i \in 1 .. Len(q) : q[i] \in S
         /\ q \in [1 .. Len(q) -> S]
  OBVIOUS

LEMMA AppendSeq ==
  ASSUME NEW S, NEW q \in Seq(S), NEW e \in S
  PROVE  /\ Append(q, e) \in Seq(S)
         /\ Len(Append(q, e)) = Len(q) + 1
         /\ \A i \in 1 .. Len(q) : Append(q, e)[i] = q[i]
         /\ Append(q, e)[Len(q) + 1] = e
  OBVIOUS

-----------------------------------------------------------------------------
(***************************************************************************)
(* Two-phase commit.  CommitUnanimous is inductive together with TypeOK.    *)
(* That a timeout is final needs TimedOutAborted as well: a coordinator     *)
(* that has timed out is not in the COMMIT phase to begin with.             *)
(***************************************************************************)

(* The phase of a coordinator that has timed out.                             *)
TimedOutAborted == coord.timed_out => coord.phase = "ABORT"

Inv2 == TypeOK /\ CommitUnanimous /\ TimedOutAborted

(* A coordinator is made of its three fields.                                 *)
LEMMA CoordFields ==
  ASSUME NEW c \in TPCCoordinator
  PROVE  /\ c.participants \in Seq(TPCParticipant)
         /\ c.phase \in {"PREPARE", "COMMIT", "ABORT"}
         /\ c.timed_out \in BOOLEAN
         /\ c = [participants |-> c.participants, phase |-> c.phase, timed_out |-> c.timed_out]
  BY DEF TPCCoordinator

(* A decision keeps the participants and their votes and sets their state.    *)
LEMMA DecideFacts ==
  ASSUME NEW c \in TPCCoordinator, NEW ph \in {"PREPARE", "COMMIT", "ABORT"},
         NEW s \in {"INIT", "READY", "COMMITTED", "ABORTED"}
  PROVE  LET d == Decide(c, ph, s) IN
         /\ d \in TPCCoordinator
         /\ d.phase = ph
         /\ d.timed_out = c.timed_out
         /\ Len(d.participants) = Len(c.participants)
         /\ \A i \in 1 .. Len(c.participants) :
              /\ d.participants[i].state = s
              /\ d.participants[i].vote = c.participants[i].vote
<1> DEFINE q == [i \in DOMAIN c.participants |-> [c.participants[i] EXCEPT !.state = s]]
<1>1. c.participants \in Seq(TPCParticipant) /\ DOMAIN c.participants = 1 .. Len(c.participants)
      /\ Len(c.participants) \in Nat
      /\ \A i \in 1 .. Len(c.participants) : c.participants[i] \in TPCParticipant
  BY CoordFields, SeqDomain
<1>2. \A i \in 1 .. Len(c.participants) :
        LET e == [c.participants[i] EXCEPT !.state = s] IN
        e \in TPCParticipant /\ e.state = s /\ e.vote = c.participants[i].vote
  BY <1>1 DEF TPCParticipant
<1>3. q \in [1 .. Len(c.participants) -> TPCParticipant]
  BY <1>1, <1>2
<1>4. q \in Seq(TPCParticipant) /\ Len(q) = Len(c.participants)
  BY <1>1, <1>3, MapSeq
<1>5. Decide(c, ph, s) = [participants |-> q, phase |-> ph, timed_out |-> c.timed_out]
  <2>1. Decide(c, ph, s) = [c EXCEPT !.phase = ph, !.participants = q]
    BY DEF Decide
  <2> HIDE DEF q
  <2> QED
    BY <2>1, CoordFields DEF TPCCoordinator
<1> HIDE DEF q
<1>6. Decide(c, ph, s) \in TPCCoordinator
  BY <1>4, <1>5, CoordFields DEF TPCCoordinator
<1> QED
  BY <1>1, <1>2, <1>4, <1>5, <1>6 DEF q

LEMMA PreparedType ==
  ASSUME NEW e \in TPCParticipant
  PROVE  Prepared(e) \in TPCParticipant
  BY DEF Prepared, TPCParticipant

LEMMA Init2 == Init => Inv2
<1> SUFFICES ASSUME Init PROVE Inv2
  OBVIOUS
<1>1. tpc_participant_init \in TPCParticipant
  BY DEF tpc_participant_init, TPCParticipant
<1>2. coord = [participants |-> <<>>, phase |-> "PREPARE", timed_out |-> FALSE]
  BY DEF Init, tpc_coordinator_init
<1>3. coord \in TPCCoordinator
  BY <1>2 DEF TPCCoordinator
<1> QED
  BY <1>1, <1>2, <1>3, TwoPCAssumption
     DEF Init, Inv2, TypeOK, CommitUnanimous, TimedOutAborted

LEMMA Next2 == Inv2 /\ [Next]_vars => Inv2'
<1> SUFFICES ASSUME Inv2, [Next]_vars PROVE Inv2'
  OBVIOUS
<1> DEFINE n == Len(coord.participants)
<1>0. /\ coord \in TPCCoordinator
      /\ coord.participants \in Seq(TPCParticipant)
      /\ n \in Nat
      /\ DOMAIN coord.participants = 1 .. n
      /\ enlisted \in 0 .. n
  BY CoordFields, SeqDomain DEF Inv2, TypeOK
<1>1. ASSUME NEW p \in Participants, NEW can_commit \in BOOLEAN,
             tpc_participant_vote(p, can_commit)
      PROVE  Inv2'
  <2>1. own' \in [Participants -> TPCParticipant]
    BY <1>1 DEF Inv2, TypeOK, TPCParticipant, tpc_participant_vote
  <2> QED
    BY <1>1, <2>1 DEF Inv2, TypeOK, CommitUnanimous, TimedOutAborted, tpc_participant_vote
<1>2. ASSUME NEW p \in Participants, tpc_coordinator_add_participant(p)
      PROVE  Inv2'
  <2> DEFINE q == Append(coord.participants, own[p])
  <2>1. own[p] \in TPCParticipant
    BY DEF Inv2, TypeOK
  <2>2. q \in Seq(TPCParticipant) /\ Len(q) = n + 1
        /\ \A i \in 1 .. n : q[i] = coord.participants[i]
    BY <1>0, <2>1, AppendSeq
  <2>3. coord' = [participants |-> q, phase |-> coord.phase, timed_out |-> coord.timed_out]
    BY <1>0, <1>2, CoordFields DEF tpc_coordinator_add_participant, TPCCoordinator
  <2> HIDE DEF q
  <2>4. coord' \in TPCCoordinator
    BY <1>0, <2>2, <2>3, CoordFields DEF TPCCoordinator
  <2>5. n + 1 <= MaxParticipants
    BY <1>0, <1>2, TwoPCAssumption DEF tpc_coordinator_add_participant
  <2> QED
    BY <1>0, <1>2, <2>2, <2>3, <2>4, <2>5
       DEF Inv2, TypeOK, CommitUnanimous, TimedOutAborted, tpc_coordinator_add_participant
<1>3. CASE tpc_coordinator_prepare
  <2> DEFINE q == [i \in DOMAIN coord.participants |-> Prepared(coord.participants[i])]
             ph == IF Refusing(coord) THEN "ABORT" ELSE "PREPARE"
  <2>1. CASE coord.timed_out
    BY <1>0, <1>3, <2>1, CoordFields
       DEF Inv2, TypeOK, CommitUnanimous, TimedOutAborted, tpc_coordinator_prepare, TPCCoordinator
  <2>2. CASE ~coord.timed_out
    <3>1. q \in Seq(TPCParticipant) /\ Len(q) = n
      <4>1. q \in [1 .. n -> TPCParticipant]
        BY <1>0, SeqDomain, PreparedType
      <4> QED
        BY <1>0, <4>1, MapSeq
    <3>2. coord' = [participants |-> q, phase |-> ph, timed_out |-> coord.timed_out]
      BY <1>0, <1>3, <2>2 DEF tpc_coordinator_prepare, TPCCoordinator
    <3>3. ph \in {"PREPARE", "ABORT"}
      OBVIOUS
    <3> HIDE DEF q, ph
    <3>4. coord' \in TPCCoordinator
      BY <1>0, <3>1, <3>2, <3>3, CoordFields DEF TPCCoordinator
    <3> QED
      BY <1>0, <1>3, <2>2, <3>1, <3>2, <3>3, <3>4
         DEF Inv2, TypeOK, CommitUnanimous, TimedOutAborted, tpc_coordinator_prepare
  <2> QED
    BY <2>1, <2>2
<1>4. CASE tpc_coordinator_commit
  <2>1. CASE ~coord.timed_out /\ AllYes(coord)
    <3>1. coord' = Decide(coord, "COMMIT", "COMMITTED") /\ enlisted' = n /\ own' = own
      BY <1>4, <2>1 DEF tpc_coordinator_commit
    <3>2. n > 0 /\ \A i \in 1 .. n : coord.participants[i].vote = "YES"
      BY <2>1 DEF AllYes
    <3> QED
      BY <1>0, <2>1, <3>1, <3>2, DecideFacts DEF Inv2, TypeOK, CommitUnanimous, TimedOutAborted
  <2>2. CASE ~(~coord.timed_out /\ AllYes(coord))
    <3>1. coord' = Decide(coord, "ABORT", "ABORTED") /\ enlisted' = enlisted /\ own' = own
      BY <1>4, <2>2 DEF tpc_coordinator_commit
    <3> QED
      BY <1>0, <3>1, DecideFacts DEF Inv2, TypeOK, CommitUnanimous, TimedOutAborted
  <2> QED
    BY <2>1, <2>2
<1>5. CASE tpc_coordinator_abort
  BY <1>0, <1>5, DecideFacts
     DEF Inv2, TypeOK, CommitUnanimous, TimedOutAborted, tpc_coordinator_abort
<1>6. CASE tpc_handle_timeout
  <2> DEFINE c == [coord EXCEPT !.timed_out = TRUE]
  <2>1. c \in TPCCoordinator /\ c.participants = coord.participants
    BY <1>0 DEF TPCCoordinator
  <2> HIDE DEF c
  <2>2. coord' = Decide(c, "ABORT", "ABORTED") /\ UNCHANGED <<own, enlisted>>
    BY <1>6 DEF tpc_handle_timeout, c
  <2> QED
    BY <1>0, <2>1, <2>2, DecideFacts DEF Inv2, TypeOK, CommitUnanimous, TimedOutAborted
<1>7. CASE UNCHANGED vars
  BY <1>7 DEF Inv2, TypeOK, CommitUnanimous, TimedOutAborted, vars
<1> QED
  BY <1>1, <1>2, <1>3, <1>4, <1>5, <1>6, <1>7 DEF Next

LEMMA Invariant2 == Spec => []Inv2
  BY Init2, Next2, PTL DEF Spec

(* A coordinator that has timed out never commits again and readies or        *)
(* commits no participant, whatever is called afterwards.                     *)
THEOREM TimeoutIsFinal == Spec => TimeoutFinal
<1> DEFINE Final ==
      coord.timed_out =>
        /\ coord'.timed_out
        /\ coord'.phase # "COMMIT"
        /\ \A i \in 1 .. Len(coord.participants) :
             coord'.participants[i].state \in {coord.participants[i].state, "ABORTED"}
<1>1. Inv2 /\ Inv2' /\ [Next]_vars => [Final]_vars
  <2> SUFFICES ASSUME Inv2, Inv2', Next, coord.timed_out PROVE Final
    BY DEF vars
  <2>0. coord \in TPCCoordinator /\ coord.participants \in Seq(TPCParticipant)
        /\ coord.phase = "ABORT"
    BY CoordFields DEF Inv2, TypeOK, TimedOutAborted
  <2>1. ASSUME NEW p \in Participants, NEW can_commit \in BOOLEAN,
               tpc_participant_vote(p, can_commit)
        PROVE  Final
    BY <2>0, <2>1 DEF tpc_participant_vote
  <2>2. ASSUME NEW p \in Participants, tpc_coordinator_add_participant(p)
        PROVE  Final
    <3>1. own[p] \in TPCParticipant
      BY DEF Inv2, TypeOK
    <3>2. /\ coord'.participants = Append(coord.participants, own[p])
          /\ coord'.phase = coord.phase
          /\ coord'.timed_out = coord.timed_out
      BY <2>0, <2>2 DEF tpc_coordinator_add_participant, TPCCoordinator
    <3> QED
      BY <2>0, <3>1, <3>2, AppendSeq
  <2>3. CASE tpc_coordinator_prepare
    BY <2>0, <2>3 DEF tpc_coordinator_prepare, TPCCoordinator
  <2>4. CASE tpc_coordinator_commit
    BY <2>0, <2>4 DEF tpc_coordinator_commit
  <2>5. CASE tpc_coordinator_abort
    BY <2>0, <2>5, DecideFacts DEF tpc_coordinator_abort
  <2>6. CASE tpc_handle_timeout
    <3> DEFINE c == [coord EXCEPT !.timed_out = TRUE]
    <3>1. c \in TPCCoordinator /\ c.participants = coord.participants /\ c.timed_out
      BY <2>0 DEF TPCCoordinator
    <3> HIDE DEF c
    <3>2. coord' = Decide(c, "ABORT", "ABORTED")
      BY <2>6 DEF tpc_handle_timeout, c
    <3> QED
      BY <2>0, <3>1, <3>2, DecideFacts
  <2> QED
    BY <2>1, <2>2, <2>3, <2>4, <2>5, <2>6 DEF Next
<1> QED
  BY <1>1, Invariant2, PTL DEF Spec, TimeoutFinal

-----------------------------------------------------------------------------
(***************************************************************************)
(* Three-phase commit.  PrecommitBarrier is inductive together with         *)
(* TypeOK3, as prepare and abort leave the phases it speaks of and commit   *)
(* keeps the votes and the marks of the precommit.                          *)
(***************************************************************************)

Inv3 == TypeOK3 /\ PrecommitBarrier

(* A coordinator with as many participants as before fits its array.          *)
LEMMA SameLength3 ==
  ASSUME Inv3, NEW q \in [Indices -> Participant],
         NEW ph \in {"PREPARE", "PRECOMMIT", "COMMIT", "ABORT"},
         coord3' = [participants |-> q, phase |-> ph]
  PROVE  /\ coord3' \in ThreePCCoordinator
         /\ Len(coord3'.participants) = Len(coord3.participants)
         /\ Len(coord3'.participants) <= MaxParticipants
<1>1. coord3.participants \in Seq(Participant) /\ Len(coord3.participants) \in Nat
  BY DEF Inv3, TypeOK3, ThreePCCoordinator
<1>2. q \in Seq(Participant) /\ Len(q) = Len(coord3.participants)
  BY <1>1, MapSeq DEF Indices
<1> QED
  BY <1>2 DEF Inv3, TypeOK3, ThreePCCoordinator

(* Aborting sets the state of every participant and nothing else of it.       *)
LEMMA AbortedFacts ==
  ASSUME NEW c, NEW n \in Nat, NEW q \in [1 .. n -> Participant], NEW ph,
         c = [participants |-> q, phase |-> ph]
  PROVE  \E r \in [1 .. n -> Participant] :
           Aborted(c) = [participants |-> r, phase |-> "ABORT"]
<1> DEFINE r == [i \in 1 .. n |-> [q[i] EXCEPT !.state = "ABORTED"]]
<1>1. r \in [1 .. n -> Participant]
  BY DEF Participant
<1>2. Aborted(c) = [c EXCEPT !.phase = "ABORT", !.participants = r]
  BY c.participants = q, DOMAIN q = 1 .. n DEF Aborted
<1> HIDE DEF r
<1>3. Aborted(c) = [participants |-> r, phase |-> "ABORT"]
  BY <1>2
<1> QED
  BY <1>1, <1>3

(* Whatever the call, a coordinator that turns to ABORT or PREPARE with the   *)
(* same number of participants is in order: the barrier says nothing of it.   *)
LEMMA NoBarrier3 ==
  ASSUME Inv3, NEW q \in [Indices -> Participant], NEW ph \in {"PREPARE", "ABORT"},
         coord3' = [participants |-> q, phase |-> ph], covered' = covered
  PROVE  Inv3'
  BY SameLength3 DEF Inv3, TypeOK3, PrecommitBarrier

LEMMA VotedType ==
  ASSUME NEW vote \in Vote
  PROVE  Voted(vote) \in Participant
  BY DEF Voted, Vote, Participant

LEMMA Next3Keeps == Inv3 /\ [Next3]_vars3 => Inv3'
<1> SUFFICES ASSUME Inv3, [Next3]_vars3 PROVE Inv3'
  OBVIOUS
<1> DEFINE n == Len(coord3.participants)
<1>0. /\ coord3.participants \in Seq(Participant)
      /\ coord3.participants \in [Indices -> Participant]
      /\ coord3 = [participants |-> coord3.participants, phase |-> coord3.phase]
      /\ coord3.phase \in {"PREPARE", "PRECOMMIT", "COMMIT", "ABORT"}
      /\ n \in Nat
      /\ Indices = 1 .. n
      /\ covered \in 0 .. n
  BY SeqDomain DEF Inv3, TypeOK3, ThreePCCoordinator, Indices
<1>1. ASSUME NEW vote \in Vote, threepc_coordinator_add_participant(vote)
      PROVE  Inv3'
  <2> DEFINE q == Append(coord3.participants, Voted(vote))
  <2>1. q \in Seq(Participant) /\ Len(q) = n + 1
        /\ \A i \in 1 .. n : q[i] = coord3.participants[i]
    BY <1>0, VotedType, AppendSeq
  <2>2. coord3' = [participants |-> q, phase |-> coord3.phase] /\ covered' = covered
    BY <1>0, <1>1 DEF threepc_coordinator_add_participant
  <2> HIDE DEF q
  <2>3. n + 1 <= MaxParticipants
    BY <1>0, <1>1, TwoPCAssumption DEF threepc_coordinator_add_participant
  <2>4. coord3' \in ThreePCCoordinator
    BY <1>0, <2>1, <2>2 DEF ThreePCCoordinator
  <2> QED
    BY <1>0, <2>1, <2>2, <2>3, <2>4 DEF Inv3, TypeOK3, PrecommitBarrier
<1>2. CASE threepc_prepare
  <2> DEFINE no    == {i \in Indices : coord3.participants[i].vote = "NO"}
             ready == [i \in Indices |->
                         IF i \in InFrontOf(no)
                         THEN [coord3.participants[i] EXCEPT !.vote = "YES", !.state = "READY"]
                         ELSE coord3.participants[i]]
             asked3 == [participants |-> ready, phase |-> "PREPARE"]
  <2>1. coord3' = (IF no = {} THEN asked3 ELSE Aborted(asked3)) /\ covered' = covered
    BY <1>2 DEF threepc_prepare
  <2>2. ready \in [Indices -> Participant]
    BY <1>0 DEF Participant, Vote
  <2> HIDE DEF no, ready
  <2>3. CASE no = {}
    BY <2>1, <2>2, <2>3, NoBarrier3
  <2>4. CASE no # {}
    <3>1. PICK r \in [Indices -> Participant] :
            Aborted(asked3) = [participants |-> r, phase |-> "ABORT"]
      BY <1>0, <2>2, AbortedFacts
    <3> QED
      BY <2>1, <2>4, <3>1, NoBarrier3
  <2> QED
    BY <2>3, <2>4
<1>3. CASE threepc_precommit
  <2> DEFINE missing == {i \in Indices : coord3.participants[i].vote # "YES"}
             marked  == [i \in Indices |->
                           IF i \in InFrontOf(missing)
                           THEN [coord3.participants[i] EXCEPT !.prepared = TRUE]
                           ELSE coord3.participants[i]]
             next    == [participants |-> marked, phase |-> "PRECOMMIT"]
  <2>1. /\ coord3' = IF missing = {} THEN next ELSE Aborted(next)
        /\ covered' = IF missing = {} THEN n ELSE covered
    BY <1>3 DEF threepc_precommit
  <2>2. marked \in [Indices -> Participant]
    BY <1>0 DEF Participant
  <2>3. CASE missing = {}
    <3>1. \A i \in Indices : i \in InFrontOf(missing) /\ coord3.participants[i].vote = "YES"
      BY <2>3 DEF InFrontOf
    <3>2. \A i \in Indices : marked[i].vote = "YES" /\ marked[i].prepared = TRUE
      BY <1>0, <3>1 DEF Participant
    <3>3. coord3' = [participants |-> marked, phase |-> "PRECOMMIT"] /\ covered' = n
      BY <2>1, <2>3
    <3> HIDE DEF missing, marked
    <3>4. coord3' \in ThreePCCoordinator /\ Len(coord3'.participants) = n
          /\ Len(coord3'.participants) <= MaxParticipants
      BY <2>2, <3>3, SameLength3
    <3> QED
      BY <1>0, <3>2, <3>3, <3>4 DEF Inv3, TypeOK3, PrecommitBarrier
  <2>4. CASE missing # {}
    <3> HIDE DEF missing, marked
    <3>1. PICK r \in [Indices -> Participant] :
            Aborted(next) = [participants |-> r, phase |-> "ABORT"]
      BY <1>0, <2>2, AbortedFacts
    <3> QED
      BY <2>1, <2>4, <3>1, NoBarrier3
  <2> QED
    BY <2>3, <2>4
<1>4. CASE threepc_commit
  <2> DEFINE q == [i \in Indices |-> [coord3.participants[i] EXCEPT !.state = "COMMITTED"]]
  <2>1. coord3' = [participants |-> q, phase |-> "COMMIT"] /\ covered' = covered
        /\ coord3.phase = "PRECOMMIT"
    BY <1>4 DEF threepc_commit
  <2>2. /\ q \in [Indices -> Participant]
        /\ \A i \in Indices : q[i].vote = coord3.participants[i].vote
                              /\ q[i].prepared = coord3.participants[i].prepared
    BY <1>0 DEF Participant
  <2> HIDE DEF q
  <2>3. coord3' \in ThreePCCoordinator /\ Len(coord3'.participants) = n
        /\ Len(coord3'.participants) <= MaxParticipants
    BY <2>1, <2>2, SameLength3
  <2> QED
    BY <1>0, <2>1, <2>2, <2>3 DEF Inv3, TypeOK3, PrecommitBarrier
<1>5. CASE threepc_abort
  <2>1. PICK r \in [Indices -> Participant] :
          Aborted(coord3) = [participants |-> r, phase |-> "ABORT"]
    BY <1>0, AbortedFacts
  <2> QED
    BY <1>5, <2>1, NoBarrier3 DEF threepc_abort
<1>6. CASE UNCHANGED vars3
  BY <1>6 DEF Inv3, TypeOK3, PrecommitBarrier, vars3
<1> QED
  BY <1>1, <1>2, <1>3, <1>4, <1>5, <1>6 DEF Next3

LEMMA Invariant3 == Spec3 => []Inv3
<1>1. Init3 => Inv3
  BY TwoPCAssumption DEF Init3, Inv3, TypeOK3, PrecommitBarrier, ThreePCCoordinator
<1> QED
  BY <1>1, Next3Keeps, PTL DEF Spec3

(* 2PC and 3PC: a commit covers only participants that voted YES, and who the *)
(* precommit covered has voted YES and been told so, for any number of        *)
(* participants and in whatever order the coordinators are called.            *)
THEOREM CommitsAreCovered == Spec /\ Spec3 => []CommitsCovered
<1>1. Inv2 /\ Inv3 => CommitsCovered
  BY DEF Inv2, Inv3, CommitsCovered
<1> QED
  BY <1>1, Invariant2, Invariant3, PTL

-----------------------------------------------------------------------------
(***************************************************************************)
(* Sagas.  PrefixInEffect says what is visible; the inductive invariant     *)
(* says where saga_execute is.  Going forward every step in front of the    *)
(* running one has put its effect in place once; going back the steps still *)
(* to be compensated have, and of the ones behind it those whose            *)
(* compensation did not work.                                               *)
(***************************************************************************)

Once(i) == effect[i] = before[i] + 1
Untouched(i) == effect[i] = before[i]

GoingForward ==
  call = "forward" =>
    /\ st.status = "RUNNING"
    /\ at \in 1 .. Len(st.steps)
    /\ lost = {}
    /\ \A i \in 1 .. MaxSteps : IF i < at THEN Once(i) ELSE Untouched(i)

GoingBack ==
  call = "back" =>
    /\ st.status = "COMPENSATING"
    /\ at <= Len(st.steps)
    /\ \A i \in lost : at < i
    /\ \A i \in 1 .. MaxSteps : IF i <= at \/ i \in lost THEN Once(i) ELSE Untouched(i)

AtRest ==
  call = "none" =>
    /\ st.status \in {"CREATED", "COMPLETED", "COMPENSATED"}
    /\ \A i \in InEffect \ lost : 1 .. i - 1 \subseteq InEffect
    /\ st.status = "COMPENSATED" => InEffect \subseteq lost

InvSaga == SagaTypeOK /\ GoingForward /\ GoingBack /\ AtRest

LEMMA SagaInEffect == InvSaga => PrefixInEffect
<1> SUFFICES ASSUME InvSaga PROVE PrefixInEffect
  OBVIOUS
<1>0. /\ MaxSteps \in Nat /\ at \in 0 .. MaxSteps
      /\ effect \in [1 .. MaxSteps -> Nat] /\ before \in [1 .. MaxSteps -> Nat]
      /\ st.steps \in Seq(SagaStep) /\ Len(st.steps) \in Nat /\ Len(st.steps) <= MaxSteps
  BY SagaAssumption DEF InvSaga, SagaTypeOK, SagaTransaction
<1>1. CASE call = "forward"
  <2>1. \A i \in 1 .. MaxSteps : i \in InEffect <=> i < at
    BY <1>0, <1>1 DEF InvSaga, GoingForward, Once, Untouched, InEffect
  <2>2. InEffect = 1 .. at - 1
    BY <1>0, <2>1 DEF InEffect
  <2> QED
    BY <1>0, <1>1, <2>2 DEF PrefixInEffect, InvSaga, GoingForward
<1>2. CASE call = "back"
  <2>1. \A i \in 1 .. MaxSteps : i \in InEffect <=> i <= at \/ i \in lost
    BY <1>0, <1>2 DEF InvSaga, GoingBack, Once, Untouched, InEffect
  <2>2. \A i \in InEffect \ lost : i \in 1 .. MaxSteps /\ i <= at
    BY <2>1 DEF InEffect
  <2>3. \A i \in InEffect \ lost : 1 .. i - 1 \subseteq InEffect
    BY <1>0, <2>1, <2>2
  <2> QED
    BY <1>2, <2>3 DEF PrefixInEffect, InvSaga, GoingBack
<1>3. CASE call = "none"
  BY <1>3 DEF PrefixInEffect, InvSaga, AtRest
<1> QED
  BY <1>1, <1>2, <1>3 DEF InvSaga, SagaTypeOK

(* Changing the status of a step keeps the steps and their number.            *)
LEMMA SetStatus ==
  ASSUME NEW q \in Seq(SagaStep), NEW i \in 1 .. Len(q),
         NEW s \in {"PENDING", "RUNNING", "SUCCEEDED", "FAILED"}
  PROVE  /\ [q EXCEPT ![i].status = s] \in Seq(SagaStep)
         /\ Len([q EXCEPT ![i].status = s]) = Len(q)
<1>1. q[i] \in SagaStep
  OBVIOUS
<1>2. [q[i] EXCEPT !.status = s] \in SagaStep
  BY <1>1 DEF SagaStep
<1> QED
  BY <1>2

LEMMA AllPendingType ==
  ASSUME NEW q \in Seq(SagaStep), q = st.steps
  PROVE  AllPending \in Seq(SagaStep) /\ Len(AllPending) = Len(q)
<1>0. \A i \in 1 .. Len(q) : q[i] \in SagaStep
  OBVIOUS
<1>1. \A i \in 1 .. Len(q) : [q[i] EXCEPT !.status = "PENDING"] \in SagaStep
  BY <1>0 DEF SagaStep
<1>2. AllPending \in [1 .. Len(q) -> SagaStep]
  BY <1>1 DEF AllPending
<1> QED
  BY <1>2, MapSeq

(* An execution starts with nothing in place beyond what was there.           *)
LEMMA StartKeeps ==
  ASSUME InvSaga, NEW q \in Seq(SagaStep), Len(q) = Len(st.steps), Start(q)
  PROVE  InvSaga'
<1>1. Len(q) \in Nat /\ Len(q) > 0 /\ Len(q) <= MaxSteps
  BY DEF Start, InvSaga, SagaTypeOK
<1>0. 1 \in 1 .. Len(q)
  BY <1>1
<1> DEFINE r == [q EXCEPT ![1].status = "RUNNING"]
<1>2. r \in Seq(SagaStep) /\ Len(r) = Len(q)
  BY <1>0, SetStatus
<1>3. st' = [status |-> "RUNNING", steps |-> r]
  BY DEF Start
<1> HIDE DEF r
<1>4. st' \in SagaTransaction /\ Len(st'.steps) = Len(q)
  BY <1>2, <1>3 DEF SagaTransaction
<1>5. SagaTypeOK'
  BY <1>1, <1>4, SagaAssumption DEF InvSaga, SagaTypeOK, Start
<1>6. GoingForward'
  BY <1>1, <1>3, <1>4 DEF GoingForward, Once, Untouched, Start, InvSaga, SagaTypeOK
<1>7. GoingBack' /\ AtRest'
  BY DEF GoingBack, AtRest, Start
<1> QED
  BY <1>5, <1>6, <1>7 DEF InvSaga

LEMMA SagaNextKeeps == InvSaga /\ [SagaNext]_sagaVars => InvSaga'
<1> SUFFICES ASSUME InvSaga, [SagaNext]_sagaVars PROVE InvSaga'
  OBVIOUS
<1> DEFINE n == Len(st.steps)
<1>0. /\ MaxSteps \in Nat /\ at \in 0 .. MaxSteps
      /\ effect \in [1 .. MaxSteps -> Nat] /\ before \in [1 .. MaxSteps -> Nat]
      /\ lost \subseteq 1 .. MaxSteps
      /\ st.steps \in Seq(SagaStep) /\ n \in Nat /\ n <= MaxSteps
      /\ st = [steps |-> st.steps, status |-> st.status]
      /\ st.status \in {"CREATED", "RUNNING", "COMPLETED", "COMPENSATING", "COMPENSATED"}
      /\ call \in {"none", "forward", "back"}
  BY SagaAssumption DEF InvSaga, SagaTypeOK, SagaTransaction
<1>1. ASSUME NEW compensate \in BOOLEAN, saga_transaction_add_step(compensate)
      PROVE  InvSaga'
  <2> DEFINE q == Append(st.steps, [compensate |-> compensate, status |-> "PENDING"])
  <2>1. q \in Seq(SagaStep) /\ Len(q) = n + 1
    BY <1>0, AppendSeq DEF SagaStep
  <2>2. st' = [steps |-> q, status |-> st.status]
    BY <1>0, <1>1 DEF saga_transaction_add_step
  <2> HIDE DEF q
  <2>3. st' \in SagaTransaction /\ Len(st'.steps) <= MaxSteps
    <3>1. n < MaxSteps
      BY <1>1 DEF saga_transaction_add_step
    <3>2. st' \in SagaTransaction
      BY <1>0, <2>1, <2>2 DEF SagaTransaction
    <3>3. Len(st'.steps) = n + 1
      BY <2>1, <2>2
    <3> QED
      BY <1>0, <3>1, <3>2, <3>3
  <2> QED
    BY <1>1, <2>2, <2>3
       DEF InvSaga, SagaTypeOK, GoingForward, GoingBack, AtRest, InEffect,
           saga_transaction_add_step, sagaGhosts
<1>2. CASE saga_execute
  BY <1>0, <1>2, StartKeeps DEF saga_execute
<1>3. CASE saga_retry
  BY <1>0, <1>3, StartKeeps, AllPendingType DEF saga_retry
<1>4. CASE saga_reset_steps
  <2>1. st' = [steps |-> AllPending, status |-> "CREATED"] /\ call = "none"
        /\ UNCHANGED <<call, at, effect, before, lost>>
    BY <1>4 DEF saga_reset_steps, sagaGhosts
  <2>2. st' \in SagaTransaction /\ Len(st'.steps) <= MaxSteps
    BY <1>0, <2>1, AllPendingType DEF SagaTransaction
  <2> QED
    BY <2>1, <2>2 DEF InvSaga, SagaTypeOK, GoingForward, GoingBack, AtRest, InEffect
<1>5. CASE ActionSucceeds
  <2> DEFINE done == [st.steps EXCEPT ![at].status = "SUCCEEDED"]
  <2>1. /\ call = "forward" /\ at \in 1 .. n /\ lost = {} /\ st.status = "RUNNING"
        /\ \A i \in 1 .. MaxSteps : IF i < at THEN Once(i) ELSE Untouched(i)
    BY <1>5 DEF ActionSucceeds, InvSaga, GoingForward
  <2>2. done \in Seq(SagaStep) /\ Len(done) = n
    BY <1>0, <2>1, SetStatus
  <2>3. /\ effect' = [effect EXCEPT ![at] = @ + 1]
        /\ before' = before /\ lost' = {}
    BY <1>5, <2>1 DEF ActionSucceeds
  <2>4. /\ effect' \in [1 .. MaxSteps -> Nat]
        /\ \A i \in 1 .. MaxSteps :
             effect'[i] = IF i <= at THEN before'[i] + 1 ELSE before'[i]
    BY <1>0, <2>1, <2>3 DEF Once, Untouched
  <2>5. CASE at = Len(done)
    <3>1. st' = [steps |-> done, status |-> "COMPLETED"] /\ call' = "none" /\ at' = at
      BY <1>5, <2>5 DEF ActionSucceeds
    <3> HIDE DEF done
    <3>2. SagaTypeOK'
      BY <1>0, <2>2, <2>3, <2>4, <3>1 DEF SagaTypeOK, SagaTransaction
    <3>3. \A i \in 1 .. MaxSteps : i \in InEffect' <=> i <= at
      BY <1>0, <2>3, <2>4 DEF InEffect
    <3>4. \A i \in InEffect' : i \in 1 .. MaxSteps /\ 1 .. i - 1 \subseteq InEffect'
      BY <1>0, <3>3 DEF InEffect
    <3> QED
      BY <3>1, <3>2, <3>4 DEF InvSaga, GoingForward, GoingBack, AtRest
  <2>6. CASE at # Len(done)
    <3> DEFINE q == [done EXCEPT ![at + 1].status = "RUNNING"]
    <3>1. q \in Seq(SagaStep) /\ Len(q) = n
      <4>1. at + 1 \in 1 .. Len(done)
        BY <1>0, <2>1, <2>2, <2>6
      <4> HIDE DEF done
      <4> QED
        BY <2>2, <4>1, SetStatus
    <3>2. st' = [steps |-> q, status |-> st.status] /\ call' = call /\ at' = at + 1
      BY <1>0, <1>5, <2>6 DEF ActionSucceeds
    <3> HIDE DEF q, done
    <3>3. SagaTypeOK'
      BY <1>0, <2>1, <2>2, <2>3, <2>4, <2>6, <3>1, <3>2 DEF SagaTypeOK, SagaTransaction
    <3>4. GoingForward'
      BY <1>0, <2>1, <2>2, <2>3, <2>4, <2>6, <3>1, <3>2 DEF GoingForward, Once, Untouched
    <3> QED
      BY <2>1, <3>2, <3>3, <3>4 DEF InvSaga, GoingBack, AtRest
  <2> QED
    BY <2>5, <2>6
<1>6. CASE ActionFails
  <2> DEFINE q == [st.steps EXCEPT ![at].status = "FAILED"]
  <2>1. /\ call = "forward" /\ at \in 1 .. n /\ lost = {}
        /\ \A i \in 1 .. MaxSteps : IF i < at THEN Once(i) ELSE Untouched(i)
    BY <1>6 DEF ActionFails, InvSaga, GoingForward
  <2>2. q \in Seq(SagaStep) /\ Len(q) = n
    BY <1>0, <2>1, SetStatus
  <2>3. st' = [steps |-> q, status |-> "COMPENSATING"] /\ call' = "back" /\ at' = at - 1
        /\ UNCHANGED <<effect, before, lost>>
    BY <1>6 DEF ActionFails, sagaGhosts
  <2> HIDE DEF q
  <2>4. SagaTypeOK'
    BY <1>0, <2>1, <2>2, <2>3 DEF SagaTypeOK, SagaTransaction
  <2>5. GoingBack'
    BY <1>0, <2>1, <2>2, <2>3 DEF GoingBack, Once, Untouched
  <2> QED
    BY <2>3, <2>4, <2>5 DEF InvSaga, GoingForward, AtRest
<1>7. ASSUME NEW worked \in BOOLEAN, Compensate(worked)
      PROVE  InvSaga'
  <2> DEFINE q == [st.steps EXCEPT ![at].status = "PENDING"]
  <2>1. /\ call = "back" /\ at \in 1 .. n /\ st.status = "COMPENSATING"
        /\ \A i \in lost : at < i
        /\ \A i \in 1 .. MaxSteps : IF i <= at \/ i \in lost THEN Once(i) ELSE Untouched(i)
    BY <1>0, <1>7 DEF Compensate, InvSaga, GoingBack
  <2>2. q \in Seq(SagaStep) /\ Len(q) = n
    BY <1>0, <2>1, SetStatus
  <2>3. st' = [steps |-> q, status |-> st.status] /\ call' = call /\ at' = at - 1
        /\ before' = before
    BY <1>0, <1>7 DEF Compensate
  <2> HIDE DEF q
  <2>4. \/ effect' = [effect EXCEPT ![at] = @ - 1] /\ lost' = lost
        \/ lost' = lost \cup {at} /\ effect' = effect
    BY <1>7 DEF Compensate
  <2>5. effect[at] = before[at] + 1 /\ at \in 1 .. MaxSteps
    BY <1>0, <2>1 DEF Once
  <2>6. effect' \in [1 .. MaxSteps -> Nat] /\ lost' \subseteq 1 .. MaxSteps
    <3>1. effect[at] - 1 \in Nat
      BY <1>0, <2>5
    <3> QED
      BY <1>0, <2>4, <2>5, <3>1
  <2>7. SagaTypeOK'
    BY <1>0, <2>1, <2>2, <2>3, <2>6 DEF SagaTypeOK, SagaTransaction
  <2>8. GoingBack'
    <3>1. \A i \in lost' : at' < i
      BY <1>0, <2>1, <2>3, <2>4
    <3>2. \A i \in 1 .. MaxSteps :
            effect'[i] = IF i <= at' \/ i \in lost' THEN before'[i] + 1 ELSE before'[i]
      BY <1>0, <2>1, <2>3, <2>4, <2>5 DEF Once, Untouched
    <3> QED
      BY <1>0, <2>1, <2>2, <2>3, <3>1, <3>2 DEF GoingBack, Once, Untouched
  <2> QED
    BY <2>1, <2>3, <2>7, <2>8 DEF InvSaga, GoingForward, AtRest
<1>8. CASE CompensationDone
  <2>1. /\ call = "back" /\ at = 0 /\ call' = "none"
        /\ st' = [steps |-> st.steps, status |-> "COMPENSATED"]
        /\ UNCHANGED <<at, effect, before, lost>>
    BY <1>0, <1>8 DEF CompensationDone, sagaGhosts
  <2>2. SagaTypeOK'
    BY <1>0, <2>1 DEF SagaTypeOK, SagaTransaction
  <2>3. InEffect' \subseteq lost'
    BY <1>0, <2>1 DEF InvSaga, GoingBack, InEffect, Once, Untouched
  <2> QED
    BY <2>1, <2>2, <2>3 DEF InvSaga, GoingForward, GoingBack, AtRest
<1>9. CASE UNCHANGED sagaVars
  BY <1>9
     DEF InvSaga, SagaTypeOK, GoingForward, GoingBack, AtRest, InEffect, Once, Untouched,
         sagaVars, sagaGhosts
<1> QED
  BY <1>1, <1>2, <1>3, <1>4, <1>5, <1>6, <1>7, <1>8, <1>9 DEF SagaNext

LEMMA InvariantSaga == SagaSpec => []InvSaga
<1>1. SagaInit => InvSaga
  BY SagaAssumption
     DEF SagaInit, InvSaga, SagaTypeOK, SagaTransaction, GoingForward, GoingBack, AtRest, InEffect
<1> QED
  BY <1>1, SagaNextKeeps, PTL DEF SagaSpec

-----------------------------------------------------------------------------
(***************************************************************************)
(* Try-confirm-cancel.  Neither UsedTogether nor NothingLeftReserved is     *)
(* inductive: what tcc_confirm_all and tcc_cancel_all settle depends on     *)
(* TriedReserved, which says that in the TRY phase the resources counted by *)
(* tried_count are exactly those the transaction holds as RESERVED.         *)
(***************************************************************************)

Rounds == [n : Nat, base : [1 .. MaxResources -> Nat], unsettled : BOOLEAN]

TriedReserved ==
  t.phase = "TRY" =>
    /\ \A i \in 1 .. t.tried_count : t.resources[i] = "RESERVED"
    /\ 1 .. t.tried_count \subseteq reserved
    /\ ~round.unsettled => reserved = 1 .. t.tried_count

InvTcc ==
  /\ TccTypeOK
  /\ round \in Rounds
  /\ round.n <= Count(t)
  /\ TriedReserved
  /\ UsedTogether
  /\ NothingLeftReserved

(* The phase and the counts after a round of tries, a cancel, a confirm.      *)
LEMMA TriedFacts ==
  ASSUME NEW f \in 0 .. Count(t), t \in TCCTransaction
  PROVE  /\ Tried(f) \in TCCTransaction
         /\ Count(Tried(f)) = Count(t)
         /\ Tried(f).phase = "TRY"
         /\ Tried(f).tried_count = f
         /\ \A i \in 1 .. f : Tried(f).resources[i] = "RESERVED"
<1>0. t.resources \in Seq(TCCResState) /\ Count(t) \in Nat
      /\ \A i \in 1 .. Count(t) : t.resources[i] \in TCCResState
  BY SeqDomain DEF TCCTransaction, Count
<1> DEFINE q == [i \in 1 .. Count(t) |->
                   IF i <= f THEN "RESERVED"
                   ELSE IF i = f + 1 THEN "FAILED"
                   ELSE t.resources[i]]
<1>1. q \in [1 .. Count(t) -> TCCResState]
  BY <1>0 DEF TCCResState
<1>2. q \in Seq(TCCResState) /\ Len(q) = Count(t)
  BY <1>0, <1>1, MapSeq
<1>3. \A i \in 1 .. f : q[i] = "RESERVED"
  BY <1>0
<1>4. Tried(f) = [resources |-> q, phase |-> "TRY", status |-> "TRYING", tried_count |-> f]
  BY DEF Tried
<1> HIDE DEF q
<1>5. Tried(f) \in TCCTransaction
  BY <1>0, <1>2, <1>4 DEF TCCTransaction
<1> QED
  BY <1>2, <1>3, <1>4, <1>5 DEF Count

LEMMA CancelledFacts ==
  ASSUME NEW x \in TCCTransaction
  PROVE  /\ Cancelled(x) \in TCCTransaction
         /\ Count(Cancelled(x)) = Count(x)
         /\ Cancelled(x).phase = "CANCEL"
         /\ Cancelled(x).tried_count = x.tried_count
<1> DEFINE q == [i \in DOMAIN x.resources |->
                   IF i \in ToCancel(x) THEN "CANCELLED" ELSE x.resources[i]]
<1>0. x.resources \in Seq(TCCResState) /\ Len(x.resources) \in Nat
      /\ DOMAIN x.resources = 1 .. Len(x.resources)
      /\ \A i \in 1 .. Len(x.resources) : x.resources[i] \in TCCResState
  BY SeqDomain DEF TCCTransaction
<1>1. q \in [1 .. Len(x.resources) -> TCCResState]
  BY <1>0 DEF TCCResState
<1>2. q \in Seq(TCCResState) /\ Len(q) = Len(x.resources)
  BY <1>0, <1>1, MapSeq
<1>3. Cancelled(x) =
        [x EXCEPT !.phase = "CANCEL", !.status = "CANCELLED", !.resources = q]
  BY DEF Cancelled
<1> HIDE DEF q
<1> QED
  BY <1>2, <1>3 DEF TCCTransaction, Count

LEMMA ConfirmedFacts ==
  ASSUME NEW x \in TCCTransaction, ToConfirm(x) = 1 .. Count(x)
  PROVE  /\ Confirmed(x) \in TCCTransaction
         /\ Count(Confirmed(x)) = Count(x)
         /\ Confirmed(x).phase = "CONFIRM"
         /\ Confirmed(x).tried_count = x.tried_count
<1> DEFINE q == [i \in DOMAIN x.resources |->
                   IF i \in ToConfirm(x) THEN "CONFIRMED" ELSE x.resources[i]]
<1>0. x.resources \in Seq(TCCResState) /\ Len(x.resources) \in Nat
      /\ DOMAIN x.resources = 1 .. Len(x.resources)
      /\ \A i \in 1 .. Len(x.resources) : x.resources[i] \in TCCResState
  BY SeqDomain DEF TCCTransaction
<1>1. q \in [1 .. Len(x.resources) -> TCCResState]
  BY <1>0 DEF TCCResState
<1>2. q \in Seq(TCCResState) /\ Len(q) = Len(x.resources)
  BY <1>0, <1>1, MapSeq
<1>3. Confirmed(x) =
        [x EXCEPT !.phase = "CONFIRM", !.status = "CONFIRMED", !.resources = q]
  BY DEF Confirmed
<1> HIDE DEF q
<1> QED
  BY <1>2, <1>3 DEF TCCTransaction, Count

(* If all resources are RESERVED all of them are confirmed.                   *)
LEMMA AllConfirmed ==
  ASSUME NEW x \in TCCTransaction,
         \A i \in 1 .. Count(x) : x.resources[i] = "RESERVED"
  PROVE  ToConfirm(x) = 1 .. Count(x)
<1>1. Count(x) \in Nat
  BY SeqDomain DEF TCCTransaction, Count
<1>2. \A i \in 1 .. Count(x) : \A j \in 1 .. i : x.resources[j] = "RESERVED"
  BY <1>1
<1> QED
  BY <1>2 DEF ToConfirm

(* Settling counts one use for each resource that is confirmed, and leaves    *)
(* reserved of those it asks only the ones whose callback failed.             *)
LEMMA SettleFacts ==
  ASSUME used \in [1 .. MaxResources -> Nat], NEW held, NEW sure, NEW gone, NEW deaf,
         Settle(held, sure, gone, deaf)
  PROVE  /\ used' \in [1 .. MaxResources -> Nat]
         /\ \A i \in (1 .. MaxResources) \ failed' :
              used'[i] = IF i \in sure /\ i \in held THEN used[i] + 1 ELSE used[i]
         /\ reserved' \subseteq held
         /\ held \ (sure \cup gone) \subseteq reserved'
         /\ reserved' \cap (sure \cup gone) \subseteq failed'
         /\ deaf \subseteq failed'
         /\ failed' \subseteq deaf \cup held
<1>1. PICK bad \in SUBSET (held \cap (sure \cup gone)) :
        /\ used' = [i \in DOMAIN used |->
                      used[i] + IF i \in (sure \cap held) \ bad THEN 1 ELSE 0]
        /\ reserved' = held \ ((sure \cup gone) \ bad)
        /\ failed' = deaf \cup bad
  BY DEF Settle
<1> QED
  BY <1>1

LEMMA TccNextKeeps == InvTcc /\ [TccNext]_tccVars => InvTcc'
<1> SUFFICES ASSUME InvTcc, [TccNext]_tccVars PROVE InvTcc'
  OBVIOUS
<1> DEFINE n == Count(t)
<1>0. /\ t \in TCCTransaction /\ n \in Nat /\ n <= MaxResources
      /\ t.resources \in Seq(TCCResState)
      /\ t.tried_count \in 0 .. n
      /\ reserved \subseteq 1 .. n /\ failed \subseteq 1 .. n
      /\ used \in [1 .. MaxResources -> Nat] /\ DOMAIN used = 1 .. MaxResources
      /\ round \in Rounds /\ round.n \in 0 .. n
      /\ round.base \in [1 .. MaxResources -> Nat] /\ round.unsettled \in BOOLEAN
      /\ MaxResources \in Nat
      /\ 1 .. n \subseteq 1 .. MaxResources /\ 1 .. round.n \subseteq 1 .. n
  BY SeqDomain, TccAssumption DEF InvTcc, TccTypeOK, TCCTransaction, Count, Rounds
<1>1. CASE tcc_transaction_add_resource
  <2> DEFINE q == Append(t.resources, "IDLE")
  <2>1. q \in Seq(TCCResState) /\ Len(q) = n + 1 /\ \A i \in 1 .. n : q[i] = t.resources[i]
    BY <1>0, AppendSeq DEF TCCResState, Count
  <2>2. t' = [t EXCEPT !.resources = q] /\ UNCHANGED <<reserved, used, round, failed>>
    BY <1>1 DEF tcc_transaction_add_resource, tccGhosts
  <2> HIDE DEF q
  <2>3. /\ t' \in TCCTransaction /\ Count(t') = n + 1 /\ t'.phase = t.phase
        /\ t'.tried_count = t.tried_count /\ t'.resources = q
    BY <1>0, <2>1, <2>2 DEF TCCTransaction, Count
  <2>4. n + 1 <= MaxResources
    BY <1>0, <1>1 DEF tcc_transaction_add_resource
  <2>5. TccTypeOK' /\ round' \in Rounds /\ round'.n <= Count(t')
    <3>1. reserved' \subseteq 1 .. (n + 1) /\ failed' \subseteq 1 .. (n + 1)
          /\ t'.tried_count <= n + 1
      BY <1>0, <2>2, <2>3
    <3>2. round' \in Rounds /\ round'.n <= n + 1
      BY <1>0, <2>2
    <3> QED
      BY <1>0, <2>2, <2>3, <2>4, <3>1, <3>2 DEF TccTypeOK
  <2>6. TriedReserved'
    BY <1>0, <2>1, <2>2, <2>3 DEF InvTcc, TriedReserved
  <2> QED
    BY <2>2, <2>3, <2>5, <2>6 DEF InvTcc, UsedTogether, NothingLeftReserved
<1>2. ASSUME NEW f \in 0 .. n, tcc_try_all(f)
      PROVE  InvTcc'
  <2>1. t' = Tried(f) /\ round' = [n |-> n, base |-> used, unsettled |-> reserved # {}]
    BY <1>2 DEF tcc_try_all, NewRound
  <2>2. /\ used' \in [1 .. MaxResources -> Nat]
        /\ \A i \in 1 .. MaxResources : used'[i] = used[i]
        /\ reserved' = reserved \cup 1 .. f
        /\ failed' = {}
    <3>1. Settle(reserved \cup 1 .. f, {}, {}, {})
      BY <1>2 DEF tcc_try_all
    <3> QED
      BY <1>0, <3>1 DEF Settle
  <2>3. TccTypeOK' /\ round' \in Rounds /\ round'.n <= Count(t')
    BY <1>0, <2>1, <2>2, TriedFacts DEF TccTypeOK, Rounds
  <2>4. TriedReserved'
    BY <1>0, <2>1, <2>2, TriedFacts DEF TriedReserved
  <2>5. UsedTogether'
    <3>1. \A i \in 1 .. n : used'[i] - used[i] = 0
      BY <1>0, <2>2
    <3> QED
      BY <2>1, <3>1 DEF UsedTogether
  <2> QED
    BY <1>0, <2>1, <2>3, <2>4, <2>5, TriedFacts DEF InvTcc, NothingLeftReserved
<1>3. ASSUME NEW f \in 0 .. n, tcc_execute(f)
      PROVE  InvTcc'
  <2>1. round' = [n |-> n, base |-> used, unsettled |-> reserved # {}]
    BY <1>3 DEF tcc_execute, NewRound
  <2>2. CASE f = n /\ f > 0
    <3>1. t' = Confirmed(Tried(f)) /\ Settle(reserved \cup 1 .. f, 1 .. f, {}, {})
      BY <1>3, <2>2 DEF tcc_execute
    <3>2. /\ used' \in [1 .. MaxResources -> Nat]
          /\ \A i \in (1 .. n) \ failed' : used'[i] = used[i] + 1
          /\ reserved' \subseteq failed' /\ failed' \subseteq 1 .. n
      <4> DEFINE held == reserved \cup 1 .. f
                 sure == 1 .. f
      <4>1. /\ used \in [1 .. MaxResources -> Nat]
            /\ Settle(held, sure, {}, {})
        BY <1>0, <3>1
      <4>2. held = 1 .. n /\ sure = 1 .. n
        BY <1>0, <2>2
      <4> HIDE DEF held, sure
      <4>3. /\ used' \in [1 .. MaxResources -> Nat]
            /\ \A i \in (1 .. MaxResources) \ failed' :
                 used'[i] = IF i \in sure /\ i \in held THEN used[i] + 1 ELSE used[i]
            /\ reserved' \subseteq held
            /\ reserved' \cap (sure \cup {}) \subseteq failed'
            /\ failed' \subseteq {} \cup held
        BY <4>1, SettleFacts
      <4>4. \A i \in (1 .. n) \ failed' : i \in (1 .. MaxResources) \ failed'
        BY <1>0
      <4> QED
        BY <4>2, <4>3, <4>4
    <3>3. Tried(f) \in TCCTransaction /\ Count(Tried(f)) = n /\ Tried(f).tried_count = f
          /\ ToConfirm(Tried(f)) = 1 .. Count(Tried(f))
      BY <1>0, <2>2, TriedFacts, AllConfirmed
    <3>4. t' \in TCCTransaction /\ Count(t') = n /\ t'.phase = "CONFIRM" /\ t'.tried_count = f
      BY <3>1, <3>3, ConfirmedFacts
    <3>5. reserved' \subseteq 1 .. n /\ failed' \subseteq 1 .. n
      BY <1>0, <2>2, <3>2
    <3>6. TccTypeOK' /\ round' \in Rounds /\ round'.n <= Count(t')
      BY <1>0, <2>1, <3>2, <3>4, <3>5 DEF TccTypeOK, Rounds
    <3>7. UsedTogether'
      <4>1. \A i \in (1 .. n) \ failed' : used'[i] - used[i] = 1
        BY <1>0, <3>2
      <4> QED
        BY <2>1, <4>1 DEF UsedTogether
    <3> QED
      BY <3>2, <3>4, <3>6, <3>7 DEF InvTcc, TriedReserved, NothingLeftReserved
  <2>3. CASE ~(f = n /\ f > 0)
    <3>1. t' = Cancelled(Tried(f)) /\ Settle(reserved \cup 1 .. f, {}, 1 .. f, {})
      BY <1>3, <2>3 DEF tcc_execute
    <3>2. /\ used' \in [1 .. MaxResources -> Nat]
          /\ \A i \in (1 .. n) \ failed' : used'[i] = used[i]
          /\ reserved' \subseteq reserved \cup 1 .. f /\ failed' \subseteq 1 .. n
          /\ reserved' \cap 1 .. f \subseteq failed'
      <4> DEFINE held == reserved \cup 1 .. f
                 gone == 1 .. f
      <4>1. /\ used \in [1 .. MaxResources -> Nat]
            /\ Settle(held, {}, gone, {})
        BY <1>0, <3>1
      <4>2. held \subseteq 1 .. n
        BY <1>0
      <4> HIDE DEF held, gone
      <4>3. /\ used' \in [1 .. MaxResources -> Nat]
            /\ \A i \in (1 .. MaxResources) \ failed' :
                 used'[i] = IF i \in {} /\ i \in held THEN used[i] + 1 ELSE used[i]
            /\ reserved' \subseteq held
            /\ reserved' \cap ({} \cup gone) \subseteq failed'
            /\ failed' \subseteq {} \cup held
        BY <4>1, SettleFacts
      <4>4. \A i \in (1 .. n) \ failed' : i \in (1 .. MaxResources) \ failed'
        BY <1>0
      <4> QED
        BY <4>2, <4>3, <4>4 DEF held, gone
    <3>3. Tried(f) \in TCCTransaction /\ Count(Tried(f)) = n /\ Tried(f).tried_count = f
      BY <1>0, TriedFacts
    <3>4. t' \in TCCTransaction /\ Count(t') = n /\ t'.phase = "CANCEL" /\ t'.tried_count = f
      BY <3>1, <3>3, CancelledFacts
    <3>5. reserved' \subseteq 1 .. n /\ (reserved = {} => reserved' \subseteq failed')
      BY <1>0, <3>2
    <3>6. TccTypeOK' /\ round' \in Rounds /\ round'.n <= Count(t')
      BY <1>0, <2>1, <3>2, <3>4, <3>5 DEF TccTypeOK, Rounds
    <3>7. UsedTogether'
      <4>1. \A i \in (1 .. n) \ failed' : used'[i] - used[i] = 0
        BY <1>0, <3>2
      <4> QED
        BY <2>1, <4>1 DEF UsedTogether
    <3> QED
      BY <2>1, <3>4, <3>5, <3>6, <3>7 DEF InvTcc, TriedReserved, NothingLeftReserved
  <2> QED
    BY <2>2, <2>3
<1>4. CASE tcc_confirm_all
  <2>1. t.phase = "TRY" /\ t.tried_count = n
        /\ t' = Confirmed(t) /\ round' = round
    BY <1>4 DEF tcc_confirm_all, CanConfirm
  <2>2. (\A i \in 1 .. n : t.resources[i] = "RESERVED") /\ reserved = 1 .. n
    BY <1>0, <2>1 DEF InvTcc, TriedReserved
  <2>3. ToConfirm(t) = 1 .. n
    BY <1>0, <2>2, AllConfirmed
  <2>4. Settle(reserved, 1 .. n, {}, failed)
    BY <1>4, <2>3 DEF tcc_confirm_all
  <2>5. /\ used' \in [1 .. MaxResources -> Nat]
        /\ \A i \in (1 .. n) \ failed' : used'[i] = used[i] + 1
        /\ reserved' \subseteq 1 .. n /\ reserved' \subseteq failed'
        /\ failed \subseteq failed' /\ failed' \subseteq 1 .. n
    <3> DEFINE sure == 1 .. n
    <3>1. /\ used \in [1 .. MaxResources -> Nat]
          /\ Settle(reserved, sure, {}, failed)
      BY <1>0, <2>4
    <3> HIDE DEF sure
    <3>2. /\ used' \in [1 .. MaxResources -> Nat]
          /\ \A i \in (1 .. MaxResources) \ failed' :
               used'[i] = IF i \in sure /\ i \in reserved THEN used[i] + 1 ELSE used[i]
          /\ reserved' \subseteq reserved
          /\ reserved' \cap (sure \cup {}) \subseteq failed'
          /\ failed \subseteq failed'
          /\ failed' \subseteq failed \cup reserved
      BY <3>1, SettleFacts
    <3>3. \A i \in (1 .. n) \ failed' : i \in (1 .. MaxResources) \ failed'
      BY <1>0
    <3> QED
      BY <1>0, <2>2, <3>2, <3>3 DEF sure
  <2>6. t' \in TCCTransaction /\ Count(t') = n /\ t'.phase = "CONFIRM" /\ t'.tried_count = n
    BY <1>0, <2>1, <2>3, ConfirmedFacts
  <2>7. TccTypeOK' /\ round' \in Rounds /\ round'.n <= Count(t')
    BY <1>0, <2>1, <2>5, <2>6 DEF TccTypeOK
  <2>8. UsedTogether'
    <3>1. \A i \in 1 .. round.n \ failed' :
            /\ used'[i] = used[i] + 1
            /\ used[i] \in Nat /\ round.base[i] \in Nat
      BY <1>0, <2>5
    <3>2. \A i, j \in 1 .. round.n \ failed' : used[i] - round.base[i] = used[j] - round.base[j]
      BY <2>5 DEF InvTcc, UsedTogether
    <3>3. \A i, j \in 1 .. round.n \ failed' :
            used'[i] - round.base[i] = used'[j] - round.base[j]
      BY <3>1, <3>2
    <3> QED
      BY <2>1, <3>3 DEF UsedTogether
  <2> QED
    BY <2>5, <2>6, <2>7, <2>8 DEF InvTcc, TriedReserved, NothingLeftReserved
<1>5. CASE tcc_cancel_all
  <2>1. t' = Cancelled(t) /\ round' = round /\ Settle(reserved, {}, ToCancel(t), failed)
    BY <1>5 DEF tcc_cancel_all
  <2>2. /\ used' \in [1 .. MaxResources -> Nat]
        /\ \A i \in (1 .. MaxResources) \ failed' : used'[i] = used[i]
        /\ reserved' \subseteq reserved /\ reserved' \cap ToCancel(t) \subseteq failed'
        /\ failed \subseteq failed' /\ failed' \subseteq 1 .. n
    <3>1. used \in [1 .. MaxResources -> Nat]
      BY <1>0
    <3>2. /\ used' \in [1 .. MaxResources -> Nat]
          /\ \A i \in (1 .. MaxResources) \ failed' :
               used'[i] = IF i \in {} /\ i \in reserved THEN used[i] + 1 ELSE used[i]
          /\ reserved' \subseteq reserved
          /\ reserved' \cap ({} \cup ToCancel(t)) \subseteq failed'
          /\ failed \subseteq failed'
          /\ failed' \subseteq failed \cup reserved
      BY <2>1, <3>1, SettleFacts
    <3> QED
      BY <1>0, <3>2
  <2>3. t' \in TCCTransaction /\ Count(t') = n /\ t'.phase = "CANCEL"
        /\ t'.tried_count = t.tried_count
    BY <1>0, <2>1, CancelledFacts
  <2>4. TccTypeOK' /\ round' \in Rounds /\ round'.n <= Count(t')
    <3>1. reserved' \subseteq 1 .. n /\ failed' \subseteq 1 .. n
      BY <1>0, <2>2
    <3>2. round' \in Rounds /\ round'.n <= n
      BY <1>0, <2>1
    <3> QED
      BY <1>0, <2>2, <2>3, <3>1, <3>2 DEF TccTypeOK
  <2>5. UsedTogether'
    <3>1. \A i \in 1 .. round.n \ failed' : used'[i] = used[i] /\ i \notin failed
      BY <1>0, <2>2
    <3> QED
      BY <2>1, <3>1 DEF InvTcc, UsedTogether
  <2>6. NothingLeftReserved'
    <3>1. CASE t.phase = "TRY" /\ ~round.unsettled
      <4>1. reserved = 1 .. t.tried_count
            /\ \A i \in 1 .. t.tried_count : t.resources[i] = "RESERVED"
        BY <3>1 DEF InvTcc, TriedReserved
      <4>2. ToCancel(t) = 1 .. t.tried_count
        BY <4>1 DEF ToCancel
      <4> QED
        BY <2>2, <4>1, <4>2 DEF NothingLeftReserved
    <3>2. CASE t.phase # "TRY" /\ ~round.unsettled
      BY <2>2, <3>2 DEF InvTcc, NothingLeftReserved
    <3>3. CASE round.unsettled
      BY <2>1, <3>3 DEF NothingLeftReserved
    <3> QED
      BY <3>1, <3>2, <3>3
  <2> QED
    BY <2>3, <2>4, <2>5, <2>6 DEF InvTcc, TriedReserved
<1>6. CASE UNCHANGED tccVars
  BY <1>6
     DEF InvTcc, TccTypeOK, TriedReserved, UsedTogether, NothingLeftReserved, Rounds, Count,
         tccVars, tccGhosts
<1> QED
  BY <1>1, <1>2, <1>3, <1>4, <1>5, <1>6 DEF TccNext

LEMMA InvariantTcc == TccSpec => []InvTcc
<1>1. TccInit => InvTcc
  <2> SUFFICES ASSUME TccInit PROVE InvTcc
    OBVIOUS
  <2>1. t \in TCCTransaction /\ Count(t) = 0 /\ t.tried_count = 0
    BY DEF TccInit, TCCTransaction, Count
  <2>2. used \in [1 .. MaxResources -> Nat] /\ round \in Rounds /\ round.n = 0
    BY DEF TccInit, Rounds
  <2> QED
    BY <2>1, <2>2, TccAssumption
       DEF TccInit, InvTcc, TccTypeOK, TriedReserved, UsedTogether, NothingLeftReserved
<1> QED
  BY <1>1, TccNextKeeps, PTL DEF TccSpec

(* Saga and TCC: the effects of a saga in place are those of a prefix, none   *)
(* when it has been compensated; of the resources of one try all are used or  *)
(* none; no reservation outlives its confirm or cancel; in each case apart    *)
(* from compensations, confirms and cancels that failed.                      *)
THEOREM AllOrNothingHolds == SagaSpec /\ TccSpec => []AllOrNothing
<1>1. InvSaga /\ InvTcc => AllOrNothing
  BY SagaInEffect DEF InvSaga, InvTcc, AllOrNothing
<1> QED
  BY <1>1, InvariantSaga, InvariantTcc, PTL

-----------------------------------------------------------------------------
(***************************************************************************)
(* XA.  What makes a commit safe is the order the states impose: a branch   *)
(* that is active or ended is found only while the transaction is IDLE or   *)
(* ACTIVE, and these states are never reached again once everyone has       *)
(* agreed to prepare.  A prepare repeated later therefore meets no branch   *)
(* that could still agree, and a branch prepared after the decision is one  *)
(* of those that were asked.                                                *)
(***************************************************************************)

Agreed == {"OK", "RDONLY", "DEADLOCK"}

Open == {"IDLE", "ACTIVE"}

(* Where each branch may be.                                                  *)
BranchesInOrder ==
  \A i \in RMs :
    /\ rm[i] = "committed" /\ i \notin forced => state \notin Open
    /\ i \in forced => rm[i] = "committed"
    /\ rm[i] \in {"active", "ended"} => state \in Open
    /\ rm[i] \in {"prepared", "committed"} /\ state \notin Open /\ i \notin forced =>
         i <= Len(asked) /\ asked[i] = "OK"

InvXa ==
  /\ XaTypeOK /\ forced \subseteq RMs
  /\ BranchesInOrder
  /\ \A i \in 1 .. Len(asked) : asked[i] \in Agreed

LEMMA XaSafe == InvXa => NoCommitOverRefusal
<1> SUFFICES ASSUME InvXa PROVE NoCommitOverRefusal
  OBVIOUS
<1>1. \A i \in RMs \ forced : rm[i] = "committed" => i <= Len(asked) /\ asked[i] = "OK"
  BY DEF InvXa, BranchesInOrder
<1>2. \A i \in RMs : i \in Nat /\ i >= 1
  BY DEF InvXa, XaTypeOK, RMs
<1>3. (\E i \in RMs \ forced : rm[i] = "committed") => asked # <<>>
  BY <1>1, <1>2
<1> QED
  BY <1>1, <1>3 DEF InvXa, NoCommitOverRefusal, Agreed

(* A round of requests leaves as many branches as there were.                 *)
LEMMA RoundType ==
  ASSUME InvXa, NEW q \in [RMs -> Branch], rm' = q
  PROVE  /\ rm' \in Seq(Branch)
         /\ Len(rm') = Len(rm)
         /\ Len(rm') <= MaxRMs
         /\ RMs' = RMs
<1>1. Len(rm) \in Nat /\ Len(rm) <= MaxRMs
  BY DEF InvXa, XaTypeOK
<1>2. rm' \in Seq(Branch) /\ Len(rm') = Len(rm)
  BY <1>1, MapSeq DEF RMs
<1> QED
  BY <1>1, <1>2 DEF RMs

(* Only a branch that has ended can agree to prepare.                         *)
LEMMA PrepareChanges ==
  ASSUME NEW b \in Branch, NEW a \in PrepareAnswers(b)
  PROVE  /\ AfterPrepare(b, a) \in Branch
         /\ b # "ended" => AfterPrepare(b, a) = b /\ a = "ERR"
         /\ b = "ended" => AfterPrepare(b, a) \in {"prepared", "over", "rolledback", "ended"}
         /\ a \notin Refuses => b = "ended" /\ a \in Agreed
         /\ a \notin Refuses => AfterPrepare(b, a) \in {"prepared", "over", "rolledback"}
         /\ a \notin Refuses /\ AfterPrepare(b, a) = "prepared" => a = "OK"
  BY DEF AfterPrepare, PrepareAnswers, Answer, Branch, Refuses, Agreed

(* Only a prepared branch commits.                                            *)
LEMMA CommitChanges ==
  ASSUME NEW b \in Branch, NEW a \in CommitAnswers(b)
  PROVE  /\ AfterCommit(b, a) \in Branch
         /\ b # "prepared" => AfterCommit(b, a) = b
         /\ b = "prepared" => AfterCommit(b, a) \in {"prepared", "committed", "rolledback"}
         /\ a = "OK" <=> b = "prepared" /\ AfterCommit(b, a) = "committed"
  BY DEF AfterCommit, CommitAnswers, Branch

LEMMA XaNextKeeps == InvXa /\ [XaNext]_xaVars => InvXa'
<1> SUFFICES ASSUME InvXa, [XaNext]_xaVars PROVE InvXa'
  OBVIOUS
<1>0. /\ rm \in Seq(Branch) /\ Len(rm) \in Nat /\ RMs = 1 .. Len(rm)
      /\ \A i \in RMs : rm[i] \in Branch
      /\ asked \in Seq(Answer) /\ state \in XATxnState /\ MaxRMs \in Nat
      /\ forced \subseteq RMs /\ RMs \subseteq Nat
  BY XaAssumption, SeqDomain DEF InvXa, XaTypeOK, RMs
<1>1. CASE xa_enlist_rm
  <2>1. /\ rm' \in Seq(Branch) /\ Len(rm') = Len(rm) + 1 /\ rm'[Len(rm) + 1] = "none"
        /\ \A i \in RMs : rm'[i] = rm[i]
    BY <1>0, <1>1, AppendSeq DEF xa_enlist_rm, Branch
  <2>2. Len(rm') <= MaxRMs /\ UNCHANGED <<state, asked, forced>>
    BY <1>0, <1>1, <2>1 DEF xa_enlist_rm
  <2>3. \A i \in RMs' : i \in RMs \/ (rm'[i] = "none" /\ i \notin RMs)
    BY <1>0, <2>1 DEF RMs
  <2>4. forced' \subseteq RMs' /\ forced' \subseteq Nat
    BY <1>0, <2>1, <2>2 DEF RMs
  <2>5. BranchesInOrder'
    BY <1>0, <2>1, <2>2, <2>3 DEF InvXa, BranchesInOrder
  <2> QED
    BY <1>0, <2>1, <2>2, <2>4, <2>5 DEF InvXa, XaTypeOK
<1>2. CASE xa_start
  <2>1. PICK a \in Answers(StartAnswers) :
          rm' = [i \in RMs |-> IF i \in Reached(a, {"ERR"}) /\ a[i] = "OK" THEN "active" ELSE rm[i]]
    BY <1>2 DEF xa_start
  <2>2. state = "IDLE" /\ state' = "ACTIVE" /\ asked' = asked /\ forced' = forced
    BY <1>2 DEF xa_start
  <2>3. rm' \in [RMs -> Branch]
    BY <1>0, <2>1 DEF Branch
  <2>4. \A i \in RMs : rm'[i] = rm[i] \/ (rm'[i] = "active" /\ rm[i] = "none")
    BY <2>1 DEF Answers, StartAnswers
  <2>5. RMs' = RMs /\ rm' \in Seq(Branch) /\ Len(rm') <= MaxRMs
    BY <2>3, RoundType
  <2>6. BranchesInOrder'
    BY <2>2, <2>4, <2>5 DEF InvXa, BranchesInOrder, Open
  <2> QED
    BY <1>0, <2>2, <2>5, <2>6 DEF InvXa, XaTypeOK, XATxnState
<1>3. CASE xa_end
  <2>1. /\ rm' = [i \in RMs |-> IF rm[i] = "active" THEN "ended" ELSE rm[i]]
        /\ state = "ACTIVE" /\ state' = "IDLE" /\ asked' = asked /\ forced' = forced
    BY <1>3 DEF xa_end
  <2>2. rm' \in [RMs -> Branch]
    BY <1>0, <2>1 DEF Branch
  <2>3. \A i \in RMs : rm'[i] = rm[i] \/ (rm'[i] = "ended" /\ rm[i] = "active")
    BY <2>1
  <2>4. RMs' = RMs /\ rm' \in Seq(Branch) /\ Len(rm') <= MaxRMs
    BY <2>2, RoundType
  <2>5. BranchesInOrder'
    BY <2>1, <2>3, <2>4 DEF InvXa, BranchesInOrder, Open
  <2> QED
    BY <1>0, <2>1, <2>4, <2>5 DEF InvXa, XaTypeOK, XATxnState
<1>4. CASE xa_prepare_all
  <2>1. PICK a \in Answers(PrepareAnswers) :
          /\ rm' = [i \in RMs |-> IF i \in Reached(a, Refuses) THEN AfterPrepare(rm[i], a[i]) ELSE rm[i]]
          /\ IF \A i \in RMs : a[i] \notin Refuses
             THEN state' = "PREPARED" /\ asked' = a
             ELSE UNCHANGED <<state, asked>>
          /\ forced' = forced
    BY <1>4 DEF xa_prepare_all
  <2>2. a \in [RMs -> Answer] /\ \A i \in RMs : a[i] \in PrepareAnswers(rm[i])
    BY DEF Answers
  <2>3. rm' \in [RMs -> Branch]
    BY <1>0, <2>1, <2>2, PrepareChanges
  <2>4. CASE \A i \in RMs : a[i] \notin Refuses
    <3>1. a \in Seq(Answer) /\ Len(a) = Len(rm)
      BY <1>0, <2>2, MapSeq
    <3>2. \A i \in RMs : i \in Reached(a, Refuses)
      BY <1>0, <2>4 DEF Reached
    <3>3. \A i \in RMs : rm'[i] = AfterPrepare(rm[i], a[i])
      BY <2>1, <3>2
    <3>4. \A i \in RMs : /\ rm'[i] \in {"prepared", "over", "rolledback"}
                         /\ rm'[i] = "prepared" => a[i] = "OK"
                         /\ a[i] \in Agreed
      BY <1>0, <2>2, <2>4, <3>3, PrepareChanges
    <3>5. state' = "PREPARED" /\ asked' = a
      BY <2>1, <2>4
    <3>6. \A i \in RMs : i \notin forced
      <4>1. \A i \in RMs : rm[i] = "ended"
        BY <1>0, <2>2, <2>4, PrepareChanges
      <4> QED
        BY <4>1 DEF InvXa, BranchesInOrder
    <3>7. RMs' = RMs /\ rm' \in Seq(Branch) /\ Len(rm') <= MaxRMs
      BY <2>3, RoundType
    <3>8. BranchesInOrder'
      BY <1>0, <2>1, <3>1, <3>4, <3>5, <3>6, <3>7 DEF BranchesInOrder, Open
    <3>9. \A i \in 1 .. Len(asked') : asked'[i] \in Agreed
      BY <1>0, <3>1, <3>4, <3>5
    <3> QED
      BY <1>0, <2>1, <3>1, <3>5, <3>7, <3>8, <3>9 DEF InvXa, XaTypeOK, XATxnState
  <2>5. CASE ~ \A i \in RMs : a[i] \notin Refuses
    <3>1. UNCHANGED <<state, asked>>
      BY <2>1, <2>5
    <3>2. \A i \in RMs :
            /\ rm[i] # "ended" => rm'[i] = rm[i]
            /\ rm[i] = "ended" => rm'[i] \in {"prepared", "over", "rolledback", "ended"}
      BY <1>0, <2>1, <2>2, PrepareChanges
    <3>3. RMs' = RMs /\ rm' \in Seq(Branch) /\ Len(rm') <= MaxRMs
      BY <2>3, RoundType
    <3>4. BranchesInOrder'
      BY <2>1, <3>1, <3>2, <3>3 DEF InvXa, BranchesInOrder
    <3> QED
      BY <1>0, <2>1, <3>1, <3>3, <3>4 DEF InvXa, XaTypeOK
  <2> QED
    BY <2>4, <2>5
<1>5. ASSUME NEW a \in Answers(CommitAnswers),
             rm' = [i \in RMs |-> AfterCommit(rm[i], a[i])]
      PROVE  /\ rm' \in [RMs -> Branch]
             /\ \A i \in RMs :
                  /\ rm[i] # "prepared" => rm'[i] = rm[i]
                  /\ rm[i] = "prepared" => rm'[i] \in {"prepared", "committed", "rolledback"}
                  /\ a[i] = "OK" <=> rm[i] = "prepared" /\ rm'[i] = "committed"
             /\ RMs' = RMs /\ rm' \in Seq(Branch) /\ Len(rm') <= MaxRMs
  <2>1. \A i \in RMs : a[i] \in CommitAnswers(rm[i])
    BY DEF Answers
  <2>2. rm' \in [RMs -> Branch]
    BY <1>0, <1>5, <2>1, CommitChanges
  <2>3. RMs' = RMs /\ rm' \in Seq(Branch) /\ Len(rm') <= MaxRMs
    BY <2>2, RoundType
  <2>4. \A i \in RMs : rm'[i] = AfterCommit(rm[i], a[i])
    BY <1>5
  <2>5. \A i \in RMs :
          /\ rm[i] # "prepared" => rm'[i] = rm[i]
          /\ rm[i] = "prepared" => rm'[i] \in {"prepared", "committed", "rolledback"}
          /\ a[i] = "OK" <=> rm[i] = "prepared" /\ rm'[i] = "committed"
    BY <1>0, <2>1, <2>4, CommitChanges
  <2> QED
    BY <2>2, <2>3, <2>5
<1>6. CASE xa_commit_all
  <2>1. PICK a \in Answers(CommitAnswers) :
          /\ rm' = [i \in RMs |-> AfterCommit(rm[i], a[i])]
          /\ state' = IF \E i \in RMs : a[i] = "HEUR" THEN "HEURISTIC" ELSE "COMMITTED"
    BY <1>6 DEF xa_commit_all
  <2>2. state = "PREPARED" /\ state' \in {"HEURISTIC", "COMMITTED"} /\ asked' = asked
        /\ forced' = forced
    BY <1>6, <2>1 DEF xa_commit_all
  <2>3. BranchesInOrder'
    BY <1>5, <2>1, <2>2 DEF InvXa, BranchesInOrder, Open
  <2> QED
    BY <1>0, <1>5, <2>1, <2>2, <2>3 DEF InvXa, XaTypeOK, XATxnState
<1>7. CASE xa_rollback_all
  <2>1. /\ rm' = [i \in RMs |-> AfterRollback(rm[i])]
        /\ state' = "ROLLED_BACK" /\ asked' = asked /\ forced' = forced
    BY <1>7 DEF xa_rollback_all
  <2>2. /\ rm' \in [RMs -> Branch]
        /\ \A i \in RMs :
             \/ rm'[i] = "rolledback"
             \/ rm'[i] = rm[i] /\ rm[i] \notin {"active", "ended", "prepared"}
    BY <1>0, <2>1 DEF Branch, AfterRollback
  <2>3. RMs' = RMs /\ rm' \in Seq(Branch) /\ Len(rm') <= MaxRMs
    BY <2>2, RoundType
  <2>4. \A i \in RMs : rm[i] = "committed" => rm'[i] = "committed"
    BY <2>1 DEF AfterRollback
  <2>5. BranchesInOrder'
    BY <1>0, <2>1, <2>2, <2>3, <2>4 DEF InvXa, BranchesInOrder, Open
  <2> QED
    BY <1>0, <2>1, <2>3, <2>5 DEF InvXa, XaTypeOK, XATxnState
<1>8. CASE xa_count_prepared
  <2>1. PICK a \in Answers(PrepareAnswers) : rm' = [i \in RMs |-> AfterPrepare(rm[i], a[i])]
    BY <1>8 DEF xa_count_prepared
  <2>2. \A i \in RMs : a[i] \in PrepareAnswers(rm[i])
    BY DEF Answers
  <2>3. /\ rm' \in [RMs -> Branch]
        /\ \A i \in RMs :
             /\ rm[i] # "ended" => rm'[i] = rm[i]
             /\ rm[i] = "ended" => rm'[i] \in {"prepared", "over", "rolledback", "ended"}
    BY <1>0, <2>1, <2>2, PrepareChanges
  <2>4. UNCHANGED <<state, asked, forced>>
    BY <1>8 DEF xa_count_prepared
  <2>5. RMs' = RMs /\ rm' \in Seq(Branch) /\ Len(rm') <= MaxRMs
    BY <2>3, RoundType
  <2>6. BranchesInOrder'
    BY <2>3, <2>4, <2>5 DEF InvXa, BranchesInOrder
  <2> QED
    BY <1>0, <2>4, <2>5, <2>6 DEF InvXa, XaTypeOK
<1>9. CASE xa_handle_heuristic
  <2>1. PICK a \in Answers(CommitAnswers) :
          /\ rm' = [i \in RMs |-> AfterCommit(rm[i], a[i])]
          /\ forced' = IF state \in Open THEN forced \cup {i \in RMs : a[i] = "OK"} ELSE forced
    BY <1>9 DEF xa_handle_heuristic, Open
  <2>2. UNCHANGED <<state, asked>>
    BY <1>9 DEF xa_handle_heuristic
  <2>3. /\ RMs' = RMs /\ rm' \in Seq(Branch) /\ Len(rm') <= MaxRMs
        /\ \A i \in RMs :
             /\ rm[i] # "prepared" => rm'[i] = rm[i]
             /\ rm[i] = "prepared" => rm'[i] \in {"prepared", "committed", "rolledback"}
             /\ a[i] = "OK" <=> rm[i] = "prepared" /\ rm'[i] = "committed"
    BY <1>5, <2>1
  <2>4. forced' \subseteq RMs /\ \A i \in RMs : i \in forced' <=>
          i \in forced \/ (state \in Open /\ rm[i] = "prepared" /\ rm'[i] = "committed")
    BY <1>0, <2>1, <2>3
  <2>5. BranchesInOrder'
    BY <2>2, <2>3, <2>4 DEF InvXa, BranchesInOrder, Open
  <2> QED
    BY <1>0, <2>2, <2>3, <2>4, <2>5 DEF InvXa, XaTypeOK
<1>10. CASE UNCHANGED xaVars
  BY <1>10 DEF InvXa, XaTypeOK, BranchesInOrder, RMs, xaVars
<1> QED
  BY <1>1, <1>2, <1>3, <1>4, <1>6, <1>7, <1>8, <1>9, <1>10 DEF XaNext

LEMMA InvariantXa == XaSpec => []InvXa
<1>1. XaInit => InvXa
  BY XaAssumption DEF XaInit, InvXa, XaTypeOK, BranchesInOrder, RMs, XATxnState
<1> QED
  BY <1>1, XaNextKeeps, PTL DEF XaSpec

(* XA: but for what xa_handle_heuristic commits before the transaction is     *)
(* prepared, no branch is committed when another asked to prepare refused,    *)
(* however many resource managers there are, in whatever order the calls      *)
(* come and however often prepare and commit are repeated.                    *)
THEOREM RefusalsRespected == XaSpec => []NoCommitOverRefusal
  BY InvariantXa, XaSafe, PTL
=============================================================================
