------------------------------- MODULE TwoPC --------------------------------
(***************************************************************************)
(* The commit protocols of mini-dist-transaction: two_pc.c, in two and in  *)
(* three phases, and xa.c.  They share no state.                           *)
(***************************************************************************)
EXTENDS Integers, Sequences, FiniteSets

-----------------------------------------------------------------------------
(***************************************************************************)
(* mini-dist-transaction/src/two_pc.c, the two-phase commit half.  A caller *)
(* owns TPCParticipant objects and lets them vote; the coordinator works on *)
(* the copies that tpc_coordinator_add_participant makes, so a vote cast    *)
(* after enlistment does not reach it.  Nothing orders the calls: a caller  *)
(* may enlist, prepare, commit, abort and time out in any order.            *)
(*                                                                          *)
(* enlisted is a history variable: how many copies the last successful      *)
(* commit covered.                                                          *)
(***************************************************************************)

CONSTANTS
  Participants,
  MaxParticipants  \* TPC_MAX_PARTICIPANTS

ASSUME TwoPCAssumption == MaxParticipants \in Nat

VARIABLES
  own,        \* the caller's TPCParticipant objects
  coord,      \* the TPCCoordinator
  enlisted

vars == <<own, coord, enlisted>>

TPCParticipant ==
  [ state    : {"INIT", "READY", "COMMITTED", "ABORTED"},
    vote     : {"YES", "NO", "PENDING"},
    prepared : BOOLEAN ]

TPCCoordinator ==
  [ participants : Seq(TPCParticipant),
    phase        : {"PREPARE", "COMMIT", "ABORT"},
    timed_out    : BOOLEAN ]

-----------------------------------------------------------------------------
tpc_participant_init == [state |-> "INIT", vote |-> "PENDING", prepared |-> FALSE]

tpc_coordinator_init ==
  [participants |-> <<>>, phase |-> "PREPARE", timed_out |-> FALSE]

Init ==
  /\ own = [p \in Participants |-> tpc_participant_init]
  /\ coord = tpc_coordinator_init
  /\ enlisted = 0

tpc_participant_vote(p, can_commit) ==
  /\ own' = [own EXCEPT ![p].vote = IF can_commit THEN "YES" ELSE "NO",
                        ![p].state = IF can_commit THEN "READY" ELSE "ABORTED"]
  /\ UNCHANGED <<coord, enlisted>>

tpc_coordinator_add_participant(p) ==
  /\ Len(coord.participants) < MaxParticipants
  /\ coord' = [coord EXCEPT !.participants = Append(@, own[p])]
  /\ UNCHANGED <<own, enlisted>>

(* A participant that has not voted is counted as a YES.                     *)
Prepared(p) ==
  IF p.vote = "NO" THEN [p EXCEPT !.state = "ABORTED"]
  ELSE [state |-> "READY", vote |-> "YES", prepared |-> TRUE]

Refusing(c) == \E i \in 1 .. Len(c.participants) : c.participants[i].vote = "NO"

(* Mutant: a coordinator that has timed out can be prepared again.           *)
PrepareAfterTimeout ==
  /\ coord' = [coord EXCEPT
        !.participants = [i \in DOMAIN @ |-> Prepared(@[i])],
        !.phase = IF Refusing(coord) THEN "ABORT" ELSE "PREPARE"]
  /\ UNCHANGED <<own, enlisted>>

(* Prepare after a NO sets the phase and leaves the other participants READY.*)
tpc_coordinator_prepare ==
  /\ coord' =
       IF coord.timed_out THEN [coord EXCEPT !.phase = "ABORT"]
       ELSE [coord EXCEPT
               !.participants = [i \in DOMAIN @ |-> Prepared(@[i])],
               !.phase = IF Refusing(coord) THEN "ABORT" ELSE "PREPARE"]
  /\ UNCHANGED <<own, enlisted>>

Decide(c, phase, state) ==
  [c EXCEPT !.phase = phase,
            !.participants = [i \in DOMAIN @ |-> [@[i] EXCEPT !.state = state]]]

(* Mutant: one YES is enough.                                                *)
SomeYes(c) ==
  \E i \in 1 .. Len(c.participants) : c.participants[i].vote = "YES"

(* Every copy holds a YES, and there is at least one.                        *)
AllYes(c) ==
  /\ Len(c.participants) > 0
  /\ \A i \in 1 .. Len(c.participants) : c.participants[i].vote = "YES"

tpc_coordinator_commit ==
  /\ coord.phase = "PREPARE"
  /\ IF ~coord.timed_out /\ AllYes(coord)
     THEN /\ coord' = Decide(coord, "COMMIT", "COMMITTED")
          /\ enlisted' = Len(coord.participants)
     ELSE /\ coord' = Decide(coord, "ABORT", "ABORTED")
          /\ UNCHANGED enlisted
  /\ UNCHANGED own

tpc_coordinator_abort ==
  /\ coord' = Decide(coord, "ABORT", "ABORTED")
  /\ UNCHANGED <<own, enlisted>>

tpc_handle_timeout ==
  /\ coord' = Decide([coord EXCEPT !.timed_out = TRUE], "ABORT", "ABORTED")
  /\ UNCHANGED <<own, enlisted>>

Next ==
  \/ \E p \in Participants :
       \/ \E can_commit \in BOOLEAN : tpc_participant_vote(p, can_commit)
       \/ tpc_coordinator_add_participant(p)
  \/ tpc_coordinator_prepare
  \/ tpc_coordinator_commit
  \/ tpc_coordinator_abort
  \/ tpc_handle_timeout

Spec == Init /\ [][Next]_vars

-----------------------------------------------------------------------------
(* Properties.                                                               *)

(* Types, and the participant array is not overrun.                          *)
TypeOK ==
  /\ own \in [Participants -> TPCParticipant]
  /\ coord \in TPCCoordinator
  /\ Len(coord.participants) <= MaxParticipants
  /\ enlisted \in 0 .. Len(coord.participants)

(* Atomic commitment: while the decision is COMMIT every participant the      *)
(* commit covered voted YES and is COMMITTED, whoever is enlisted later.      *)
CommitUnanimous ==
  coord.phase = "COMMIT" =>
    /\ enlisted > 0
    /\ \A i \in 1 .. enlisted :
         /\ coord.participants[i].vote = "YES"
         /\ coord.participants[i].state = "COMMITTED"

(* A coordinator that has timed out never commits again and tells no          *)
(* participant to become ready or committed, whatever is called afterwards:   *)
(* only copies enlisted after the timeout are not aborted.                    *)
TimeoutFinal ==
  [][coord.timed_out =>
       /\ coord'.timed_out
       /\ coord'.phase # "COMMIT"
       /\ \A i \in 1 .. Len(coord.participants) :
            coord'.participants[i].state \in {coord.participants[i].state, "ABORTED"}]_vars

(* demos/mini-distributed-transactions/README.md, two-phase commit: if any    *)
(* participant votes NO the coordinator sends ABORT and they roll back.  No   *)
(* participant is left READY in an aborted transaction.  It does not hold:    *)
(* tpc_coordinator_prepare turns to ABORT without telling anyone.             *)
AbortReachesAll ==
  (coord.phase = "ABORT" /\ ~coord.timed_out) =>
    \A i \in 1 .. Len(coord.participants) : ~coord.participants[i].prepared
      \/ coord.participants[i].state # "READY"

-----------------------------------------------------------------------------
(***************************************************************************)
(* mini-dist-transaction/src/two_pc.c, the three-phase commit half.  As in  *)
(* two-phase commit the coordinator works on copies of the caller's         *)
(* participants and the caller orders the calls; the vote of a participant  *)
(* is fixed when it is enlisted.                                            *)
(*                                                                          *)
(* covered is a history variable: how many copies the last successful       *)
(* threepc_precommit covered.                                               *)
(***************************************************************************)

VARIABLES coord3, covered

vars3 == <<coord3, covered>>

Vote == {"YES", "NO", "PENDING"}

Participant ==
  [ state    : {"INIT", "READY", "COMMITTED", "ABORTED"},
    vote     : Vote,
    prepared : BOOLEAN ]

ThreePCCoordinator ==
  [ participants : Seq(Participant),
    phase        : {"PREPARE", "PRECOMMIT", "COMMIT", "ABORT"} ]

-----------------------------------------------------------------------------
(* threepc_coordinator_init; timed_out is set once and never read.           *)
Init3 ==
  /\ coord3 = [participants |-> <<>>, phase |-> "PREPARE"]
  /\ covered = 0

(* tpc_participant_init and tpc_participant_vote on the caller's object.      *)
Voted(vote) ==
  [ vote     |-> vote,
    prepared |-> FALSE,
    state    |-> CASE vote = "YES" -> "READY"
                   [] vote = "NO" -> "ABORTED"
                   [] vote = "PENDING" -> "INIT" ]

threepc_coordinator_add_participant(vote) ==
  /\ Len(coord3.participants) < MaxParticipants
  /\ coord3' = [coord3 EXCEPT !.participants = Append(@, Voted(vote))]
  /\ UNCHANGED covered

Aborted(c) ==
  [c EXCEPT !.phase = "ABORT",
            !.participants = [i \in DOMAIN @ |-> [@[i] EXCEPT !.state = "ABORTED"]]]

Indices == 1 .. Len(coord3.participants)

(* The participants in front of the first one with a property.                *)
InFrontOf(bad) == {i \in Indices : \A j \in bad : i < j}

(* The loop turns missing votes into YES up to the first NO, which aborts all.*)
threepc_prepare ==
  /\ LET no    == {i \in Indices : coord3.participants[i].vote = "NO"}
         ready == [i \in Indices |->
                     IF i \in InFrontOf(no)
                     THEN [coord3.participants[i] EXCEPT !.vote = "YES", !.state = "READY"]
                     ELSE coord3.participants[i]]
         asked == [participants |-> ready, phase |-> "PREPARE"]
     IN  coord3' = IF no = {} THEN asked ELSE Aborted(asked)
  /\ UNCHANGED covered

(* The loop marks participants as prepared up to the first missing YES.       *)
threepc_precommit ==
  /\ coord3.phase = "PREPARE"
  /\ LET missing == {i \in Indices : coord3.participants[i].vote # "YES"}
         marked  == [i \in Indices |->
                       IF i \in InFrontOf(missing)
                       THEN [coord3.participants[i] EXCEPT !.prepared = TRUE]
                       ELSE coord3.participants[i]]
         next    == [participants |-> marked, phase |-> "PRECOMMIT"]
     IN  /\ coord3' = IF missing = {} THEN next ELSE Aborted(next)
         /\ covered' = IF missing = {} THEN Len(coord3.participants) ELSE covered

(* The votes are not looked at again.                                         *)
threepc_commit ==
  /\ coord3.phase = "PRECOMMIT"
  /\ coord3' = [participants |-> [i \in Indices |->
                 [coord3.participants[i] EXCEPT !.state = "COMMITTED"]],
               phase |-> "COMMIT"]
  /\ UNCHANGED covered

threepc_abort ==
  /\ coord3' = Aborted(coord3)
  /\ UNCHANGED covered

Next3 ==
  \/ \E vote \in Vote : threepc_coordinator_add_participant(vote)
  \/ threepc_prepare
  \/ threepc_precommit
  \/ threepc_commit
  \/ threepc_abort

Spec3 == Init3 /\ [][Next3]_vars3

-----------------------------------------------------------------------------
(* Properties.                                                               *)

(* Types, and the participant array is not overrun.                          *)
TypeOK3 ==
  /\ coord3 \in ThreePCCoordinator
  /\ Len(coord3.participants) <= MaxParticipants
  /\ covered \in 0 .. Len(coord3.participants)

(* The prepared-to-commit barrier: from PRECOMMIT to COMMIT every participant *)
(* the precommit covered has voted YES and has been told that all have.       *)
(* Only the copies enlisted since then may lack either.                       *)
PrecommitBarrier ==
  coord3.phase \in {"PRECOMMIT", "COMMIT"} =>
    \A i \in 1 .. covered :
      /\ coord3.participants[i].vote = "YES"
      /\ coord3.participants[i].prepared

-----------------------------------------------------------------------------
(* 2PC and 3PC: a commit covers only participants that voted YES, and who    *)
(* the precommit covered has voted YES and been told so.                     *)
CommitsCovered ==
  /\ TypeOK /\ CommitUnanimous
  /\ TypeOK3 /\ PrecommitBarrier

-----------------------------------------------------------------------------
(***************************************************************************)
(* mini-dist-transaction/src/xa.c: the transaction manager of an X/Open XA  *)
(* transaction and, external, the resource managers behind its callbacks.   *)
(* A call of the transaction manager asks every resource manager in turn;   *)
(* how each of them answers is the choice of the step.                      *)
(*                                                                          *)
(* An answer matters only as far as xa.c tells answers apart: "OK";         *)
(* "RDONLY" (3, the branch is over); "DEADLOCK" (also 3: the branch has     *)
(* been rolled back); "RB", another rollback code, "HEUR", a code from      *)
(* XA_HEURHAZ on, which here means a heuristic rollback; "ERR", a negative  *)
(* code.                                                                    *)
(*                                                                          *)
(* Two are history variables.  asked: the resource managers that the last   *)
(* successful xa_prepare_all covered, and the answers they gave.  forced:   *)
(* those whose branch xa_handle_heuristic committed before that.            *)
(***************************************************************************)
CONSTANT MaxRMs  \* XA_MAX_RMS

ASSUME XaAssumption == MaxRMs \in Nat

VARIABLES
  state,   \* state of the XATransaction
  rm,      \* the branch of each enlisted resource manager, in order
  asked,
  forced

xaVars == <<state, rm, asked, forced>>

XATxnState == {"ACTIVE", "IDLE", "PREPARED", "COMMITTED", "ROLLED_BACK", "HEURISTIC"}

(* The branch of a resource manager, as the XA specification has it.         *)
Branch == {"none", "active", "ended", "prepared", "over", "committed", "rolledback"}

Answer == {"OK", "RDONLY", "DEADLOCK", "RB", "HEUR", "ERR"}

RMs == 1 .. Len(rm)

-----------------------------------------------------------------------------
(* Resource managers: what answers a branch may give to a request, and what   *)
(* it is after the answer.  A request out of order is an XAER error.          *)

StartAnswers(b) == IF b = "none" THEN {"OK", "ERR"} ELSE {"ERR"}

PrepareAnswers(b) == IF b = "ended" THEN Answer \ {"HEUR"} ELSE {"ERR"}

CommitAnswers(b) == IF b = "prepared" THEN {"OK", "HEUR", "ERR"} ELSE {"ERR"}

AfterPrepare(b, a) ==
  CASE a = "OK" -> "prepared"
    [] a = "RDONLY" -> "over"
    [] a \in {"DEADLOCK", "RB"} -> "rolledback"
    [] OTHER -> b

AfterCommit(b, a) ==
  CASE a = "OK" -> "committed" [] a = "HEUR" -> "rolledback" [] OTHER -> b

AfterRollback(b) == IF b \in {"active", "ended", "prepared"} THEN "rolledback" ELSE b

(* Every way in which the resource managers may answer a round of requests.   *)
Answers(may(_)) == {a \in [RMs -> Answer] : \A i \in RMs : a[i] \in may(rm[i])}

-----------------------------------------------------------------------------
(* xa_transaction_init.                                                      *)
XaInit ==
  /\ state = "IDLE"
  /\ rm = <<>>
  /\ asked = <<>>
  /\ forced = {}

xa_enlist_rm ==
  /\ Len(rm) < MaxRMs
  /\ rm' = Append(rm, "none")
  /\ UNCHANGED <<state, asked, forced>>

(* The first of the managers that gives one of the answers stops the round.   *)
Reached(a, stop) == {i \in RMs : \A j \in 1 .. i - 1 : a[j] \notin stop}

(* A failed start leaves the transaction ACTIVE and the others started.       *)
xa_start ==
  /\ state = "IDLE"
  /\ \E a \in Answers(StartAnswers) :
       rm' = [i \in RMs |-> IF i \in Reached(a, {"ERR"}) /\ a[i] = "OK" THEN "active" ELSE rm[i]]
  /\ state' = "ACTIVE"
  /\ UNCHANGED <<asked, forced>>

xa_end ==
  /\ state = "ACTIVE"
  /\ rm' = [i \in RMs |-> IF rm[i] = "active" THEN "ended" ELSE rm[i]]
  /\ state' = "IDLE"
  /\ UNCHANGED <<asked, forced>>

(* XA_RDONLY and XA_RBDEADLOCK have the same value and both count as success. *)
Refuses == {"RB", "ERR"}

(* The state is not looked at; it changes only if everyone agrees.            *)
xa_prepare_all ==
  \E a \in Answers(PrepareAnswers) :
    /\ rm' = [i \in RMs |-> IF i \in Reached(a, Refuses) THEN AfterPrepare(rm[i], a[i]) ELSE rm[i]]
    /\ IF \A i \in RMs : a[i] \notin Refuses
       THEN state' = "PREPARED" /\ asked' = a
       ELSE UNCHANGED <<state, asked>>
    /\ UNCHANGED forced

(* Mutant: the state is not checked.                                         *)
CommitUnguarded ==
  \E a \in Answers(CommitAnswers) :
    /\ rm' = [i \in RMs |-> AfterCommit(rm[i], a[i])]
    /\ state' = IF \E i \in RMs : a[i] = "HEUR" THEN "HEURISTIC" ELSE "COMMITTED"
    /\ UNCHANGED <<asked, forced>>

(* Everyone is asked; an error of a resource manager is not noticed.          *)
xa_commit_all ==
  /\ state = "PREPARED"
  /\ \E a \in Answers(CommitAnswers) :
       /\ rm' = [i \in RMs |-> AfterCommit(rm[i], a[i])]
       /\ state' = IF \E i \in RMs : a[i] = "HEUR" THEN "HEURISTIC" ELSE "COMMITTED"
  /\ UNCHANGED <<asked, forced>>

xa_rollback_all ==
  /\ rm' = [i \in RMs |-> AfterRollback(rm[i])]
  /\ state' = "ROLLED_BACK"
  /\ UNCHANGED <<asked, forced>>

(* Counting asks for a prepare again; the transaction does not notice.        *)
xa_count_prepared ==
  /\ \E a \in Answers(PrepareAnswers) : rm' = [i \in RMs |-> AfterPrepare(rm[i], a[i])]
  /\ UNCHANGED <<state, asked, forced>>

(* Asks every resource manager to commit, whatever the state.                 *)
xa_handle_heuristic ==
  /\ \E a \in Answers(CommitAnswers) :
       /\ rm' = [i \in RMs |-> AfterCommit(rm[i], a[i])]
       /\ forced' = IF state \in {"IDLE", "ACTIVE"} THEN forced \cup {i \in RMs : a[i] = "OK"} ELSE forced
  /\ UNCHANGED <<state, asked>>

XaNext ==
  \/ xa_enlist_rm
  \/ xa_start
  \/ xa_end
  \/ xa_prepare_all
  \/ xa_commit_all
  \/ xa_rollback_all
  \/ xa_count_prepared
  \/ xa_handle_heuristic

XaSpec == XaInit /\ [][XaNext]_xaVars

-----------------------------------------------------------------------------
(* Properties.                                                               *)

(* Types, and the array of resource managers is not overrun.                 *)
XaTypeOK ==
  /\ state \in XATxnState
  /\ rm \in Seq(Branch)
  /\ Len(rm) <= MaxRMs
  /\ asked \in Seq(Answer)
  /\ forced \subseteq Nat

(* xa_prepare_all, xa_commit_all, xa_count_prepared, xa_handle_heuristic, in  *)
(* whatever order the calls come and however often they are repeated: no     *)
(* branch is committed when another that was asked to prepare has refused,    *)
(* and none that never prepared.  Two exceptions are the code's: the deadlock *)
(* that shares its code with read-only, and what xa_handle_heuristic commits  *)
(* when it is called before the transaction is prepared.                      *)
NoCommitOverRefusal ==
  /\ XaTypeOK
  /\ (\E i \in RMs \ forced : rm[i] = "committed") =>
       /\ asked # <<>>
       /\ \A i \in 1 .. Len(asked) : asked[i] \in {"OK", "RDONLY", "DEADLOCK"}
       /\ \A i \in RMs \ forced : rm[i] = "committed" => i <= Len(asked) /\ asked[i] = "OK"
=============================================================================
