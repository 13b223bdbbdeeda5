---------------------------- MODULE Compensation ----------------------------
(***************************************************************************)
(* Transactions of mini-dist-transaction that undo what they have done:    *)
(* sagas and try-confirm-cancel.  They share no state.                     *)
(***************************************************************************)
EXTENDS Integers, Sequences

-----------------------------------------------------------------------------
(***************************************************************************)
(* mini-dist-transaction/src/saga.c: an orchestrated saga.  saga_execute    *)
(* calls the action of one step after the other and, when one fails, the    *)
(* compensations of the finished steps in reverse order.  The callbacks are *)
(* the caller's: an action succeeds or fails, a compensation works or does  *)
(* nothing, and saga.c does not look at what it returns.                    *)
(*                                                                          *)
(* effect, before and lost are history variables: how often the effect of   *)
(* each step is in place, how often it was when the last execution began,   *)
(* and the steps whose compensation has since been tried in vain.           *)
(***************************************************************************)

CONSTANTS
  MaxSteps,   \* SAGA_MAX_STEPS
  MaxEffect   \* bound of the model: how often a saga is executed

ASSUME SagaAssumption == MaxSteps \in Nat /\ MaxEffect \in Nat

VARIABLES
  st,      \* the SagaTransaction
  call,    \* where saga_execute is: "none", "forward" or "back"
  at,      \* its loop variable, i or j
  effect, before, lost

sagaGhosts == <<effect, before, lost>>
sagaVars == <<st, call, at, sagaGhosts>>

(* A step with a compensation or with NULL in its place.                     *)
SagaStep ==
  [ compensate : BOOLEAN,
    status     : {"PENDING", "RUNNING", "SUCCEEDED", "FAILED"} ]

SagaTransaction ==
  [ steps  : Seq(SagaStep),
    status : {"CREATED", "RUNNING", "COMPLETED", "COMPENSATING", "COMPENSATED"} ]

-----------------------------------------------------------------------------
(* saga_transaction_init.                                                    *)
SagaInit ==
  /\ st = [steps |-> <<>>, status |-> "CREATED"]
  /\ call = "none"
  /\ at = 0
  /\ effect = [i \in 1 .. MaxSteps |-> 0]
  /\ before = effect
  /\ lost = {}

saga_transaction_add_step(compensate) ==
  /\ call = "none"
  /\ Len(st.steps) < MaxSteps
  /\ st' = [st EXCEPT !.steps =
              Append(@, [compensate |-> compensate, status |-> "PENDING"])]
  /\ UNCHANGED <<call, at, sagaGhosts>>

(* The first action is called; a saga may be executed whatever its status.    *)
Start(steps) ==
  /\ call = "none"
  /\ Len(steps) > 0
  /\ \A i \in 1 .. MaxSteps : effect[i] < MaxEffect
  /\ st' = [status |-> "RUNNING", steps |-> [steps EXCEPT ![1].status = "RUNNING"]]
  /\ call' = "forward"
  /\ at' = 1
  /\ before' = effect
  /\ lost' = {}
  /\ UNCHANGED effect

saga_execute == Start(st.steps)

AllPending == [i \in 1 .. Len(st.steps) |-> [st.steps[i] EXCEPT !.status = "PENDING"]]

saga_retry ==
  /\ st.status = "COMPENSATED"
  /\ Start(AllPending)

saga_reset_steps ==
  /\ call = "none"
  /\ st' = [steps |-> AllPending, status |-> "CREATED"]
  /\ UNCHANGED <<call, at, sagaGhosts>>

(* The running action succeeds; the next one is called or the saga is done.  *)
ActionSucceeds ==
  /\ call = "forward"
  /\ effect' = [effect EXCEPT ![at] = @ + 1]
  /\ LET done == [st.steps EXCEPT ![at].status = "SUCCEEDED"]
     IN  IF at = Len(done)
         THEN /\ st' = [steps |-> done, status |-> "COMPLETED"]
              /\ call' = "none"
              /\ UNCHANGED at
         ELSE /\ st' = [st EXCEPT !.steps = [done EXCEPT ![at + 1].status = "RUNNING"]]
              /\ at' = at + 1
              /\ UNCHANGED call
  /\ UNCHANGED <<before, lost>>

(* Mutant: the compensations start one step too low.                         *)
FailSkipsLast ==
  /\ call = "forward"
  /\ st' = [steps |-> [st.steps EXCEPT ![at].status = "FAILED"], status |-> "COMPENSATING"]
  /\ call' = "back"
  /\ at' = IF at > 1 THEN at - 2 ELSE 0
  /\ UNCHANGED sagaGhosts

(* The running action fails, or is NULL.                                     *)
ActionFails ==
  /\ call = "forward"
  /\ st' = [steps |-> [st.steps EXCEPT ![at].status = "FAILED"], status |-> "COMPENSATING"]
  /\ call' = "back"
  /\ at' = at - 1
  /\ UNCHANGED sagaGhosts

(* One round of the compensation loop: worked says what the callback did.     *)
Compensate(worked) ==
  /\ call = "back"
  /\ at > 0
  /\ IF st.steps[at].compensate /\ worked
     THEN effect' = [effect EXCEPT ![at] = @ - 1] /\ UNCHANGED lost
     ELSE lost' = lost \cup {at} /\ UNCHANGED effect
  /\ st' = [st EXCEPT !.steps[at].status = "PENDING"]
  /\ at' = at - 1
  /\ UNCHANGED <<call, before>>

CompensationDone ==
  /\ call = "back"
  /\ at = 0
  /\ st' = [st EXCEPT !.status = "COMPENSATED"]
  /\ call' = "none"
  /\ UNCHANGED <<at, sagaGhosts>>

SagaNext ==
  \/ \E compensate \in BOOLEAN : saga_transaction_add_step(compensate)
  \/ saga_execute
  \/ saga_retry
  \/ saga_reset_steps
  \/ ActionSucceeds
  \/ ActionFails
  \/ \E worked \in BOOLEAN : Compensate(worked)
  \/ CompensationDone

SagaSpec == SagaInit /\ [][SagaNext]_sagaVars

-----------------------------------------------------------------------------
(* Properties.                                                               *)

(* Types, and the step array is not overrun.                                 *)
SagaTypeOK ==
  /\ st \in SagaTransaction
  /\ Len(st.steps) <= MaxSteps
  /\ call \in {"none", "forward", "back"}
  /\ at \in 0 .. MaxSteps
  /\ effect \in [1 .. MaxSteps -> Nat]
  /\ before \in [1 .. MaxSteps -> Nat]
  /\ lost \subseteq 1 .. MaxSteps

(* Steps whose effect the last execution has put in place.                   *)
InEffect == {i \in 1 .. MaxSteps : effect[i] > before[i]}

(* All or nothing, as far as compensations exist and work: the effects of an  *)
(* execution that can be taken back are at all times those of a prefix of the *)
(* saga, while it goes forward the steps in front of the running one, and     *)
(* when it has been compensated none.                                         *)
PrefixInEffect ==
  /\ \A i \in InEffect \ lost : 1 .. i - 1 \subseteq InEffect
  /\ call = "forward" => InEffect = 1 .. at - 1
  /\ st.status = "COMPENSATED" => InEffect \subseteq lost

-----------------------------------------------------------------------------
(***************************************************************************)
(* mini-dist-transaction/src/tcc.c: try, confirm, cancel.  Every call runs  *)
(* alone; the caller may use tcc_execute or the three phases directly, in   *)
(* any order and more than once.  The callbacks of a resource are external  *)
(* and idempotent, as demos/mini-distributed-transactions/README.md demands *)
(* of them: a try that succeeds reserves, confirm uses a reservation,       *)
(* cancel gives it back.  A confirm or cancel may be NULL or fail and change *)
(* nothing; tcc.c does not look at what it returns.                         *)
(*                                                                          *)
(* reserved and used are what the resources themselves have recorded.       *)
(* round and failed are history variables: the number of resources the last *)
(* tcc_try_all covered, their used counts before it, and whether it found   *)
(* reservations that nobody had settled; and the resources whose confirm or *)
(* cancel has failed since.                                                 *)
(***************************************************************************)

CONSTANTS
  MaxResources,  \* TCC_MAX_RESOURCES
  MaxUsed        \* bound of the model: how often a resource is used

ASSUME TccAssumption == MaxResources \in Nat /\ MaxUsed \in Nat

VARIABLES
  t,          \* the TCCTransaction
  reserved,   \* the resources that hold a reservation
  used,       \* how often each resource was used
  round, failed

tccGhosts == <<reserved, used, round, failed>>
tccVars == <<t, tccGhosts>>

TCCResState == {"IDLE", "RESERVED", "CONFIRMED", "CANCELLED", "FAILED"}

TCCTransaction ==
  [ resources   : Seq(TCCResState),
    phase       : {"TRY", "CONFIRM", "CANCEL"},
    status      : {"CREATED", "TRYING", "CONFIRMED", "CANCELLED"},
    tried_count : Nat ]

Count(x) == Len(x.resources)

-----------------------------------------------------------------------------
(* tcc_transaction_init.                                                     *)
TccInit ==
  /\ t = [resources |-> <<>>, phase |-> "TRY", status |-> "CREATED", tried_count |-> 0]
  /\ reserved = {}
  /\ used = [i \in 1 .. MaxResources |-> 0]
  /\ round = [n |-> 0, base |-> used, unsettled |-> FALSE]
  /\ failed = {}

tcc_transaction_add_resource ==
  /\ Count(t) < MaxResources
  /\ t' = [t EXCEPT !.resources = Append(@, "IDLE")]
  /\ UNCHANGED tccGhosts

(* The transaction after a tcc_try_all in which the first f tries succeed.    *)
Tried(f) ==
  [ resources   |-> [i \in 1 .. Count(t) |->
                       IF i <= f THEN "RESERVED"
                       ELSE IF i = f + 1 THEN "FAILED"
                       ELSE t.resources[i]],
    phase       |-> "TRY",
    status      |-> "TRYING",
    tried_count |-> f ]

(* The resources whose cancel callback a tcc_cancel_all calls.                *)
ToCancel(x) == {i \in 1 .. x.tried_count : x.resources[i] \notin {"CONFIRMED", "IDLE"}}

Cancelled(x) ==
  [x EXCEPT !.phase = "CANCEL", !.status = "CANCELLED",
            !.resources = [i \in DOMAIN @ |-> IF i \in ToCancel(x) THEN "CANCELLED" ELSE @[i]]]

(* The resources tcc_confirm_all confirms: those in front of the first one    *)
(* that is not RESERVED.                                                      *)
ToConfirm(x) ==
  {i \in 1 .. Count(x) : \A j \in 1 .. i : x.resources[j] = "RESERVED"}

Confirmed(x) ==
  LET sure == [x EXCEPT !.phase = "CONFIRM", !.status = "CONFIRMED",
                        !.resources = [i \in DOMAIN @ |->
                           IF i \in ToConfirm(x) THEN "CONFIRMED" ELSE @[i]]]
  IN  IF ToConfirm(x) = 1 .. Count(x) THEN sure ELSE Cancelled(sure)

CanConfirm(x) == x.phase = "TRY" /\ x.tried_count = Count(x)

(* What the resources record when the callbacks of sure are asked to confirm  *)
(* and those of gone to cancel, and bad of them fail: the transaction goes on *)
(* as if they had not.  deaf are those whose callbacks failed before.         *)
Settle(held, sure, gone, deaf) ==
  \E bad \in SUBSET (held \cap (sure \cup gone)) :
    /\ used' = [i \in DOMAIN used |->
                  used[i] + IF i \in (sure \cap held) \ bad THEN 1 ELSE 0]
    /\ reserved' = held \ ((sure \cup gone) \ bad)
    /\ failed' = deaf \cup bad

NewRound == [n |-> Count(t), base |-> used, unsettled |-> reserved # {}]

(* f tries succeed, and the next one, if there is one, fails.                 *)
tcc_try_all(f) ==
  /\ t' = Tried(f)
  /\ Settle(reserved \cup 1 .. f, {}, {}, {})
  /\ round' = NewRound

tcc_confirm_all ==
  /\ CanConfirm(t)
  /\ \A i \in DOMAIN used : used[i] < MaxUsed
  /\ t' = Confirmed(t)
  /\ Settle(reserved, ToConfirm(t),
            IF ToConfirm(t) = 1 .. Count(t) THEN {} ELSE ToCancel(t) \ ToConfirm(t),
            failed)
  /\ UNCHANGED round

tcc_cancel_all ==
  /\ t' = Cancelled(t)
  /\ Settle(reserved, {}, ToCancel(t), failed)
  /\ UNCHANGED round

(* tcc_try_all, then tcc_confirm_all if all tries succeeded and there was one,*)
(* tcc_cancel_all otherwise.                                                  *)
tcc_execute(f) ==
  /\ \A i \in DOMAIN used : used[i] < MaxUsed
  /\ IF f = Count(t) /\ f > 0
     THEN t' = Confirmed(Tried(f)) /\ Settle(reserved \cup 1 .. f, 1 .. f, {}, {})
     ELSE t' = Cancelled(Tried(f)) /\ Settle(reserved \cup 1 .. f, {}, 1 .. f, {})
  /\ round' = NewRound

TccNext ==
  \/ tcc_transaction_add_resource
  \/ \E f \in 0 .. Count(t) : tcc_try_all(f) \/ tcc_execute(f)
  \/ tcc_confirm_all
  \/ tcc_cancel_all

TccSpec == TccInit /\ [][TccNext]_tccVars

-----------------------------------------------------------------------------
(* Properties.                                                               *)

(* Types, and the resource array is not overrun.                             *)
TccTypeOK ==
  /\ t \in TCCTransaction
  /\ Count(t) <= MaxResources
  /\ t.tried_count <= Count(t)
  /\ reserved \subseteq 1 .. Count(t)
  /\ used \in [1 .. MaxResources -> Nat]
  /\ failed \subseteq 1 .. Count(t)

(* All or nothing: of the resources that one tcc_try_all covered either all   *)
(* are used or none, and equally often, whatever calls follow, apart from     *)
(* those whose callback failed.                                               *)
UsedTogether ==
  \A i, j \in 1 .. round.n \ failed :
    used[i] - round.base[i] = used[j] - round.base[j]

(* Once a transaction has been confirmed or cancelled no resource is left     *)
(* reserved but where the callback failed, unless tries were repeated on top  *)
(* of unsettled reservations: a second tcc_try_all that stops earlier forgets *)
(* the rest of the first.                                                     *)
NothingLeftReserved ==
  (t.phase # "TRY" /\ ~round.unsettled) => reserved \subseteq failed

-----------------------------------------------------------------------------
(* Saga and TCC: the effects of a saga in place are a prefix of it, none     *)
(* when it has been compensated; the resources of one try are all used or    *)
(* none, and no reservation outlives confirm or cancel, whatever callbacks   *)
(* fail, those apart that failed themselves.                                 *)
AllOrNothing ==
  /\ SagaTypeOK /\ PrefixInEffect
  /\ TccTypeOK /\ UsedTogether /\ NothingLeftReserved
=============================================================================
