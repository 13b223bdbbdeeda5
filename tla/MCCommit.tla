------------------------------ MODULE MCCommit ------------------------------
(***************************************************************************)
(* The commit protocols of mini-dist-transaction for TLC.  They share no    *)
(* state, so a behaviour exercises one of them, named by part, and leaves   *)
(* the others as they were initialised.  The properties are those of the    *)
(* modules: CommitsCovered and TimeoutFinal of TwoPC, AllOrNothing of       *)
(* Compensation, NoCommitOverRefusal of TwoPC.                              *)
(***************************************************************************)
EXTENDS TwoPC, Compensation

VARIABLE part

allVars  == <<part, vars, vars3, sagaVars, tccVars, xaVars>>

MCInit ==
  /\ part \in {"2pc", "3pc", "saga", "tcc", "xa"}
  /\ Init /\ Init3 /\ SagaInit /\ TccInit /\ XaInit

MCNext ==
  \/ part = "2pc" /\ Next /\ UNCHANGED <<part, vars3, sagaVars, tccVars, xaVars>>
  \/ part = "3pc" /\ Next3 /\ UNCHANGED <<part, vars, sagaVars, tccVars, xaVars>>
  \/ part = "saga" /\ SagaNext /\ UNCHANGED <<part, vars, vars3, tccVars, xaVars>>
  \/ part = "tcc" /\ TccNext /\ UNCHANGED <<part, vars, vars3, sagaVars, xaVars>>
  \/ part = "xa" /\ XaNext /\ UNCHANGED <<part, vars, vars3, sagaVars, tccVars>>

MCSpec == MCInit /\ [][MCNext]_allVars
=============================================================================
