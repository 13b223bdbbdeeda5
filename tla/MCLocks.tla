------------------------------ MODULE MCLocks -------------------------------
(***************************************************************************)
(* What mini-dist-transaction offers against concurrent and repeated access *)
(* for TLC: lock managers, Redlock over three of them, fencing tokens and   *)
(* the cache of processed requests.  They share no state, so a behaviour    *)
(* exercises one of them, named by part, and leaves the others as they were *)
(* initialised.  The properties are those of the modules: MutualExclusion   *)
(* and PromiseKept of LockManager, OneHolder and NothingLeftBehind of       *)
(* Redlock, OnceAndInOrder of OnceOnly.                                     *)
(***************************************************************************)
EXTENDS LockManager, Redlock, OnceOnly

VARIABLE part

allVars == <<part, vars, redVars, fenceVars, idemVars>>

MCInit ==
  /\ part \in {"lock_manager", "redlock", "fencing", "idempotency"}
  /\ Init /\ RedInit /\ FenceInit /\ IdemInit

MCNext ==
  \/ part = "lock_manager" /\ Next /\ UNCHANGED <<part, redVars, fenceVars, idemVars>>
  \/ part = "redlock" /\ RedNext /\ UNCHANGED <<part, vars, fenceVars, idemVars>>
  \/ part = "fencing" /\ FenceNext /\ UNCHANGED <<part, vars, redVars, idemVars>>
  \/ part = "idempotency" /\ IdemNext /\ UNCHANGED <<part, vars, redVars, fenceVars>>

MCSpec == MCInit /\ [][MCNext]_allVars
=============================================================================
