------------------------------ MODULE Redlock -------------------------------
(***************************************************************************)
(* redlock_acquire and redlock_release of dist_lock.c over several          *)
(* independent lock managers.  Clients run at the same time: a client       *)
(* visits the nodes one after the other, one node per step, and passes the  *)
(* time at which its call began to all of them.  A failed acquisition walks *)
(* the nodes again and releases.                                            *)
(***************************************************************************)
EXTENDS DistLock

CONSTANTS
  N,         \* node_count
  Quorum,    \* the caller's quorum
  Resource,  \* the one resource clients compete for
  Lease,     \* lease_ms
  Retry      \* whether a client that holds the lock may ask for it again

ASSUME RedlockAssumption ==
  /\ N \in Nat
  /\ Quorum \in Nat
  /\ Resource \in Resources
  /\ Lease \in Nat
  /\ Retry \in BOOLEAN

VARIABLES
  nodes,   \* the lock managers
  client,  \* what each client is doing
  clock    \* the time clients pass as now_ms

redVars == <<nodes, client, clock>>

Node == 0 .. N - 1

(* call is what the client runs, next the node it visits next, got the nodes  *)
(* that granted, start the now_ms of its call.  until is what the last        *)
(* successful redlock_acquire gave it, 0 when it has released since.          *)
Client ==
  [ call  : {"none", "acquire", "undo", "release"},
    next  : 0 .. N,
    got   : 0 .. N,
    start : Nat,
    until : Nat ]

-----------------------------------------------------------------------------
(* Mutant: half of the nodes are enough.                                     *)
HalfIsEnough(votes_for, total) == votes_for >= Quorum \/ 2 * votes_for >= total - 1

redlock_majority(votes_for, total) ==
  votes_for >= Quorum /\ votes_for > total \div 2

RedInit ==
  /\ nodes = [n \in Node |-> lock_manager_init]
  /\ client = [c \in Owners |->
                 [call |-> "none", next |-> 0, got |-> 0, start |-> 0, until |-> 0]]
  /\ clock = 0

Holds(c) == client[c].until > clock

(* redlock_acquire is called.                                                *)
CallAcquire(c) ==
  /\ client[c].call = "none"
  /\ Holds(c) => Retry
  /\ client' = [client EXCEPT ![c] =
                  [@ EXCEPT !.call = "acquire", !.next = 0, !.got = 0, !.start = clock]]
  /\ UNCHANGED <<nodes, clock>>

AcquireNode(c) ==
  LET n == client[c].next IN
  /\ client[c].call = "acquire"
  /\ n < N
  /\ nodes' = [nodes EXCEPT ![n] = lock_acquire(@, Resource, c, Lease, client[c].start)]
  /\ client' = [client EXCEPT ![c].next = n + 1,
                              ![c].got = IF AcquireOk(nodes[n], Resource, client[c].start)
                                         THEN @ + 1 ELSE @]
  /\ UNCHANGED clock

(* Mutant: a failed acquisition returns and lets its leases run out.         *)
CountVotesOnly(c) ==
  /\ client[c].call = "acquire"
  /\ client[c].next = N
  /\ client' = [client EXCEPT ![c] =
       IF redlock_majority(@.got, N)
       THEN [@ EXCEPT !.call = "none", !.until = client[c].start + Lease]
       ELSE [@ EXCEPT !.call = "none"]]
  /\ UNCHANGED <<nodes, clock>>

(* The votes are counted; without a majority everything is given back.       *)
CountVotes(c) ==
  /\ client[c].call = "acquire"
  /\ client[c].next = N
  /\ client' = [client EXCEPT ![c] =
       IF redlock_majority(@.got, N)
       THEN [@ EXCEPT !.call = "none", !.until = client[c].start + Lease]
       ELSE [@ EXCEPT !.call = "undo", !.next = 0]]
  /\ UNCHANGED <<nodes, clock>>

(* redlock_release is called by a client that gives the lock up.             *)
CallRelease(c) ==
  /\ client[c].call = "none"
  /\ client[c].until > 0
  /\ client' = [client EXCEPT ![c] =
                  [@ EXCEPT !.call = "release", !.next = 0, !.until = 0]]
  /\ UNCHANGED <<nodes, clock>>

ReleaseNode(c) ==
  LET n == client[c].next IN
  /\ client[c].call \in {"undo", "release"}
  /\ n < N
  /\ nodes' = [nodes EXCEPT ![n] = lock_release(@, Resource, c)]
  /\ client' = [client EXCEPT ![c].next = n + 1]
  /\ UNCHANGED clock

Return(c) ==
  /\ client[c].call \in {"undo", "release"}
  /\ client[c].next = N
  /\ client' = [client EXCEPT ![c].call = "none"]
  /\ UNCHANGED <<nodes, clock>>

RedTick ==
  /\ clock < MaxTime
  /\ clock' = clock + 1
  /\ UNCHANGED <<nodes, client>>

RedNext ==
  \/ \E c \in Owners :
       \/ CallAcquire(c) \/ AcquireNode(c) \/ CountVotes(c)
       \/ CallRelease(c) \/ ReleaseNode(c) \/ Return(c)
  \/ RedTick

RedSpec == RedInit /\ [][RedNext]_redVars

-----------------------------------------------------------------------------
(* Properties.                                                               *)

(* Types; every counter of a call stays within the number of nodes.          *)
RedTypeOK ==
  /\ nodes = [n \in Node |-> nodes[n]]
  /\ \A n \in Node : /\ LockManagerOK(nodes[n])
                     /\ DOMAIN nodes[n].locks \subseteq {Resource}
                     /\ Len(nodes[n].queue) <= QueueSize
  /\ client \in [Owners -> Client]
  /\ clock \in 0 .. MaxTime

(* Mutual exclusion across the nodes, with visits of several clients          *)
(* interleaved and time passing between them: no two clients hold a lock      *)
(* whose lease, counted from the start of their call, still runs.             *)
RedlockMutex ==
  \A c, d \in Owners : (Holds(c) /\ Holds(d)) => c = d

(* A holder's majority stands behind it: as long as its lease runs, more than *)
(* half of the nodes refuse everyone else.                                    *)
MajorityBehindHolder ==
  \A c \in Owners :
    (Holds(c) /\ client[c].call = "none") =>
      2 * Cardinality({n \in Node : /\ lock_is_owned_by(nodes[n], Resource, c)
                                    /\ LeaseRuns(nodes[n].locks[Resource], clock)}) > N

(* Redlock: no two clients hold the lock, and a holder has its majority.      *)
OneHolder == RedTypeOK /\ RedlockMutex /\ MajorityBehindHolder

(* Whatever order the walks of several clients interleave in, an attempt that *)
(* failed and a lock given up leave nothing behind that shuts others out: a   *)
(* node whose lease runs keeps it for a client that holds the lock, is still  *)
(* collecting votes, or has yet to come by on its way back.                   *)
NothingLeftBehind ==
  \A c \in Owners, n \in Node :
    (/\ lock_is_owned_by(nodes[n], Resource, c)
     /\ LeaseRuns(nodes[n].locks[Resource], clock)) =>
      \/ Holds(c)
      \/ client[c].call = "acquire" /\ n < client[c].next
      \/ client[c].call \in {"undo", "release"} /\ n >= client[c].next
=============================================================================
