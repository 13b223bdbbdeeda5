---------------------------- MODULE LockManager -----------------------------
(***************************************************************************)
(* One lock manager of dist_lock.c, its clients and the clock whose value   *)
(* they pass as now_ms.  until and waiting are history variables: until     *)
(* when each owner was promised each resource by a call that returned true, *)
(* and who joined the queue and has been granted nothing since.             *)
(***************************************************************************)
EXTENDS DistLock

CONSTANTS
  Leases,    \* the leases and extensions clients ask for
  MaxLease   \* bound of the model: no lease is extended beyond it

ASSUME LockManagerAssumption ==
  Leases \subseteq Nat /\ MaxLease \in Nat

VARIABLES lm, now, until, waiting

vars == <<lm, now, until, waiting>>

Init ==
  /\ lm = lock_manager_init
  /\ now = 0
  /\ until = [r \in Resources |-> [o \in Owners |-> 0]]
  /\ waiting = {}

Acquire(r, o, lease) ==
  /\ lm' = lock_acquire(lm, r, o, lease, now)
  /\ IF AcquireOk(lm, r, now)
     THEN /\ until' = [until EXCEPT ![r][o] = now + lease]
          /\ waiting' = waiting \ {o}
     ELSE /\ waiting' = IF Len(lm'.queue) > Len(lm.queue) THEN waiting \cup {o} ELSE waiting
          /\ UNCHANGED until
  /\ UNCHANGED now

Release(r, o) ==
  /\ lm' = lock_release(lm, r, o)
  /\ until' = [until EXCEPT ![r][o] = IF lock_is_owned_by(lm, r, o) THEN 0 ELSE @]
  /\ UNCHANGED <<now, waiting>>

(* What the lock's own fields promise its owner.                             *)
Promise(m, r) == m.locks[r].at + m.locks[r].lease

Renew(r, o, extend) ==
  /\ r \in DOMAIN lm.locks => lm.locks[r].lease + extend <= MaxLease
  /\ lm' = lock_renew_lease(lm, r, o, extend, now)
  /\ until' = [until EXCEPT ![r][o] = IF lock_is_owned_by(lm, r, o)
                                      THEN Promise(lm', r) ELSE @]
  /\ UNCHANGED <<now, waiting>>

HandleExpiry ==
  /\ lm' = lock_handle_expiry(lm, now)
  /\ UNCHANGED <<now, until, waiting>>

ProcessWaitQueue(r) ==
  /\ lm' = lock_process_wait_queue(lm, r, now)
  /\ IF ProcessOk(lm, r, now)
     THEN /\ until' = [until EXCEPT ![r][Head(lm.queue)] = now + DefaultLease]
          /\ waiting' = waiting \ {Head(lm.queue)}
     ELSE UNCHANGED <<until, waiting>>
  /\ UNCHANGED now

TryUpgrade(r, o) ==
  /\ lm' = lock_try_upgrade(lm, r, o, now)
  /\ until' = [until EXCEPT ![r][o] = IF UpgradeOk(lm, r, o) THEN Promise(lm', r) ELSE @]
  /\ UNCHANGED <<now, waiting>>

(* lock_remaining_lease_ms and lock_is_owned_by, which create the lock too.   *)
Query(r) ==
  /\ lm' = lock_manager_find_or_create(lm, r)
  /\ UNCHANGED <<now, until, waiting>>

Tick ==
  /\ now < MaxTime
  /\ now' = now + 1
  /\ UNCHANGED <<lm, until, waiting>>

Next ==
  \/ \E r \in Resources, o \in Owners :
       \/ \E lease \in Leases : Acquire(r, o, lease) \/ Renew(r, o, lease)
       \/ Release(r, o)
       \/ TryUpgrade(r, o)
  \/ \E r \in Resources : ProcessWaitQueue(r) \/ Query(r)
  \/ HandleExpiry
  \/ Tick

Spec == Init /\ [][Next]_vars

-----------------------------------------------------------------------------
(* Properties.                                                               *)

(* Types, and neither the lock array nor the queue is overrun.               *)
TypeOK ==
  /\ LockManagerOK(lm)
  /\ Cardinality(DOMAIN lm.locks) <= MaxLocks
  /\ Len(lm.queue) <= QueueSize
  /\ now \in 0 .. MaxTime
  /\ until \in [Resources -> [Owners -> Nat]]
  /\ waiting \subseteq Owners

(* Mutual exclusion: no two owners have a running promise for one resource,   *)
(* through any mixture of acquisition, renewal of leases that have already    *)
(* run out, upgrades, sweeps and grants from the queue.                       *)
MutualExclusion ==
  \A r \in Resources, o, p \in Owners :
    (until[r][o] > now /\ until[r][p] > now) => o = p

(* A promise is kept: while it runs, the manager regards the promised owner   *)
(* as the owner and would refuse everyone else.                               *)
PromiseKept ==
  \A r \in Resources, o \in Owners :
    until[r][o] > now =>
      /\ lock_is_owned_by(lm, r, o)
      /\ LeaseRuns(lm.locks[r], now)

(* dist_lock.c, above lock_process_wait_queue: "FIFO wait queue processing    *)
(* ensures no starvation, as every waiter eventually reaches the head of the  *)
(* queue".  Whoever waits without having been granted a lock is still queued. *)
(* It does not hold: lock_release throws the head of the queue away.          *)
NoLostWaiter ==
  \A o \in waiting : \E i \in 1 .. Len(lm.queue) : lm.queue[i] = o
=============================================================================
