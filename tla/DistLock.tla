------------------------------ MODULE DistLock ------------------------------
(***************************************************************************)
(* mini-dist-transaction/src/dist_lock.c: what each call does to one lock   *)
(* manager.  A manager is a record of its locks, by resource name, and of   *)
(* one wait queue that all its resources share.  A call is a function from  *)
(* a manager to a manager, with a predicate for what it returns.            *)
(*                                                                          *)
(* A lock's version and a waiter's wait_since_ms are only ever printed and  *)
(* are left out.                                                            *)
(***************************************************************************)
EXTENDS Integers, Sequences, FiniteSets

CONSTANTS
  Resources, Owners,
  NoOwner,      \* the empty owner string
  MaxLocks,     \* DIST_LOCK_MAX_LOCKS
  QueueSize,    \* DIST_LOCK_WAIT_QUEUE_SIZE
  DefaultLease, \* DIST_LOCK_DEFAULT_LEASE_MS
  MaxTime       \* bound of the models: the clock stops there

ASSUME DistLockAssumption ==
  /\ NoOwner \notin Owners
  /\ MaxLocks \in Nat
  /\ QueueSize \in Nat
  /\ DefaultLease \in Nat
  /\ MaxTime \in Nat

DistLock_ ==
  [ owner : Owners \cup {NoOwner},
    lease : Nat,
    at    : Nat,
    state : {"FREE", "ACQUIRED", "EXPIRED"} ]

LockManagerOK(lm) ==
  /\ lm = [locks |-> lm.locks, queue |-> lm.queue]
  /\ DOMAIN lm.locks \subseteq Resources
  /\ lm.locks \in [DOMAIN lm.locks -> DistLock_]
  /\ lm.queue \in Seq(Owners)

-----------------------------------------------------------------------------
(* A lock in the hands of o, from t on.                                      *)
Taken(o, lease, t) == [owner |-> o, lease |-> lease, at |-> t, state |-> "ACQUIRED"]

dist_lock_init == [owner |-> NoOwner, lease |-> 0, at |-> 0, state |-> "FREE"]

lock_manager_init ==
  [locks |-> [r \in {} |-> dist_lock_init], queue |-> <<>>]

CanFind(lm, r) ==
  r \in DOMAIN lm.locks \/ Cardinality(DOMAIN lm.locks) < MaxLocks

(* Every call that names a resource creates its lock on the way.             *)
lock_manager_find_or_create(lm, r) ==
  IF ~CanFind(lm, r) THEN lm
  ELSE [lm EXCEPT !.locks = [q \in DOMAIN @ \cup {r} |->
                               IF q \in DOMAIN @ THEN @[q] ELSE dist_lock_init]]

lock_is_owned_by(lm, r, o) ==
  /\ r \in DOMAIN lm.locks
  /\ lm.locks[r].state = "ACQUIRED"
  /\ lm.locks[r].owner = o

(* Mutant: a lease is over one tick early.                                   *)
LeaseRunsShort(lock, now) ==
  lock.state = "ACQUIRED" /\ lock.at + lock.lease > now + 1

(* The lease of an acquired lock has not run out.                            *)
LeaseRuns(lock, now) ==
  lock.state = "ACQUIRED" /\ lock.at + lock.lease > now

AcquireOk(lm, r, now) ==
  /\ CanFind(lm, r)
  /\ ~LeaseRuns(lock_manager_find_or_create(lm, r).locks[r], now)

(* A refused caller joins the queue if it has room, once per call; the queue  *)
(* does not say which resource is wanted.                                     *)
lock_acquire(lm, r, o, lease, now) ==
  LET found == lock_manager_find_or_create(lm, r)
  IN  CASE AcquireOk(lm, r, now) ->
             [found EXCEPT !.locks[r] = Taken(o, lease, now)]
        [] ~AcquireOk(lm, r, now) /\ CanFind(lm, r) /\ Len(lm.queue) < QueueSize ->
             [found EXCEPT !.queue = Append(@, o)]
        [] OTHER -> found

(* Mutant: whoever asks may release.                                         *)
ReleaseByAnyone(lm, r, o) ==
  IF r \in DOMAIN lm.locks /\ lm.locks[r].state = "ACQUIRED"
  THEN [lm EXCEPT !.locks[r].state = "FREE", !.locks[r].owner = NoOwner,
                  !.locks[r].lease = 0,
                  !.queue = IF @ = <<>> THEN @ ELSE Tail(@)]
  ELSE lock_manager_find_or_create(lm, r)

(* The owner gives the lock back, and the head of the queue is removed.       *)
lock_release(lm, r, o) ==
  IF lock_is_owned_by(lm, r, o)
  THEN [lm EXCEPT !.locks[r].state = "FREE", !.locks[r].owner = NoOwner,
                  !.locks[r].lease = 0,
                  !.queue = IF @ = <<>> THEN @ ELSE Tail(@)]
  ELSE lock_manager_find_or_create(lm, r)

(* The extension is added to the whole lease, which starts anew.              *)
lock_renew_lease(lm, r, o, extend, now) ==
  IF lock_is_owned_by(lm, r, o)
  THEN [lm EXCEPT !.locks[r] = Taken(o, @.lease + extend, now)]
  ELSE lock_manager_find_or_create(lm, r)

lock_handle_expiry(lm, now) ==
  [lm EXCEPT !.locks = [r \in DOMAIN @ |->
     IF @[r].state = "ACQUIRED" /\ ~LeaseRuns(@[r], now)
     THEN [@[r] EXCEPT !.state = "EXPIRED"] ELSE @[r]]]

(* The state LOCK_WAITING, which the code would accept too, is never set.     *)
ProcessOk(lm, r, now) ==
  /\ lm.queue # <<>>
  /\ CanFind(lm, r)
  /\ lock_manager_find_or_create(lm, r).locks[r].state = "FREE"

lock_process_wait_queue(lm, r, now) ==
  IF ProcessOk(lm, r, now)
  THEN [lock_acquire(lm, r, Head(lm.queue), DefaultLease, now) EXCEPT !.queue = Tail(@)]
  ELSE IF lm.queue = <<>> THEN lm ELSE lock_manager_find_or_create(lm, r)

UpgradeOk(lm, r, o) ==
  /\ lock_is_owned_by(lm, r, o)
  /\ \A i \in 1 .. Len(lm.queue) : lm.queue[i] = o

lock_try_upgrade(lm, r, o, now) ==
  IF UpgradeOk(lm, r, o) THEN [lm EXCEPT !.locks[r] = Taken(o, @.lease, now)]
  ELSE lock_manager_find_or_create(lm, r)
=============================================================================
