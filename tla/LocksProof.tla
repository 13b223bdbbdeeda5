----------------------------- MODULE LocksProof -----------------------------
(***************************************************************************)
(* What mini-dist-transaction promises against concurrent and repeated      *)
(* access, for every set of resources, owners, nodes and requests, every    *)
(* capacity and every lease: mutual exclusion of one lock manager and of    *)
(* Redlock over several, fencing, and the cache of processed requests.      *)
(***************************************************************************)
EXTENDS LockManager, Redlock, OnceOnly, TLAPS, FiniteSetTheorems, WellFoundedInduction

-----------------------------------------------------------------------------
(***************************************************************************)
(* One lock manager.  MutualExclusion is not inductive, and neither is      *)
(* PromiseKept: when the clock advances, only what the lock's own fields    *)
(* say about the end of a lease tells that a promise still runs.  The       *)
(* inductive invariant is TypeOK with PromiseBooked, which compares the     *)
(* two.                                                                     *)
(***************************************************************************)

(* The managers LockManagerOK describes, as a set.                            *)
LockManager_ ==
  [ locks : UNION {[R -> DistLock_] : R \in SUBSET Resources},
    queue : Seq(Owners) ]

LEMMA ManagerSet == \A m : LockManagerOK(m) <=> m \in LockManager_
<1>1. ASSUME NEW m, LockManagerOK(m)
      PROVE  m \in LockManager_
  <2>1. m.locks \in UNION {[R -> DistLock_] : R \in SUBSET Resources}
    BY <1>1 DEF LockManagerOK
  <2>2. [locks |-> m.locks, queue |-> m.queue] \in LockManager_
    BY <1>1, <2>1 DEF LockManager_, LockManagerOK
  <2> QED
    BY <1>1, <2>2 DEF LockManagerOK
<1>2. ASSUME NEW m \in LockManager_
      PROVE  LockManagerOK(m)
  BY DEF LockManagerOK, LockManager_
<1> QED
  BY <1>1, <1>2

LEMMA NewLockType == dist_lock_init \in DistLock_
  BY DEF dist_lock_init, DistLock_

(* Finding a lock keeps the manager well formed, keeps all existing locks     *)
(* and the queue, and the lock it makes is free.                              *)
LEMMA FindOrCreate ==
  ASSUME NEW m \in LockManager_, NEW r \in Resources
  PROVE  LET f == lock_manager_find_or_create(m, r) IN
         /\ f \in LockManager_
         /\ f.queue = m.queue
         /\ CanFind(m, r) => DOMAIN f.locks = DOMAIN m.locks \cup {r}
         /\ ~CanFind(m, r) => f = m
         /\ \A q \in DOMAIN m.locks : q \in DOMAIN f.locks /\ f.locks[q] = m.locks[q]
         /\ \A q \in DOMAIN f.locks : q \in DOMAIN m.locks \/ f.locks[q] = dist_lock_init
<1> DEFINE new == [q \in DOMAIN m.locks \cup {r} |->
                     IF q \in DOMAIN m.locks THEN m.locks[q] ELSE dist_lock_init]
<1>1. PICK R \in SUBSET Resources : m.locks \in [R -> DistLock_]
  BY DEF LockManager_
<1>2. new \in [R \cup {r} -> DistLock_]
  BY <1>1, NewLockType
<1>3. CASE CanFind(m, r)
  <2>1. lock_manager_find_or_create(m, r) = [m EXCEPT !.locks = new]
    BY <1>3 DEF lock_manager_find_or_create
  <2>2. [m EXCEPT !.locks = new] \in LockManager_
    BY <1>2, (R \cup {r}) \in SUBSET Resources DEF LockManager_
  <2>3. [m EXCEPT !.locks = new].locks = new /\ [m EXCEPT !.locks = new].queue = m.queue
    BY DEF LockManager_
  <2> QED
    BY <1>3, <2>1, <2>2, <2>3
<1>4. CASE ~CanFind(m, r)
  BY <1>4 DEF lock_manager_find_or_create
<1> QED
  BY <1>3, <1>4

(* Every lock of a well-formed manager has the fields of its type.            *)
LEMMA LockType ==
  ASSUME NEW m \in LockManager_, NEW r \in DOMAIN m.locks
  PROVE  /\ r \in Resources
         /\ m.locks[r] \in DistLock_
  BY DEF LockManager_

(* A manager is its locks and its queue.                                      *)
LEMMA MakeManager ==
  ASSUME NEW R \in SUBSET Resources, NEW L \in [R -> DistLock_], NEW q \in Seq(Owners)
  PROVE  [locks |-> L, queue |-> q] \in LockManager_
  BY DEF LockManager_

(* Overwriting one lock, or the queue, keeps the manager well formed.         *)
LEMMA SetLock ==
  ASSUME NEW m \in LockManager_, NEW r \in DOMAIN m.locks, NEW l \in DistLock_,
         NEW q \in Seq(Owners)
  PROVE  [locks |-> [m.locks EXCEPT ![r] = l], queue |-> q] \in LockManager_
<1>1. PICK R \in SUBSET Resources : m.locks \in [R -> DistLock_]
  BY DEF LockManager_
<1>2. [m.locks EXCEPT ![r] = l] \in [R -> DistLock_]
  BY <1>1
<1> QED
  BY <1>2, MakeManager

LEMMA SetQueue ==
  ASSUME NEW m \in LockManager_, NEW q \in Seq(Owners)
  PROVE  [locks |-> m.locks, queue |-> q] \in LockManager_
  BY DEF LockManager_

(* The lock array is not overrun.                                             *)
Fits(m) ==
  /\ IsFiniteSet(DOMAIN m.locks)
  /\ Cardinality(DOMAIN m.locks) <= MaxLocks

LEMMA FindOrCreateFits ==
  ASSUME NEW m \in LockManager_, NEW r \in Resources, Fits(m)
  PROVE  Fits(lock_manager_find_or_create(m, r))
<1> DEFINE f == lock_manager_find_or_create(m, r)
<1>1. CASE r \in DOMAIN m.locks
  <2>1. DOMAIN f.locks = DOMAIN m.locks \cup {r}
    BY <1>1, FindOrCreate DEF CanFind
  <2>2. DOMAIN m.locks \cup {r} = DOMAIN m.locks
    BY <1>1
  <2> QED
    BY <2>1, <2>2 DEF Fits
<1>2. CASE r \notin DOMAIN m.locks /\ CanFind(m, r)
  <2>1. DOMAIN f.locks = DOMAIN m.locks \cup {r}
    BY <1>2, FindOrCreate
  <2>2. /\ IsFiniteSet(DOMAIN m.locks \cup {r})
        /\ Cardinality(DOMAIN m.locks \cup {r}) = Cardinality(DOMAIN m.locks) + 1
    BY <1>2, FS_AddElement DEF Fits
  <2>3. Cardinality(DOMAIN m.locks) \in Nat /\ Cardinality(DOMAIN m.locks) < MaxLocks
    BY <1>2, FS_CardinalityType DEF Fits, CanFind
  <2> QED
    BY <2>1, <2>2, <2>3, DistLockAssumption DEF Fits
<1>3. CASE ~CanFind(m, r)
  BY <1>3, FindOrCreate
<1> QED
  BY <1>1, <1>2, <1>3 DEF CanFind

-----------------------------------------------------------------------------
(* What each call does to the locks and to the queue.                         *)

LEMMA AcquireFacts ==
  ASSUME NEW m \in LockManager_, NEW r \in Resources, NEW o \in Owners,
         NEW lease \in Nat, NEW t \in Nat, Len(m.queue) <= QueueSize
  PROVE  LET f == lock_manager_find_or_create(m, r)
             n == lock_acquire(m, r, o, lease, t) IN
         /\ n \in LockManager_
         /\ DOMAIN n.locks = DOMAIN f.locks
         /\ Len(n.queue) <= QueueSize
         /\ AcquireOk(m, r, t) =>
              /\ r \in DOMAIN f.locks
              /\ n.locks = [f.locks EXCEPT ![r] = Taken(o, lease, t)]
              /\ n.queue = m.queue
         /\ ~AcquireOk(m, r, t) => n.locks = f.locks
<1> DEFINE f == lock_manager_find_or_create(m, r)
           n == lock_acquire(m, r, o, lease, t)
<1>0. f \in LockManager_ /\ f.queue = m.queue /\ m.queue \in Seq(Owners)
  BY FindOrCreate DEF LockManager_
<1>1. CASE AcquireOk(m, r, t)
  <2>1. r \in DOMAIN f.locks
    BY <1>1, FindOrCreate DEF AcquireOk
  <2>2. Taken(o, lease, t) \in DistLock_
    BY DEF Taken, DistLock_
  <2>3. n = [f EXCEPT !.locks[r] = Taken(o, lease, t)]
    BY <1>1 DEF lock_acquire, Taken
  <2>4. n = [locks |-> [f.locks EXCEPT ![r] = Taken(o, lease, t)], queue |-> f.queue]
    BY <1>0, <2>3 DEF LockManager_
  <2>5. n \in LockManager_
    BY <1>0, <2>1, <2>2, <2>4, SetLock
  <2> QED
    BY <1>0, <1>1, <2>1, <2>4, <2>5
<1>2. CASE ~AcquireOk(m, r, t) /\ CanFind(m, r) /\ Len(m.queue) < QueueSize
  <2>1. n = [f EXCEPT !.queue = Append(f.queue, o)]
    BY <1>2 DEF lock_acquire
  <2>2. n = [locks |-> f.locks, queue |-> Append(f.queue, o)]
    BY <1>0, <2>1 DEF LockManager_
  <2>3. n \in LockManager_
    BY <1>0, <2>2, SetQueue, Append(f.queue, o) \in Seq(Owners)
  <2> QED
    BY <1>0, <1>2, <2>2, <2>3, DistLockAssumption
<1>3. CASE ~AcquireOk(m, r, t) /\ ~(CanFind(m, r) /\ Len(m.queue) < QueueSize)
  <2>1. n = f
    BY <1>3 DEF lock_acquire
  <2> QED
    BY <1>0, <1>3, <2>1
<1> QED
  BY <1>1, <1>2, <1>3

(* A call by the owner rewrites the lock; any other call only finds it.       *)
LEMMA ReleaseFacts ==
  ASSUME NEW m \in LockManager_, NEW r \in Resources, NEW o \in Owners,
         lock_is_owned_by(m, r, o)
  PROVE  LET n == lock_release(m, r, o) IN
         /\ n \in LockManager_
         /\ n.queue = (IF m.queue = <<>> THEN m.queue ELSE Tail(m.queue))
         /\ DOMAIN n.locks = DOMAIN m.locks
         /\ \A q \in DOMAIN m.locks : q # r => n.locks[q] = m.locks[q]
<1> DEFINE l == [m.locks[r] EXCEPT !.state = "FREE", !.owner = NoOwner, !.lease = 0]
           q == IF m.queue = <<>> THEN m.queue ELSE Tail(m.queue)
<1>1. r \in DOMAIN m.locks /\ m.locks[r] \in DistLock_
  BY LockType DEF lock_is_owned_by
<1>2. l \in DistLock_
  BY <1>1 DEF DistLock_
<1>3. q \in Seq(Owners)
  BY DEF LockManager_
<1>4. lock_release(m, r, o) = [locks |-> [m.locks EXCEPT ![r] = l], queue |-> q]
  BY <1>1 DEF lock_release, LockManager_, DistLock_
<1> HIDE DEF l, q
<1>5. lock_release(m, r, o) \in LockManager_
  BY <1>1, <1>2, <1>3, <1>4, SetLock
<1> QED
  BY <1>2, <1>4, <1>5 DEF q

LEMMA RenewFacts ==
  ASSUME NEW m \in LockManager_, NEW r \in Resources, NEW o \in Owners,
         NEW e \in Nat, NEW t \in Nat, lock_is_owned_by(m, r, o)
  PROVE  LET n == lock_renew_lease(m, r, o, e, t) IN
         /\ n \in LockManager_
         /\ n.queue = m.queue
         /\ n.locks = [m.locks EXCEPT ![r] = Taken(o, m.locks[r].lease + e, t)]
<1> DEFINE l == Taken(o, m.locks[r].lease + e, t)
<1>1. r \in DOMAIN m.locks /\ m.locks[r] \in DistLock_
  BY LockType DEF lock_is_owned_by
<1>2. l \in DistLock_
  BY <1>1 DEF DistLock_, Taken
<1>3. m.queue \in Seq(Owners)
  BY DEF LockManager_
<1>4. lock_renew_lease(m, r, o, e, t) = [m EXCEPT !.locks[r] = l]
  BY DEF lock_renew_lease
<1>5. lock_renew_lease(m, r, o, e, t) =
        [locks |-> [m.locks EXCEPT ![r] = l], queue |-> m.queue]
  BY <1>4 DEF LockManager_
<1> HIDE DEF l
<1>6. lock_renew_lease(m, r, o, e, t) \in LockManager_
  BY <1>1, <1>2, <1>3, <1>5, SetLock
<1> QED
  BY <1>5, <1>6 DEF l

LEMMA UpgradeFacts ==
  ASSUME NEW m \in LockManager_, NEW r \in Resources, NEW o \in Owners,
         NEW t \in Nat, UpgradeOk(m, r, o)
  PROVE  LET n == lock_try_upgrade(m, r, o, t) IN
         /\ n \in LockManager_
         /\ n.queue = m.queue
         /\ n.locks = [m.locks EXCEPT ![r] = Taken(o, m.locks[r].lease, t)]
<1> DEFINE l == Taken(o, m.locks[r].lease, t)
<1>1. r \in DOMAIN m.locks /\ m.locks[r] \in DistLock_
  BY LockType DEF lock_is_owned_by, UpgradeOk
<1>2. l \in DistLock_
  BY <1>1 DEF DistLock_, Taken
<1>3. m.queue \in Seq(Owners)
  BY DEF LockManager_
<1>4. lock_try_upgrade(m, r, o, t) = [m EXCEPT !.locks[r] = l]
  BY DEF lock_try_upgrade
<1>5. lock_try_upgrade(m, r, o, t) =
        [locks |-> [m.locks EXCEPT ![r] = l], queue |-> m.queue]
  BY <1>4 DEF LockManager_
<1> HIDE DEF l
<1>6. lock_try_upgrade(m, r, o, t) \in LockManager_
  BY <1>1, <1>2, <1>3, <1>5, SetLock
<1> QED
  BY <1>5, <1>6 DEF l

(* The sweep keeps the owner and the lease of every lock, and the state of    *)
(* those whose lease runs.                                                    *)
LEMMA ExpiryFacts ==
  ASSUME NEW m \in LockManager_, NEW t \in Nat
  PROVE  LET n == lock_handle_expiry(m, t) IN
         /\ n \in LockManager_
         /\ n.queue = m.queue
         /\ DOMAIN n.locks = DOMAIN m.locks
         /\ \A r \in DOMAIN m.locks : LeaseRuns(m.locks[r], t) => n.locks[r] = m.locks[r]
<1> DEFINE L == [r \in DOMAIN m.locks |->
                   IF m.locks[r].state = "ACQUIRED" /\ ~LeaseRuns(m.locks[r], t)
                   THEN [m.locks[r] EXCEPT !.state = "EXPIRED"] ELSE m.locks[r]]
<1>1. PICK R \in SUBSET Resources : m.locks \in [R -> DistLock_]
  BY DEF LockManager_
<1>2. L \in [R -> DistLock_]
  BY <1>1 DEF DistLock_
<1>3. lock_handle_expiry(m, t) = [locks |-> L, queue |-> m.queue]
  BY DEF lock_handle_expiry, LockManager_
<1>4. m.queue \in Seq(Owners)
  BY DEF LockManager_
<1>5. lock_handle_expiry(m, t) \in LockManager_
  BY <1>2, <1>3, <1>4, MakeManager
<1> QED
  BY <1>3, <1>5

(* A grant from the queue is an acquisition of a free lock by its head.       *)
LEMMA ProcessFacts ==
  ASSUME NEW m \in LockManager_, NEW r \in Resources, NEW t \in Nat,
         Len(m.queue) <= QueueSize, ProcessOk(m, r, t)
  PROVE  LET f == lock_manager_find_or_create(m, r)
             n == lock_process_wait_queue(m, r, t) IN
         /\ Head(m.queue) \in Owners
         /\ n \in LockManager_
         /\ r \in DOMAIN f.locks
         /\ f.locks[r].state = "FREE"
         /\ n.locks = [f.locks EXCEPT ![r] = Taken(Head(m.queue), DefaultLease, t)]
         /\ n.queue = Tail(m.queue)
<1> DEFINE f == lock_manager_find_or_create(m, r)
           a == lock_acquire(m, r, Head(m.queue), DefaultLease, t)
<1>1. m.queue \in Seq(Owners) /\ m.queue # <<>>
  BY DEF LockManager_, ProcessOk
<1>2. Head(m.queue) \in Owners /\ Tail(m.queue) \in Seq(Owners)
  BY <1>1
<1>3. AcquireOk(m, r, t) /\ f.locks[r].state = "FREE"
  BY DEF ProcessOk, AcquireOk, LeaseRuns
<1>4. /\ a \in LockManager_
      /\ r \in DOMAIN f.locks
      /\ a.locks = [f.locks EXCEPT ![r] = Taken(Head(m.queue), DefaultLease, t)]
      /\ a.queue = m.queue
  <2>1. DefaultLease \in Nat
    BY DistLockAssumption
  <2>2. \A o \in Owners : LET b == lock_acquire(m, r, o, DefaultLease, t) IN
          AcquireOk(m, r, t) =>
            /\ b \in LockManager_ /\ r \in DOMAIN f.locks
            /\ b.locks = [f.locks EXCEPT ![r] = Taken(o, DefaultLease, t)]
            /\ b.queue = m.queue
    BY <2>1, AcquireFacts
  <2> QED
    BY <1>2, <1>3, <2>2, Zenon
<1>5. lock_process_wait_queue(m, r, t) = [a EXCEPT !.queue = Tail(a.queue)]
  BY DEF lock_process_wait_queue
<1> HIDE DEF f, a
<1>6. lock_process_wait_queue(m, r, t) = [locks |-> a.locks, queue |-> Tail(m.queue)]
  BY <1>4, <1>5 DEF LockManager_
<1>7. lock_process_wait_queue(m, r, t) \in LockManager_
  BY <1>2, <1>4, <1>6, SetQueue
<1> QED
  BY <1>2, <1>3, <1>4, <1>6, <1>7 DEF f

-----------------------------------------------------------------------------
(* The inductive invariant.                                                   *)

(* What keeps promises when time passes: a running promise never outlives the  *)
(* lease in the manager's own books.                                          *)
PromiseBooked ==
  \A r \in Resources, o \in Owners :
    until[r][o] > now =>
      /\ lock_is_owned_by(lm, r, o)
      /\ until[r][o] <= Promise(lm, r)

IInv == TypeOK /\ IsFiniteSet(DOMAIN lm.locks) /\ PromiseBooked

(* Finding a lock leaves everything that is owned as it was.                  *)
LEMMA FindKeepsOwned ==
  ASSUME NEW m \in LockManager_, NEW r \in Resources, NEW q \in Resources,
         NEW p \in Owners, lock_is_owned_by(m, q, p)
  PROVE  LET f == lock_manager_find_or_create(m, r) IN
         /\ lock_is_owned_by(f, q, p)
         /\ f.locks[q] = m.locks[q]
  BY FindOrCreate DEF lock_is_owned_by

(* A promise is a number.                                                     *)
LEMMA SetUntil ==
  ASSUME NEW u \in [Resources -> [Owners -> Nat]], NEW r \in Resources,
         NEW o \in Owners, NEW x \in Nat,
         NEW v, v = [u EXCEPT ![r][o] = x]
  PROVE  v \in [Resources -> [Owners -> Nat]]
<1>1. [u[r] EXCEPT ![o] = x] \in [Owners -> Nat]
  OBVIOUS
<1> QED
  BY <1>1

LEMMA InitInv == Init => IInv
<1> SUFFICES ASSUME Init PROVE IInv
  OBVIOUS
<1>1. lm = [locks |-> [r \in {} |-> dist_lock_init], queue |-> <<>>]
  BY DEF Init, lock_manager_init
<1>2. lm \in LockManager_
  BY <1>1, MakeManager, {} \in SUBSET Resources, <<>> \in Seq(Owners),
     [r \in {} |-> dist_lock_init] \in [{} -> DistLock_]
<1>3. IsFiniteSet(DOMAIN lm.locks) /\ Cardinality(DOMAIN lm.locks) = 0
  BY <1>1, FS_EmptySet
<1>4. TypeOK
  BY <1>1, <1>2, <1>3, DistLockAssumption, LockManagerAssumption, ManagerSet DEF Init, TypeOK
<1>5. PromiseBooked
  BY DEF Init, PromiseBooked
<1> QED
  BY <1>3, <1>4, <1>5 DEF IInv

LEMMA InvFacts ==
  ASSUME IInv
  PROVE  /\ lm \in LockManager_ /\ Fits(lm) /\ Len(lm.queue) <= QueueSize
         /\ lm.queue \in Seq(Owners)
         /\ now \in 0 .. MaxTime /\ now \in Nat
         /\ until \in [Resources -> [Owners -> Nat]]
         /\ waiting \subseteq Owners
  BY LockManagerAssumption, ManagerSet DEF IInv, TypeOK, Fits, LockManager_

(* A call that does no more than find its lock.                               *)
LEMMA FindInv ==
  ASSUME IInv, NEW r \in Resources, lm' = lock_manager_find_or_create(lm, r),
         UNCHANGED <<now, until, waiting>>
  PROVE  IInv'
<1>0. /\ lm \in LockManager_ /\ Fits(lm) /\ Len(lm.queue) <= QueueSize
      /\ lm.queue \in Seq(Owners)
      /\ now \in 0 .. MaxTime /\ now \in Nat
      /\ until \in [Resources -> [Owners -> Nat]]
      /\ waiting \subseteq Owners
  BY InvFacts
<1>1. lm' \in LockManager_ /\ lm'.queue = lm.queue /\ Fits(lm')
  BY <1>0, FindOrCreate, FindOrCreateFits
<1>2. ASSUME NEW q \in Resources, NEW p \in Owners, until'[q][p] > now'
      PROVE  lock_is_owned_by(lm', q, p) /\ until'[q][p] <= Promise(lm', q)
  <2>1. lock_is_owned_by(lm, q, p) /\ until[q][p] <= Promise(lm, q)
    BY <1>2 DEF IInv, PromiseBooked
  <2> QED
    BY <1>0, <2>1, FindKeepsOwned DEF Promise
<1> QED
  BY <1>0, <1>1, <1>2, ManagerSet DEF IInv, TypeOK, PromiseBooked, Fits

(* The owner's lease starts anew.                                             *)
LEMMA RewriteInv ==
  ASSUME IInv, NEW r \in Resources, NEW o \in Owners, NEW L \in Nat,
         lock_is_owned_by(lm, r, o),
         lm' \in LockManager_, lm'.queue = lm.queue,
         lm'.locks = [lm.locks EXCEPT ![r] = Taken(o, L, now)],
         until' = [until EXCEPT ![r][o] = Promise(lm', r)],
         UNCHANGED <<now, waiting>>
  PROVE  IInv'
<1>0. /\ lm \in LockManager_ /\ Fits(lm) /\ Len(lm.queue) <= QueueSize
      /\ lm.queue \in Seq(Owners)
      /\ now \in 0 .. MaxTime /\ now \in Nat
      /\ until \in [Resources -> [Owners -> Nat]]
      /\ waiting \subseteq Owners
  BY InvFacts
<1>1. r \in DOMAIN lm.locks /\ DOMAIN lm'.locks = DOMAIN lm.locks
  BY DEF lock_is_owned_by
<1>2. Promise(lm', r) = now + L
  BY <1>1 DEF Promise, Taken
<1>3. until' \in [Resources -> [Owners -> Nat]]
  BY <1>0, <1>2, SetUntil, now + L \in Nat
<1>4. ASSUME NEW q \in Resources, NEW p \in Owners, until'[q][p] > now'
      PROVE  lock_is_owned_by(lm', q, p) /\ until'[q][p] <= Promise(lm', q)
  <2>1. CASE q = r /\ p = o
    <3>1. until'[r][o] = Promise(lm', r)
      BY <1>0
    <3> QED
      BY <1>0, <1>1, <1>2, <2>1, <3>1 DEF lock_is_owned_by, Taken
  <2>2. CASE ~(q = r /\ p = o)
    <3>1. until'[q][p] = until[q][p]
      BY <1>0, <2>2
    <3>2. lock_is_owned_by(lm, q, p) /\ until[q][p] <= Promise(lm, q)
      BY <1>4, <3>1 DEF IInv, PromiseBooked
    <3>3. q # r
      BY <2>2, <3>2 DEF lock_is_owned_by
    <3> QED
      BY <1>1, <3>1, <3>2, <3>3 DEF lock_is_owned_by, Promise
  <2> QED
    BY <2>1, <2>2
<1> QED
  BY <1>0, <1>1, <1>3, <1>4, ManagerSet DEF IInv, TypeOK, PromiseBooked, Fits

LEMMA NextInv == IInv /\ [Next]_vars => IInv'
<1> SUFFICES ASSUME IInv, [Next]_vars PROVE IInv'
  OBVIOUS
<1> USE DistLockAssumption, LockManagerAssumption
<1>0. /\ lm \in LockManager_ /\ Fits(lm) /\ Len(lm.queue) <= QueueSize
      /\ lm.queue \in Seq(Owners)
      /\ now \in 0 .. MaxTime /\ now \in Nat
      /\ until \in [Resources -> [Owners -> Nat]]
      /\ waiting \subseteq Owners
  BY InvFacts
<1>a. ASSUME NEW r \in Resources, NEW o \in Owners, NEW lease \in Leases,
             Acquire(r, o, lease)
      PROVE  IInv'
  <2> DEFINE f == lock_manager_find_or_create(lm, r)
  <2>1. lease \in Nat
    OBVIOUS
  <2>2. /\ lm' \in LockManager_ /\ Len(lm'.queue) <= QueueSize
        /\ DOMAIN lm'.locks = DOMAIN f.locks
        /\ AcquireOk(lm, r, now) =>
              /\ r \in DOMAIN f.locks
              /\ lm'.locks = [f.locks EXCEPT ![r] = Taken(o, lease, now)]
        /\ ~AcquireOk(lm, r, now) => lm'.locks = f.locks
    BY <1>0, <1>a, <2>1, AcquireFacts DEF Acquire
  <2>3. Fits(lm')
    BY <1>0, <2>2, FindOrCreateFits DEF Fits
  <2>4. /\ now' = now
        /\ until' \in [Resources -> [Owners -> Nat]]
        /\ waiting' \subseteq Owners
    <3>1. until' = until \/ until' = [until EXCEPT ![r][o] = now + lease]
      BY <1>a DEF Acquire
    <3>2. until' \in [Resources -> [Owners -> Nat]]
      BY <1>0, <2>1, <3>1, SetUntil, now + lease \in Nat
    <3>3. waiting' \subseteq Owners
      BY <1>0, <1>a DEF Acquire
    <3> QED
      BY <1>a, <3>2, <3>3 DEF Acquire
  <2>5. ASSUME NEW q \in Resources, NEW p \in Owners, until'[q][p] > now'
        PROVE  lock_is_owned_by(lm', q, p) /\ until'[q][p] <= Promise(lm', q)
    <3>1. CASE AcquireOk(lm, r, now) /\ q = r /\ p = o
      BY <1>0, <1>a, <2>1, <2>2, <3>1 DEF Acquire, lock_is_owned_by, Promise, Taken
    <3>2. CASE ~(AcquireOk(lm, r, now) /\ q = r /\ p = o)
      <4>1. until[q][p] > now /\ until'[q][p] = until[q][p]
        BY <1>0, <1>a, <2>5, <3>2 DEF Acquire
      <4>2. lock_is_owned_by(lm, q, p) /\ until[q][p] <= Promise(lm, q)
        BY <4>1 DEF IInv, PromiseBooked
      <4>3. lock_is_owned_by(f, q, p) /\ f.locks[q] = lm.locks[q]
        BY <1>0, <4>2, FindKeepsOwned
      <4>4. CASE AcquireOk(lm, r, now) /\ q = r
        <5>1. LeaseRuns(f.locks[r], now)
          BY <1>0, <4>1, <4>2, <4>3, <4>4, LockType DEF lock_is_owned_by, Promise, LeaseRuns, DistLock_
        <5> QED
          BY <4>4, <5>1 DEF AcquireOk
      <4>5. CASE ~(AcquireOk(lm, r, now) /\ q = r)
        BY <2>2, <4>1, <4>2, <4>3, <4>5 DEF lock_is_owned_by, Promise
      <4> QED
        BY <4>4, <4>5
    <3> QED
      BY <3>1, <3>2
  <2> QED
    BY <1>0, <2>2, <2>3, <2>4, <2>5, ManagerSet DEF IInv, TypeOK, PromiseBooked, Fits
<1>b. ASSUME NEW r \in Resources, NEW o \in Owners, Release(r, o)
      PROVE  IInv'
  <2>1. CASE lock_is_owned_by(lm, r, o)
    <3>1. /\ lm' \in LockManager_
          /\ lm'.queue = (IF lm.queue = <<>> THEN lm.queue ELSE Tail(lm.queue))
          /\ DOMAIN lm'.locks = DOMAIN lm.locks
          /\ \A q \in DOMAIN lm.locks : q # r => lm'.locks[q] = lm.locks[q]
      BY <1>0, <1>b, <2>1, ReleaseFacts DEF Release
    <3>2. Fits(lm') /\ Len(lm'.queue) <= QueueSize
      BY <1>0, <3>1 DEF Fits
    <3>3. until' = [until EXCEPT ![r][o] = 0] /\ now' = now /\ waiting' = waiting
      BY <1>b, <2>1 DEF Release
    <3>4. until' \in [Resources -> [Owners -> Nat]]
      BY <1>0, <3>3, SetUntil, 0 \in Nat
    <3>5. ASSUME NEW q \in Resources, NEW p \in Owners, until'[q][p] > now'
          PROVE  lock_is_owned_by(lm', q, p) /\ until'[q][p] <= Promise(lm', q)
      <4>1. ~(q = r /\ p = o)
        BY <1>0, <3>3, <3>5
      <4>2. until'[q][p] = until[q][p]
        BY <1>0, <3>3, <4>1
      <4>3. lock_is_owned_by(lm, q, p) /\ until[q][p] <= Promise(lm, q)
        BY <3>3, <3>5, <4>2 DEF IInv, PromiseBooked
      <4>4. q # r
        BY <2>1, <4>1, <4>3 DEF lock_is_owned_by
      <4> QED
        BY <3>1, <4>2, <4>3, <4>4 DEF lock_is_owned_by, Promise
    <3> QED
      BY <1>0, <3>1, <3>2, <3>3, <3>4, <3>5, ManagerSet DEF IInv, TypeOK, PromiseBooked, Fits
  <2>2. CASE ~lock_is_owned_by(lm, r, o)
    <3>1. lm' = lock_manager_find_or_create(lm, r) /\ UNCHANGED <<now, until, waiting>>
      BY <1>0, <1>b, <2>2 DEF Release, lock_release
    <3> QED
      BY <3>1, FindInv
  <2> QED
    BY <2>1, <2>2
<1>c. ASSUME NEW r \in Resources, NEW o \in Owners, NEW e \in Leases, Renew(r, o, e)
      PROVE  IInv'
  <2>1. CASE lock_is_owned_by(lm, r, o)
    <3>1. e \in Nat /\ lm.locks[r].lease \in Nat
      BY <1>0, <2>1, LockType DEF lock_is_owned_by, DistLock_
    <3>2. /\ lm' \in LockManager_ /\ lm'.queue = lm.queue
          /\ lm'.locks = [lm.locks EXCEPT ![r] = Taken(o, lm.locks[r].lease + e, now)]
      BY <1>0, <1>c, <2>1, <3>1, RenewFacts DEF Renew
    <3>3. until' = [until EXCEPT ![r][o] = Promise(lm', r)] /\ UNCHANGED <<now, waiting>>
      BY <1>c, <2>1 DEF Renew
    <3> QED
      BY <2>1, <3>1, <3>2, <3>3, RewriteInv, lm.locks[r].lease + e \in Nat
  <2>2. CASE ~lock_is_owned_by(lm, r, o)
    <3>1. lm' = lock_manager_find_or_create(lm, r) /\ UNCHANGED <<now, until, waiting>>
      BY <1>0, <1>c, <2>2 DEF Renew, lock_renew_lease
    <3> QED
      BY <3>1, FindInv
  <2> QED
    BY <2>1, <2>2
<1>d. ASSUME NEW r \in Resources, NEW o \in Owners, TryUpgrade(r, o)
      PROVE  IInv'
  <2>1. CASE UpgradeOk(lm, r, o)
    <3>1. lock_is_owned_by(lm, r, o)
      BY <2>1 DEF UpgradeOk
    <3>2. lm.locks[r].lease \in Nat
      BY <1>0, <3>1, LockType DEF lock_is_owned_by, DistLock_
    <3>3. /\ lm' \in LockManager_ /\ lm'.queue = lm.queue
          /\ lm'.locks = [lm.locks EXCEPT ![r] = Taken(o, lm.locks[r].lease, now)]
      BY <1>0, <1>d, <2>1, UpgradeFacts DEF TryUpgrade
    <3>4. until' = [until EXCEPT ![r][o] = Promise(lm', r)] /\ UNCHANGED <<now, waiting>>
      BY <1>d, <2>1 DEF TryUpgrade
    <3> QED
      BY <3>1, <3>2, <3>3, <3>4, RewriteInv
  <2>2. CASE ~UpgradeOk(lm, r, o)
    <3>1. lm' = lock_manager_find_or_create(lm, r) /\ UNCHANGED <<now, until, waiting>>
      BY <1>0, <1>d, <2>2 DEF TryUpgrade, lock_try_upgrade
    <3> QED
      BY <3>1, FindInv
  <2> QED
    BY <2>1, <2>2
<1>e. ASSUME NEW r \in Resources, ProcessWaitQueue(r)
      PROVE  IInv'
  <2>1. CASE ProcessOk(lm, r, now)
    <3> DEFINE f == lock_manager_find_or_create(lm, r)
               o == Head(lm.queue)
    <3>1. /\ o \in Owners
          /\ lm' \in LockManager_
          /\ r \in DOMAIN f.locks /\ f.locks[r].state = "FREE"
          /\ lm'.locks = [f.locks EXCEPT ![r] = Taken(o, DefaultLease, now)]
          /\ lm'.queue = Tail(lm.queue)
      BY <1>0, <1>e, <2>1, ProcessFacts DEF ProcessWaitQueue
    <3>2. Len(lm'.queue) <= QueueSize
      BY <1>0, <2>1, <3>1 DEF ProcessOk
    <3>3. Fits(lm')
      BY <1>0, <3>1, FindOrCreateFits DEF Fits
    <3>4. /\ until' = [until EXCEPT ![r][o] = now + DefaultLease]
          /\ now' = now /\ waiting' \subseteq Owners
      BY <1>0, <1>e, <2>1 DEF ProcessWaitQueue
    <3> HIDE DEF o
    <3>5. until' \in [Resources -> [Owners -> Nat]]
      BY <1>0, <3>1, <3>4, SetUntil, now + DefaultLease \in Nat
    <3>6. ASSUME NEW q \in Resources, NEW p \in Owners, until'[q][p] > now'
          PROVE  lock_is_owned_by(lm', q, p) /\ until'[q][p] <= Promise(lm', q)
      <4>1. CASE q = r /\ p = o
        BY <1>0, <3>1, <3>4, <4>1 DEF lock_is_owned_by, Promise, Taken
      <4>2. CASE ~(q = r /\ p = o)
        <5>1. until'[q][p] = until[q][p]
          BY <1>0, <3>1, <3>4, <4>2
        <5>2. lock_is_owned_by(lm, q, p) /\ until[q][p] <= Promise(lm, q)
          BY <3>4, <3>6, <5>1 DEF IInv, PromiseBooked
        <5>3. lock_is_owned_by(f, q, p) /\ f.locks[q] = lm.locks[q]
          BY <1>0, <5>2, FindKeepsOwned
        <5>4. q # r
          BY <3>1, <5>3 DEF lock_is_owned_by
        <5> QED
          BY <3>1, <5>1, <5>2, <5>3, <5>4 DEF lock_is_owned_by, Promise
      <4> QED
        BY <4>1, <4>2
    <3> QED
      BY <1>0, <3>1, <3>2, <3>3, <3>4, <3>5, <3>6, ManagerSet DEF IInv, TypeOK, PromiseBooked, Fits
  <2>2. CASE ~ProcessOk(lm, r, now)
    <3>1. UNCHANGED <<now, until, waiting>>
      BY <1>e, <2>2 DEF ProcessWaitQueue
    <3>2. CASE lm.queue = <<>>
      <4>1. lm' = lm
        BY <1>e, <2>2, <3>2 DEF ProcessWaitQueue, lock_process_wait_queue
      <4> QED
        BY <3>1, <4>1 DEF IInv, TypeOK, PromiseBooked, lock_is_owned_by, Promise
    <3>3. CASE lm.queue # <<>>
      <4>1. lm' = lock_manager_find_or_create(lm, r)
        BY <1>e, <2>2, <3>3 DEF ProcessWaitQueue, lock_process_wait_queue
      <4> QED
        BY <3>1, <4>1, FindInv
    <3> QED
      BY <3>2, <3>3
  <2> QED
    BY <2>1, <2>2
<1>f. ASSUME NEW r \in Resources, Query(r)
      PROVE  IInv'
  BY <1>f, FindInv DEF Query
<1>g. ASSUME HandleExpiry
      PROVE  IInv'
  <2>1. /\ lm' \in LockManager_ /\ lm'.queue = lm.queue
        /\ DOMAIN lm'.locks = DOMAIN lm.locks
        /\ \A r \in DOMAIN lm.locks : LeaseRuns(lm.locks[r], now) => lm'.locks[r] = lm.locks[r]
    BY <1>0, <1>g, ExpiryFacts DEF HandleExpiry
  <2>2. UNCHANGED <<now, until, waiting>>
    BY <1>g DEF HandleExpiry
  <2>3. ASSUME NEW q \in Resources, NEW p \in Owners, until'[q][p] > now'
        PROVE  lock_is_owned_by(lm', q, p) /\ until'[q][p] <= Promise(lm', q)
    <3>1. lock_is_owned_by(lm, q, p) /\ until[q][p] <= Promise(lm, q)
      BY <2>2, <2>3 DEF IInv, PromiseBooked
    <3>2. LeaseRuns(lm.locks[q], now)
      BY <1>0, <2>2, <2>3, <3>1, LockType DEF lock_is_owned_by, Promise, LeaseRuns, DistLock_
    <3> QED
      BY <2>1, <2>2, <3>1, <3>2 DEF lock_is_owned_by, Promise
  <2> QED
    BY <1>0, <2>1, <2>2, <2>3, ManagerSet DEF IInv, TypeOK, PromiseBooked, Fits
<1>h. ASSUME Tick
      PROVE  IInv'
  <2>1. now' \in 0 .. MaxTime /\ now' > now /\ UNCHANGED <<lm, until, waiting>>
    BY <1>0, <1>h DEF Tick
  <2>2. PromiseBooked'
    BY <1>0, <2>1 DEF IInv, PromiseBooked, lock_is_owned_by, Promise
  <2> QED
    BY <1>0, <2>1, <2>2 DEF IInv, TypeOK
<1>i. ASSUME UNCHANGED vars
      PROVE  IInv'
  BY <1>i DEF vars, IInv, TypeOK, PromiseBooked, lock_is_owned_by, Promise
<1> QED
  BY <1>a, <1>b, <1>c, <1>d, <1>e, <1>f, <1>g, <1>h, <1>i DEF Next

-----------------------------------------------------------------------------
(* The manager's arrays are never overrun and every field keeps its type.     *)
THEOREM TypeCorrect == Spec => []TypeOK
<1>1. IInv => TypeOK
  BY DEF IInv
<1> QED
  BY <1>1, InitInv, NextInv, PTL DEF Spec

(* A lease that a client was promised is honoured to its last tick: until     *)
(* then the manager names the client as the owner and refuses everyone else.  *)
THEOREM PromisesHold == Spec => []PromiseKept
<1>1. IInv => PromiseKept
  <2> SUFFICES ASSUME IInv, NEW r \in Resources, NEW o \in Owners, until[r][o] > now
               PROVE  lock_is_owned_by(lm, r, o) /\ LeaseRuns(lm.locks[r], now)
    BY DEF PromiseKept
  <2>1. lock_is_owned_by(lm, r, o) /\ until[r][o] <= Promise(lm, r)
    BY DEF IInv, PromiseBooked
  <2> QED
    BY <2>1, InvFacts, LockType DEF lock_is_owned_by, Promise, LeaseRuns, DistLock_
<1> QED
  BY <1>1, InitInv, NextInv, PTL DEF Spec

(* Mutual exclusion: no two clients have a running promise for one resource.  *)
THEOREM Mutex == Spec => []MutualExclusion
<1>1. PromiseKept => MutualExclusion
  BY DEF PromiseKept, MutualExclusion, lock_is_owned_by
<1> QED
  BY <1>1, PromisesHold, PTL

-----------------------------------------------------------------------------
(***************************************************************************)
(* Redlock.  That two clients never hold the lock at once follows from      *)
(* majorities meeting, once it is known that a majority stays behind its    *)
(* client.  The inductive invariant therefore counts, for every client, the *)
(* nodes that granted its current call and still record that grant: while   *)
(* the lease counted from the start of the call runs, no other client can   *)
(* take one of them, because it passes a time that is not later than now,   *)
(* and the client itself releases them only after giving the lock up.  The  *)
(* last point needs a client that does not ask again while it holds the     *)
(* lock (Retry = FALSE).                                                    *)
(***************************************************************************)

(* The node records the grant of c's current call.                            *)
GrantedBy(n, c) ==
  /\ Resource \in DOMAIN nodes[n].locks
  /\ nodes[n].locks[Resource] = Taken(c, Lease, client[c].start)

Granted(c) == {n \in Node : GrantedBy(n, c)}

GrantedSoFar(c) == {n \in Granted(c) : n < client[c].next}

(* The lease of c's current or last call, counted from its start, runs.       *)
InLease(c) == client[c].start + Lease > clock

CallInv(c) ==
  /\ client[c].start <= clock
  /\ client[c].call = "acquire" =>
       /\ client[c].got <= client[c].next
       /\ InLease(c) => client[c].got <= Cardinality(GrantedSoFar(c))
  /\ Holds(c) =>
       /\ client[c].call = "none"
       /\ client[c].until = client[c].start + Lease
       /\ 2 * Cardinality(Granted(c)) > N

InvRed == RedTypeOK /\ \A c \in Owners : CallInv(c)

LEMMA NodeSet ==
  /\ IsFiniteSet(Node)
  /\ Cardinality(Node) = N
  BY FS_Interval, RedlockAssumption DEF Node

LEMMA SubsetsOfNodes ==
  ASSUME NEW S, NEW T \in SUBSET Node, S \subseteq T
  PROVE  /\ IsFiniteSet(S) /\ IsFiniteSet(T)
         /\ Cardinality(S) \in Nat /\ Cardinality(T) \in Nat
         /\ Cardinality(S) <= Cardinality(T)
<1>1. IsFiniteSet(T)
  BY NodeSet, FS_Subset
<1>2. IsFiniteSet(S) /\ Cardinality(S) <= Cardinality(T)
  BY <1>1, FS_Subset
<1> QED
  BY <1>1, <1>2, FS_CardinalityType

(* The state of one node that only knows the one resource.                    *)
RedNode(m) ==
  /\ m \in LockManager_
  /\ DOMAIN m.locks \subseteq {Resource}
  /\ Len(m.queue) <= QueueSize

(* One visit of an acquisition: a lock whose lease runs stays as it is.       *)
LEMMA VisitAcquire ==
  ASSUME NEW m, RedNode(m), NEW o \in Owners, NEW t \in Nat
  PROVE  LET x == lock_acquire(m, Resource, o, Lease, t) IN
         /\ RedNode(x)
         /\ AcquireOk(m, Resource, t) =>
              Resource \in DOMAIN x.locks /\ x.locks[Resource] = Taken(o, Lease, t)
         /\ Resource \in DOMAIN m.locks /\ LeaseRuns(m.locks[Resource], t) =>
              Resource \in DOMAIN x.locks /\ x.locks[Resource] = m.locks[Resource]
<1> DEFINE f == lock_manager_find_or_create(m, Resource)
           x == lock_acquire(m, Resource, o, Lease, t)
<1>0. m \in LockManager_ /\ Resource \in Resources /\ Lease \in Nat /\ Len(m.queue) <= QueueSize
  BY RedlockAssumption DEF RedNode
<1>1. /\ x \in LockManager_
      /\ DOMAIN x.locks = DOMAIN f.locks
      /\ Len(x.queue) <= QueueSize
      /\ AcquireOk(m, Resource, t) =>
           /\ Resource \in DOMAIN f.locks
           /\ x.locks = [f.locks EXCEPT ![Resource] = Taken(o, Lease, t)]
      /\ ~AcquireOk(m, Resource, t) => x.locks = f.locks
  BY <1>0, AcquireFacts
<1>2. /\ CanFind(m, Resource) => DOMAIN f.locks = DOMAIN m.locks \cup {Resource}
      /\ ~CanFind(m, Resource) => f = m
      /\ \A q \in DOMAIN m.locks : q \in DOMAIN f.locks /\ f.locks[q] = m.locks[q]
  BY <1>0, FindOrCreate
<1>3. DOMAIN f.locks \subseteq {Resource}
  BY <1>2 DEF RedNode
<1>4. Resource \in DOMAIN m.locks /\ LeaseRuns(m.locks[Resource], t) => ~AcquireOk(m, Resource, t)
  BY <1>2 DEF AcquireOk
<1> HIDE DEF f, x
<1> QED
  BY <1>1, <1>2, <1>3, <1>4 DEF RedNode, f, x

(* One visit of a release: another client's lock stays as it is.              *)
LEMMA VisitRelease ==
  ASSUME NEW m, RedNode(m), NEW o \in Owners
  PROVE  LET x == lock_release(m, Resource, o) IN
         /\ RedNode(x)
         /\ Resource \in DOMAIN m.locks /\ m.locks[Resource].owner # o =>
              Resource \in DOMAIN x.locks /\ x.locks[Resource] = m.locks[Resource]
<1> DEFINE f == lock_manager_find_or_create(m, Resource)
           x == lock_release(m, Resource, o)
<1>0. m \in LockManager_ /\ Resource \in Resources /\ m.queue \in Seq(Owners)
      /\ Len(m.queue) <= QueueSize /\ QueueSize \in Nat
  BY RedlockAssumption, DistLockAssumption DEF RedNode, LockManager_
<1>1. CASE lock_is_owned_by(m, Resource, o)
  <2>1. /\ x \in LockManager_
        /\ x.queue = (IF m.queue = <<>> THEN m.queue ELSE Tail(m.queue))
        /\ DOMAIN x.locks = DOMAIN m.locks
    BY <1>0, <1>1, ReleaseFacts
  <2>2. Len(x.queue) <= QueueSize
    BY <1>0, <2>1
  <2> QED
    BY <1>1, <2>1, <2>2 DEF RedNode, lock_is_owned_by
<1>2. CASE ~lock_is_owned_by(m, Resource, o)
  <2>1. x = f
    BY <1>2 DEF lock_release
  <2>2. /\ f \in LockManager_ /\ f.queue = m.queue
        /\ CanFind(m, Resource) => DOMAIN f.locks = DOMAIN m.locks \cup {Resource}
        /\ ~CanFind(m, Resource) => f = m
        /\ \A q \in DOMAIN m.locks : q \in DOMAIN f.locks /\ f.locks[q] = m.locks[q]
    BY <1>0, FindOrCreate
  <2> HIDE DEF f, x
  <2> QED
    BY <2>1, <2>2 DEF RedNode, f, x
<1> QED
  BY <1>1, <1>2

LEMMA RedFacts ==
  ASSUME InvRed
  PROVE  /\ client \in [Owners -> Client]
         /\ clock \in Nat
         /\ nodes = [n \in Node |-> nodes[n]]
         /\ \A n \in Node : RedNode(nodes[n])
         /\ \A c \in Owners :
              /\ client[c].call \in {"none", "acquire", "undo", "release"}
              /\ client[c].next \in 0 .. N /\ client[c].got \in 0 .. N
              /\ client[c].start \in Nat /\ client[c].until \in Nat
         /\ N \in Nat /\ Lease \in Nat
<1>1. clock \in Nat /\ N \in Nat /\ Lease \in Nat
  BY DistLockAssumption, RedlockAssumption DEF InvRed, RedTypeOK
<1>2. \A n \in Node : RedNode(nodes[n])
  BY ManagerSet DEF InvRed, RedTypeOK, RedNode
<1>3. client \in [Owners -> Client] /\ nodes = [n \in Node |-> nodes[n]]
  BY DEF InvRed, RedTypeOK
<1>4. \A c \in Owners : client[c] \in Client
  BY <1>3
<1> QED
  BY <1>1, <1>2, <1>3, <1>4 DEF Client

(* The types after a step, from the nodes and the clients it leaves.          *)
LEMMA RedTypeNext ==
  ASSUME nodes' = [n \in Node |-> nodes'[n]], \A n \in Node : RedNode(nodes'[n]),
         client' \in [Owners -> Client], clock' \in 0 .. MaxTime
  PROVE  RedTypeOK'
<1>1. \A n \in Node : LockManagerOK(nodes'[n])
  BY ManagerSet DEF RedNode
<1> QED
  BY <1>1 DEF RedTypeOK, RedNode

(* While the lease of d's call runs, a step that changes no client but c      *)
(* loses none of the grants of d.                                             *)
LEMMA KeepsGrants ==
  ASSUME InvRed, NEW d \in Owners, CallInv(d),
         client'[d] = client[d], clock' = clock,
         InLease(d) => Granted(d) \subseteq Granted(d)'
  PROVE  CallInv(d)'
<1>0. /\ clock \in Nat /\ N \in Nat /\ Lease \in Nat
      /\ client[d].start \in Nat /\ client[d].got \in 0 .. N /\ client[d].next \in 0 .. N
      /\ client[d].until \in Nat
  BY RedFacts
<1>1. Granted(d)' \in SUBSET Node /\ GrantedSoFar(d)' \in SUBSET Node
  BY DEF Granted, GrantedSoFar, Node
<1>2. ASSUME InLease(d)
      PROVE  /\ Cardinality(Granted(d)) <= Cardinality(Granted(d)')
             /\ Cardinality(GrantedSoFar(d)) <= Cardinality(GrantedSoFar(d)')
             /\ Cardinality(Granted(d)) \in Nat /\ Cardinality(Granted(d)') \in Nat
             /\ Cardinality(GrantedSoFar(d)) \in Nat /\ Cardinality(GrantedSoFar(d)') \in Nat
  <2>1. GrantedSoFar(d) \subseteq GrantedSoFar(d)'
    BY <1>2 DEF GrantedSoFar
  <2> QED
    BY <1>1, <1>2, <2>1, SubsetsOfNodes
<1>3. Holds(d) => InLease(d)
  BY DEF CallInv, Holds, InLease
<1> HIDE DEF Granted, GrantedSoFar
<1> QED
  BY <1>0, <1>2, <1>3 DEF CallInv, Holds, InLease

(* Majorities of votes are majorities of nodes.                               *)
LEMMA MajorityVotes ==
  ASSUME NEW v \in Nat, NEW k \in Nat, redlock_majority(v, k)
  PROVE  2 * v > k
  BY DEF redlock_majority

(* A step that changes the record of c only, to x.                            *)
LEMMA OneClient ==
  ASSUME InvRed, NEW c \in Owners, NEW x \in Client, client' = [client EXCEPT ![c] = x]
  PROVE  /\ client' \in [Owners -> Client]
         /\ client'[c] = x
         /\ \A d \in Owners \ {c} : client'[d] = client[d]
  BY RedFacts

(* No node changes and no time passes: only c's own part is to be shown.      *)
LEMMA OnlyCalls ==
  ASSUME InvRed, NEW c \in Owners, NEW x \in Client, client' = [client EXCEPT ![c] = x],
         UNCHANGED <<nodes, clock>>, CallInv(c)'
  PROVE  InvRed'
<1>1. /\ client' \in [Owners -> Client]
      /\ \A d \in Owners \ {c} : client'[d] = client[d]
  BY OneClient
<1>2. RedTypeOK'
  BY <1>1, RedFacts, RedTypeNext DEF InvRed, RedTypeOK
<1>3. ASSUME NEW d \in Owners \ {c}
      PROVE  CallInv(d)'
  <2>1. Granted(d)' = Granted(d)
    BY <1>1 DEF Granted, GrantedBy
  <2> QED
    BY <1>1, <2>1, KeepsGrants DEF InvRed
<1> QED
  BY <1>2, <1>3 DEF InvRed

LEMMA RedNextKeeps ==
  ASSUME ~Retry, InvRed, [RedNext]_redVars
  PROVE  InvRed'
<1>0. /\ client \in [Owners -> Client] /\ clock \in Nat
      /\ \A n \in Node : RedNode(nodes[n])
      /\ \A c \in Owners :
           /\ client[c].call \in {"none", "acquire", "undo", "release"}
           /\ client[c].next \in 0 .. N /\ client[c].got \in 0 .. N
           /\ client[c].start \in Nat /\ client[c].until \in Nat
      /\ N \in Nat /\ Lease \in Nat
  BY RedFacts
<1>1. ASSUME NEW c \in Owners, CallAcquire(c)
      PROVE  InvRed'
  <2> DEFINE x == [client[c] EXCEPT !.call = "acquire", !.next = 0, !.got = 0, !.start = clock]
  <2>1. /\ x \in Client /\ x.call = "acquire" /\ x.next = 0 /\ x.got = 0 /\ x.start = clock
        /\ x.until = client[c].until
    <3>1. client[c] \in Client
      BY <1>0
    <3>2. 0 \in 0 .. N /\ client[c].start + Lease \in Nat
      BY <1>0
    <3> QED
      BY <1>0, <3>1, <3>2 DEF Client
  <2>2. client' = [client EXCEPT ![c] = x] /\ UNCHANGED <<nodes, clock>> /\ ~Holds(c)
    BY <1>1 DEF CallAcquire
  <2> HIDE DEF x
  <2>3. client'[c] = x
    BY <2>1, <2>2, OneClient
  <2>4. CallInv(c)'
    <3>1. GrantedSoFar(c)' \in SUBSET Node
      BY DEF GrantedSoFar, Granted
    <3>2. Cardinality(GrantedSoFar(c)') \in Nat
      BY <3>1, SubsetsOfNodes
    <3> QED
      BY <1>0, <2>1, <2>2, <2>3, <3>2 DEF CallInv, Holds
  <2> QED
    BY <2>1, <2>2, <2>4, OnlyCalls
<1>2. ASSUME NEW c \in Owners, AcquireNode(c)
      PROVE  InvRed'
  <2> DEFINE k == client[c].next
             ok == AcquireOk(nodes[k], Resource, client[c].start)
             x == [client[c] EXCEPT !.next = k + 1, !.got = IF ok THEN @ + 1 ELSE @]
             y == lock_acquire(nodes[k], Resource, c, Lease, client[c].start)
  <2>0. client[c].call = "acquire" /\ k < N /\ k \in Node /\ client[c].got <= k
        /\ client[c].start <= clock
    BY <1>0, <1>2 DEF AcquireNode, Node, InvRed, CallInv
  <2>1. /\ x \in Client /\ x.next = k + 1 /\ x.got = IF ok THEN client[c].got + 1 ELSE client[c].got
        /\ x.until = client[c].until /\ x.start = client[c].start /\ x.call = client[c].call
    <3>1. client[c] \in Client
      BY <1>0
    <3>2. k + 1 \in 0 .. N /\ (IF ok THEN client[c].got + 1 ELSE client[c].got) \in 0 .. N
      BY <1>0, <2>0
    <3> QED
      BY <3>1, <3>2 DEF Client
  <2>2. nodes' = [nodes EXCEPT ![k] = y] /\ client' = [client EXCEPT ![c] = x] /\ clock' = clock
    <3>1. client' = [client EXCEPT ![c].next = k + 1,
                                   ![c].got = IF ok THEN @ + 1 ELSE @]
          /\ nodes' = [nodes EXCEPT ![k] = y] /\ clock' = clock
      BY <1>2 DEF AcquireNode
    <3>2. client' = [client EXCEPT ![c] = x]
      BY <1>0, <3>1 DEF Client
    <3> QED
      BY <3>1, <3>2
  <2>3. /\ RedNode(y)
        /\ ok => Resource \in DOMAIN y.locks
                 /\ y.locks[Resource] = Taken(c, Lease, client[c].start)
        /\ Resource \in DOMAIN nodes[k].locks
             /\ LeaseRuns(nodes[k].locks[Resource], client[c].start) =>
             Resource \in DOMAIN y.locks /\ y.locks[Resource] = nodes[k].locks[Resource]
    BY <1>0, <2>0, VisitAcquire
  <2> HIDE DEF x, y, ok
  <2>4. /\ client' \in [Owners -> Client] /\ client'[c] = x
        /\ \A d \in Owners \ {c} : client'[d] = client[d]
    BY <2>1, <2>2, OneClient
  <2>5. /\ nodes' = [n \in Node |-> nodes'[n]] /\ nodes'[k] = y
        /\ \A n \in Node : n # k => nodes'[n] = nodes[n]
    BY <2>0, <2>2, RedFacts
  <2>6. RedTypeOK'
    BY <1>0, <2>2, <2>3, <2>4, <2>5, RedTypeNext DEF InvRed, RedTypeOK
  <2>7. ASSUME NEW d \in Owners, InLease(d), client'[d].start = client[d].start
        PROVE  Granted(d) \subseteq Granted(d)'
    <3> SUFFICES ASSUME NEW n \in Node, GrantedBy(n, d) PROVE GrantedBy(n, d)'
      BY DEF Granted, Node
    <3>1. CASE n # k
      BY <2>5, <2>7, <3>1 DEF GrantedBy
    <3>2. CASE n = k
      <4>1. nodes[k].locks[Resource] = Taken(d, Lease, client[d].start)
            /\ Resource \in DOMAIN nodes[k].locks
        BY <3>2 DEF GrantedBy
      <4>2. LeaseRuns(nodes[k].locks[Resource], client[c].start)
        BY <1>0, <2>0, <2>7, <4>1 DEF LeaseRuns, Taken, InLease
      <4> QED
        BY <2>3, <2>5, <2>7, <3>2, <4>1, <4>2 DEF GrantedBy
    <3> QED
      BY <3>1, <3>2
  <2>8. ASSUME NEW d \in Owners \ {c}
        PROVE  CallInv(d)'
    BY <2>2, <2>4, <2>7, KeepsGrants DEF InvRed
  <2>9. CallInv(c)'
    <3>1. ~Holds(c) /\ ~Holds(c)'
      BY <2>0, <2>1, <2>2, <2>4 DEF InvRed, CallInv, Holds
    <3>2. ASSUME InLease(c)
          PROVE  x.got <= Cardinality(GrantedSoFar(c)')
      <4>1. GrantedSoFar(c) \subseteq GrantedSoFar(c)'
        BY <1>0, <2>0, <2>1, <2>4, <2>7, <3>2 DEF GrantedSoFar, Granted, Node
      <4>2. GrantedSoFar(c)' \in SUBSET Node
        BY DEF GrantedSoFar, Granted, Node
      <4>3. client[c].got <= Cardinality(GrantedSoFar(c))
        BY <2>0, <3>2 DEF InvRed, CallInv
      <4>4. CASE ~ok
        BY <1>0, <2>1, <4>1, <4>2, <4>3, <4>4, SubsetsOfNodes
      <4>5. CASE ok
        <5>1. k \notin GrantedSoFar(c)
          BY <1>0 DEF GrantedSoFar
        <5>2. k \in GrantedSoFar(c)'
          BY <1>0, <2>0, <2>1, <2>3, <2>4, <2>5, <4>5 DEF GrantedSoFar, Granted, GrantedBy, Node
        <5>3. GrantedSoFar(c) \cup {k} \subseteq GrantedSoFar(c)'
          BY <4>1, <5>2
        <5>4. IsFiniteSet(GrantedSoFar(c)) /\ Cardinality(GrantedSoFar(c)) \in Nat
          BY <4>1, <4>2, SubsetsOfNodes
        <5>5. Cardinality(GrantedSoFar(c) \cup {k}) = Cardinality(GrantedSoFar(c)) + 1
          BY <5>1, <5>4, FS_AddElement
        <5>6. Cardinality(GrantedSoFar(c) \cup {k}) <= Cardinality(GrantedSoFar(c)')
              /\ Cardinality(GrantedSoFar(c)') \in Nat
          BY <4>2, <5>3, SubsetsOfNodes
        <5> QED
          BY <1>0, <2>1, <4>3, <4>5, <5>4, <5>5, <5>6
      <4> QED
        BY <4>4, <4>5
    <3> QED
      BY <1>0, <2>0, <2>1, <2>2, <2>4, <3>1, <3>2 DEF CallInv, InLease
  <2> QED
    BY <2>6, <2>8, <2>9 DEF InvRed
<1>3. ASSUME NEW c \in Owners, CountVotes(c)
      PROVE  InvRed'
  <2>0. client[c].call = "acquire" /\ client[c].next = N /\ ~Holds(c)
    BY <1>3 DEF CountVotes, InvRed, CallInv
  <2>1. CASE redlock_majority(client[c].got, N)
    <3> DEFINE x == [client[c] EXCEPT !.call = "none", !.until = client[c].start + Lease]
    <3>1. /\ x \in Client /\ x.call = "none" /\ x.until = client[c].start + Lease
          /\ x.start = client[c].start
      <4>1. client[c] \in Client
        BY <1>0
      <4>2. 0 \in 0 .. N /\ client[c].start + Lease \in Nat
        BY <1>0
      <4> QED
        BY <1>0, <4>1, <4>2 DEF Client
    <3>2. client' = [client EXCEPT ![c] = x] /\ UNCHANGED <<nodes, clock>>
      BY <1>3, <2>1 DEF CountVotes
    <3> HIDE DEF x
    <3>3. client'[c] = x
      BY <3>1, <3>2, OneClient
    <3>4. Granted(c)' = Granted(c) /\ GrantedSoFar(c) = Granted(c)
      BY <1>0, <2>0, <3>1, <3>2, <3>3 DEF Granted, GrantedBy, GrantedSoFar, Node
    <3>5. InLease(c) => 2 * Cardinality(Granted(c)) > N
      <4>1. Granted(c) \in SUBSET Node
        BY DEF Granted
      <4>2. Cardinality(Granted(c)) \in Nat
        BY <4>1, SubsetsOfNodes
      <4>3. InLease(c) => client[c].got <= Cardinality(Granted(c))
        BY <2>0, <3>4 DEF InvRed, CallInv
      <4> QED
        BY <1>0, <2>1, <4>2, <4>3, MajorityVotes
    <3>6. CallInv(c)'
      BY <1>0, <3>1, <3>2, <3>3, <3>4, <3>5 DEF CallInv, InLease, Holds, InvRed
    <3> QED
      BY <3>1, <3>2, <3>6, OnlyCalls
  <2>2. CASE ~redlock_majority(client[c].got, N)
    <3> DEFINE x == [client[c] EXCEPT !.call = "undo", !.next = 0]
    <3>1. /\ x \in Client /\ x.call = "undo" /\ x.until = client[c].until
          /\ x.start = client[c].start
      <4>1. client[c] \in Client
        BY <1>0
      <4>2. 0 \in 0 .. N /\ client[c].start + Lease \in Nat
        BY <1>0
      <4> QED
        BY <1>0, <4>1, <4>2 DEF Client
    <3>2. client' = [client EXCEPT ![c] = x] /\ UNCHANGED <<nodes, clock>>
      BY <1>3, <2>2 DEF CountVotes
    <3> HIDE DEF x
    <3>3. client'[c] = x
      BY <3>1, <3>2, OneClient
    <3>4. CallInv(c)'
      BY <1>0, <2>0, <3>1, <3>2, <3>3 DEF CallInv, Holds, InvRed
    <3> QED
      BY <3>1, <3>2, <3>4, OnlyCalls
  <2> QED
    BY <2>1, <2>2
<1>4. ASSUME NEW c \in Owners, CallRelease(c)
      PROVE  InvRed'
  <2> DEFINE x == [client[c] EXCEPT !.call = "release", !.next = 0, !.until = 0]
  <2>1. x \in Client /\ x.call = "release" /\ x.until = 0 /\ x.start = client[c].start
    <3>1. client[c] \in Client
      BY <1>0
    <3>2. 0 \in 0 .. N /\ client[c].start + Lease \in Nat
      BY <1>0
    <3> QED
      BY <1>0, <3>1, <3>2 DEF Client
  <2>2. client' = [client EXCEPT ![c] = x] /\ UNCHANGED <<nodes, clock>>
    BY <1>4 DEF CallRelease
  <2> HIDE DEF x
  <2>3. client'[c] = x
    BY <2>1, <2>2, OneClient
  <2>4. CallInv(c)'
    BY <1>0, <2>1, <2>2, <2>3 DEF CallInv, Holds, InvRed
  <2> QED
    BY <2>1, <2>2, <2>4, OnlyCalls
<1>5. ASSUME NEW c \in Owners, ReleaseNode(c)
      PROVE  InvRed'
  <2> DEFINE k == client[c].next
             x == [client[c] EXCEPT !.next = k + 1]
             y == lock_release(nodes[k], Resource, c)
  <2>0. client[c].call \in {"undo", "release"} /\ k < N /\ k \in Node /\ ~Holds(c)
    BY <1>0, <1>5 DEF ReleaseNode, Node, InvRed, CallInv
  <2>1. /\ x \in Client /\ x.until = client[c].until /\ x.start = client[c].start
        /\ x.call = client[c].call
    BY <1>0, <2>0 DEF Client
  <2>2. nodes' = [nodes EXCEPT ![k] = y] /\ client' = [client EXCEPT ![c] = x] /\ clock' = clock
    BY <1>5 DEF ReleaseNode
  <2>3. /\ RedNode(y)
        /\ Resource \in DOMAIN nodes[k].locks /\ nodes[k].locks[Resource].owner # c =>
             Resource \in DOMAIN y.locks /\ y.locks[Resource] = nodes[k].locks[Resource]
    BY <1>0, <2>0, VisitRelease
  <2> HIDE DEF x, y
  <2>4. /\ client' \in [Owners -> Client] /\ client'[c] = x
        /\ \A d \in Owners \ {c} : client'[d] = client[d]
    BY <2>1, <2>2, OneClient
  <2>5. /\ nodes' = [n \in Node |-> nodes'[n]] /\ nodes'[k] = y
        /\ \A n \in Node : n # k => nodes'[n] = nodes[n]
    BY <2>0, <2>2, RedFacts
  <2>6. RedTypeOK'
    BY <1>0, <2>2, <2>3, <2>4, <2>5, RedTypeNext DEF InvRed, RedTypeOK
  <2>7. ASSUME NEW d \in Owners \ {c}
        PROVE  CallInv(d)'
    <3>1. Granted(d) \subseteq Granted(d)'
      <4> SUFFICES ASSUME NEW n \in Node, GrantedBy(n, d) PROVE GrantedBy(n, d)'
        BY DEF Granted, Node
      <4>1. CASE n # k
        BY <2>4, <2>5, <4>1 DEF GrantedBy
      <4>2. CASE n = k
        <5>1. Resource \in DOMAIN nodes[k].locks /\ nodes[k].locks[Resource].owner = d
          BY <4>2 DEF GrantedBy, Taken
        <5> QED
          BY <2>3, <2>4, <2>5, <4>2, <5>1 DEF GrantedBy
      <4> QED
        BY <4>1, <4>2
    <3> QED
      BY <2>2, <2>4, <3>1, KeepsGrants DEF InvRed
  <2>8. CallInv(c)'
    BY <1>0, <2>0, <2>1, <2>2, <2>4 DEF CallInv, Holds, InvRed
  <2> QED
    BY <2>6, <2>7, <2>8 DEF InvRed
<1>6. ASSUME NEW c \in Owners, Return(c)
      PROVE  InvRed'
  <2> DEFINE x == [client[c] EXCEPT !.call = "none"]
  <2>0. client[c].call \in {"undo", "release"} /\ ~Holds(c)
    BY <1>6 DEF Return, InvRed, CallInv
  <2>1. /\ x \in Client /\ x.call = "none" /\ x.until = client[c].until
        /\ x.start = client[c].start
    BY <1>0 DEF Client
  <2>2. client' = [client EXCEPT ![c] = x] /\ UNCHANGED <<nodes, clock>>
    BY <1>6 DEF Return
  <2> HIDE DEF x
  <2>3. client'[c] = x
    BY <2>1, <2>2, OneClient
  <2>4. CallInv(c)'
    BY <1>0, <2>0, <2>1, <2>2, <2>3 DEF CallInv, Holds, InvRed
  <2> QED
    BY <2>1, <2>2, <2>4, OnlyCalls
<1>7. CASE RedTick
  <2>1. clock' = clock + 1 /\ UNCHANGED <<nodes, client>> /\ clock' \in 0 .. MaxTime
    BY <1>0, <1>7, DistLockAssumption DEF RedTick
  <2>2. RedTypeOK'
    BY <1>0, <2>1, RedFacts, RedTypeNext
  <2>3. ASSUME NEW c \in Owners
        PROVE  CallInv(c)'
    <3>1. Granted(c)' = Granted(c) /\ GrantedSoFar(c)' = GrantedSoFar(c)
      BY <2>1 DEF Granted, GrantedBy, GrantedSoFar
    <3>2. (Holds(c)' => Holds(c)) /\ (InLease(c)' => InLease(c))
      BY <1>0, <2>1 DEF Holds, InLease
    <3>3. client[c].start <= clock'
      BY <1>0, <2>1 DEF InvRed, CallInv
    <3> QED
      BY <2>1, <3>1, <3>2, <3>3 DEF InvRed, CallInv
  <2> QED
    BY <2>2, <2>3 DEF InvRed
<1>8. CASE UNCHANGED redVars
  BY <1>8
     DEF redVars, InvRed, RedTypeOK, CallInv, Holds, InLease, GrantedSoFar, Granted, GrantedBy
<1> QED
  BY <1>1, <1>2, <1>3, <1>4, <1>5, <1>6, <1>7, <1>8 DEF RedNext

LEMMA RedInitOk == RedInit => InvRed
<1> SUFFICES ASSUME RedInit PROVE InvRed
  OBVIOUS
<1>1. lock_manager_init \in LockManager_ /\ DOMAIN lock_manager_init.locks = {}
      /\ Len(lock_manager_init.queue) = 0
  <2>1. /\ {} \in SUBSET Resources /\ <<>> \in Seq(Owners)
        /\ [r \in {} |-> dist_lock_init] \in [{} -> DistLock_]
    OBVIOUS
  <2>2. lock_manager_init \in LockManager_
    BY <2>1, MakeManager DEF lock_manager_init
  <2> QED
    BY <2>2 DEF lock_manager_init
<1>2. LockManagerOK(lock_manager_init)
  BY <1>1, ManagerSet
<1>3. client \in [Owners -> Client]
      /\ \A c \in Owners : client[c].call = "none" /\ client[c].start = 0 /\ client[c].until = 0
  BY RedlockAssumption DEF RedInit, Client
<1>4. RedTypeOK
  BY <1>1, <1>2, <1>3, DistLockAssumption DEF RedInit, RedTypeOK
<1> QED
  BY <1>3, <1>4 DEF RedInit, InvRed, CallInv, Holds

LEMMA RedSafe == InvRed => OneHolder
<1> SUFFICES ASSUME InvRed PROVE OneHolder
  OBVIOUS
<1>0. N \in Nat /\ Cardinality(Node) = N /\ IsFiniteSet(Node)
  BY NodeSet, RedlockAssumption
<1>1. ASSUME NEW c \in Owners, NEW d \in Owners, Holds(c), Holds(d), c # d
      PROVE  FALSE
  <2>1. 2 * Cardinality(Granted(c)) > N /\ 2 * Cardinality(Granted(d)) > N
    BY <1>1 DEF InvRed, CallInv
  <2>2. Granted(c) \in SUBSET Node /\ Granted(d) \in SUBSET Node
    BY DEF Granted
  <2>3. Cardinality(Granted(c)) \in Nat /\ Cardinality(Granted(d)) \in Nat
    BY <2>2, SubsetsOfNodes
  <2>4. Granted(c) \cap Granted(d) # {}
    BY <1>0, <2>1, <2>2, <2>3, FS_MajoritiesIntersect
  <2>5. PICK n \in Node : GrantedBy(n, c) /\ GrantedBy(n, d)
    BY <2>4 DEF Granted
  <2> QED
    BY <1>1, <2>5 DEF GrantedBy, Taken
<1>2. ASSUME NEW c \in Owners, Holds(c)
      PROVE  2 * Cardinality({n \in Node : /\ lock_is_owned_by(nodes[n], Resource, c)
                                           /\ LeaseRuns(nodes[n].locks[Resource], clock)}) > N
  <2> DEFINE S == {n \in Node : /\ lock_is_owned_by(nodes[n], Resource, c)
                                /\ LeaseRuns(nodes[n].locks[Resource], clock)}
  <2>1. 2 * Cardinality(Granted(c)) > N /\ client[c].start + Lease > clock
    BY <1>2 DEF InvRed, CallInv, Holds
  <2>2. Granted(c) \subseteq S
    BY <2>1 DEF Granted, GrantedBy, Taken, lock_is_owned_by, LeaseRuns
  <2>3. S \in SUBSET Node
    OBVIOUS
  <2> HIDE DEF S
  <2>4. Cardinality(Granted(c)) <= Cardinality(S)
        /\ Cardinality(Granted(c)) \in Nat /\ Cardinality(S) \in Nat
    BY <2>2, <2>3, SubsetsOfNodes
  <2>5. 2 * Cardinality(S) > N
    BY <1>0, <2>1, <2>4
  <2> QED
    BY <2>5 DEF S
<1> QED
  BY <1>1, <1>2 DEF OneHolder, RedlockMutex, MajorityBehindHolder, InvRed

(* Redlock, for any number of nodes, any quorum and any lease, clients        *)
(* visiting the nodes in any interleaving while time passes: no two clients   *)
(* hold the lock, and a majority of nodes stands behind the one that does,    *)
(* provided a client does not ask again while it holds the lock.              *)
THEOREM RedlockExclusive ==
  ASSUME ~Retry
  PROVE  RedSpec => []OneHolder
<1>1. InvRed /\ [RedNext]_redVars => InvRed'
  BY RedNextKeeps
<1> QED
  BY <1>1, RedInitOk, RedSafe, PTL DEF RedSpec

(***************************************************************************)
(* Nothing is left behind.  A lock that a node records for a client has one *)
(* of three reasons: the client is collecting votes and this is one of them, *)
(* the client is on its way back and has not come by yet, or the lock ends   *)
(* no later than what the client's last success promised it.  The last needs *)
(* to know that a promise never reaches beyond the lease of the current call.*)
(***************************************************************************)

Excused(c, n) ==
  LET l == nodes[n].locks[Resource] IN
  \/ /\ client[c].call = "acquire" /\ n < client[c].next
     /\ l.at + l.lease <= client[c].start + Lease
  \/ client[c].call \in {"undo", "release"} /\ n >= client[c].next
  \/ l.at + l.lease <= client[c].until

InvLeft ==
  \A c \in Owners :
    /\ client[c].start <= clock
    /\ client[c].until <= client[c].start + Lease
    /\ \A n \in Node : lock_is_owned_by(nodes[n], Resource, c) => Excused(c, n)

(* A visit records no owner but the visitor, and only with its lease.         *)
LEMMA AcquireOwned ==
  ASSUME NEW m, RedNode(m), NEW o \in Owners, NEW t \in Nat, NEW d \in Owners,
         lock_is_owned_by(lock_acquire(m, Resource, o, Lease, t), Resource, d)
  PROVE  LET x == lock_acquire(m, Resource, o, Lease, t) IN
         \/ d = o /\ x.locks[Resource] = Taken(o, Lease, t)
         \/ lock_is_owned_by(m, Resource, d) /\ x.locks[Resource] = m.locks[Resource]
<1> DEFINE f == lock_manager_find_or_create(m, Resource)
           x == lock_acquire(m, Resource, o, Lease, t)
<1>0. m \in LockManager_ /\ Resource \in Resources /\ Lease \in Nat /\ Len(m.queue) <= QueueSize
  BY RedlockAssumption DEF RedNode
<1>1. /\ AcquireOk(m, Resource, t) =>
           /\ Resource \in DOMAIN f.locks
           /\ x.locks = [f.locks EXCEPT ![Resource] = Taken(o, Lease, t)]
      /\ ~AcquireOk(m, Resource, t) => x.locks = f.locks
  BY <1>0, AcquireFacts
<1>2. lock_is_owned_by(x, Resource, d)
  OBVIOUS
<1>3. CASE AcquireOk(m, Resource, t)
  <2>1. x.locks[Resource] = Taken(o, Lease, t)
    BY <1>1, <1>3
  <2> QED
    BY <1>2, <2>1 DEF lock_is_owned_by, Taken
<1>4. CASE ~AcquireOk(m, Resource, t)
  <2>1. lock_is_owned_by(f, Resource, d)
    BY <1>1, <1>2, <1>4 DEF lock_is_owned_by
  <2>2. Resource \in DOMAIN m.locks /\ f.locks[Resource] = m.locks[Resource]
    BY <2>1 DEF lock_manager_find_or_create, lock_is_owned_by, dist_lock_init, CanFind
  <2> QED
    BY <1>1, <1>4, <2>1, <2>2 DEF lock_is_owned_by
<1> QED
  BY <1>3, <1>4

LEMMA ReleaseOwned ==
  ASSUME NEW m, RedNode(m), NEW o \in Owners, NEW d \in Owners,
         lock_is_owned_by(lock_release(m, Resource, o), Resource, d)
  PROVE  /\ d # o
         /\ lock_is_owned_by(m, Resource, d)
         /\ lock_release(m, Resource, o).locks[Resource] = m.locks[Resource]
<1> DEFINE f == lock_manager_find_or_create(m, Resource)
<1>1. CASE lock_is_owned_by(m, Resource, o)
  <2>1. lock_release(m, Resource, o) =
          [m EXCEPT !.locks[Resource].state = "FREE", !.locks[Resource].owner = NoOwner,
                    !.locks[Resource].lease = 0,
                    !.queue = IF @ = <<>> THEN @ ELSE Tail(@)]
    BY <1>1 DEF lock_release
  <2>2. m \in LockManager_ /\ Resource \in DOMAIN m.locks
    BY <1>1 DEF RedNode, lock_is_owned_by
  <2>3. lock_release(m, Resource, o).locks[Resource].state = "FREE"
    BY <2>1, <2>2 DEF LockManager_, DistLock_
  <2> QED
    BY <2>3 DEF lock_is_owned_by
<1>2. CASE ~lock_is_owned_by(m, Resource, o)
  <2>1. lock_release(m, Resource, o) = f
    BY <1>2 DEF lock_release
  <2>2. lock_is_owned_by(f, Resource, d)
    BY <2>1
  <2>3. Resource \in DOMAIN m.locks /\ f.locks[Resource] = m.locks[Resource]
    BY <2>2 DEF lock_manager_find_or_create, lock_is_owned_by, dist_lock_init, CanFind
  <2>4. lock_is_owned_by(m, Resource, d)
    BY <2>2, <2>3 DEF lock_is_owned_by
  <2> QED
    BY <1>2, <2>1, <2>3, <2>4
<1> QED
  BY <1>1, <1>2

LEMMA LeftNextKeeps ==
  ASSUME InvRed, InvLeft, [RedNext]_redVars
  PROVE  InvLeft'
<1>0. /\ client \in [Owners -> Client] /\ clock \in Nat
      /\ nodes = [n \in Node |-> nodes[n]]
      /\ \A n \in Node : RedNode(nodes[n])
      /\ \A c \in Owners :
           /\ client[c].call \in {"none", "acquire", "undo", "release"}
           /\ client[c].next \in 0 .. N /\ client[c].got \in 0 .. N
           /\ client[c].start \in Nat /\ client[c].until \in Nat
      /\ N \in Nat /\ Lease \in Nat
  BY RedFacts
<1>a. \A c \in Owners, n \in Node :
        lock_is_owned_by(nodes[n], Resource, c) =>
          nodes[n].locks[Resource].at \in Nat /\ nodes[n].locks[Resource].lease \in Nat
  <2> SUFFICES ASSUME NEW c \in Owners, NEW n \in Node,
                      lock_is_owned_by(nodes[n], Resource, c)
               PROVE  nodes[n].locks[Resource].at \in Nat /\ nodes[n].locks[Resource].lease \in Nat
    OBVIOUS
  <2>1. nodes[n] \in LockManager_ /\ Resource \in DOMAIN nodes[n].locks
    BY <1>0 DEF RedNode, lock_is_owned_by
  <2>2. nodes[n].locks[Resource] \in DistLock_
    BY <2>1, LockType
  <2> QED
    BY <2>2 DEF DistLock_
(* A step that changes no node, and of the clients only c.                    *)
<1>b. ASSUME NEW c \in Owners, UNCHANGED <<nodes, clock>>,
             \A d \in Owners \ {c} : client'[d] = client[d],
             client'[c].start <= clock, client'[c].until <= client'[c].start + Lease,
             \A n \in Node : lock_is_owned_by(nodes[n], Resource, c) => Excused(c, n)'
      PROVE  InvLeft'
  BY <1>b DEF InvLeft, Excused
<1>1. ASSUME NEW c \in Owners, CallAcquire(c)
      PROVE  InvLeft'
  <2>1. /\ UNCHANGED <<nodes, clock>> /\ client[c].call = "none"
        /\ \A d \in Owners \ {c} : client'[d] = client[d]
        /\ client'[c].start = clock /\ client'[c].until = client[c].until
    BY <1>0, <1>1 DEF CallAcquire, Client
  <2>2. client[c].start <= clock /\ client[c].until <= client[c].start + Lease
    BY DEF InvLeft
  <2>3. client'[c].start <= clock /\ client'[c].until <= client'[c].start + Lease
    BY <1>0, <2>1, <2>2
  <2>4. \A n \in Node : lock_is_owned_by(nodes[n], Resource, c) => Excused(c, n)'
    BY <2>1 DEF InvLeft, Excused
  <2> QED
    BY <1>b, <2>1, <2>3, <2>4
<1>2. ASSUME NEW c \in Owners, AcquireNode(c)
      PROVE  InvLeft'
  <2> DEFINE k == client[c].next
             y == lock_acquire(nodes[k], Resource, c, Lease, client[c].start)
  <2>1. /\ client[c].call = "acquire" /\ k \in Node /\ clock' = clock
        /\ nodes' = [nodes EXCEPT ![k] = y]
    BY <1>0, <1>2 DEF AcquireNode, Node
  <2>2. /\ \A d \in Owners \ {c} : client'[d] = client[d]
        /\ client'[c].start = client[c].start /\ client'[c].until = client[c].until
        /\ client'[c].next = k + 1 /\ client'[c].call = "acquire"
    BY <1>0, <1>2 DEF AcquireNode, Client
  <2>3. \A d \in Owners : client'[d].start = client[d].start /\ client'[d].until = client[d].until
    BY <2>2
  <2>4. ASSUME NEW d \in Owners, NEW n \in Node, lock_is_owned_by(nodes[n], Resource, d),
               nodes'[n].locks[Resource] = nodes[n].locks[Resource]
        PROVE  Excused(d, n)'
    <3>1. Excused(d, n)
      BY <2>4 DEF InvLeft
    <3>2. CASE d = c
      <4>1. n \in 0 .. N - 1 /\ k \in 0 .. N
        BY <1>0 DEF Node
      <4> QED
        BY <1>0, <2>1, <2>2, <2>4, <3>1, <3>2, <4>1 DEF Excused
    <3>3. CASE d # c
      BY <2>2, <2>4, <3>1, <3>3 DEF Excused
    <3> QED
      BY <3>2, <3>3
  <2>5. ASSUME NEW d \in Owners, NEW n \in Node, lock_is_owned_by(nodes'[n], Resource, d)
        PROVE  Excused(d, n)'
    <3>1. CASE n # k
      BY <1>0, <2>1, <2>4, <2>5, <3>1
    <3>2. CASE n = k
      <4>1. nodes'[n] = y
        BY <1>0, <2>1, <3>2
      <4>2. RedNode(nodes[k]) /\ client[c].start \in Nat
        BY <1>0, <2>1
      <4>3. \/ d = c /\ y.locks[Resource] = Taken(c, Lease, client[c].start)
            \/ lock_is_owned_by(nodes[k], Resource, d)
               /\ y.locks[Resource] = nodes[k].locks[Resource]
        BY <2>5, <4>1, <4>2, AcquireOwned
      <4>4. CASE d = c /\ y.locks[Resource] = Taken(c, Lease, client[c].start)
        <5>1. /\ nodes'[n].locks[Resource].at = client[c].start
              /\ nodes'[n].locks[Resource].lease = Lease
          BY <4>1, <4>4 DEF Taken
        <5> QED
          BY <1>0, <2>2, <3>2, <4>4, <5>1 DEF Excused
      <4>5. CASE /\ lock_is_owned_by(nodes[k], Resource, d)
                 /\ y.locks[Resource] = nodes[k].locks[Resource]
        BY <2>4, <3>2, <4>1, <4>5
      <4> QED
        BY <4>3, <4>4, <4>5
    <3> QED
      BY <3>1, <3>2
  <2> QED
    BY <2>1, <2>3, <2>5 DEF InvLeft
<1>3. ASSUME NEW c \in Owners, CountVotes(c)
      PROVE  InvLeft'
  <2>1. /\ client[c].call = "acquire" /\ client[c].next = N
        /\ UNCHANGED <<nodes, clock>>
        /\ \A d \in Owners \ {c} : client'[d] = client[d]
        /\ client'[c].start = client[c].start
    BY <1>0, <1>3 DEF CountVotes, Client
  <2>2. \/ client'[c].call = "none" /\ client'[c].until = client[c].start + Lease
        \/ /\ client'[c].call = "undo" /\ client'[c].next = 0
           /\ client'[c].until = client[c].until
    BY <1>0, <1>3 DEF CountVotes, Client
  <2>3. client[c].start <= clock /\ client[c].until <= client[c].start + Lease
    BY DEF InvLeft
  <2>4. client'[c].start <= clock /\ client'[c].until <= client'[c].start + Lease
    BY <1>0, <2>1, <2>2, <2>3
  <2>5. ASSUME NEW n \in Node, lock_is_owned_by(nodes[n], Resource, c)
        PROVE  Excused(c, n)'
    <3>1. Excused(c, n) /\ n >= 0
      BY <2>5 DEF InvLeft, Node
    <3>2. nodes[n].locks[Resource].at \in Nat /\ nodes[n].locks[Resource].lease \in Nat
      BY <1>a, <2>5
    <3> QED
      BY <1>0, <2>1, <2>2, <2>3, <3>1, <3>2 DEF Excused
  <2> QED
    BY <1>b, <2>1, <2>4, <2>5
<1>4. ASSUME NEW c \in Owners, CallRelease(c)
      PROVE  InvLeft'
  <2>1. /\ UNCHANGED <<nodes, clock>> /\ client'[c].call = "release" /\ client'[c].next = 0
        /\ \A d \in Owners \ {c} : client'[d] = client[d]
        /\ client'[c].start = client[c].start /\ client'[c].until = 0
    BY <1>0, <1>4 DEF CallRelease, Client
  <2>2. client'[c].start <= clock /\ client'[c].until <= client'[c].start + Lease
    BY <1>0, <2>1 DEF InvLeft
  <2>3. \A n \in Node : n >= 0
    BY DEF Node
  <2>4. \A n \in Node : Excused(c, n)'
    BY <2>1, <2>3 DEF Excused
  <2> QED
    BY <1>b, <2>1, <2>2, <2>4
<1>5. ASSUME NEW c \in Owners, ReleaseNode(c)
      PROVE  InvLeft'
  <2> DEFINE k == client[c].next
             y == lock_release(nodes[k], Resource, c)
  <2>1. /\ client[c].call \in {"undo", "release"} /\ k \in Node /\ clock' = clock
        /\ nodes' = [nodes EXCEPT ![k] = y]
    BY <1>0, <1>5 DEF ReleaseNode, Node
  <2>2. /\ \A d \in Owners \ {c} : client'[d] = client[d]
        /\ client'[c].start = client[c].start /\ client'[c].until = client[c].until
        /\ client'[c].next = k + 1 /\ client'[c].call = client[c].call
    BY <1>0, <1>5 DEF ReleaseNode, Client
  <2>3. \A d \in Owners : client'[d].start = client[d].start /\ client'[d].until = client[d].until
    BY <2>2
  <2>4. ASSUME NEW d \in Owners, NEW n \in Node, lock_is_owned_by(nodes[n], Resource, d),
               nodes'[n].locks[Resource] = nodes[n].locks[Resource], d # c \/ n # k
        PROVE  Excused(d, n)'
    <3>1. Excused(d, n)
      BY <2>4 DEF InvLeft
    <3>2. CASE d = c
      <4>1. n \in 0 .. N - 1 /\ k \in 0 .. N /\ n # k
        BY <1>0, <2>4, <3>2 DEF Node
      <4>2. n >= k => n >= k + 1
        BY <1>0, <4>1
      <4> QED
        BY <2>1, <2>2, <2>4, <3>1, <3>2, <4>2 DEF Excused
    <3>3. CASE d # c
      BY <2>2, <2>4, <3>1, <3>3 DEF Excused
    <3> QED
      BY <3>2, <3>3
  <2>5. ASSUME NEW d \in Owners, NEW n \in Node, lock_is_owned_by(nodes'[n], Resource, d)
        PROVE  Excused(d, n)'
    <3>1. CASE n # k
      BY <1>0, <2>1, <2>4, <2>5, <3>1
    <3>2. CASE n = k
      <4>1. nodes'[n] = y /\ RedNode(nodes[k])
        BY <1>0, <2>1, <3>2
      <4>2. /\ d # c /\ lock_is_owned_by(nodes[k], Resource, d)
            /\ y.locks[Resource] = nodes[k].locks[Resource]
        BY <2>5, <4>1, ReleaseOwned
      <4> QED
        BY <2>4, <3>2, <4>1, <4>2
    <3> QED
      BY <3>1, <3>2
  <2> QED
    BY <2>1, <2>3, <2>5 DEF InvLeft
<1>6. ASSUME NEW c \in Owners, Return(c)
      PROVE  InvLeft'
  <2>1. /\ UNCHANGED <<nodes, clock>> /\ client[c].call \in {"undo", "release"}
        /\ client[c].next = N
        /\ \A d \in Owners \ {c} : client'[d] = client[d]
        /\ client'[c].start = client[c].start /\ client'[c].until = client[c].until
    BY <1>0, <1>6 DEF Return, Client
  <2>2. client'[c].start <= clock /\ client'[c].until <= client'[c].start + Lease
    BY <1>0, <2>1 DEF InvLeft
  <2>3. \A n \in Node : ~(n >= N)
    BY <1>0 DEF Node
  <2>4. \A n \in Node : lock_is_owned_by(nodes[n], Resource, c) => Excused(c, n)'
    BY <2>1, <2>3 DEF InvLeft, Excused
  <2> QED
    BY <1>b, <2>1, <2>2, <2>4
<1>7. CASE RedTick
  <2>1. clock' = clock + 1 /\ UNCHANGED <<nodes, client>>
    BY <1>7 DEF RedTick
  <2> QED
    BY <1>0, <2>1 DEF InvLeft, Excused
<1>8. CASE UNCHANGED redVars
  BY <1>8 DEF redVars, InvLeft, Excused
<1> QED
  BY <1>1, <1>2, <1>3, <1>4, <1>5, <1>6, <1>7, <1>8 DEF RedNext

(* However the walks of several clients interleave, no node keeps a running   *)
(* lease for a client that neither holds the lock, nor is collecting votes,   *)
(* nor has yet to come by on its way back.                                    *)
THEOREM RedlockLeavesNothing ==
  ASSUME ~Retry
  PROVE  RedSpec => []NothingLeftBehind
<1>1. InvRed /\ [RedNext]_redVars => InvRed'
  BY RedNextKeeps
<1>2. InvRed /\ InvLeft /\ [RedNext]_redVars => InvLeft'
  BY LeftNextKeeps
<1>3. RedInit => InvLeft
  <2> SUFFICES ASSUME RedInit PROVE InvLeft
    OBVIOUS
  <2>1. \A n \in Node : DOMAIN nodes[n].locks = {}
    BY DEF RedInit, lock_manager_init
  <2>2. Lease \in Nat
    BY RedlockAssumption
  <2> QED
    BY <2>1, <2>2 DEF RedInit, InvLeft, lock_is_owned_by
<1>4. InvRed /\ InvLeft => NothingLeftBehind
  <2> SUFFICES ASSUME InvRed, InvLeft, NEW c \in Owners, NEW n \in Node,
                      lock_is_owned_by(nodes[n], Resource, c),
                      LeaseRuns(nodes[n].locks[Resource], clock)
               PROVE  \/ Holds(c)
                      \/ client[c].call = "acquire" /\ n < client[c].next
                      \/ client[c].call \in {"undo", "release"} /\ n >= client[c].next
    BY DEF NothingLeftBehind
  <2>1. Excused(c, n)
    BY DEF InvLeft
  <2>2. nodes[n] \in LockManager_ /\ Resource \in DOMAIN nodes[n].locks
    BY RedFacts DEF RedNode, lock_is_owned_by
  <2>3. nodes[n].locks[Resource] \in DistLock_
    BY <2>2, LockType
  <2>4. nodes[n].locks[Resource].at \in Nat /\ nodes[n].locks[Resource].lease \in Nat
        /\ client[c].until \in Nat /\ clock \in Nat
    BY <2>3, RedFacts DEF DistLock_
  <2> QED
    BY <2>1, <2>4 DEF Excused, LeaseRuns, Holds
<1> QED
  BY <1>1, <1>2, <1>3, <1>4, RedInitOk, PTL DEF RedSpec

-----------------------------------------------------------------------------
(***************************************************************************)
(* Fencing.  The guard of a resource is the number of the last accepted     *)
(* write and the number of the newest writer at once, so that a write below *)
(* it, the only kind that could be stale, is refused.  A client that        *)
(* presents the store's pointer instead of its number is not fenced off     *)
(* (ByPointer, see the README), and the hypothesis excludes it.             *)
(***************************************************************************)

FenceInv ==
  /\ FenceTypeOK
  /\ IsFiniteSet(DOMAIN tokens)
  /\ \A r \in Protected : guard[r] = last[r] /\ last[r] = newest[r]

LEMMA FenceInitOk == FenceInit => FenceInv
<1> SUFFICES ASSUME FenceInit PROVE FenceInv
  OBVIOUS
<1>1. DOMAIN tokens = {} /\ tokens \in [{} -> FencingToken]
  BY DEF FenceInit
<1>2. IsFiniteSet(DOMAIN tokens) /\ Cardinality(DOMAIN tokens) = 0
  BY <1>1, FS_EmptySet
<1> QED
  BY <1>1, <1>2, FencingAssumption DEF FenceInit, FenceInv, FenceTypeOK

LEMMA FenceNextKeeps ==
  ASSUME ~ByPointer, FenceInv, [FenceNext]_fenceVars
  PROVE  FenceInv'
<1>0. /\ DOMAIN tokens \subseteq Protected /\ IsFiniteSet(DOMAIN tokens)
      /\ Cardinality(DOMAIN tokens) <= MaxTokens /\ MaxTokens \in Nat
      /\ tokens \in [DOMAIN tokens -> FencingToken]
      /\ global_counter \in Nat \ {0}
      /\ guard \in [Protected -> Nat]
      /\ issued \in [Protected -> [Clients -> Nat]]
      /\ last \in [Protected -> Nat] /\ newest \in [Protected -> Nat]
      /\ \A r \in Protected : guard[r] = last[r] /\ last[r] = newest[r]
  BY FencingAssumption DEF FenceInv, FenceTypeOK
<1>1. ASSUME NEW r \in Protected, NEW c \in Clients, fencing_issue_token(r, c)
      PROVE  FenceInv'
  <2> DEFINE v == [value |-> global_counter, owner |-> c, valid |-> TRUE]
  <2>1. /\ r \in DOMAIN tokens \/ Cardinality(DOMAIN tokens) < MaxTokens
        /\ tokens' = [q \in DOMAIN tokens \cup {r} |-> IF q = r THEN v ELSE tokens[q]]
        /\ global_counter' = global_counter + 1
        /\ issued' = [issued EXCEPT ![r][c] = global_counter]
        /\ UNCHANGED <<guard, last, newest>>
    BY <1>1 DEF fencing_issue_token
  <2>2. v \in FencingToken
    BY <1>0 DEF FencingToken
  <2> HIDE DEF v
  <2>3. DOMAIN tokens' = DOMAIN tokens \cup {r} /\ tokens' \in [DOMAIN tokens' -> FencingToken]
    BY <1>0, <2>1, <2>2
  <2>4. IsFiniteSet(DOMAIN tokens') /\ Cardinality(DOMAIN tokens') <= MaxTokens
    <3>1. CASE r \in DOMAIN tokens
      <4>1. DOMAIN tokens' = DOMAIN tokens
        BY <2>3, <3>1
      <4> QED
        BY <1>0, <4>1
    <3>2. CASE r \notin DOMAIN tokens
      <4>1. /\ IsFiniteSet(DOMAIN tokens \cup {r})
            /\ Cardinality(DOMAIN tokens \cup {r}) = Cardinality(DOMAIN tokens) + 1
        BY <1>0, <3>2, FS_AddElement
      <4>2. Cardinality(DOMAIN tokens) \in Nat
        BY <1>0, FS_CardinalityType
      <4> QED
        BY <1>0, <2>1, <2>3, <3>2, <4>1, <4>2
    <3> QED
      BY <3>1, <3>2
  <2>5. issued' \in [Protected -> [Clients -> Nat]]
    BY <1>0, <2>1
  <2>6. /\ DOMAIN tokens' \subseteq Protected /\ global_counter' \in Nat \ {0}
        /\ \A q \in Protected : guard'[q] = last'[q] /\ last'[q] = newest'[q]
    BY <1>0, <2>1, <2>3
  <2>7. guard' \in [Protected -> Nat] /\ last' \in [Protected -> Nat] /\ newest' \in [Protected -> Nat]
    BY <1>0, <2>1
  <2> QED
    BY <2>3, <2>4, <2>5, <2>6, <2>7 DEF FenceInv, FenceTypeOK
<1>2. ASSUME NEW r \in Protected, NEW c \in Clients, Write(r, c)
      PROVE  FenceInv'
  <2> DEFINE v == issued[r][c]
  <2>1. /\ v >= guard[r] /\ v \in Nat
        /\ guard' = [guard EXCEPT ![r] = IF v > @ THEN v ELSE @]
        /\ last' = [last EXCEPT ![r] = v]
        /\ newest' = [newest EXCEPT ![r] = IF v > @ THEN v ELSE @]
        /\ UNCHANGED <<tokens, global_counter, issued>>
    BY <1>0, <1>2 DEF Write, fencing_check_and_advance
  <2> HIDE DEF v
  <2>2. guard' = [guard EXCEPT ![r] = v] /\ newest' = [newest EXCEPT ![r] = v]
    <3>1. guard[r] \in Nat /\ newest[r] = guard[r]
      BY <1>0
    <3>2. /\ (IF v > guard[r] THEN v ELSE guard[r]) = v
          /\ (IF v > newest[r] THEN v ELSE newest[r]) = v
      BY <2>1, <3>1
    <3> QED
      BY <1>0, <2>1, <3>2
  <2> QED
    BY <1>0, <2>1, <2>2 DEF FenceInv, FenceTypeOK
<1>3. ASSUME NEW r \in Protected, fencing_revoke_token(r)
      PROVE  FenceInv'
  <2>1. /\ r \in DOMAIN tokens /\ tokens' = [tokens EXCEPT ![r].valid = FALSE]
        /\ UNCHANGED <<global_counter, guard, issued, last, newest>>
    BY <1>3 DEF fencing_revoke_token
  <2>2. [tokens[r] EXCEPT !.valid = FALSE] \in FencingToken
    <3>1. tokens[r] \in FencingToken
      BY <1>0, <2>1
    <3> QED
      BY <3>1 DEF FencingToken
  <2>3. DOMAIN tokens' = DOMAIN tokens /\ tokens' \in [DOMAIN tokens -> FencingToken]
    BY <1>0, <2>1, <2>2
  <2> QED
    BY <1>0, <2>1, <2>3 DEF FenceInv, FenceTypeOK
<1>4. CASE UNCHANGED fenceVars
  BY <1>4 DEF fenceVars, FenceInv, FenceTypeOK
<1> QED
  BY <1>1, <1>2, <1>3, <1>4 DEF FenceNext

-----------------------------------------------------------------------------
(***************************************************************************)
(* Idempotency.  The counters of the slots order the cached requests as     *)
(* their last uses do, so the slot that the eviction picks holds the one    *)
(* used longest ago.  A request that is not excused has at most one         *)
(* delivery that was or is being executed, and once that is over it is in   *)
(* the cache with its answer, so that no later delivery is called new.      *)
(***************************************************************************)

LruOrder ==
  /\ \A i \in 1 .. count : slot[i].lru <= lru_counter
  /\ \A i, j \in 1 .. count : slot[i].lru = slot[j].lru => i = j
  /\ \A i, j \in 1 .. count :
       slot[i].lru < slot[j].lru => touched[slot[i].id] < touched[slot[j].id]

Deliveries ==
  /\ \A r \in Requests : executing[r] + executed[r] <= loop[r].attempts
  /\ \A r \in Requests \ excused :
       /\ executing[r] + executed[r] <= 1
       /\ executed[r] = 1 => Found(r) # {}
       /\ \A i \in Found(r) : answer[r] # NoRequest => slot[i].result = answer[r]

IdemInv ==
  /\ IdemTypeOK
  /\ uses \in Nat
  /\ answer \in [Requests -> Results \cup {NoRequest}]
  /\ HoldsMostRecent
  /\ LruOrder
  /\ Deliveries

LEMMA IdemFacts ==
  ASSUME IdemInv
  PROVE  /\ slot \in [1 .. CacheSize -> IdempotentRequest]
         /\ count \in Nat /\ count <= CacheSize /\ CacheSize \in Nat \ {0}
         /\ lru_counter \in Nat /\ uses \in Nat
         /\ \A i \in 1 .. CacheSize :
              /\ slot[i].id \in Requests \cup {NoRequest} /\ slot[i].lru \in Nat
              /\ slot[i].result \in Results \cup {NoRequest}
         /\ loop \in [Requests -> [attempts : 0 .. MaxRetries + 1, waits : BOOLEAN]]
         /\ executing \in [Requests -> 0 .. MaxRetries + 1]
         /\ executed \in [Requests -> Nat]
         /\ touched \in [Requests -> Nat]
         /\ \A r \in Requests : touched[r] <= uses
         /\ MaxRetries \in Nat
<1>1. /\ slot \in [1 .. CacheSize -> IdempotentRequest]
      /\ count \in Nat /\ count <= CacheSize /\ CacheSize \in Nat \ {0}
      /\ lru_counter \in Nat /\ uses \in Nat
      /\ loop \in [Requests -> [attempts : 0 .. MaxRetries + 1, waits : BOOLEAN]]
      /\ executing \in [Requests -> 0 .. MaxRetries + 1]
      /\ executed \in [Requests -> Nat] /\ touched \in [Requests -> 0 .. uses]
      /\ MaxRetries \in Nat
  BY IdempotencyAssumption DEF IdemInv, IdemTypeOK
<1>2. \A i \in 1 .. CacheSize : slot[i] \in IdempotentRequest
  BY <1>1
<1>3. touched \in [Requests -> Nat] /\ \A r \in Requests : touched[r] <= uses
  BY <1>1
<1> QED
  BY <1>1, <1>2, <1>3 DEF IdempotentRequest

(* The eviction picks a slot, and all other cached requests were used later.  *)
LEMMA EvictsOldest ==
  ASSUME IdemInv, count > 0
  PROVE  /\ LeastRecent \in 1 .. count
         /\ \A j \in 1 .. count :
              j # LeastRecent => touched[slot[LeastRecent].id] < touched[slot[j].id]
<1>0. count \in Nat /\ \A i \in 1 .. count : slot[i].lru \in Nat
  BY IdemFacts
<1> DEFINE T == {slot[i].lru : i \in 1 .. count}
           R == {p \in Nat \X Nat : p[1] < p[2]}
<1>1. T \subseteq Nat /\ T # {}
  <2>1. 1 \in 1 .. count
    BY <1>0
  <2> QED
    BY <1>0, <2>1
<1>2. IsWellFoundedOn(R, Nat)
  BY NatLessThanWellFounded, Zenon DEF OpToRel
<1> HIDE DEF T
<1>3. PICK x \in T : \A y \in T : ~(<<y, x>> \in R)
  <2> HIDE DEF R
  <2> QED
    BY <1>1, <1>2, WFMin
<1>4. \A y \in T : x <= y
  <2> SUFFICES ASSUME NEW y \in T, y < x PROVE FALSE
    BY <1>1
  <2>1. <<y, x>> \in Nat \X Nat
    BY <1>1
  <2> QED
    BY <1>3, <2>1
<1>5. PICK m \in 1 .. count : slot[m].lru = x
  BY DEF T
<1>6. \A j \in 1 .. count : slot[m].lru <= slot[j].lru
  BY <1>4, <1>5 DEF T
<1>7. \A j \in 1 .. count : slot[m].lru < slot[j].lru \/ (slot[m].lru = slot[j].lru /\ m <= j)
  BY <1>0, <1>6 DEF IdemInv, LruOrder
<1>8. /\ LeastRecent \in 1 .. count
      /\ \A j \in 1 .. count : \/ slot[LeastRecent].lru < slot[j].lru
                               \/ slot[LeastRecent].lru = slot[j].lru /\ LeastRecent <= j
  BY <1>7 DEF LeastRecent
<1> HIDE DEF LeastRecent
<1> QED
  BY <1>8 DEF IdemInv, LruOrder

(* A use of request r: the other requests that are cached afterwards were     *)
(* before, with the counters they had, and r is cached with a newer one.  A   *)
(* request that leaves the cache leaves it full of younger ones.              *)
CacheUse(r) ==
  /\ count' \in 0 .. CacheSize /\ count <= count'
  /\ lru_counter' \in Nat /\ lru_counter' > lru_counter
  /\ \A i, j \in 1 .. count' : slot'[i].id = slot'[j].id => i = j
  /\ \A i \in 1 .. count' :
       \/ slot'[i].id = r /\ slot'[i].lru = lru_counter'
       \/ /\ slot'[i].id # r
          /\ \E k \in 1 .. count : /\ slot[k].id = slot'[i].id /\ slot[k].lru = slot'[i].lru
                                   /\ slot[k].result = slot'[i].result
  /\ \E i \in 1 .. count' : slot'[i].id = r
  /\ \A q \in Requests \ {r} :
       Found(q) # {} /\ Found(q)' = {} =>
         /\ count' = CacheSize
         /\ \A k \in 1 .. count : slot[k].id # q => touched[q] < touched[slot[k].id]

LEMMA UseKeepsOrder ==
  ASSUME IdemInv, NEW r \in Requests, CacheUse(r), Touch(r)
  PROVE  HoldsMostRecent' /\ LruOrder' /\ touched' \in [Requests -> 0 .. uses'] /\ uses' \in Nat
<1>0. /\ count \in Nat /\ lru_counter \in Nat /\ uses \in Nat /\ CacheSize \in Nat
      /\ count <= CacheSize
      /\ touched \in [Requests -> Nat] /\ \A q \in Requests : touched[q] <= uses
      /\ \A i \in 1 .. count : /\ slot[i].lru \in Nat /\ slot[i].lru <= lru_counter
                               /\ slot[i].id \in Requests /\ touched[slot[i].id] > 0
      /\ \A i, j \in 1 .. count : slot[i].id = slot[j].id => i = j
      /\ \A i, j \in 1 .. count : slot[i].lru = slot[j].lru => i = j
      /\ \A i, j \in 1 .. count :
           slot[i].lru < slot[j].lru => touched[slot[i].id] < touched[slot[j].id]
      /\ \A q \in Requests :
           (touched[q] > 0 /\ Found(q) = {}) =>
             /\ count = CacheSize
             /\ \A i \in 1 .. count : touched[q] < touched[slot[i].id]
  <2>1. \A i \in 1 .. count : i \in 1 .. CacheSize
    BY IdemFacts
  <2>2. /\ count \in Nat /\ lru_counter \in Nat /\ uses \in Nat /\ CacheSize \in Nat
        /\ count <= CacheSize
        /\ touched \in [Requests -> Nat] /\ \A q \in Requests : touched[q] <= uses
        /\ \A i \in 1 .. count : slot[i].lru \in Nat
    BY <2>1, IdemFacts
  <2> QED
    BY <2>2 DEF IdemInv, HoldsMostRecent, LruOrder
<1>1. /\ uses' = uses + 1 /\ touched'[r] = uses + 1
      /\ \A q \in Requests \ {r} : touched'[q] = touched[q]
      /\ touched' \in [Requests -> 0 .. uses'] /\ uses' \in Nat
  BY <1>0 DEF Touch
<1>2. /\ count' \in 0 .. CacheSize /\ count <= count'
      /\ lru_counter' \in Nat /\ lru_counter' > lru_counter
      /\ \A i, j \in 1 .. count' : slot'[i].id = slot'[j].id => i = j
  BY DEF CacheUse
<1>3. ASSUME NEW i \in 1 .. count'
      PROVE  \/ slot'[i].id = r /\ slot'[i].lru = lru_counter' /\ touched'[slot'[i].id] = uses + 1
             \/ /\ slot'[i].id # r
                /\ \E k \in 1 .. count : /\ slot[k].id = slot'[i].id /\ slot[k].lru = slot'[i].lru
                                         /\ touched'[slot'[i].id] = touched[slot[k].id]
  BY <1>0, <1>1 DEF CacheUse
<1>4. ASSUME NEW i \in 1 .. count'
      PROVE  /\ slot'[i].id \in Requests /\ touched'[slot'[i].id] > 0
             /\ slot'[i].lru <= lru_counter'
  BY <1>0, <1>2, <1>3
<1>5. ASSUME NEW i \in 1 .. count', NEW j \in 1 .. count'
      PROVE  /\ slot'[i].lru = slot'[j].lru => i = j
             /\ slot'[i].lru < slot'[j].lru => touched'[slot'[i].id] < touched'[slot'[j].id]
  <2>1. CASE slot'[i].id = r /\ slot'[j].id = r
    BY <1>0, <1>2, <1>3, <2>1
  <2>2. CASE slot'[i].id = r /\ slot'[j].id # r
    <3>1. slot'[i].lru = lru_counter'
      BY <1>3, <2>2
    <3>2. PICK k \in 1 .. count : slot[k].lru = slot'[j].lru
      BY <1>3, <2>2
    <3> QED
      BY <1>0, <1>2, <3>1, <3>2
  <2>3. CASE slot'[i].id # r /\ slot'[j].id = r
    <3>1. slot'[j].lru = lru_counter' /\ touched'[slot'[j].id] = uses + 1
      BY <1>3, <2>3
    <3>2. PICK k \in 1 .. count : /\ slot[k].lru = slot'[i].lru
                                  /\ touched'[slot'[i].id] = touched[slot[k].id]
      BY <1>3, <2>3
    <3> QED
      BY <1>0, <1>2, <3>1, <3>2
  <2>4. CASE slot'[i].id # r /\ slot'[j].id # r
    <3>1. PICK k \in 1 .. count : /\ slot[k].id = slot'[i].id /\ slot[k].lru = slot'[i].lru
                                  /\ touched'[slot'[i].id] = touched[slot[k].id]
      BY <1>3, <2>4
    <3>2. PICK m \in 1 .. count : /\ slot[m].id = slot'[j].id /\ slot[m].lru = slot'[j].lru
                                  /\ touched'[slot'[j].id] = touched[slot[m].id]
      BY <1>3, <2>4
    <3> QED
      BY <1>0, <1>2, <3>1, <3>2
  <2> QED
    BY <2>1, <2>2, <2>3, <2>4
<1>6. ASSUME NEW q \in Requests, touched'[q] > 0, Found(q)' = {}
      PROVE  count' = CacheSize /\ \A i \in 1 .. count' : touched'[q] < touched'[slot'[i].id]
  <2>1. q # r
    BY <1>6 DEF CacheUse, Found
  <2>2. touched'[q] = touched[q] /\ touched[q] \in Nat /\ touched[q] <= uses
    BY <1>0, <1>1, <2>1
  <2>3. count' = CacheSize /\ \A k \in 1 .. count : slot[k].id # q => touched[q] < touched[slot[k].id]
    <3>1. CASE Found(q) = {}
      BY <1>0, <1>2, <1>6, <2>2, <3>1
    <3>2. CASE Found(q) # {}
      BY <1>6, <2>1, <3>2 DEF CacheUse
    <3> QED
      BY <3>1, <3>2
  <2>4. ASSUME NEW i \in 1 .. count'
        PROVE  touched'[q] < touched'[slot'[i].id]
    <3>1. slot'[i].id # q
      BY <1>6 DEF Found
    <3>2. CASE slot'[i].id = r
      BY <1>0, <1>1, <2>2, <3>2
    <3>3. CASE slot'[i].id # r
      BY <1>3, <2>2, <2>3, <3>1, <3>3
    <3> QED
      BY <3>2, <3>3
  <2> QED
    BY <2>3, <2>4
<1> QED
  BY <1>1, <1>2, <1>4, <1>5, <1>6 DEF HoldsMostRecent, LruOrder

(* A use of a cached request rewrites its slot and leaves the others.         *)
LEMMA HitIsUse ==
  ASSUME IdemInv, NEW r \in Requests, Found(r) # {}, count' = count,
         lru_counter' \in Nat, lru_counter' > lru_counter,
         \A i \in Found(r) : slot'[i].id = r /\ slot'[i].lru = lru_counter',
         \A i \in (1 .. CacheSize) \ Found(r) : slot'[i] = slot[i]
  PROVE  CacheUse(r) /\ \A q : Found(q)' = Found(q)
<1>0. count \in 0 .. CacheSize /\ count \in Nat /\ CacheSize \in Nat
  BY IdemFacts
<1>1. \A i \in 1 .. count : i \in 1 .. CacheSize
  BY <1>0
<1>2. ASSUME NEW i \in 1 .. count
      PROVE  /\ slot'[i].id = slot[i].id
             /\ \/ slot'[i].id = r /\ slot'[i].lru = lru_counter'
                \/ slot'[i].id # r /\ slot'[i] = slot[i]
  BY <1>1 DEF Found
<1>3. \A q : Found(q)' = Found(q)
  BY <1>2 DEF Found
<1>4. \A i, j \in 1 .. count : slot[i].id = slot[j].id => i = j
  BY DEF IdemInv, HoldsMostRecent
<1>5. \E i \in 1 .. count' : slot'[i].id = r
  BY <1>2 DEF Found
<1>6. \A i, j \in 1 .. count' : slot'[i].id = slot'[j].id => i = j
  BY <1>2, <1>4
<1>7. \A i \in 1 .. count' :
        \/ slot'[i].id = r /\ slot'[i].lru = lru_counter'
        \/ /\ slot'[i].id # r
           /\ \E k \in 1 .. count : /\ slot[k].id = slot'[i].id /\ slot[k].lru = slot'[i].lru
                                    /\ slot[k].result = slot'[i].result
  BY <1>2
<1>8. \A q \in Requests \ {r} :
        Found(q) # {} /\ Found(q)' = {} =>
          /\ count' = CacheSize
          /\ \A k \in 1 .. count : slot[k].id # q => touched[q] < touched[slot[k].id]
  BY <1>3
<1> QED
  BY <1>0, <1>3, <1>5, <1>6, <1>7, <1>8 DEF CacheUse

(* A new request is recorded behind the others, after the oldest was moved    *)
(* out if the cache is full.                                                  *)
LEMMA RecordIsUse ==
  ASSUME IdemInv, NEW r \in Requests, NEW result \in Results \cup {NoRequest},
         Found(r) = {}, RecordNew(r, result)
  PROVE  /\ CacheUse(r)
         /\ slot' \in [1 .. CacheSize -> IdempotentRequest]
         /\ count' \in 1 .. CacheSize /\ slot'[count'].id = r
         /\ result # NoRequest => slot'[count'].result = result
         /\ excused \subseteq excused'
         /\ \A q \in Requests \ excused' : Found(q) # {} => Found(q)' # {}
<1>0. /\ slot \in [1 .. CacheSize -> IdempotentRequest]
      /\ count \in Nat /\ count <= CacheSize /\ CacheSize \in Nat \ {0}
      /\ lru_counter \in Nat
      /\ \A i \in 1 .. CacheSize :
           /\ slot[i].id \in Requests \cup {NoRequest} /\ slot[i].lru \in Nat
           /\ slot[i].result \in Results \cup {NoRequest}
  BY IdemFacts
<1>1. \A i, j \in 1 .. count : slot[i].id = slot[j].id => i = j
  BY DEF IdemInv, HoldsMostRecent
<1>2. \A i \in 1 .. count : slot[i].id # r
  BY DEF Found
<1> DEFINE full == count >= CacheSize
           kept == IF full THEN idempotent_store_evict_lru ELSE slot
           idx  == IF full THEN count ELSE count + 1
           new  == [id |-> r, result |-> IF result = NoRequest THEN kept[idx].result ELSE result,
                    lru |-> lru_counter + 1]
<1>3. /\ slot' = [kept EXCEPT ![idx] = new]
      /\ count' = idx /\ lru_counter' = lru_counter + 1
      /\ excused' = IF full THEN excused \cup {slot[LeastRecent].id} ELSE excused
  BY DEF RecordNew
<1>4. full => LeastRecent \in 1 .. count
              /\ \A j \in 1 .. count :
                   j # LeastRecent => touched[slot[LeastRecent].id] < touched[slot[j].id]
  BY <1>0, EvictsOldest
<1> HIDE DEF LeastRecent
(* Where the entry of each slot was before.                                   *)
<1> DEFINE from(i) == IF full /\ i >= LeastRecent /\ i < count THEN i + 1 ELSE i
<1>5. ASSUME NEW i \in 1 .. CacheSize
      PROVE  from(i) \in 1 .. CacheSize /\ kept[i] = slot[from(i)]
  BY <1>0, <1>4 DEF idempotent_store_evict_lru
<1>6. DOMAIN kept = 1 .. CacheSize
  BY <1>0 DEF idempotent_store_evict_lru
<1> HIDE DEF kept
<1>7. idx \in 1 .. CacheSize /\ idx >= count
  BY <1>0
<1>8. new \in IdempotentRequest /\ new.id = r /\ new.lru = lru_counter'
      /\ (result # NoRequest => new.result = result)
  BY <1>0, <1>3, <1>5, <1>7 DEF IdempotentRequest
<1> HIDE DEF new
<1>9. slot'[idx] = new /\ \A i \in 1 .. CacheSize : i # idx => slot'[i] = slot[from(i)]
  BY <1>3, <1>5, <1>6, <1>7
<1>10. slot' \in [1 .. CacheSize -> IdempotentRequest]
  <2>1. \A i \in 1 .. CacheSize : kept[i] \in IdempotentRequest
    BY <1>0, <1>5
  <2> HIDE DEF idx, from
  <2> QED
    BY <1>3, <1>6, <1>7, <1>8, <2>1
<1>11. ASSUME NEW i \in 1 .. idx, i # idx
       PROVE  /\ from(i) \in 1 .. count /\ slot'[i] = slot[from(i)] /\ slot'[i].id # r
              /\ full => from(i) # LeastRecent
  <2>1. from(i) \in 1 .. count
    BY <1>0, <1>4, <1>11
  <2>2. slot'[i] = slot[from(i)]
    BY <1>0, <1>7, <1>9, <1>11
  <2>3. full => from(i) # LeastRecent
    BY <1>0, <1>4, <1>11
  <2> QED
    BY <1>2, <2>1, <2>2, <2>3
<1>12. ASSUME NEW k \in 1 .. count, full => k # LeastRecent
       PROVE  \E i \in 1 .. idx : i # idx /\ from(i) = k
  <2>1. CASE full /\ k > LeastRecent
    BY <1>0, <1>4, <2>1, k - 1 \in 1 .. idx
  <2>2. CASE ~(full /\ k > LeastRecent)
    BY <1>0, <1>4, <1>12, <2>2, k \in 1 .. idx
  <2> QED
    BY <2>1, <2>2
<1>13. \A i, j \in 1 .. idx : i # idx /\ j # idx /\ from(i) = from(j) => i = j
  BY <1>0, <1>4
<1> HIDE DEF from
<1>14. ASSUME NEW i \in 1 .. idx, NEW j \in 1 .. idx, slot'[i].id = slot'[j].id
       PROVE  i = j
  BY <1>1, <1>8, <1>9, <1>11, <1>13, <1>14
<1>15. ASSUME NEW i \in 1 .. idx
       PROVE  \/ slot'[i].id = r /\ slot'[i].lru = lru_counter'
              \/ /\ slot'[i].id # r
                 /\ \E k \in 1 .. count : /\ slot[k].id = slot'[i].id /\ slot[k].lru = slot'[i].lru
                                          /\ slot[k].result = slot'[i].result
  BY <1>8, <1>9, <1>11
<1>16. ASSUME NEW q \in Requests, NEW k \in Found(q), full => k # LeastRecent
       PROVE  Found(q)' # {}
  <2>1. k \in 1 .. count /\ slot[k].id = q
    BY DEF Found
  <2>2. PICK i \in 1 .. idx : i # idx /\ from(i) = k
    BY <1>12, <1>16, <2>1
  <2> QED
    BY <1>3, <1>11, <2>1, <2>2 DEF Found
<1>17. ASSUME NEW q \in Requests, Found(q) # {}, Found(q)' = {}
       PROVE  full /\ q = slot[LeastRecent].id
  BY <1>16, <1>17 DEF Found
<1>18. ASSUME NEW q \in Requests \ {r}, Found(q) # {}, Found(q)' = {}
       PROVE  /\ count' = CacheSize
              /\ \A k \in 1 .. count : slot[k].id # q => touched[q] < touched[slot[k].id]
  BY <1>0, <1>3, <1>4, <1>17, <1>18
<1>19. CacheUse(r)
  <2>1. count' \in 0 .. CacheSize /\ count <= count' /\ lru_counter' \in Nat /\ lru_counter' > lru_counter
    BY <1>0, <1>3, <1>7
  <2>2. \E i \in 1 .. count' : slot'[i].id = r
    BY <1>3, <1>7, <1>8, <1>9
  <2> HIDE DEF full, idx
  <2> QED
    BY <1>3, <1>14, <1>15, <1>18, <2>1, <2>2 DEF CacheUse
<1>20. \A q \in Requests \ excused' : Found(q) # {} => Found(q)' # {}
  BY <1>3, <1>17
<1> HIDE DEF full, idx
<1> QED
  BY <1>3, <1>7, <1>8, <1>9, <1>10, <1>19, <1>20

(* The deliveries of the requests after a use of r that recorded no more than *)
(* the others had: what was cached and is not excused keeps its result.       *)
LEMMA OthersKept ==
  ASSUME IdemInv, NEW r \in Requests, CacheUse(r), NEW q \in Requests \ {r}, q \notin excused,
         executing'[q] + executed'[q] <= 1, executed'[q] = executed[q], answer'[q] = answer[q],
         Found(q) # {} => Found(q)' # {}
  PROVE  /\ executed'[q] = 1 => Found(q)' # {}
         /\ \A i \in Found(q)' : answer'[q] # NoRequest => slot'[i].result = answer'[q]
<1>1. executed[q] = 1 => Found(q) # {}
  BY DEF IdemInv, Deliveries
<1>2. \A k \in Found(q) : answer[q] # NoRequest => slot[k].result = answer[q]
  BY DEF IdemInv, Deliveries
<1>3. ASSUME NEW i \in Found(q)'
      PROVE  \E k \in Found(q) : slot[k].result = slot'[i].result
  <2>1. i \in 1 .. count' /\ slot'[i].id = q
    BY DEF Found
  <2>2. PICK k \in 1 .. count : slot[k].id = slot'[i].id /\ slot[k].result = slot'[i].result
    BY <2>1 DEF CacheUse
  <2> QED
    BY <2>1, <2>2 DEF Found
<1> QED
  BY <1>1, <1>2, <1>3

LEMMA ReplayKeeps ==
  ASSUME IdemInv, NEW r \in Requests, Replay(r)
  PROVE  IdemInv'
<1>0. /\ slot \in [1 .. CacheSize -> IdempotentRequest] /\ lru_counter \in Nat
      /\ loop \in [Requests -> [attempts : 0 .. MaxRetries + 1, waits : BOOLEAN]]
      /\ MaxRetries \in Nat
      /\ executing \in [Requests -> 0 .. MaxRetries + 1] /\ executed \in [Requests -> Nat]
      /\ count \in 0 .. CacheSize
  BY IdemFacts DEF IdemInv, IdemTypeOK
<1>1. /\ ~loop[r].waits /\ loop[r].attempts <= MaxRetries /\ Found(r) # {}
      /\ slot' = [i \in DOMAIN slot |->
                    IF i \in Found(r) THEN [slot[i] EXCEPT !.lru = lru_counter + 1] ELSE slot[i]]
      /\ lru_counter' = lru_counter + 1
      /\ Touch(r)
      /\ loop' = [loop EXCEPT ![r].attempts = @ + 1]
      /\ UNCHANGED <<count, executing, executed, answer, excused>>
  BY DEF Replay, idempotent_retry_with_backoff, idempotent_store_find
<1>2. Found(r) \subseteq 1 .. CacheSize
  BY <1>0, IdempotencyAssumption DEF Found
<1>3. ASSUME NEW i \in 1 .. CacheSize
      PROVE  /\ slot'[i] \in IdempotentRequest
             /\ slot'[i].id = slot[i].id /\ slot'[i].result = slot[i].result
             /\ i \in Found(r) => slot'[i].lru = lru_counter'
             /\ i \notin Found(r) => slot'[i] = slot[i]
  <2>1. slot[i] \in IdempotentRequest /\ i \in DOMAIN slot
    BY <1>0
  <2>2. CASE i \in Found(r)
    <3>1. slot'[i] = [slot[i] EXCEPT !.lru = lru_counter + 1]
      BY <1>1, <2>1, <2>2
    <3>2. lru_counter + 1 \in Nat
      BY <1>0
    <3>3. slot'[i] = [id |-> slot[i].id, result |-> slot[i].result, lru |-> lru_counter + 1]
      BY <2>1, <3>1 DEF IdempotentRequest
    <3>4. slot[i].id \in Requests \cup {NoRequest} /\ slot[i].result \in Results \cup {NoRequest}
      BY <2>1 DEF IdempotentRequest
    <3>5. slot'[i] \in IdempotentRequest
      BY <3>2, <3>3, <3>4 DEF IdempotentRequest
    <3> QED
      BY <1>1, <2>2, <3>3, <3>5
  <2>3. CASE i \notin Found(r)
    BY <1>1, <2>1, <2>3
  <2> QED
    BY <2>2, <2>3
<1>4. slot' \in [1 .. CacheSize -> IdempotentRequest]
  <2>1. slot' = [i \in 1 .. CacheSize |-> slot'[i]]
    BY <1>0, <1>1
  <2> QED
    BY <1>3, <2>1
<1>5. CacheUse(r) /\ \A q : Found(q)' = Found(q)
  <2>1. \A i \in Found(r) : slot'[i].id = r /\ slot'[i].lru = lru_counter'
    BY <1>2, <1>3 DEF Found
  <2>2. count' = count /\ lru_counter' \in Nat /\ lru_counter' > lru_counter /\ Found(r) # {}
    BY <1>0, <1>1
  <2>3. \A i \in (1 .. CacheSize) \ Found(r) : slot'[i] = slot[i]
    BY <1>3
  <2> QED
    BY <2>1, <2>2, <2>3, HitIsUse
<1>6. HoldsMostRecent' /\ LruOrder' /\ touched' \in [Requests -> 0 .. uses'] /\ uses' \in Nat
  BY <1>1, <1>5, UseKeepsOrder
<1>7. /\ loop' \in [Requests -> [attempts : 0 .. MaxRetries + 1, waits : BOOLEAN]]
      /\ \A q \in Requests : loop[q].attempts <= loop'[q].attempts
  <2>1. loop[r].attempts \in 0 .. MaxRetries + 1 /\ loop[r].waits \in BOOLEAN
    BY <1>0
  <2>2. loop[r].attempts + 1 \in 0 .. MaxRetries + 1 /\ loop[r].attempts <= loop[r].attempts + 1
    BY <1>0, <1>1, <2>1
  <2>3. \A q \in Requests : loop[q].attempts \in Nat
    BY <1>0
  <2> QED
    BY <1>0, <1>1, <2>1, <2>2, <2>3
<1>8. Deliveries'
  <2>1. ASSUME NEW q \in Requests
        PROVE  executing[q] + executed[q] <= loop'[q].attempts
    <3>1. /\ executing[q] \in Nat /\ executed[q] \in Nat
          /\ loop[q].attempts \in Nat /\ loop'[q].attempts \in Nat
      BY <1>0, <1>7
    <3> QED
      BY <1>7, <3>1 DEF IdemInv, Deliveries
  <2>2. \A q \in Requests : \A i \in Found(q) : slot'[i].result = slot[i].result
    BY <1>0, <1>3, IdempotencyAssumption DEF Found
  <2> QED
    BY <1>1, <1>5, <2>1, <2>2 DEF IdemInv, Deliveries
<1> QED
  BY <1>0, <1>1, <1>4, <1>6, <1>7, <1>8 DEF IdemInv, IdemTypeOK

LEMMA StartKeeps ==
  ASSUME IdemInv, NEW r \in Requests, StartNew(r)
  PROVE  IdemInv'
<1>0. /\ loop \in [Requests -> [attempts : 0 .. MaxRetries + 1, waits : BOOLEAN]]
      /\ MaxRetries \in Nat
      /\ executing \in [Requests -> 0 .. MaxRetries + 1] /\ executed \in [Requests -> Nat]
      /\ \A q \in Requests : executing[q] + executed[q] <= loop[q].attempts
  BY IdemFacts DEF IdemInv, Deliveries
<1>1. /\ ~loop[r].waits /\ loop[r].attempts <= MaxRetries /\ Found(r) = {}
      /\ loop' = [loop EXCEPT ![r] = [attempts |-> @.attempts + 1, waits |-> TRUE]]
      /\ executing' = [executing EXCEPT ![r] = @ + 1]
      /\ excused' = (IF executing[r] > 0 THEN excused \cup {r} ELSE excused)
      /\ UNCHANGED <<slot, count, lru_counter, uses, touched, executed, answer>>
  BY DEF StartNew, idempotent_retry_with_backoff, store
<1>2. /\ loop[r].attempts \in 0 .. MaxRetries + 1
      /\ executing[r] \in 0 .. MaxRetries + 1 /\ executed[r] \in Nat
  BY <1>0
<1>3. executing[r] + 1 + executed[r] <= loop[r].attempts + 1 /\ executing[r] + 1 \in 0 .. MaxRetries + 1
  BY <1>0, <1>1, <1>2
<1>4. /\ loop' \in [Requests -> [attempts : 0 .. MaxRetries + 1, waits : BOOLEAN]]
      /\ executing' \in [Requests -> 0 .. MaxRetries + 1]
  BY <1>0, <1>1, <1>2, <1>3
<1>5. \A q : Found(q)' = Found(q)
  BY <1>1 DEF Found
<1>6. HoldsMostRecent' /\ LruOrder'
  BY <1>1, <1>5 DEF IdemInv, HoldsMostRecent, LruOrder
<1>7. \A q \in Requests : executing'[q] + executed[q] <= loop'[q].attempts
  BY <1>0, <1>1, <1>2, <1>3
<1>8. ASSUME NEW q \in Requests \ excused'
      PROVE  /\ executing'[q] + executed[q] <= 1
             /\ executed[q] = 1 => Found(q) # {}
             /\ \A i \in Found(q) : answer[q] # NoRequest => slot[i].result = answer[q]
  <2>1. q \notin excused
    BY <1>1
  <2>2. /\ executing[q] + executed[q] <= 1
        /\ executed[q] = 1 => Found(q) # {}
        /\ \A i \in Found(q) : answer[q] # NoRequest => slot[i].result = answer[q]
    BY <2>1 DEF IdemInv, Deliveries
  <2>3. CASE q = r
    <3>1. executing[r] = 0
      BY <1>1, <1>2, <1>8, <2>3
    <3>2. executed[r] = 0
      BY <1>1, <1>2, <2>2, <2>3, <3>1
    <3> QED
      BY <1>0, <1>1, <2>2, <2>3, <3>1, <3>2
  <2>4. CASE q # r
    BY <1>0, <1>1, <2>2, <2>4
  <2> QED
    BY <2>3, <2>4
<1>9. Deliveries'
  BY <1>1, <1>5, <1>7, <1>8 DEF Deliveries
<1> QED
  BY <1>1, <1>4, <1>6, <1>9 DEF IdemInv, IdemTypeOK

LEMMA TimeOutKeeps ==
  ASSUME IdemInv, NEW r \in Requests, TimeOut(r)
  PROVE  IdemInv'
<1>1. /\ loop' = [loop EXCEPT ![r].waits = FALSE]
      /\ UNCHANGED <<slot, count, lru_counter, executing, uses, touched, executed, answer, excused>>
  BY DEF TimeOut, store, ghosts
<1>2. /\ loop' \in [Requests -> [attempts : 0 .. MaxRetries + 1, waits : BOOLEAN]]
      /\ \A q \in Requests : loop'[q].attempts = loop[q].attempts
  BY <1>1, IdemFacts
<1>3. \A q : Found(q)' = Found(q)
  BY <1>1 DEF Found
<1> QED
  BY <1>1, <1>2, <1>3 DEF IdemInv, IdemTypeOK, HoldsMostRecent, LruOrder, Deliveries

(* What an execution does to the cache, whether its request is in there or    *)
(* not: r is used, its slot holds the result, and a request that leaves is    *)
(* excused.                                                                   *)
LEMMA RecordFacts ==
  ASSUME IdemInv, NEW r \in Requests, NEW result \in Results \cup {NoRequest},
         idempotent_record(r, result)
  PROVE  /\ CacheUse(r)
         /\ slot' \in [1 .. CacheSize -> IdempotentRequest]
         /\ count' \in 0 .. CacheSize /\ lru_counter' \in Nat
         /\ \A i \in Found(r)' : result # NoRequest => slot'[i].result = result
         /\ excused \subseteq excused'
         /\ \A q \in Requests \ excused' : Found(q) # {} => Found(q)' # {}
<1>0. /\ slot \in [1 .. CacheSize -> IdempotentRequest] /\ lru_counter \in Nat
      /\ count \in 0 .. CacheSize /\ CacheSize \in Nat
      /\ \A i \in 1 .. CacheSize :
           /\ slot[i].id \in Requests \cup {NoRequest} /\ slot[i].lru \in Nat
           /\ slot[i].result \in Results \cup {NoRequest}
  BY IdemFacts DEF IdemInv, IdemTypeOK
<1>1. CASE Found(r) = {}
  <2>1. RecordNew(r, result)
    BY <1>1 DEF idempotent_record
  <2>2. /\ CacheUse(r)
        /\ slot' \in [1 .. CacheSize -> IdempotentRequest]
        /\ count' \in 1 .. CacheSize /\ slot'[count'].id = r
        /\ result # NoRequest => slot'[count'].result = result
        /\ excused \subseteq excused'
        /\ \A q \in Requests \ excused' : Found(q) # {} => Found(q)' # {}
    BY <1>1, <2>1, RecordIsUse
  <2>3. \A i \in Found(r)' : i = count'
    BY <1>0, <2>2 DEF CacheUse, Found
  <2>4. count' \in 0 .. CacheSize /\ lru_counter' \in Nat
    BY <2>2 DEF CacheUse
  <2> QED
    BY <2>2, <2>3, <2>4
<1>2. CASE Found(r) # {}
  <2> DEFINE new(i) == [id |-> r, result |-> IF result = NoRequest THEN slot[i].result ELSE result,
                        lru |-> lru_counter + 2]
  <2>1. /\ slot' = [i \in DOMAIN slot |-> IF i \notin Found(r) THEN slot[i] ELSE new(i)]
        /\ lru_counter' = lru_counter + 2 /\ count' = count /\ excused' = excused
    BY <1>2 DEF idempotent_record, RecordAgain
  <2>2. Found(r) \subseteq 1 .. CacheSize
    BY <1>0 DEF Found
  <2>3. \A i \in 1 .. CacheSize : new(i) \in IdempotentRequest
    BY <1>0 DEF IdempotentRequest
  <2>4. \A i \in 1 .. CacheSize :
          new(i).id = r /\ new(i).lru = lru_counter + 2
          /\ (result # NoRequest => new(i).result = result)
    OBVIOUS
  <2> HIDE DEF new
  <2>5. slot' \in [1 .. CacheSize -> IdempotentRequest]
    BY <1>0, <2>1, <2>3
  <2>6. /\ \A i \in Found(r) : slot'[i] = new(i)
        /\ \A i \in (1 .. CacheSize) \ Found(r) : slot'[i] = slot[i]
    BY <1>0, <2>1, <2>2
  <2>7. \A i \in Found(r) : slot'[i].id = r /\ slot'[i].lru = lru_counter'
    BY <2>1, <2>2, <2>4, <2>6
  <2>8. lru_counter' \in Nat /\ lru_counter' > lru_counter
    BY <1>0, <2>1
  <2>9. CacheUse(r) /\ \A q : Found(q)' = Found(q)
    BY <1>2, <2>1, <2>6, <2>7, <2>8, HitIsUse
  <2>10. \A i \in Found(r)' : result # NoRequest => slot'[i].result = result
    BY <2>2, <2>4, <2>6, <2>9
  <2> QED
    BY <1>0, <2>1, <2>5, <2>8, <2>9, <2>10
<1> QED
  BY <1>1, <1>2

LEMMA ExecuteKeeps ==
  ASSUME IdemInv, NEW r \in Requests, NEW result \in Results \cup {NoRequest}, Execute(r, result)
  PROVE  IdemInv'
<1>0. /\ executing \in [Requests -> 0 .. MaxRetries + 1] /\ executed \in [Requests -> Nat]
      /\ loop \in [Requests -> [attempts : 0 .. MaxRetries + 1, waits : BOOLEAN]]
      /\ MaxRetries \in Nat
      /\ answer \in [Requests -> Results \cup {NoRequest}]
      /\ \A q \in Requests : executing[q] + executed[q] <= loop[q].attempts
  BY IdemFacts DEF IdemInv, Deliveries
<1>1. /\ executing[r] > 0
      /\ executing' = [executing EXCEPT ![r] = @ - 1]
      /\ executed' = [executed EXCEPT ![r] = @ + 1]
      /\ answer' = [answer EXCEPT ![r] = result]
      /\ idempotent_record(r, result) /\ Touch(r) /\ loop' = loop
  BY DEF Execute
<1>2. /\ CacheUse(r)
      /\ slot' \in [1 .. CacheSize -> IdempotentRequest]
      /\ count' \in 0 .. CacheSize /\ lru_counter' \in Nat
      /\ \A i \in Found(r)' : result # NoRequest => slot'[i].result = result
      /\ excused \subseteq excused'
      /\ \A q \in Requests \ excused' : Found(q) # {} => Found(q)' # {}
  BY <1>1, RecordFacts
<1>3. HoldsMostRecent' /\ LruOrder' /\ touched' \in [Requests -> 0 .. uses'] /\ uses' \in Nat
  BY <1>1, <1>2, UseKeepsOrder
<1>4. executing[r] \in 0 .. MaxRetries + 1 /\ executed[r] \in Nat
      /\ executing[r] - 1 \in 0 .. MaxRetries + 1 /\ executed[r] + 1 \in Nat
  BY <1>0, <1>1
<1>5. /\ executing' \in [Requests -> 0 .. MaxRetries + 1] /\ executed' \in [Requests -> Nat]
      /\ answer' \in [Requests -> Results \cup {NoRequest}]
      /\ executing'[r] = executing[r] - 1 /\ executed'[r] = executed[r] + 1 /\ answer'[r] = result
      /\ \A q \in Requests \ {r} : /\ executing'[q] = executing[q] /\ executed'[q] = executed[q]
                                   /\ answer'[q] = answer[q]
  BY <1>0, <1>1, <1>4
<1>6. \A q \in Requests : executing'[q] + executed'[q] = executing[q] + executed[q]
  BY <1>4, <1>5
<1>7. ASSUME NEW q \in Requests \ excused'
      PROVE  /\ executing'[q] + executed'[q] <= 1
             /\ executed'[q] = 1 => Found(q)' # {}
             /\ \A i \in Found(q)' : answer'[q] # NoRequest => slot'[i].result = answer'[q]
  <2>1. q \notin excused
    BY <1>2
  <2>2. executing'[q] + executed'[q] <= 1
    BY <1>6, <2>1 DEF IdemInv, Deliveries
  <2>3. CASE q = r
    <3>1. Found(r)' # {}
      BY <1>2 DEF CacheUse, Found
    <3> QED
      BY <1>2, <1>5, <2>2, <2>3, <3>1
  <2>4. CASE q # r
    <3>1. Found(q) # {} => Found(q)' # {}
      BY <1>2
    <3> QED
      BY <1>2, <1>5, <2>1, <2>2, <2>4, <3>1, OthersKept
  <2> QED
    BY <2>3, <2>4
<1>8. Deliveries'
  BY <1>0, <1>1, <1>6, <1>7 DEF Deliveries
<1>9. IdemTypeOK'
  BY <1>0, <1>1, <1>2, <1>3, <1>5 DEF IdemTypeOK
<1> QED
  BY <1>3, <1>5, <1>8, <1>9 DEF IdemInv

LEMMA IdemInitOk == IdemInit => IdemInv
<1> SUFFICES ASSUME IdemInit PROVE IdemInv
  OBVIOUS
<1>1. slot \in [1 .. CacheSize -> IdempotentRequest]
  BY DEF IdemInit, IdempotentRequest
<1>2. /\ count = 0 /\ lru_counter = 0 /\ uses = 0
      /\ \A r \in Requests : /\ touched[r] = 0 /\ executing[r] = 0 /\ executed[r] = 0
                             /\ loop[r].attempts = 0
      /\ \A r : Found(r) = {}
  BY DEF IdemInit, Found
<1>3. /\ loop \in [Requests -> [attempts : 0 .. MaxRetries + 1, waits : BOOLEAN]]
      /\ executing \in [Requests -> 0 .. MaxRetries + 1]
      /\ touched \in [Requests -> 0 .. uses] /\ executed \in [Requests -> Nat]
      /\ count \in 0 .. CacheSize
      /\ answer \in [Requests -> Results \cup {NoRequest}]
  BY IdempotencyAssumption DEF IdemInit
<1> QED
  BY <1>1, <1>2, <1>3 DEF IdemInv, IdemTypeOK, HoldsMostRecent, LruOrder, Deliveries

LEMMA IdemNextKeeps ==
  ASSUME IdemInv, [IdemNext]_idemVars
  PROVE  IdemInv'
<1>1. CASE UNCHANGED idemVars
  <2>1. /\ UNCHANGED <<slot, count, lru_counter, loop, executing>>
        /\ UNCHANGED <<uses, touched, executed, answer, excused>>
    BY <1>1 DEF idemVars, store, ghosts
  <2>2. \A q : Found(q)' = Found(q)
    BY <2>1 DEF Found
  <2> QED
    BY <2>1, <2>2 DEF IdemInv, IdemTypeOK, HoldsMostRecent, LruOrder, Deliveries
<1> QED
  BY <1>1, ReplayKeeps, StartKeeps, TimeOutKeeps, ExecuteKeeps DEF IdemNext

(* A client that presents its number is fenced off once a newer one has       *)
(* written, the cache of processed requests holds the most recently used      *)
(* ones, and a request that was neither evicted nor delivered twice at a time *)
(* is executed once, its repetitions answered with what that returned.        *)
THEOREM LateRequestsHarmless ==
  ASSUME ~ByPointer
  PROVE  FenceSpec /\ IdemSpec => []OnceAndInOrder
<1>1. FenceInv /\ IdemInv => OnceAndInOrder
  <2> SUFFICES ASSUME FenceInv, IdemInv PROVE OnceAndInOrder
    OBVIOUS
  <2>1. ExecutedOnce
    <3> SUFFICES ASSUME NEW r \in Requests \ excused PROVE executed[r] <= 1
      BY DEF IdemInv, Deliveries, ExecutedOnce
    <3>1. executing[r] \in Nat /\ executed[r] \in Nat /\ executing[r] + executed[r] <= 1
      BY IdemFacts DEF IdemInv, Deliveries
    <3> QED
      BY <3>1
  <2> QED
    BY <2>1 DEF FenceInv, IdemInv, OnceAndInOrder, NoStaleWrite
<1>2. FenceSpec => []FenceInv
  BY FenceInitOk, FenceNextKeeps, PTL DEF FenceSpec
<1>3. IdemSpec => []IdemInv
  BY IdemInitOk, IdemNextKeeps, PTL DEF IdemSpec
<1> QED
  BY <1>1, <1>2, <1>3, PTL
=============================================================================
