-------------------------- MODULE DistributedApps ---------------------------
(***************************************************************************)
(* The applications of mini-dist-protocol/src/distributed_apps.c: a        *)
(* transaction over values, a key-value store with version vectors and a   *)
(* lock manager with leases.  They share no state.  The module ends with   *)
(* what they, Multi-Paxos and the membership protocols promise together.   *)
(***************************************************************************)
EXTENDS MultiPaxos, Membership

-----------------------------------------------------------------------------
(***************************************************************************)
(* The two-phase commit over participant values of mini-dist-protocol/src/  *)
(* distributed_apps.c (the functions dtx_...).  A participant votes by its  *)
(* value: 0 stands for a violated constraint.  A client makes the calls in  *)
(* any order; dtx_abort has no guard and undoes a commit as well.           *)
(***************************************************************************)

CONSTANTS Pids, DataValues   \* 0 among the values

ASSUME DtxValuesAssumption == DataValues \subseteq Int

VARIABLES coordinator_state, participants

dtxVars == <<coordinator_state, participants>>

dtx_init ==
  /\ coordinator_state = "INIT"
  /\ participants = [p \in Pids |-> [state |-> "INIT", vote_yes |-> FALSE,
                                     data_value |-> 0, prepared_value |-> 0]]

dtx_set_value(pid, value) ==
  /\ coordinator_state = "INIT"
  /\ participants' = [participants EXCEPT ![pid].data_value = value]
  /\ UNCHANGED coordinator_state

Vote(p) ==
  IF p.data_value # 0
  THEN [p EXCEPT !.vote_yes = TRUE, !.prepared_value = p.data_value, !.state = "PREPARED"]
  ELSE [p EXCEPT !.vote_yes = FALSE, !.state = "PREPARING"]

(* Without a unanimous vote the coordinator stays PREPARING until the abort. *)
Decided(votes) ==
  IF \A p \in Pids : votes[p].vote_yes THEN "PREPARED" ELSE "PREPARING"

dtx_prepare ==
  /\ coordinator_state = "INIT"
  /\ participants' = [p \in Pids |-> Vote(participants[p])]
  /\ coordinator_state' = Decided(participants')

dtx_commit ==
  /\ coordinator_state = "PREPARED"
  /\ participants' = [p \in Pids |->
       IF participants[p].vote_yes
       THEN [participants[p] EXCEPT !.state = "COMMITTED",
                                    !.data_value = participants[p].prepared_value]
       ELSE [participants[p] EXCEPT !.state = "ABORTED"]]
  /\ coordinator_state' = "COMMITTED"

dtx_abort ==
  /\ participants' = [p \in Pids |-> [participants[p] EXCEPT
       !.state = "ABORTED", !.data_value = 0, !.prepared_value = 0]]
  /\ coordinator_state' = "ABORTED"

DtxNext ==
  \/ \E pid \in Pids, value \in DataValues : dtx_set_value(pid, value)
  \/ dtx_prepare \/ dtx_commit \/ dtx_abort

DtxSpec == dtx_init /\ [][DtxNext]_dtxVars

-----------------------------------------------------------------------------
(* dtx_prepare, dtx_commit, dtx_abort: once there is an outcome, every       *)
(* participant has it, and a commit has left no refused value anywhere.      *)
OneOutcome ==
  /\ coordinator_state \in {"COMMITTED", "ABORTED"} =>
       \A p \in Pids : participants[p].state = coordinator_state
  /\ coordinator_state = "COMMITTED" => \A p \in Pids : participants[p].data_value # 0
  /\ \A p \in Pids : participants[p].state = "COMMITTED" => coordinator_state = "COMMITTED"

-----------------------------------------------------------------------------
(***************************************************************************)
(* The key-value store with version vectors of mini-dist-protocol/src/      *)
(* distributed_apps.c (the functions dkv_...).  A replica that receives a   *)
(* key for the first time gets an entry whose value and version were never  *)
(* initialised: a member of DkvValues and a vector of members of Garbage.   *)
(* The cast in dkv_replicate merges the version of the entry one place      *)
(* further along the vector of the replica, where DKVVersion has its        *)
(* replica_id first.                                                        *)
(***************************************************************************)

CONSTANTS
  Copies,    \* replica_count
  Width,     \* DKV_MAX_REPLICAS, the length of a version vector, above Copies
  Keys,
  MaxKeys,   \* DKV_MAX_KEYS
  DkvValues,
  Garbage,   \* the numbers that fresh memory may hold
  MaxCount   \* bound on a component of a version vector

VARIABLE replicas  \* per replica: its entries by key, and its version_vector

Replica == 0 .. Copies - 1

Zero == [j \in 0 .. Width - 1 |-> 0]

dkv_init == replicas = [r \in Replica |-> [entries |-> <<>>, version_vector |-> Zero]]

dkv_find_entry(r, key) == key \in DOMAIN replicas[r].entries

HasRoom(r) == Cardinality(DOMAIN replicas[r].entries) < MaxKeys

With(entries, key, value, version) ==
  [k \in DOMAIN entries \cup {key} |->
     IF k = key THEN [value |-> value, version |-> version] ELSE entries[k]]

(* The components of the first Copies replicas only are compared and merged. *)
dkv_causal_past(a, b) ==
  /\ \A i \in Replica : a[i] <= b[i]
  /\ \E i \in Replica : a[i] < b[i]

dkv_merge_versions(dst, src) ==
  [i \in DOMAIN dst |-> IF i \in Replica THEN Max({dst[i], src[i]}) ELSE dst[i]]

(* The same merge through the cast of the replica's vector.                  *)
ShiftedMerge(dst, src) ==
  [i \in DOMAIN dst |-> IF i - 1 \in Replica THEN Max({dst[i], src[i - 1]}) ELSE dst[i]]

dkv_put(r, key, value) ==
  LET counted == [replicas[r].version_vector EXCEPT ![r] = @ + 1]
      old == IF dkv_find_entry(r, key) THEN replicas[r].entries[key].version ELSE Zero
      version == [i \in DOMAIN old |-> IF i \in Replica THEN counted[i] ELSE old[i]]
  IN  /\ dkv_find_entry(r, key) \/ HasRoom(r)
      /\ counted[r] <= MaxCount
      /\ replicas' = [replicas EXCEPT ![r] =
                        [entries |-> With(@.entries, key, value, version),
                         version_vector |-> counted]]

(* The entry of the receiver, or what an entry just made may hold.           *)
Receiving(to, key) ==
  IF dkv_find_entry(to, key) THEN {replicas[to].entries[key]}
  ELSE [value : DkvValues, version : [0 .. Width - 1 -> Garbage]]

dkv_replicate(from, to, key) ==
  /\ from # to /\ dkv_find_entry(from, key)
  /\ dkv_find_entry(to, key) \/ HasRoom(to)
  /\ \E dst \in Receiving(to, key) :
       LET src == replicas[from].entries[key]
           skips == dkv_causal_past(dst.version, src.version)
       IN  replicas' = [replicas EXCEPT ![to] =
             IF skips THEN [@ EXCEPT !.entries = With(@, key, dst.value, dst.version)]
             ELSE [entries |-> With(@.entries, key, src.value,
                                    dkv_merge_versions(dst.version, src.version)),
                   version_vector |-> ShiftedMerge(@.version_vector, src.version)]]

(* The replica with the greatest sum of components, the first of equals.     *)
dkv_quorum_read(key) ==
  LET sum(r) == MapThenSumSet(LAMBDA i : replicas[r].entries[key].version[i], Replica)
      holders == {r \in Replica : dkv_find_entry(r, key)}
      best == {r \in holders : \A q \in holders : sum(q) <= sum(r)}
  IN  IF holders = {} THEN -1 ELSE Min(best)

DkvNext ==
  \/ \E r \in Replica, key \in Keys, value \in DkvValues : dkv_put(r, key, value)
  \/ \E from, to \in Replica, key \in Keys : dkv_replicate(from, to, key)

DkvSpec == dkv_init /\ [][DkvNext]_replicas

-----------------------------------------------------------------------------
(* A step, dkv_replicate: a replicated entry replaces an older version of it *)
(* and never a newer one.                                                    *)
NewerWins ==
  \A from, to \in Replica, key \in Keys :
    dkv_replicate(from, to, key) /\ dkv_find_entry(to, key) =>
      LET src == replicas[from].entries[key]
          dst == replicas[to].entries[key]
          got == replicas'[to].entries[key].value
      IN  /\ dkv_causal_past(dst.version, src.version) => got = src.value
          /\ dkv_causal_past(src.version, dst.version) => got = dst.value

-----------------------------------------------------------------------------
(***************************************************************************)
(* The lease-based lock manager of mini-dist-protocol/src/distributed_apps.c *)
(* (the functions dlm_...).  Every call is atomic; any client calls at any   *)
(* time, also for a lock it already holds.  Times are unsigned and wrap at   *)
(* TimeWidth, the 2^64 of the code.  promise is history: until when a client *)
(* may count on a lock, by the calls that returned true to it, or None.      *)
(***************************************************************************)

CONSTANTS
  Clients,      \* client ids
  Locks,        \* lock ids
  HeldSize,     \* DLM_MAX_LOCKS, the capacity of held_locks
  DefaultTtl,   \* DLM_DEFAULT_TTL_MS
  Ttls,         \* the ttl_ms and delta_ms that callers pass, 0 among them
  TimeWidth,    \* 2^64
  MaxTime,      \* bound on the clock
  MaxClock      \* bound on global_clock

ASSUME LeaseAssumption ==
  /\ Clients \subseteq Nat
  /\ DefaultTtl \in Nat /\ Ttls \subseteq Nat
  /\ TimeWidth \in Nat \ {0} /\ MaxClock \in Nat

VARIABLES locks, clients, global_clock, current_time_ms, promise

dlmVars == <<locks, clients, global_clock, current_time_ms, promise>>

None == -1

DLMLock == [owner_id : Clients \cup {None}, granted : BOOLEAN,
            lease_expiry_ms : 0 .. TimeWidth - 1, logical_clock : 0 .. MaxClock]

DLMClient == [logical_clock : 0 .. MaxClock, held_locks : SeqOf(Locks, HeldSize)]

dlm_init ==
  /\ locks = [l \in Locks |-> [owner_id |-> None, granted |-> FALSE,
                               lease_expiry_ms |-> 0, logical_clock |-> 0]]
  /\ clients = [c \in Clients |-> [logical_clock |-> 0, held_locks |-> <<>>]]
  /\ global_clock = 0
  /\ current_time_ms = 0
  /\ promise = [c \in Clients |-> [l \in Locks |-> None]]

Ttl(ttl_ms) == IF ttl_ms = 0 THEN DefaultTtl ELSE ttl_ms

Expiry(ttl_ms) == (current_time_ms + Ttl(ttl_ms)) % TimeWidth

(* The first entry for the lock is overwritten by the last one.              *)
Untracked(held, l) ==
  IF l \notin {held[i] : i \in DOMAIN held} THEN held
  ELSE LET place == CHOOSE i \in DOMAIN held :
                      held[i] = l /\ \A j \in 1 .. i - 1 : held[j] # l
       IN  Front([held EXCEPT ![place] = Last(held)])

Tracked(held, l) == IF Len(held) < HeldSize THEN Append(held, l) ELSE held

dlm_update_clock(received_clock) ==
  IF received_clock > global_clock THEN received_clock + 1 ELSE global_clock + 1

(* What a client that was told TRUE may count on: nothing when the expiry    *)
(* wrapped around.                                                           *)
Promised(ttl_ms) ==
  IF current_time_ms + Ttl(ttl_ms) < TimeWidth THEN current_time_ms + Ttl(ttl_ms) ELSE None

Blocked(c, l) ==
  /\ locks[l].granted /\ locks[l].owner_id # c
  /\ current_time_ms < locks[l].lease_expiry_ms

dlm_acquire(c, l, ttl_ms) ==
  LET clock == dlm_update_clock(clients[c].logical_clock)
      reclaimed == IF locks[l].granted /\ locks[l].owner_id # c
                   THEN [clients EXCEPT ![locks[l].owner_id].held_locks = Untracked(@, l)]
                   ELSE clients
  IN  /\ clock <= MaxClock
      /\ global_clock' = clock
      /\ IF Blocked(c, l)
         THEN UNCHANGED <<locks, clients, promise>>
         ELSE /\ locks' = [locks EXCEPT ![l] =
                             [owner_id |-> c, granted |-> TRUE,
                              lease_expiry_ms |-> Expiry(ttl_ms), logical_clock |-> clock]]
              /\ clients' = [reclaimed EXCEPT ![c] =
                               [logical_clock |-> clock, held_locks |-> Tracked(@.held_locks, l)]]
              /\ promise' = [promise EXCEPT ![c][l] = Promised(ttl_ms)]
      /\ UNCHANGED current_time_ms

Owns(c, l) == locks[l].granted /\ locks[l].owner_id = c

(* dlm_release of one lock, in the given states of locks and clients.        *)
Freed(lock) == [lock EXCEPT !.granted = FALSE, !.owner_id = None]

dlm_release(c, l) ==
  /\ Owns(c, l)
  /\ locks' = [locks EXCEPT ![l] = Freed(@)]
  /\ clients' = [clients EXCEPT ![c].held_locks = Untracked(@, l)]
  /\ promise' = [promise EXCEPT ![c][l] = None]
  /\ UNCHANGED <<global_clock, current_time_ms>>

(* Mutant: any client renews a granted lock.                                 *)
RenewsForAnyone(c, l, ttl_ms) ==
  /\ locks[l].granted
  /\ locks' = [locks EXCEPT ![l].lease_expiry_ms = Expiry(ttl_ms)]
  /\ promise' = [promise EXCEPT ![c][l] = Promised(ttl_ms)]
  /\ UNCHANGED <<clients, global_clock, current_time_ms>>

(* A renewal also revives a lease whose expiry wrapped around.               *)
dlm_renew(c, l, ttl_ms) ==
  /\ Owns(c, l)
  /\ locks' = [locks EXCEPT ![l].lease_expiry_ms = Expiry(ttl_ms)]
  /\ promise' = [promise EXCEPT ![c][l] = Promised(ttl_ms)]
  /\ UNCHANGED <<clients, global_clock, current_time_ms>>

(* The sweep goes through the locks in the order of their ids.               *)
dlm_tick(delta_ms) ==
  LET now == current_time_ms + delta_ms
      expired == {l \in Locks : locks[l].granted /\ now >= locks[l].lease_expiry_ms}
      swept(c) == FoldLeft(Untracked, clients[c].held_locks,
                           SetToSortSeq({l \in expired : locks[l].owner_id = c}, <))
  IN  /\ now <= MaxTime
      /\ current_time_ms' = now
      /\ locks' = [l \in Locks |-> IF l \in expired THEN Freed(locks[l]) ELSE locks[l]]
      /\ clients' = [c \in Clients |-> [clients[c] EXCEPT !.held_locks = swept(c)]]
      /\ UNCHANGED <<global_clock, promise>>

dlm_lock_owner(l) ==
  IF locks[l].granted /\ current_time_ms < locks[l].lease_expiry_ms
  THEN locks[l].owner_id ELSE None

DlmNext ==
  \/ \E c \in Clients, l \in Locks :
       \/ \E ttl_ms \in Ttls : dlm_acquire(c, l, ttl_ms) \/ dlm_renew(c, l, ttl_ms)
       \/ dlm_release(c, l)
  \/ \E delta_ms \in Ttls \ {0} : dlm_tick(delta_ms)

DlmSpec == dlm_init /\ [][DlmNext]_dlmVars

-----------------------------------------------------------------------------
(* dlm_acquire, dlm_renew, dlm_tick: a client that was promised a lock owns  *)
(* it until the promised moment, unless it released it, so that no two       *)
(* clients count on one lock; and of two granted locks, or two grants of one *)
(* lock, the later has the higher logical clock.                             *)
LeasesKept ==
  /\ locks \in [Locks -> DLMLock]
  /\ \A l \in Locks, c \in Clients :
       promise[c][l] > current_time_ms => dlm_lock_owner(l) = c
  /\ \A l, m \in Locks : l # m /\ locks[l].logical_clock = locks[m].logical_clock
                           => locks[l].logical_clock = 0
  /\ \A c \in Clients, l \in Locks : Owns(c, l) =>
       locks[l].logical_clock \in 1 .. clients[c].logical_clock

-----------------------------------------------------------------------------
(* What is settled stays so: Multi-Paxos learners never go back to an older  *)
(* round; in SWIM the dead stay dead, every state has its incarnation, and   *)
(* no tick suspects a running member.                                        *)
NothingTakenBack ==
  [][LearnsForward /\ DeadStayDead /\ OnlyCrashedSuspected]_<<multiVars, swimVars>>

(* What is reported is so: a quorum read is as new as every acknowledged     *)
(* write, gossip that reports agreement has it, and the outcome of a         *)
(* transaction over values is that of every participant.                     *)
ReportsTrue == AckedReadsFresh /\ SyncedMeansEqual /\ OneOutcome
=============================================================================
