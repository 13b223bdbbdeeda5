------------------------------ MODULE Backends ------------------------------
(***************************************************************************)
(* The backends that mini-gateway-proxy knows of: service discovery and    *)
(* the pool of connections to them.  They share no state.                  *)
(***************************************************************************)
EXTENDS Naturals, Sequences, SequencesExt, FiniteSets

-----------------------------------------------------------------------------
(***************************************************************************)
(* The service registry of mini-gateway-proxy (service_discovery.c).  Times *)
(* are kept as ages: the time since an endpoint's last heartbeat, counted   *)
(* up to the first value that is beyond every limit.                        *)
(***************************************************************************)

CONSTANTS Services, Addresses, MaxServices, MaxEndpoints, Ttl,
          FailureLimit,  \* failed pings that take an endpoint down
          RRPeriod       \* rr_counter is kept modulo this

VARIABLES services, rr_counter

sdVars == <<services, rr_counter>>

Gone == 5 * Ttl + 1      \* an age beyond the last limit

(* good is no field of the code: the time since the endpoint was registered  *)
(* or last answered a ping.                                                  *)
SREndpoint == [address: Addresses, state: {"HEALTHY", "UNHEALTHY", "UNKNOWN"},
               failure_count: 0..FailureLimit, heartbeat: 0..Gone, good: 0..Gone]

SdInit == services = <<>> /\ rr_counter = 0

Positions(name) == {i \in DOMAIN services : services[i].name = name}

(* The capacity is tested before the name is looked up.  A DNS name resolves *)
(* by registering its first label: sr_resolve_dns_srv.                       *)
sr_register_service(name) ==
  /\ Len(services) < MaxServices /\ Positions(name) = {}
  /\ services' = Append(services, [name |-> name, endpoints |-> <<>>])
  /\ UNCHANGED rr_counter

(* Adding a known address again changes its weight only.                     *)
sr_add_endpoint(i, addr) ==
  /\ Len(services[i].endpoints) < MaxEndpoints
  /\ \A j \in DOMAIN services[i].endpoints : services[i].endpoints[j].address # addr
  /\ services' = [services EXCEPT ![i].endpoints = Append(@,
       [address |-> addr, state |-> "HEALTHY", failure_count |-> 0,
        heartbeat |-> 0, good |-> 0])]
  /\ UNCHANGED rr_counter

sr_remove_endpoint(i, j) ==
  /\ services' = [services EXCEPT ![i].endpoints = RemoveAt(@, j)]
  /\ UNCHANGED rr_counter

(* failure_count matters up to its limit.  A failed ping is a heartbeat too. *)
Pinged(ep, success) ==
  IF success
  THEN [ep EXCEPT !.heartbeat = 0, !.good = 0, !.failure_count = 0, !.state = "HEALTHY"]
  ELSE LET n == IF ep.failure_count < FailureLimit THEN ep.failure_count + 1 ELSE FailureLimit
       IN  [ep EXCEPT !.heartbeat = 0, !.failure_count = n,
                      !.state = IF n >= FailureLimit /\ @ = "HEALTHY" THEN "UNHEALTHY" ELSE @]

sr_heartbeat_ping(i, j, success) ==
  /\ services' = [services EXCEPT ![i].endpoints[j] = Pinged(@, success)]
  /\ UNCHANGED rr_counter

Checked(ep) ==
  CASE ep.heartbeat > 4 * Ttl -> [ep EXCEPT !.state = "UNKNOWN"]
    [] ep.heartbeat > 2 * Ttl /\ ep.state = "HEALTHY" -> [ep EXCEPT !.state = "UNHEALTHY"]
    [] OTHER -> ep

OnEndpoints(Op(_)) ==
  services' = [i \in DOMAIN services |-> [services[i] EXCEPT !.endpoints =
                 [j \in DOMAIN @ |-> Op(@[j])]]]

sr_health_check == OnEndpoints(Checked) /\ UNCHANGED rr_counter

sr_prune_expired ==
  /\ services' = [i \in DOMAIN services |-> [services[i] EXCEPT !.endpoints =
                    SelectSeq(@, LAMBDA ep : ep.heartbeat <= 5 * Ttl)]]
  /\ UNCHANGED rr_counter

(* rr_counter belongs to the function, not to the service: one counter for   *)
(* all.  sr_select_failover changes nothing.                                 *)
sr_select_round_robin(i) ==
  LET n    == Len(services[i].endpoints)
      hits == {t \in 0 .. n - 1 :
                 services[i].endpoints[((rr_counter + t) % n) + 1].state = "HEALTHY"}
      used == IF hits = {} THEN n ELSE 1 + CHOOSE t \in hits : \A u \in hits : t <= u
  IN  /\ n > 0
      /\ rr_counter' = (rr_counter + used) % RRPeriod
      /\ UNCHANGED services

SdTick ==
  /\ \E i \in DOMAIN services : \E j \in DOMAIN services[i].endpoints :
       services[i].endpoints[j].good < Gone
  /\ OnEndpoints(LAMBDA ep : [ep EXCEPT !.heartbeat = IF @ < Gone THEN @ + 1 ELSE @,
                                        !.good = IF @ < Gone THEN @ + 1 ELSE @])
  /\ UNCHANGED rr_counter

SdNext ==
  \/ \E s \in Services : sr_register_service(s)
  \/ \E i \in DOMAIN services :
       \/ \E a \in Addresses : sr_add_endpoint(i, a)
       \/ \E j \in DOMAIN services[i].endpoints :
            sr_remove_endpoint(i, j) \/ \E ok \in BOOLEAN : sr_heartbeat_ping(i, j, ok)
       \/ sr_select_round_robin(i)
  \/ sr_health_check
  \/ sr_prune_expired
  \/ SdTick

SdSpec == SdInit /\ [][SdNext]_sdVars

-----------------------------------------------------------------------------
Endpoints == UNION {{services[i].endpoints[j] : j \in DOMAIN services[i].endpoints} :
                      i \in DOMAIN services}

SdTypeOK == Len(services) <= MaxServices /\ Endpoints \subseteq SREndpoint

(* An endpoint is out of rotation for a reason: three pings in a row failed, *)
(* or it has not answered one for two TTLs.                                  *)
DownForAReason ==
  \A ep \in Endpoints : ep.state # "HEALTHY" =>
    ep.failure_count >= FailureLimit \/ ep.good > 2 * Ttl

-----------------------------------------------------------------------------
(***************************************************************************)
(* The keep-alive pools of mini-gateway-proxy (connection_pool.c): borrowers *)
(* take connections, return them, and meanwhile a reaper closes what was    *)
(* idle or alive for too long.  Time is in ticks, TicksPerSecond of them to *)
(* a second, because the ages are computed from seconds and nanoseconds     *)
(* separately.                                                              *)
(***************************************************************************)

CONSTANTS Hosts, Borrowers, MaxPools, MaxConn, MaxRequests, MaxIdle, MaxLife,
          TicksPerSecond, MaxTime

ASSUME PoolAssumption == TicksPerSecond \in Nat \ {0} /\ MaxTime \in Nat

VARIABLES pools,    \* the PoolManager's array, one pool for a host
          policy,   \* evict_policy of every pool
          held,     \* the connection each borrower keeps a pointer to
          now

poolVars == <<pools, policy, held, now>>

Nothing == <<0, 0>>     \* no connection; connections are <<pool, position>>

CPConnection == [state: {"IDLE", "ACTIVE", "CLOSING"}, fd: BOOLEAN,
                 created_at: 0..MaxTime, last_used: 0..MaxTime,
                 idle_start: 0..MaxTime, request_count: 0..MaxRequests]

Pool == [host: Hosts, connections: Seq(CPConnection), active_count: Nat, idle_count: Nat]

cp_init(h) == [host |-> h, connections |-> <<>>, active_count |-> 0, idle_count |-> 0]

(* (uint64_t)(now.tv_nsec - start.tv_nsec) / 1000000 is about 2^64 / 10^6    *)
(* when the nanoseconds went backwards: far beyond every limit.              *)
Elapsed(start) ==
  IF now % TicksPerSecond < start % TicksPerSecond
  THEN MaxTime + MaxIdle + MaxLife
  ELSE now - start

Second(t) == t \div TicksPerSecond

In(p, st) == {i \in DOMAIN p.connections : p.connections[i].state = st}

(* cp_acquire's choice, which compares whole times                           *)
Reusable(p) ==
  LET I == In(p, "IDLE")
      Older(i, j) == \/ p.connections[i].last_used < p.connections[j].last_used
                     \/ p.connections[i].last_used = p.connections[j].last_used /\ i <= j
  IN  CHOOSE i \in I : \A j \in I : IF policy = "LRU" THEN Older(i, j) ELSE i <= j

(* cp_evict's choice, which compares seconds only                            *)
Victim(p) ==
  LET I == In(p, "IDLE")
      Key(i) == CASE policy = "FIFO" -> Second(p.connections[i].idle_start)
                  [] policy = "LRU"  -> Second(p.connections[i].last_used)
                  [] OTHER           -> 0
  IN  CHOOSE i \in I : \A j \in I : Key(i) < Key(j) \/ (Key(i) = Key(j) /\ i <= j)

(* Mutant: every closed connection counts as an idle one.                    *)
CloseCountsIdle(p, I) ==
  [p EXCEPT !.connections = [i \in DOMAIN @ |->
              IF i \in I THEN [@[i] EXCEPT !.state = "CLOSING", !.fd = FALSE] ELSE @[i]],
            !.idle_count = @ - Cardinality(I \cap In(p, "IDLE"))]

Close(p, I) ==
  [p EXCEPT !.connections = [i \in DOMAIN @ |->
              IF i \in I THEN [@[i] EXCEPT !.state = "CLOSING", !.fd = FALSE] ELSE @[i]],
            !.active_count = @ - Cardinality(I \cap In(p, "ACTIVE")),
            !.idle_count = @ - Cardinality(I \cap In(p, "IDLE"))]

-----------------------------------------------------------------------------
PoolInit ==
  /\ pools = <<>>
  /\ policy \in {"FIFO", "LRU", "LIFO"}
  /\ held = [b \in Borrowers |-> Nothing]
  /\ now = 0

(* A closed connection keeps its place in the array, and the pool that has   *)
(* no idle one is full when idle_count > 0 cannot be: PoolAccounts.          *)
cp_acquire(p) ==
  IF In(p, "IDLE") # {}
  THEN LET i == Reusable(p) IN
       [pool |-> [p EXCEPT !.connections[i].state = "ACTIVE",
                           !.connections[i].last_used = now,
                           !.active_count = @ + 1, !.idle_count = @ - 1],
        conn |-> i]
  ELSE IF Len(p.connections) >= MaxConn THEN [pool |-> p, conn |-> 0]
  ELSE [pool |-> [p EXCEPT !.connections = Append(@,
                     [state |-> "ACTIVE", fd |-> FALSE, created_at |-> now,
                      last_used |-> now, idle_start |-> 0, request_count |-> 0]),
                           !.active_count = @ + 1],
        conn |-> Len(p.connections) + 1]

PoolOf(h) == {i \in DOMAIN pools : pools[i].host = h}

pm_get_or_create_pool(h) ==
  IF PoolOf(h) # {} \/ Len(pools) >= MaxPools THEN pools ELSE Append(pools, cp_init(h))

pm_borrow(b, h) ==
  /\ held[b] = Nothing
  /\ LET known == pm_get_or_create_pool(h)
         at    == {i \in DOMAIN known : known[i].host = h}
     IN  /\ at # {}
         /\ \E i \in at : LET got == cp_acquire(known[i]) IN
              /\ pools' = [known EXCEPT ![i] = got.pool]
              /\ held' = [held EXCEPT ![b] = IF got.conn = 0 THEN Nothing ELSE <<i, got.conn>>]
  /\ UNCHANGED <<policy, now>>

(* The borrower connects the socket and sends a request.                     *)
Use(b) ==
  /\ held[b] # Nothing
  /\ LET c == pools[held[b][1]].connections[held[b][2]] IN
     /\ c.state = "ACTIVE" /\ c.request_count < MaxRequests
     /\ pools' = [pools EXCEPT ![held[b][1]].connections[held[b][2]] =
                    [c EXCEPT !.fd = TRUE, !.request_count = @ + 1]]
  /\ UNCHANGED <<policy, held, now>>

cp_release(p, i, keep_alive) ==
  LET c == p.connections[i] IN
  IF c.state # "ACTIVE" THEN p
  ELSE IF keep_alive /\ c.fd /\ c.request_count < MaxRequests
  THEN [p EXCEPT !.connections[i].state = "IDLE", !.connections[i].idle_start = now,
                 !.active_count = @ - 1, !.idle_count = @ + 1]
  ELSE Close(p, {i})

(* The pointer is forgotten whatever the call answers.                       *)
pm_return(b, keep_alive) ==
  /\ held[b] # Nothing
  /\ pools' = [pools EXCEPT ![held[b][1]] = cp_release(@, held[b][2], keep_alive)]
  /\ held' = [held EXCEPT ![b] = Nothing]
  /\ UNCHANGED <<policy, now>>

cp_evict(i) ==
  /\ In(pools[i], "IDLE") # {}
  /\ pools' = [pools EXCEPT ![i] = Close(@, {Victim(@)})]
  /\ UNCHANGED <<policy, held, now>>

IdleTooLong(p) == {i \in In(p, "IDLE") : Elapsed(p.connections[i].idle_start) >= MaxIdle}

pm_reap_idle ==
  /\ \E i \in DOMAIN pools : IdleTooLong(pools[i]) # {}
  /\ pools' = [i \in DOMAIN pools |-> Close(pools[i], IdleTooLong(pools[i]))]
  /\ UNCHANGED <<policy, held, now>>

Expired(p) == {i \in In(p, "IDLE") \cup In(p, "ACTIVE") :
                 Elapsed(p.connections[i].created_at) >= MaxLife}

(* Closes connections somebody is using, too.                                *)
cp_close_expired(i) ==
  /\ Expired(pools[i]) # {}
  /\ pools' = [pools EXCEPT ![i] = Close(@, Expired(@))]
  /\ UNCHANGED <<policy, held, now>>

PoolTick == now < MaxTime /\ now' = now + 1 /\ UNCHANGED <<pools, policy, held>>

PoolNext ==
  \/ \E b \in Borrowers : \/ \E h \in Hosts : pm_borrow(b, h)
                          \/ Use(b)
                          \/ \E k \in BOOLEAN : pm_return(b, k)
  \/ \E i \in DOMAIN pools : cp_evict(i) \/ cp_close_expired(i)
  \/ pm_reap_idle
  \/ PoolTick

PoolSpec == PoolInit /\ [][PoolNext]_poolVars

-----------------------------------------------------------------------------
PoolTypeOK ==
  /\ Len(pools) <= MaxPools
  /\ \A i \in DOMAIN pools : pools[i] \in Pool /\ Len(pools[i].connections) <= MaxConn

(* The counters say how many connections are in use and how many can be      *)
(* reused, an idle connection has a socket, no connection is lent twice, and *)
(* every connection in use has a borrower to return it: whatever the reaper  *)
(* closes while connections are out.                                         *)
PoolAccounts ==
  /\ \A i \in DOMAIN pools :
       /\ pools[i].active_count = Cardinality(In(pools[i], "ACTIVE"))
       /\ pools[i].idle_count = Cardinality(In(pools[i], "IDLE"))
       /\ \A j \in In(pools[i], "IDLE") : pools[i].connections[j].fd
       /\ \A j \in In(pools[i], "ACTIVE") : \E b \in Borrowers : held[b] = <<i, j>>
  /\ \A a, b \in Borrowers : held[a] = held[b] /\ held[a] # Nothing => a = b
=============================================================================
