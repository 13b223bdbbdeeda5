---------------------------- MODULE LoadBalancer ----------------------------
(***************************************************************************)
(* The load balancer of mini-gateway-proxy (load_balancer.c): servers come, *)
(* go and change their health while requests are distributed by one of five *)
(* algorithms.  The hash of a virtual node is chosen freely at the start;   *)
(* rr_index is kept modulo a number that every server count divides.        *)
(***************************************************************************)
EXTENDS Integers, Sequences, FiniteSets, SequencesExt

CONSTANTS Algorithms,      \* the ones lb_init may be given
          Addresses, Weights, MaxServers, VirtualNodes, MaxHash,
          Overload,     \* connections that make a server unhealthy
          RRPeriod, MaxWeight, MaxWait

VARIABLES lb,           \* the LoadBalancer
          hash,         \* lb_hash_key of every virtual node's key
          waited        \* selections since a healthy server was chosen last

vars == <<lb, hash, waited>>

Rotating == {"ROUND_ROBIN", "WEIGHTED_ROUND_ROBIN"}

LBServer == [address: Addresses, weight: Weights, effective_weight: Weights,
             current_weight: -MaxWeight..MaxWeight,
             active_connections: 0..Overload, healthy: BOOLEAN]

(* Insertion before the first virtual node whose hash is not smaller.        *)
Insert(ring, node) ==
  LET before == Cardinality({i \in DOMAIN ring : \A j \in 1..i : ring[j].hash < node.hash})
  IN  SubSeq(ring, 1, before) \o <<node>> \o SubSeq(ring, before + 1, Len(ring))

VirtualNodesOf(servers) ==
  FlattenSeq([i \in DOMAIN servers |->
    [v \in 1..VirtualNodes |-> [hash |-> hash[servers[i].address, v], server_index |-> i]]])

(* Mutant: a virtual node goes to the end of the ring.                       *)
BuildsUnsorted(servers) == VirtualNodesOf(servers)

lb_build_ring(servers) == FoldLeft(Insert, <<>>, VirtualNodesOf(servers))

Rebuilt(servers) == IF lb.algorithm = "CONSISTENT_HASH" THEN lb_build_ring(servers) ELSE lb.ring

lb_init(algorithm) == [servers |-> <<>>, algorithm |-> algorithm, rr_index |-> 0, ring |-> <<>>]

Init ==
  /\ \E a \in Algorithms : lb = lb_init(a)
  /\ hash \in [Addresses \X (1..VirtualNodes) -> 0..MaxHash]
  /\ lb.algorithm # "CONSISTENT_HASH" => \A k \in DOMAIN hash : hash[k] = 0
  /\ waited = [a \in Addresses |-> 0]

-----------------------------------------------------------------------------
At(a) == {i \in DOMAIN lb.servers : lb.servers[i].address = a}

NobodyWaits == waited' = [a \in Addresses |-> 0]

(* The library takes the same address twice; the embedding program does not. *)
lb_add_server(a, w) ==
  LET servers == Append(lb.servers,
        [address |-> a, weight |-> w, effective_weight |-> w, current_weight |-> 0,
         active_connections |-> 0, healthy |-> TRUE])
  IN  /\ Len(lb.servers) < MaxServers /\ At(a) = {}
      /\ lb' = [lb EXCEPT !.servers = servers, !.ring = Rebuilt(servers)]
      /\ NobodyWaits /\ UNCHANGED hash

lb_remove_server(a) ==
  \E i \in At(a) :
    LET servers == RemoveAt(lb.servers, i) IN
    /\ lb' = [lb EXCEPT !.servers = servers, !.ring = Rebuilt(servers)]
    /\ NobodyWaits /\ UNCHANGED hash

Healthy == {i \in DOMAIN lb.servers : lb.servers[i].healthy}

Least(I, Key(_)) == CHOOSE i \in I : \A j \in I : Key(i) < Key(j) \/ (Key(i) = Key(j) /\ i <= j)

(* waited is kept for the algorithms that take turns.                        *)
Chosen(I) ==
  waited' = [a \in Addresses |->
    IF lb.algorithm \in Rotating /\ \E i \in Healthy \ I : lb.servers[i].address = a
    THEN waited[a] + 1 ELSE 0]

(* Mutant: a server that is down keeps its turn for the next call.           *)
StopsAtUnhealthy ==
  LET n   == Len(lb.servers)
      idx == (lb.rr_index % n) + 1
  IN  /\ lb' = IF idx \in Healthy THEN [lb EXCEPT !.rr_index = (@ + 1) % RRPeriod] ELSE lb
      /\ Chosen(IF idx \in Healthy THEN {idx} ELSE {})

(* Index tries from rr_index on, and every try moves it on.                  *)
lb_select_round_robin ==
  LET n     == Len(lb.servers)
      Try(t) == ((lb.rr_index + t) % n) + 1
      hits  == {t \in 0 .. n - 1 : Try(t) \in Healthy}
      t     == IF hits = {} THEN n - 1 ELSE Least(hits, LAMBDA k : k)
  IN  /\ lb' = [lb EXCEPT !.rr_index = (@ + t + 1) % RRPeriod]
      /\ Chosen(IF hits = {} THEN {} ELSE {Try(t)})

(* Smooth weighted round robin: everybody gains, the richest pays for all.   *)
lb_select_weighted_rr ==
  LET total == FoldLeft(LAMBDA n, s : IF s.healthy THEN n + s.effective_weight ELSE n,
                        0, lb.servers)
      gain  == [i \in DOMAIN lb.servers |->
                 IF i \in Healthy THEN [lb.servers[i] EXCEPT !.current_weight =
                                          @ + lb.servers[i].effective_weight]
                 ELSE lb.servers[i]]
      best  == Least(Healthy, LAMBDA i : -gain[i].current_weight)
  IN  /\ lb' = [lb EXCEPT !.servers =
                  IF Healthy = {} THEN gain
                  ELSE [gain EXCEPT ![best].current_weight = @ - total]]
      /\ Chosen(IF Healthy = {} THEN {} ELSE {best})

lb_select_least_conn ==
  /\ Healthy # {} => Chosen({Least(Healthy, LAMBDA i : lb.servers[i].active_connections)})
  /\ Healthy = {} => Chosen({})
  /\ UNCHANGED lb

lb_select_random ==
  /\ \/ \E i \in Healthy : Chosen({i})
     \/ Healthy = {} /\ Chosen({})
  /\ UNCHANGED lb

(* The server the binary search finds for the hash h of a key; health plays  *)
(* no part.                                                                  *)
lb_select_consistent_hash(ring, h) ==
  LET n == Len(ring)
      Search[lo \in 0..n, hi \in -1 .. n - 1, idx \in 0 .. n - 1] ==
        LET mid == lo + (hi - lo) \div 2 IN
        IF lo > hi THEN [lo |-> lo, idx |-> idx]
        ELSE IF ring[mid + 1].hash >= h THEN Search[lo, mid - 1, mid]
        ELSE Search[mid + 1, hi, idx]
      end == Search[0, n - 1, 0]
  IN  ring[(IF end.lo >= n THEN 0 ELSE end.idx) + 1].server_index

Hashed ==
  /\ \E h \in 0..MaxHash : Chosen({lb_select_consistent_hash(lb.ring, h)})
  /\ UNCHANGED lb

lb_select_server ==
  /\ lb.servers # <<>>
  /\ CASE lb.algorithm = "ROUND_ROBIN"          -> lb_select_round_robin
       [] lb.algorithm = "WEIGHTED_ROUND_ROBIN" -> lb_select_weighted_rr
       [] lb.algorithm = "LEAST_CONNECTIONS"    -> lb_select_least_conn
       [] lb.algorithm = "CONSISTENT_HASH"      -> Hashed
       [] lb.algorithm = "RANDOM"               -> lb_select_random
  /\ UNCHANGED hash

Forgotten(a) == waited' = [waited EXCEPT ![a] = 0]

lb_health_ping(i, alive) ==
  LET servers == [lb.servers EXCEPT ![i].healthy = alive] IN
  /\ lb.servers[i].healthy # alive
  /\ lb' = [lb EXCEPT !.servers = servers, !.ring = Rebuilt(servers)]
  /\ Forgotten(lb.servers[i].address) /\ UNCHANGED hash

(* Sets every server's health by its connections; a server that went down    *)
(* loses its turn's weight.                                                  *)
lb_health_check ==
  LET servers == [i \in DOMAIN lb.servers |->
        LET s == lb.servers[i]
            h == s.active_connections < Overload
        IN  [s EXCEPT !.healthy = h,
                      !.current_weight = IF s.healthy /\ ~h THEN 0 ELSE @,
                      !.effective_weight = IF ~s.healthy /\ h THEN s.weight ELSE @]]
  IN  /\ servers # lb.servers
      /\ lb' = [lb EXCEPT !.servers = servers, !.ring = Rebuilt(servers)]
      /\ waited' = [a \in Addresses |->
           IF \E i \in At(a) : servers[i].healthy # lb.servers[i].healthy THEN 0 ELSE waited[a]]
      /\ UNCHANGED hash

(* The caller keeps the number of connections up to date.                    *)
Connections(i, n) ==
  /\ lb.algorithm \in {"LEAST_CONNECTIONS", "WEIGHTED_ROUND_ROBIN"}
  /\ lb.servers[i].active_connections # n
  /\ lb' = [lb EXCEPT !.servers[i].active_connections = n]
  /\ UNCHANGED <<hash, waited>>

Next ==
  \/ \E a \in Addresses, w \in Weights : lb_add_server(a, w)
  \/ \E a \in Addresses : lb_remove_server(a)
  \/ lb_select_server
  \/ \E i \in DOMAIN lb.servers, alive \in BOOLEAN : lb_health_ping(i, alive)
  \/ \E i \in DOMAIN lb.servers, n \in {0, Overload} : Connections(i, n)
  \/ lb_health_check

Spec == Init /\ [][Next]_vars

-----------------------------------------------------------------------------
TypeOK == \A i \in DOMAIN lb.servers : lb.servers[i] \in LBServer

(* Round robin passes nobody over: a server that stays healthy is chosen     *)
(* before any other server has been chosen twice more.  The weighted form    *)
(* keeps everyone within bounds while the others go up and down.             *)
NobodyStarves ==
  /\ lb.algorithm = "ROUND_ROBIN" => \A a \in Addresses : waited[a] < Len(lb.servers) \/ waited[a] = 0
  /\ lb.algorithm = "WEIGHTED_ROUND_ROBIN" => \A a \in Addresses : waited[a] <= MaxWait

(* A step of consistent hashing: a new server takes keys over from others    *)
(* but moves none between them, and a removed one loses only its own.        *)
KeysStay ==
  lb.algorithm = "CONSISTENT_HASH" /\ lb.ring # <<>> /\ lb'.ring # <<>> =>
    \A h \in 0..MaxHash :
      LET old == lb.servers[lb_select_consistent_hash(lb.ring, h)].address
          new == lb'.servers[lb_select_consistent_hash(lb'.ring, h)].address
      IN  \/ new = old
          \/ At(new) = {}
          \/ \A i \in DOMAIN lb'.servers : lb'.servers[i].address # old
=============================================================================
