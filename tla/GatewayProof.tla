---------------------------- MODULE GatewayProof ----------------------------
(***************************************************************************)
(* Proofs about mini-gateway-proxy: the books of the connection pools, the *)
(* promises of the rate limiters, and the way of a request through the     *)
(* middleware chain, the routes and the proxy, for every number of hosts,  *)
(* borrowers, clients, handlers and routes, every capacity, rate and       *)
(* window.                                                                 *)
(***************************************************************************)
EXTENDS Backends, Admission, ReverseProxy, TLAPS, FiniteSetTheorems, WellFoundedInduction

(* A set of natural numbers that is not empty has a least element.           *)
LEMMA LeastNumber ==
  ASSUME NEW S, S \subseteq Nat, S # {}
  PROVE  \E x \in S : \A y \in S : x <= y
<1> DEFINE R == {p \in Nat \X Nat : p[1] < p[2]}
<1>1. IsWellFoundedOn(R, Nat)
  BY NatLessThanWellFounded, Zenon DEF OpToRel
<1>2. PICK x \in S : \A y \in S : ~(<<y, x>> \in R)
  <2> HIDE DEF R
  <2> QED
    BY <1>1, WFMin
<1>3. ASSUME NEW y \in S, y < x
      PROVE  FALSE
  BY <1>2, <1>3
<1> QED
  BY <1>3

(* A function on 1 .. n is a sequence.                                       *)
LEMMA Array ==
  ASSUME NEW S, NEW n \in Nat, NEW f, f \in [1 .. n -> S]
  PROVE  f \in Seq(S) /\ Len(f) = n /\ DOMAIN f = 1 .. n
  OBVIOUS

-----------------------------------------------------------------------------
(* connection_pool.c.  What the counters say of a pool is kept by every call *)
(* for that pool alone.  That nobody is lent what another one holds needs    *)
(* to know of the pointers in the borrowers' hands: they name a place that   *)
(* was given out, places are never given out again once they are closed, and *)
(* the connection at that place is in use or closed but never idle.          *)

Conn == [state : {"IDLE", "ACTIVE", "CLOSING"}, fd : BOOLEAN, created_at : Nat,
         last_used : Nat, idle_start : Nat, request_count : Nat]

ConnPool == [host : Hosts, connections : Seq(Conn), active_count : Int, idle_count : Int]

PoolSound(p) ==
  /\ p \in ConnPool
  /\ p.active_count = Cardinality(In(p, "ACTIVE"))
  /\ p.idle_count = Cardinality(In(p, "IDLE"))
  /\ \A j \in In(p, "IDLE") : p.connections[j].fd

(* What a borrower holds is a place of a pool whose connection is not idle.  *)
Pointer(x) ==
  /\ x[1] \in DOMAIN pools /\ x[2] \in DOMAIN pools[x[1]].connections
  /\ x[2] \notin In(pools[x[1]], "IDLE")

PoolInv ==
  /\ now \in Nat /\ policy \in {"FIFO", "LRU", "LIFO"}
  /\ pools \in Seq(ConnPool)
  /\ held \in [Borrowers -> Nat \X Nat]
  /\ \A i \in DOMAIN pools : PoolSound(pools[i])
  /\ \A b \in Borrowers : held[b] # Nothing => Pointer(held[b])
  /\ \A i \in DOMAIN pools : \A j \in In(pools[i], "ACTIVE") : \E b \in Borrowers : held[b] = <<i, j>>
  /\ \A a, b \in Borrowers : held[a] = held[b] /\ held[a] # Nothing => a = b

LEMMA Places ==
  ASSUME NEW p \in ConnPool
  PROVE  /\ p.connections \in Seq(Conn)
         /\ Len(p.connections) \in Nat
         /\ DOMAIN p.connections = 1 .. Len(p.connections)
         /\ \A i \in DOMAIN p.connections : p.connections[i] \in Conn
         /\ \A s : /\ In(p, s) \subseteq 1 .. Len(p.connections)
                   /\ IsFiniteSet(In(p, s)) /\ Cardinality(In(p, s)) \in Nat
<1>1. /\ p.connections \in Seq(Conn)
      /\ Len(p.connections) \in Nat
      /\ DOMAIN p.connections = 1 .. Len(p.connections)
      /\ \A i \in DOMAIN p.connections : p.connections[i] \in Conn
  BY DEF ConnPool
<1>2. \A s : In(p, s) \subseteq 1 .. Len(p.connections)
  BY <1>1 DEF In
<1>3. IsFiniteSet(1 .. Len(p.connections))
  BY <1>1, FS_Interval
<1> QED
  BY <1>1, <1>2, <1>3, FS_Subset, FS_CardinalityType

(* Closing connections that are idle or in use.                              *)
LEMMA Closes ==
  ASSUME NEW p, PoolSound(p), NEW I, I \subseteq In(p, "IDLE") \cup In(p, "ACTIVE")
  PROVE  /\ PoolSound(Close(p, I))
         /\ DOMAIN Close(p, I).connections = DOMAIN p.connections
         /\ In(Close(p, I), "ACTIVE") = In(p, "ACTIVE") \ I
         /\ In(Close(p, I), "IDLE") = In(p, "IDLE") \ I
<1> DEFINE q == Close(p, I)
           closed == [i \in DOMAIN p.connections |->
              IF i \in I THEN [p.connections[i] EXCEPT !.state = "CLOSING", !.fd = FALSE] ELSE p.connections[i]]
<1>1. p \in ConnPool /\ p.active_count \in Int /\ p.idle_count \in Int /\ p.host \in Hosts
  BY DEF PoolSound, ConnPool
<1>2. /\ Len(p.connections) \in Nat
      /\ DOMAIN p.connections = 1 .. Len(p.connections)
      /\ \A i \in DOMAIN p.connections : p.connections[i] \in Conn
      /\ \A s : IsFiniteSet(In(p, s)) /\ Cardinality(In(p, s)) \in Nat
  BY <1>1, Places
<1>3. closed \in [1 .. Len(p.connections) -> Conn]
  BY <1>2 DEF Conn
<1>4. closed \in Seq(Conn) /\ DOMAIN closed = DOMAIN p.connections
  <2> HIDE DEF closed
  <2> QED
    BY <1>2, <1>3, Array
<1>5. \A s : IsFiniteSet(I \cap In(p, s)) /\ Cardinality(I \cap In(p, s)) \in Nat
  BY <1>2, FS_Subset, FS_CardinalityType
<1>6. q = [p EXCEPT !.connections = closed,
                    !.active_count = p.active_count - Cardinality(I \cap In(p, "ACTIVE")),
                    !.idle_count = p.idle_count - Cardinality(I \cap In(p, "IDLE"))]
  BY <1>1 DEF Close, ConnPool
<1>7. /\ q.connections = closed /\ q.host = p.host
      /\ q.active_count = p.active_count - Cardinality(I \cap In(p, "ACTIVE"))
      /\ q.idle_count = p.idle_count - Cardinality(I \cap In(p, "IDLE"))
      /\ q \in ConnPool
  <2> DEFINE x == p.active_count - Cardinality(I \cap In(p, "ACTIVE"))
             y == p.idle_count - Cardinality(I \cap In(p, "IDLE"))
  <2>1. x \in Int /\ y \in Int
    BY <1>1, <1>5
  <2>2. q = [p EXCEPT !.connections = closed, !.active_count = x, !.idle_count = y]
    BY <1>6
  <2> HIDE DEF closed, q, x, y
  <2>3. /\ q.connections = closed /\ q.active_count = x /\ q.idle_count = y /\ q.host = p.host
        /\ q \in ConnPool
    BY <1>1, <1>4, <2>1, <2>2 DEF ConnPool
  <2> QED
    BY <2>3 DEF x, y
<1>8. \A i \in DOMAIN p.connections :
         closed[i].state = IF i \in I THEN "CLOSING" ELSE p.connections[i].state
  BY <1>2 DEF Conn
<1>9. In(q, "ACTIVE") = In(p, "ACTIVE") \ I /\ In(q, "IDLE") = In(p, "IDLE") \ I
  <2> HIDE DEF q, closed
  <2> QED
    BY <1>4, <1>7, <1>8 DEF In
<1>10. \A s : I \cap In(p, s) = In(p, s) \cap I
  OBVIOUS
<1>11. \A s : Cardinality(In(p, s) \ I) = Cardinality(In(p, s)) - Cardinality(I \cap In(p, s))
  BY <1>2, <1>10, FS_Difference
<1>12. q.active_count = Cardinality(In(q, "ACTIVE")) /\ q.idle_count = Cardinality(In(q, "IDLE"))
  <2> HIDE DEF q
  <2> QED
    BY <1>7, <1>9, <1>11 DEF PoolSound
<1>13. \A j \in In(q, "IDLE") : q.connections[j].fd
  <2> HIDE DEF q
  <2> SUFFICES ASSUME NEW j \in In(q, "IDLE") PROVE q.connections[j].fd
    OBVIOUS
  <2>1. j \in In(p, "IDLE") /\ j \notin I /\ j \in DOMAIN p.connections
    BY <1>9 DEF In
  <2>2. closed[j] = p.connections[j]
    BY <2>1
  <2> QED
    BY <1>7, <2>1, <2>2 DEF PoolSound
<1> QED
  BY <1>4, <1>7, <1>9, <1>12, <1>13 DEF PoolSound

(* Among places with a key there is a first one with the least key.          *)
LEMMA FirstLeast ==
  ASSUME NEW I, I \subseteq Nat, I # {}, NEW key \in [I -> Nat]
  PROVE  \E i \in I : \A j \in I : key[i] < key[j] \/ (key[i] = key[j] /\ i <= j)
<1> DEFINE K == {key[i] : i \in I}
<1>1. PICK m \in K : \A y \in K : m <= y
  <2>1. K \subseteq Nat /\ K # {}
    OBVIOUS
  <2> HIDE DEF K
  <2> QED
    BY <2>1, LeastNumber
<1> DEFINE J == {i \in I : key[i] = m}
<1>2. PICK k \in J : \A j \in J : k <= j
  <2>1. J \subseteq Nat /\ J # {}
    BY <1>1
  <2> HIDE DEF J
  <2> QED
    BY <2>1, LeastNumber
<1>3. k \in I /\ key[k] = m /\ m \in Nat
  BY <1>1, <1>2
<1>4. ASSUME NEW j \in I
      PROVE  key[k] < key[j] \/ (key[k] = key[j] /\ k <= j)
  <2>1. m <= key[j] /\ key[j] \in Nat
    BY <1>1, <1>4
  <2>2. CASE key[j] = m
    BY <1>2, <1>3, <2>2
  <2>3. CASE key[j] # m
    BY <1>3, <2>1, <2>3
  <2> QED
    BY <2>2, <2>3
<1> QED
  BY <1>3, <1>4

LEMMA ReusableIsIdle ==
  ASSUME NEW p \in ConnPool, In(p, "IDLE") # {}
  PROVE  Reusable(p) \in In(p, "IDLE")
<1> DEFINE I == In(p, "IDLE")
           age == [i \in I |-> p.connections[i].last_used]
           none == [i \in I |-> 0]
<1>1. I \subseteq Nat /\ I # {} /\ \A i \in I : p.connections[i] \in Conn
  BY Places DEF In
<1>2. age \in [I -> Nat] /\ none \in [I -> Nat]
  BY <1>1 DEF Conn
<1> HIDE DEF I
<1>3. \E i \in I : \A j \in I : age[i] < age[j] \/ (age[i] = age[j] /\ i <= j)
  <2> HIDE DEF age
  <2> QED
    BY <1>1, <1>2, FirstLeast
<1>4. \E i \in I : \A j \in I : i <= j
  BY <1>1, LeastNumber
<1>5. CASE policy = "LRU"
  <2>1. \E i \in I : \A j \in I :
          \/ p.connections[i].last_used < p.connections[j].last_used
          \/ p.connections[i].last_used = p.connections[j].last_used /\ i <= j
    BY <1>3
  <2> QED
    BY <1>5, <2>1 DEF Reusable, I
<1>6. CASE policy # "LRU"
  BY <1>4, <1>6 DEF Reusable, I
<1> QED
  BY <1>5, <1>6 DEF I

LEMMA VictimIsIdle ==
  ASSUME NEW p \in ConnPool, In(p, "IDLE") # {}
  PROVE  Victim(p) \in In(p, "IDLE")
<1> DEFINE I == In(p, "IDLE")
           Key(i) == CASE policy = "FIFO" -> Second(p.connections[i].idle_start)
                       [] policy = "LRU"  -> Second(p.connections[i].last_used)
                       [] OTHER           -> 0
           key == [i \in I |-> Key(i)]
<1>1. I \subseteq Nat /\ I # {} /\ \A i \in I : p.connections[i] \in Conn
  BY Places DEF In
<1>2. \A t \in Nat : Second(t) \in Nat
  BY PoolAssumption DEF Second
<1>3. \A i \in I : Key(i) \in Nat
  BY <1>1, <1>2 DEF Conn
<1>4. key \in [I -> Nat] /\ \A i \in I : key[i] = Key(i)
  <2> HIDE DEF Key, I
  <2> QED
    BY <1>3
<1>5. \E i \in I : \A j \in I : key[i] < key[j] \/ (key[i] = key[j] /\ i <= j)
  <2> HIDE DEF key, I
  <2> QED
    BY <1>1, <1>4, FirstLeast
<1>6. \E i \in I : \A j \in I : Key(i) < Key(j) \/ (Key(i) = Key(j) /\ i <= j)
  <2> HIDE DEF key, Key, I
  <2> QED
    BY <1>4, <1>5
<1> DEFINE v == CHOOSE i \in I : \A j \in I : Key(i) < Key(j) \/ (Key(i) = Key(j) /\ i <= j)
<1>7. v \in I
  <2> HIDE DEF Key, I
  <2> QED
    BY <1>6
<1>8. Victim(p) = v
  BY DEF Victim
<1> QED
  BY <1>7, <1>8

(* One connection changes: the sets of places by state, and their sizes.     *)
LEMMA OnePlace ==
  ASSUME NEW p \in ConnPool, NEW q \in ConnPool, NEW i \in DOMAIN p.connections,
         DOMAIN q.connections = DOMAIN p.connections,
         \A j \in DOMAIN p.connections : j # i => q.connections[j] = p.connections[j]
  PROVE  /\ \A s : In(q, s) = IF q.connections[i].state = s THEN In(p, s) \cup {i} ELSE In(p, s) \ {i}
         /\ \A s : i \notin In(p, s) => Cardinality(In(p, s) \cup {i}) = Cardinality(In(p, s)) + 1
         /\ \A s : i \in In(p, s) => Cardinality(In(p, s) \ {i}) = Cardinality(In(p, s)) - 1
         /\ \A s : i \notin In(p, s) => In(p, s) \ {i} = In(p, s)
         /\ \A s : i \in In(p, s) => In(p, s) \cup {i} = In(p, s)
<1>1. \A s : In(q, s) = IF q.connections[i].state = s THEN In(p, s) \cup {i} ELSE In(p, s) \ {i}
  <2> SUFFICES ASSUME NEW s
               PROVE  In(q, s) = IF q.connections[i].state = s THEN In(p, s) \cup {i} ELSE In(p, s) \ {i}
    OBVIOUS
  <2>1. \A j \in DOMAIN p.connections : j # i => (j \in In(q, s) <=> j \in In(p, s))
    BY DEF In
  <2>2. i \in In(q, s) <=> q.connections[i].state = s
    BY DEF In
  <2>3. In(q, s) \subseteq DOMAIN p.connections /\ In(p, s) \subseteq DOMAIN p.connections
    BY DEF In
  <2> QED
    BY <2>1, <2>2, <2>3
<1>2. \A s : IsFiniteSet(In(p, s))
  BY Places
<1> QED
  BY <1>1, <1>2, FS_AddElement, FS_RemoveElement

(* cp_acquire lends a connection that was idle or has just been made.        *)
LEMMA Acquires ==
  ASSUME NEW p, PoolSound(p), now \in Nat, NEW q, NEW n,
         q = cp_acquire(p).pool, n = cp_acquire(p).conn
  PROVE  /\ PoolSound(q)
         /\ DOMAIN p.connections \subseteq DOMAIN q.connections
         /\ \/ n = 0 /\ q = p
            \/ /\ n \in Nat \ {0} /\ n \in DOMAIN q.connections
               /\ n \in In(p, "IDLE") \/ n \notin DOMAIN p.connections
               /\ In(q, "ACTIVE") = In(p, "ACTIVE") \cup {n}
               /\ In(q, "IDLE") = In(p, "IDLE") \ {n}
<1>1. /\ p \in ConnPool /\ p.active_count \in Int /\ p.idle_count \in Int /\ p.host \in Hosts
      /\ p.connections \in Seq(Conn)
  BY DEF PoolSound, ConnPool
<1>2. /\ Len(p.connections) \in Nat
      /\ DOMAIN p.connections = 1 .. Len(p.connections)
      /\ \A i \in DOMAIN p.connections : p.connections[i] \in Conn
      /\ \A s : IsFiniteSet(In(p, s)) /\ Cardinality(In(p, s)) \in Nat
  BY <1>1, Places
<1>3. CASE In(p, "IDLE") # {}
  <2> DEFINE i == Reusable(p)
             c == [p.connections[i] EXCEPT !.state = "ACTIVE", !.last_used = now]
  <2>1. i \in In(p, "IDLE") /\ i \in DOMAIN p.connections /\ i \in Nat \ {0}
        /\ p.connections[i].state = "IDLE" /\ p.connections[i] \in Conn /\ i \notin In(p, "ACTIVE")
    BY <1>1, <1>2, <1>3, ReusableIsIdle DEF In
  <2>2. n = i /\ q = [p EXCEPT !.connections[i].state = "ACTIVE",
                           !.connections[i].last_used = now,
                           !.active_count = @ + 1, !.idle_count = @ - 1]
    BY <1>3 DEF cp_acquire
  <2>3. c \in Conn /\ c.state = "ACTIVE"
    BY <2>1 DEF Conn
  <2> DEFINE C == [p.connections EXCEPT ![i] = c]
             x == p.active_count + 1
             y == p.idle_count - 1
  <2>4. q = [p EXCEPT !.connections = C, !.active_count = x, !.idle_count = y]
    <3> HIDE DEF i
    <3> QED
      BY <1>1, <1>2, <2>1, <2>2 DEF ConnPool
  <2>5. C \in Seq(Conn) /\ DOMAIN C = DOMAIN p.connections
    <3> HIDE DEF c, i
    <3> QED
      BY <1>1, <1>2, <2>1, <2>3
  <2>6. q \in ConnPool /\ q.connections = C /\ q.active_count = x /\ q.idle_count = y
    <3>1. x \in Int /\ y \in Int
      BY <1>1
    <3> HIDE DEF C, x, y
    <3> QED
      BY <1>1, <2>4, <2>5, <3>1 DEF ConnPool
  <2>7. C[i] = c /\ \A j \in DOMAIN p.connections : j # i => C[j] = p.connections[j]
    <3> HIDE DEF c, i
    <3> QED
      BY <2>1
  <2> HIDE DEF C, c, i
  <2>8. /\ In(q, "ACTIVE") = In(p, "ACTIVE") \cup {i} /\ In(q, "IDLE") = In(p, "IDLE") \ {i}
        /\ Cardinality(In(p, "ACTIVE") \cup {i}) = Cardinality(In(p, "ACTIVE")) + 1
        /\ Cardinality(In(p, "IDLE") \ {i}) = Cardinality(In(p, "IDLE")) - 1
    BY <1>1, <2>1, <2>3, <2>5, <2>6, <2>7, OnePlace
  <2>9. \A j \in In(q, "IDLE") : q.connections[j].fd
    BY <2>6, <2>7, <2>8 DEF PoolSound, In
  <2> QED
    BY <2>1, <2>2, <2>5, <2>6, <2>8, <2>9 DEF PoolSound
<1>4. CASE In(p, "IDLE") = {} /\ Len(p.connections) >= MaxConn
  BY <1>4 DEF cp_acquire
<1>5. CASE In(p, "IDLE") = {} /\ ~(Len(p.connections) >= MaxConn)
  <2> DEFINE m == Len(p.connections) + 1
             c == [state |-> "ACTIVE", fd |-> FALSE, created_at |-> now,
                   last_used |-> now, idle_start |-> 0, request_count |-> 0]
             C == Append(p.connections, c)
             x == p.active_count + 1
  <2>1. n = m /\ q = [p EXCEPT !.connections = C, !.active_count = x]
    BY <1>1, <1>5 DEF cp_acquire, ConnPool
  <2>2. c \in Conn /\ c.state = "ACTIVE"
    BY DEF Conn
  <2> HIDE DEF c
  <2>3. /\ C \in Seq(Conn) /\ DOMAIN C = 1 .. m /\ C[m] = c
        /\ \A j \in DOMAIN p.connections : C[j] = p.connections[j]
    BY <1>1, <1>2, <2>2
  <2> HIDE DEF C
  <2>4. q \in ConnPool /\ q.connections = C /\ q.active_count = x /\ q.idle_count = p.idle_count
    <3>1. x \in Int
      BY <1>1
    <3> HIDE DEF x
    <3> QED
      BY <1>1, <2>1, <2>3, <3>1 DEF ConnPool
  <2>5. m \in Nat \ {0} /\ m \notin DOMAIN p.connections /\ 1 .. m = DOMAIN p.connections \cup {m}
    BY <1>2
  <2> HIDE DEF m
  <2>6. \A s : In(p, s) \subseteq DOMAIN p.connections
    BY DEF In
  <2>7. In(q, "ACTIVE") = In(p, "ACTIVE") \cup {m} /\ In(q, "IDLE") = In(p, "IDLE") \ {m}
    BY <2>2, <2>3, <2>4, <2>5 DEF In
  <2>8. Cardinality(In(p, "ACTIVE") \cup {m}) = Cardinality(In(p, "ACTIVE")) + 1
    BY <1>2, <2>5, <2>6, FS_AddElement
  <2>9. In(q, "IDLE") = {}
    BY <1>5, <2>7
  <2> QED
    BY <1>5, <2>1, <2>3, <2>4, <2>5, <2>7, <2>8, <2>9 DEF PoolSound
<1> QED
  BY <1>3, <1>4, <1>5

(* cp_release takes a connection out of use: it is idle or closed.           *)
LEMMA Releases ==
  ASSUME NEW p, PoolSound(p), now \in Nat, NEW i \in DOMAIN p.connections,
         i \notin In(p, "IDLE"), NEW keep_alive, NEW q, q = cp_release(p, i, keep_alive)
  PROVE  /\ PoolSound(q)
         /\ DOMAIN q.connections = DOMAIN p.connections
         /\ In(q, "ACTIVE") = In(p, "ACTIVE") \ {i}
         /\ In(q, "IDLE") \subseteq In(p, "IDLE") \cup {i}
<1>1. /\ p \in ConnPool /\ p.active_count \in Int /\ p.idle_count \in Int /\ p.host \in Hosts
      /\ p.connections \in Seq(Conn) /\ p.connections[i] \in Conn
  BY Places DEF PoolSound, ConnPool
<1>2. CASE p.connections[i].state # "ACTIVE"
  <2>1. q = p
    BY <1>2 DEF cp_release
  <2>2. i \notin In(p, "ACTIVE")
    BY <1>2 DEF In
  <2> QED
    BY <2>1, <2>2
<1>3. CASE /\ p.connections[i].state = "ACTIVE"
           /\ keep_alive /\ p.connections[i].fd /\ p.connections[i].request_count < MaxRequests
  <2> DEFINE c == [p.connections[i] EXCEPT !.state = "IDLE", !.idle_start = now]
             C == [p.connections EXCEPT ![i] = c]
             x == p.active_count - 1
             y == p.idle_count + 1
  <2>1. i \in In(p, "ACTIVE")
    BY <1>3 DEF In
  <2>2. q = [p EXCEPT !.connections[i].state = "IDLE", !.connections[i].idle_start = now,
                 !.active_count = @ - 1, !.idle_count = @ + 1]
    BY <1>3 DEF cp_release
  <2>3. c \in Conn /\ c.state = "IDLE" /\ c.fd
    BY <1>1, <1>3 DEF Conn
  <2>4. q = [p EXCEPT !.connections = C, !.active_count = x, !.idle_count = y]
    BY <1>1, <2>2 DEF ConnPool
  <2>5. C \in Seq(Conn) /\ DOMAIN C = DOMAIN p.connections
    <3> HIDE DEF c
    <3> QED
      BY <1>1, <2>3
  <2>6. q \in ConnPool /\ q.connections = C /\ q.active_count = x /\ q.idle_count = y
    <3>1. x \in Int /\ y \in Int
      BY <1>1
    <3> HIDE DEF C, x, y
    <3> QED
      BY <1>1, <2>4, <2>5, <3>1 DEF ConnPool
  <2>7. C[i] = c /\ \A j \in DOMAIN p.connections : j # i => C[j] = p.connections[j]
    <3> HIDE DEF c
    <3> QED
      BY <1>1
  <2> HIDE DEF C, c
  <2>8. /\ In(q, "ACTIVE") = In(p, "ACTIVE") \ {i} /\ In(q, "IDLE") = In(p, "IDLE") \cup {i}
        /\ Cardinality(In(p, "ACTIVE") \ {i}) = Cardinality(In(p, "ACTIVE")) - 1
        /\ Cardinality(In(p, "IDLE") \cup {i}) = Cardinality(In(p, "IDLE")) + 1
    <3>1. q.connections[i].state = "IDLE" /\ "ACTIVE" # "IDLE"
      BY <2>3, <2>6, <2>7
    <3>2. /\ \A s : In(q, s) = IF q.connections[i].state = s THEN In(p, s) \cup {i} ELSE In(p, s) \ {i}
          /\ \A s : i \notin In(p, s) => Cardinality(In(p, s) \cup {i}) = Cardinality(In(p, s)) + 1
          /\ \A s : i \in In(p, s) => Cardinality(In(p, s) \ {i}) = Cardinality(In(p, s)) - 1
      BY <1>1, <2>5, <2>6, <2>7, OnePlace
    <3> QED
      BY <2>1, <3>1, <3>2
  <2>9. \A j \in In(q, "IDLE") : q.connections[j].fd
    BY <2>3, <2>6, <2>7, <2>8 DEF PoolSound, In
  <2> QED
    BY <2>5, <2>6, <2>8, <2>9 DEF PoolSound
<1>4. CASE /\ p.connections[i].state = "ACTIVE"
           /\ ~(keep_alive /\ p.connections[i].fd /\ p.connections[i].request_count < MaxRequests)
  <2>1. q = Close(p, {i})
    BY <1>4 DEF cp_release
  <2>2. {i} \subseteq In(p, "IDLE") \cup In(p, "ACTIVE")
    BY <1>4 DEF In
  <2> QED
    BY <2>1, <2>2, Closes
<1> QED
  BY <1>2, <1>3, <1>4

-----------------------------------------------------------------------------
(* Closing connections, or using one, leaves the pointers as they are.       *)
LEMMA PoolsShrink ==
  ASSUME PoolInv, UNCHANGED <<policy, held, now>>,
         pools' \in Seq(ConnPool), DOMAIN pools' = DOMAIN pools,
         \A i \in DOMAIN pools :
            /\ PoolSound(pools'[i])
            /\ DOMAIN pools'[i].connections = DOMAIN pools[i].connections
            /\ In(pools'[i], "ACTIVE") \subseteq In(pools[i], "ACTIVE")
            /\ In(pools'[i], "IDLE") \subseteq In(pools[i], "IDLE")
  PROVE  PoolInv'
<1>1. \A b \in Borrowers : held[b] # Nothing => Pointer(held[b])'
  BY DEF PoolInv, Pointer
<1>2. ASSUME NEW i \in DOMAIN pools', NEW j \in In(pools[i], "ACTIVE")'
      PROVE  \E b \in Borrowers : held'[b] = <<i, j>>
  <2>1. In(pools[i], "ACTIVE")' = In(pools'[i], "ACTIVE")
    BY DEF In
  <2> QED
    BY <2>1 DEF PoolInv
<1>3. \A i \in DOMAIN pools' : PoolSound(pools[i])'
  BY DEF PoolSound, In
<1> QED
  BY <1>1, <1>2, <1>3 DEF PoolInv

LEMMA EmptyPool ==
  ASSUME NEW h \in Hosts
  PROVE  PoolSound(cp_init(h)) /\ DOMAIN cp_init(h).connections = {}
<1> DEFINE p == cp_init(h)
<1>1. p \in ConnPool /\ p.connections = << >> /\ p.active_count = 0 /\ p.idle_count = 0
  BY DEF cp_init, ConnPool
<1>2. \A s : In(p, s) = {}
  <2> HIDE DEF p
  <2> QED
    BY <1>1 DEF In
<1>3. Cardinality({}) = 0
  BY FS_EmptySet
<1> HIDE DEF p
<1>4. PoolSound(p) /\ DOMAIN p.connections = {}
  BY <1>1, <1>2, <1>3 DEF PoolSound
<1> QED
  BY <1>4 DEF p

(* The pool of a host, made if there is none, is new or as it was.           *)
LEMMA GetOrCreate ==
  ASSUME PoolInv, NEW h \in Hosts, NEW known, known = pm_get_or_create_pool(h)
  PROVE  /\ known \in Seq(ConnPool) /\ DOMAIN pools \subseteq DOMAIN known
         /\ \A i \in DOMAIN known : PoolSound(known[i]) /\ i \in Nat \ {0}
         /\ \A i \in DOMAIN pools : known[i] = pools[i]
         /\ \A i \in DOMAIN known : i \notin DOMAIN pools => DOMAIN known[i].connections = {}
<1>1. pools \in Seq(ConnPool) /\ DOMAIN pools = 1 .. Len(pools) /\ Len(pools) \in Nat
  BY DEF PoolInv
<1>2. CASE known = pools
  BY <1>1, <1>2 DEF PoolInv
<1>3. CASE known = Append(pools, cp_init(h))
  <2>1. PoolSound(cp_init(h)) /\ DOMAIN cp_init(h).connections = {} /\ cp_init(h) \in ConnPool
    BY EmptyPool DEF PoolSound
  <2>2. /\ known \in Seq(ConnPool) /\ DOMAIN known = 1 .. (Len(pools) + 1)
        /\ known[Len(pools) + 1] = cp_init(h)
        /\ \A i \in DOMAIN pools : known[i] = pools[i]
    BY <1>1, <1>3, <2>1
  <2>3. \A i \in DOMAIN known : i \in Nat \ {0} /\ (i \in DOMAIN pools \/ i = Len(pools) + 1)
    BY <1>1, <2>2
  <2>4. \A i \in DOMAIN pools : PoolSound(pools[i])
    BY DEF PoolInv
  <2> QED
    BY <1>1, <2>1, <2>2, <2>3, <2>4
<1> QED
  BY <1>2, <1>3 DEF pm_get_or_create_pool

LEMMA BorrowKeeps ==
  ASSUME PoolInv, NEW b \in Borrowers, NEW h \in Hosts, pm_borrow(b, h)
  PROVE  PoolInv'
<1> DEFINE known == pm_get_or_create_pool(h)
<1>1. PICK i \in DOMAIN known :
        /\ pools' = [known EXCEPT ![i] = cp_acquire(known[i]).pool]
        /\ held' = [held EXCEPT ![b] = IF cp_acquire(known[i]).conn = 0 THEN Nothing
                                       ELSE <<i, cp_acquire(known[i]).conn>>]
  BY DEF pm_borrow
<1>2. held[b] = Nothing /\ policy' = policy /\ now' = now
  BY DEF pm_borrow
<1>3. /\ known \in Seq(ConnPool) /\ DOMAIN pools \subseteq DOMAIN known
      /\ \A k \in DOMAIN known : PoolSound(known[k]) /\ k \in Nat \ {0}
      /\ \A k \in DOMAIN pools : known[k] = pools[k]
      /\ \A k \in DOMAIN known : k \notin DOMAIN pools => DOMAIN known[k].connections = {}
  BY GetOrCreate
<1> HIDE DEF known
<1> DEFINE q == cp_acquire(known[i]).pool
           n == cp_acquire(known[i]).conn
<1>4. /\ PoolSound(q)
      /\ DOMAIN known[i].connections \subseteq DOMAIN q.connections
      /\ \/ n = 0 /\ q = known[i]
         \/ /\ n \in Nat \ {0} /\ n \in DOMAIN q.connections
            /\ n \in In(known[i], "IDLE") \/ n \notin DOMAIN known[i].connections
            /\ In(q, "ACTIVE") = In(known[i], "ACTIVE") \cup {n}
            /\ In(q, "IDLE") = In(known[i], "IDLE") \ {n}
  BY <1>3, Acquires DEF PoolInv
<1>5. pools' = [known EXCEPT ![i] = q] /\ held' = [held EXCEPT ![b] = IF n = 0 THEN Nothing ELSE <<i, n>>]
  BY <1>1
<1> HIDE DEF q, n
<1>6. q \in ConnPool
  BY <1>4 DEF PoolSound
<1>7. /\ pools' \in Seq(ConnPool) /\ DOMAIN pools' = DOMAIN known /\ pools'[i] = q
      /\ \A k \in DOMAIN known : k # i => pools'[k] = known[k]
  BY <1>3, <1>5, <1>6
<1>8. /\ held \in [Borrowers -> Nat \X Nat]
      /\ held' \in [Borrowers -> Nat \X Nat]
      /\ held'[b] = IF n = 0 THEN Nothing ELSE <<i, n>>
      /\ \A a \in Borrowers : a # b => held'[a] = held[a]
  BY <1>3, <1>4, <1>5 DEF PoolInv, Nothing
<1>9. \A k \in DOMAIN pools' : PoolSound(pools'[k])
  BY <1>3, <1>4, <1>7
<1>10. \A k \in DOMAIN pools :
          /\ DOMAIN pools[k].connections \subseteq DOMAIN pools'[k].connections
          /\ In(pools'[k], "IDLE") \subseteq In(pools[k], "IDLE")
  BY <1>3, <1>4, <1>7
<1>12. ASSUME NEW a \in Borrowers, held'[a] # Nothing
       PROVE  /\ held'[a][1] \in DOMAIN pools' /\ held'[a][2] \in DOMAIN pools'[held'[a][1]].connections
              /\ held'[a][2] \notin In(pools'[held'[a][1]], "IDLE")
  <2>1. CASE a = b
    <3>1. held'[a] = <<i, n>> /\ n # 0
      BY <1>8, <1>12, <2>1
    <3> QED
      BY <1>4, <1>7, <3>1
  <2>2. CASE a # b
    <3>1. held'[a] = held[a] /\ Pointer(held[a])
      BY <1>8, <1>12, <2>2 DEF PoolInv
    <3> QED
      BY <1>3, <1>7, <1>10, <3>1 DEF Pointer
  <2> QED
    BY <2>1, <2>2
<1>13. ASSUME NEW k \in DOMAIN pools', NEW j \in In(pools'[k], "ACTIVE")
       PROVE  \E a \in Borrowers : held'[a] = <<k, j>>
  <2>1. CASE k = i /\ j = n /\ n # 0
    BY <1>8, <2>1
  <2>2. CASE j \in In(known[k], "ACTIVE")
    <3>1. k \in DOMAIN pools /\ j \in In(pools[k], "ACTIVE") /\ k # 0
      BY <1>3, <1>7, <2>2 DEF In
    <3>2. PICK a \in Borrowers : held[a] = <<k, j>>
      BY <3>1 DEF PoolInv
    <3>3. a # b
      BY <1>2, <3>1, <3>2 DEF Nothing
    <3> QED
      BY <1>8, <3>2, <3>3
  <2> QED
    BY <1>4, <1>7, <2>1, <2>2
<1>14. ASSUME NEW a \in Borrowers, a # b, held'[a] = held'[b], held'[a] # Nothing
       PROVE  FALSE
  <2>1. held[a] = <<i, n>> /\ n # 0 /\ Pointer(held[a])
    BY <1>8, <1>14 DEF PoolInv
  <2>2. i \in DOMAIN pools /\ n \in DOMAIN pools[i].connections /\ n \notin In(pools[i], "IDLE")
    BY <2>1 DEF Pointer
  <2> QED
    BY <1>3, <1>4, <2>1, <2>2
<1>15. \A a, c \in Borrowers : held'[a] = held'[c] /\ held'[a] # Nothing => a = c
  <2> SUFFICES ASSUME NEW a \in Borrowers, NEW c \in Borrowers, held'[a] = held'[c], held'[a] # Nothing
               PROVE  a = c
    OBVIOUS
  <2>1. CASE a = b \/ c = b
    BY <1>14, <2>1
  <2>2. CASE a # b /\ c # b
    BY <1>8, <2>2 DEF PoolInv
  <2> QED
    BY <2>1, <2>2
<1> QED
  <2>1. \A a \in Borrowers : held'[a] # Nothing => Pointer(held[a])'
    BY <1>12 DEF Pointer, In
  <2>2. \A k \in DOMAIN pools' : PoolSound(pools[k])'
    BY <1>9 DEF PoolSound, In
  <2>3. \A k \in DOMAIN pools' : \A j \in In(pools[k], "ACTIVE")' : \E a \in Borrowers : held'[a] = <<k, j>>
    BY <1>13 DEF In
  <2> QED
    BY <1>2, <1>7, <1>8, <1>15, <2>1, <2>2, <2>3 DEF PoolInv

LEMMA ReturnKeeps ==
  ASSUME PoolInv, NEW b \in Borrowers, NEW keep_alive, pm_return(b, keep_alive)
  PROVE  PoolInv'
<1> DEFINE i == held[b][1]
           n == held[b][2]
           q == cp_release(pools[i], n, keep_alive)
<1>1. /\ held[b] # Nothing /\ policy' = policy /\ now' = now
      /\ pools' = [pools EXCEPT ![i] = q]
      /\ held' = [held EXCEPT ![b] = Nothing]
  BY DEF pm_return, PoolInv
<1>2. i \in DOMAIN pools /\ n \in DOMAIN pools[i].connections /\ n \notin In(pools[i], "IDLE")
      /\ held[b] = <<i, n>>
  BY <1>1 DEF PoolInv, Pointer
<1>3. /\ PoolSound(q)
      /\ DOMAIN q.connections = DOMAIN pools[i].connections
      /\ In(q, "ACTIVE") = In(pools[i], "ACTIVE") \ {n}
      /\ In(q, "IDLE") \subseteq In(pools[i], "IDLE") \cup {n}
  BY <1>2, Releases DEF PoolInv
<1> HIDE DEF i, n, q
<1>4. q \in ConnPool /\ pools \in Seq(ConnPool)
  BY <1>3 DEF PoolSound, PoolInv
<1>5. /\ pools' \in Seq(ConnPool) /\ DOMAIN pools' = DOMAIN pools /\ pools'[i] = q
      /\ \A k \in DOMAIN pools : k # i => pools'[k] = pools[k]
  BY <1>1, <1>2, <1>4
<1>6. /\ held' \in [Borrowers -> Nat \X Nat]
      /\ held'[b] = Nothing
      /\ \A a \in Borrowers : a # b => held'[a] = held[a]
  BY <1>1 DEF PoolInv, Nothing
<1>7. \A k \in DOMAIN pools' : PoolSound(pools'[k])
  BY <1>3, <1>5 DEF PoolInv
<1>8. ASSUME NEW a \in Borrowers, held'[a] # Nothing
      PROVE  /\ held'[a][1] \in DOMAIN pools' /\ held'[a][2] \in DOMAIN pools'[held'[a][1]].connections
             /\ held'[a][2] \notin In(pools'[held'[a][1]], "IDLE")
  <2>1. a # b /\ held'[a] = held[a] /\ Pointer(held[a]) /\ held[a] # held[b]
    BY <1>1, <1>6, <1>8 DEF PoolInv
  <2>2. held[a] \in Nat \X Nat
    BY DEF PoolInv
  <2>3. ~(held[a][1] = i /\ held[a][2] = n)
    BY <1>2, <2>1, <2>2
  <2> QED
    BY <1>3, <1>5, <2>1, <2>3 DEF Pointer
<1>9. ASSUME NEW k \in DOMAIN pools', NEW j \in In(pools'[k], "ACTIVE")
      PROVE  \E a \in Borrowers : held'[a] = <<k, j>>
  <2>1. j \in In(pools[k], "ACTIVE") /\ ~(k = i /\ j = n)
    BY <1>3, <1>5
  <2>2. PICK a \in Borrowers : held[a] = <<k, j>>
    BY <1>5, <2>1 DEF PoolInv
  <2> QED
    BY <1>2, <1>6, <2>1, <2>2
<1>10. \A a, c \in Borrowers : held'[a] = held'[c] /\ held'[a] # Nothing => a = c
  BY <1>6 DEF PoolInv
<1> QED
  <2>1. \A a \in Borrowers : held'[a] # Nothing => Pointer(held[a])'
    BY <1>8 DEF Pointer, In
  <2>2. \A k \in DOMAIN pools' : PoolSound(pools[k])'
    BY <1>7 DEF PoolSound, In
  <2>3. \A k \in DOMAIN pools' : \A j \in In(pools[k], "ACTIVE")' : \E a \in Borrowers : held'[a] = <<k, j>>
    BY <1>9 DEF In
  <2> QED
    BY <1>1, <1>5, <1>6, <1>10, <2>1, <2>2, <2>3 DEF PoolInv

(* One pool gets another value, in which nothing is newly idle or in use.    *)
LEMMA OnePoolShrinks ==
  ASSUME PoolInv, UNCHANGED <<policy, held, now>>, NEW i \in DOMAIN pools, NEW q,
         pools' = [pools EXCEPT ![i] = q], PoolSound(q),
         DOMAIN q.connections = DOMAIN pools[i].connections,
         In(q, "ACTIVE") \subseteq In(pools[i], "ACTIVE"),
         In(q, "IDLE") \subseteq In(pools[i], "IDLE")
  PROVE  PoolInv'
<1>1. q \in ConnPool /\ pools \in Seq(ConnPool)
  BY DEF PoolSound, PoolInv
<1>2. /\ pools' \in Seq(ConnPool) /\ DOMAIN pools' = DOMAIN pools /\ pools'[i] = q
      /\ \A k \in DOMAIN pools : k # i => pools'[k] = pools[k]
  BY <1>1
<1>3. \A k \in DOMAIN pools : PoolSound(pools'[k])
  BY <1>2 DEF PoolInv
<1> QED
  BY <1>2, <1>3, PoolsShrink

LEMMA UseKeeps ==
  ASSUME PoolInv, NEW b \in Borrowers, Use(b)
  PROVE  PoolInv'
<1> DEFINE i == held[b][1]
           n == held[b][2]
           p == pools[i]
           c == [p.connections[n] EXCEPT !.fd = TRUE, !.request_count = @ + 1]
           C == [p.connections EXCEPT ![n] = c]
           q == [p EXCEPT !.connections = C]
<1>1. /\ held[b] # Nothing /\ UNCHANGED <<policy, held, now>>
      /\ p.connections[n].state = "ACTIVE"
      /\ pools' = [pools EXCEPT ![i].connections[n] = c]
  BY DEF Use
<1>2. i \in DOMAIN pools /\ n \in DOMAIN p.connections /\ PoolSound(p) /\ pools \in Seq(ConnPool)
  BY <1>1 DEF PoolInv, Pointer
<1>3. pools' = [pools EXCEPT ![i] = q]
  <2> HIDE DEF i, n, c
  <2> QED
    BY <1>1, <1>2
<1>4. p \in ConnPool /\ p.connections \in Seq(Conn) /\ p.connections[n] \in Conn
      /\ p.active_count \in Int /\ p.idle_count \in Int /\ p.host \in Hosts
  <2> HIDE DEF p, n
  <2> QED
    BY <1>2, Places DEF PoolSound, ConnPool
<1>5. c \in Conn /\ c.state = "ACTIVE"
  <2> DEFINE d == p.connections[n]
             r == d.request_count + 1
  <2>1. d \in Conn /\ d.state = "ACTIVE" /\ d.request_count \in Nat /\ r \in Nat
    <3>1. d \in Conn /\ d.state = "ACTIVE"
      BY <1>1, <1>4
    <3> HIDE DEF d
    <3>2. d.request_count \in Nat
      BY <3>1 DEF Conn
    <3> QED
      BY <3>1, <3>2
  <2>2. c = [d EXCEPT !.fd = TRUE, !.request_count = r]
    BY <1>4 DEF Conn
  <2> HIDE DEF c, d, r
  <2> QED
    BY <2>1, <2>2 DEF Conn
<1> HIDE DEF i, n, p, c
<1>6. /\ C \in Seq(Conn) /\ DOMAIN C = DOMAIN p.connections
      /\ C[n] = c /\ \A j \in DOMAIN p.connections : j # n => C[j] = p.connections[j]
  BY <1>2, <1>4, <1>5
<1> HIDE DEF C
<1>7. /\ q \in ConnPool /\ q.connections = C
      /\ q.active_count = p.active_count /\ q.idle_count = p.idle_count
  BY <1>4, <1>6 DEF ConnPool
<1> HIDE DEF q
<1>8. \A s : In(q, s) = In(p, s)
  BY <1>1, <1>5, <1>6, <1>7 DEF In, p
<1>9. PoolSound(q)
  <2>1. \A j \in In(q, "IDLE") : q.connections[j] = p.connections[j] /\ j \in In(p, "IDLE")
    BY <1>5, <1>6, <1>7, <1>8 DEF In
  <2> QED
    BY <1>2, <1>7, <1>8, <2>1 DEF PoolSound
<1>10. /\ DOMAIN q.connections = DOMAIN pools[i].connections
       /\ In(q, "ACTIVE") \subseteq In(pools[i], "ACTIVE")
       /\ In(q, "IDLE") \subseteq In(pools[i], "IDLE")
  BY <1>6, <1>7, <1>8 DEF p
<1> QED
  BY <1>1, <1>2, <1>3, <1>9, <1>10, OnePoolShrinks

LEMMA EvictKeeps ==
  ASSUME PoolInv, NEW i \in DOMAIN pools, cp_evict(i)
  PROVE  PoolInv'
<1> DEFINE q == Close(pools[i], {Victim(pools[i])})
<1>1. /\ UNCHANGED <<policy, held, now>> /\ In(pools[i], "IDLE") # {}
      /\ pools' = [pools EXCEPT ![i] = q]
  BY DEF cp_evict
<1>2. PoolSound(pools[i]) /\ pools[i] \in ConnPool
  BY DEF PoolInv, PoolSound
<1>3. {Victim(pools[i])} \subseteq In(pools[i], "IDLE") \cup In(pools[i], "ACTIVE")
  BY <1>1, <1>2, VictimIsIdle
<1>4. /\ PoolSound(q) /\ DOMAIN q.connections = DOMAIN pools[i].connections
      /\ In(q, "ACTIVE") \subseteq In(pools[i], "ACTIVE")
      /\ In(q, "IDLE") \subseteq In(pools[i], "IDLE")
  BY <1>2, <1>3, Closes
<1> HIDE DEF q
<1> QED
  BY <1>1, <1>4, OnePoolShrinks

LEMMA ExpiryKeeps ==
  ASSUME PoolInv, NEW i \in DOMAIN pools, cp_close_expired(i)
  PROVE  PoolInv'
<1> DEFINE q == Close(pools[i], Expired(pools[i]))
<1>1. UNCHANGED <<policy, held, now>> /\ pools' = [pools EXCEPT ![i] = q]
  BY DEF cp_close_expired
<1>2. PoolSound(pools[i]) /\ Expired(pools[i]) \subseteq In(pools[i], "IDLE") \cup In(pools[i], "ACTIVE")
  BY DEF PoolInv, Expired
<1>3. /\ PoolSound(q) /\ DOMAIN q.connections = DOMAIN pools[i].connections
      /\ In(q, "ACTIVE") \subseteq In(pools[i], "ACTIVE")
      /\ In(q, "IDLE") \subseteq In(pools[i], "IDLE")
  BY <1>2, Closes
<1> HIDE DEF q
<1> QED
  BY <1>1, <1>3, OnePoolShrinks

LEMMA ReapKeeps ==
  ASSUME PoolInv, pm_reap_idle
  PROVE  PoolInv'
<1> DEFINE Q(i) == Close(pools[i], IdleTooLong(pools[i]))
<1>1. UNCHANGED <<policy, held, now>> /\ pools' = [i \in DOMAIN pools |-> Q(i)]
  BY DEF pm_reap_idle
<1>2. ASSUME NEW i \in DOMAIN pools
      PROVE  /\ PoolSound(Q(i)) /\ DOMAIN Q(i).connections = DOMAIN pools[i].connections
             /\ In(Q(i), "ACTIVE") \subseteq In(pools[i], "ACTIVE")
             /\ In(Q(i), "IDLE") \subseteq In(pools[i], "IDLE")
  <2>1. PoolSound(pools[i]) /\ IdleTooLong(pools[i]) \subseteq In(pools[i], "IDLE") \cup In(pools[i], "ACTIVE")
    BY DEF PoolInv, IdleTooLong
  <2> QED
    BY <2>1, Closes
<1> HIDE DEF Q
<1>3. \A i \in DOMAIN pools : Q(i) \in ConnPool /\ pools'[i] = Q(i)
  BY <1>1, <1>2 DEF PoolSound
<1>4. DOMAIN pools = 1 .. Len(pools) /\ Len(pools) \in Nat /\ DOMAIN pools' = DOMAIN pools
  BY <1>1 DEF PoolInv
<1>5. pools' \in [1 .. Len(pools) -> ConnPool]
  BY <1>1, <1>3, <1>4
<1>6. pools' \in Seq(ConnPool)
  BY <1>4, <1>5, Array
<1> QED
  BY <1>1, <1>2, <1>3, <1>4, <1>6, PoolsShrink

(* Whatever borrowers, the eviction of a victim, the reaper of idle and the  *)
(* closer of expired connections do, in whatever order: the pools' counters  *)
(* are the numbers of connections in use and idle, an idle connection has a  *)
(* socket, none is lent twice and every one in use has a borrower.           *)
THEOREM PoolsAccount == PoolSpec => []PoolAccounts
<1>1. PoolInit => PoolInv
  BY DEF PoolInit, PoolInv, Nothing
<1>2. PoolInv /\ [PoolNext]_poolVars => PoolInv'
  <2> SUFFICES ASSUME PoolInv, [PoolNext]_poolVars PROVE PoolInv'
    OBVIOUS
  <2>1. ASSUME NEW b \in Borrowers, NEW h \in Hosts, pm_borrow(b, h) PROVE PoolInv'
    BY <2>1, BorrowKeeps
  <2>2. ASSUME NEW b \in Borrowers, Use(b) PROVE PoolInv'
    BY <2>2, UseKeeps
  <2>3. ASSUME NEW b \in Borrowers, NEW k \in BOOLEAN, pm_return(b, k) PROVE PoolInv'
    BY <2>3, ReturnKeeps
  <2>4. ASSUME NEW i \in DOMAIN pools, cp_evict(i) PROVE PoolInv'
    BY <2>4, EvictKeeps
  <2>5. ASSUME NEW i \in DOMAIN pools, cp_close_expired(i) PROVE PoolInv'
    BY <2>5, ExpiryKeeps
  <2>6. CASE pm_reap_idle
    BY <2>6, ReapKeeps
  <2>7. CASE PoolTick
    <3>1. now' \in Nat /\ UNCHANGED <<pools, policy, held>>
      BY <2>7 DEF PoolTick, PoolInv
    <3> QED
      BY <3>1 DEF PoolInv, PoolSound, In, Pointer
  <2>8. CASE UNCHANGED poolVars
    BY <2>8 DEF poolVars, PoolInv, PoolSound, In, Pointer
  <2> QED
    BY <2>1, <2>2, <2>3, <2>4, <2>5, <2>6, <2>7, <2>8 DEF PoolNext
<1>3. PoolInv => PoolAccounts
  BY DEF PoolInv, PoolAccounts, PoolSound
<1> QED
  BY <1>1, <1>2, <1>3, PTL DEF PoolSpec

-----------------------------------------------------------------------------
(* rate_limiter.c.  What a limiter remembers is enough to bound everything   *)
(* it admitted since any earlier request: the buckets by their level, the    *)
(* fixed window by its count and the windows that have ended since, the      *)
(* sliding log because the stamps it dropped are older than a window.        *)

Algorithms == {"TOKEN_BUCKET", "LEAKY_BUCKET", "FIXED_WINDOW", "SLIDING_WINDOW_LOG"}

Lim == [level : 0 .. Burst, last : Nat, count : 0 .. max_requests, start : Nat, stamps : Seq(Nat)]

Request == [client : Clients \cup {Nobody}, time : Nat]

(* The number of requests admitted from the i-th on.                         *)
Since(i) == Len(log) - i + 1

(* What the limiter l has on its books for n requests from time t on.        *)
Charged(l, n, t) ==
  CASE algorithm = "TOKEN_BUCKET" ->
         t <= l.last /\ Cost * n + l.level <= Burst + Rate * (l.last - t)
    [] algorithm = "LEAKY_BUCKET" ->
         t <= l.last /\ Cost * n <= l.level + Rate * (l.last - t)
    [] algorithm = "FIXED_WINDOW" ->
         /\ t < l.start + Window
         /\ IF t >= l.start THEN n <= l.count
            ELSE n <= l.count + max_requests * (1 + (l.start - 1 - t) \div Window)
    [] algorithm = "SLIDING_WINDOW_LOG" ->
         IF n <= Len(l.stamps) THEN t = l.stamps[Len(l.stamps) - n + 1]
         ELSE t + Window < clock

(* The sliding log subtracts its window from the uptime of the machine.      *)
Uptime == algorithm = "SLIDING_WINDOW_LOG" => clock >= Window

(* Timestamps are taken in order.                                            *)
Ordered(s) ==
  \A i \in 1 .. Len(s) : s[i] <= clock /\ \A j \in i .. Len(s) : s[i] <= s[j]

(* A limiter that has just been refilled.                                    *)
Fresh(l) ==
  /\ algorithm \in {"TOKEN_BUCKET", "LEAKY_BUCKET"} => l.last = clock
  /\ algorithm = "FIXED_WINDOW" => clock < l.start + Window

Books(l) ==
  /\ l \in Lim /\ l.last <= clock /\ l.start <= clock
  /\ Len(l.stamps) <= max_requests /\ Ordered(l.stamps)
  /\ \A i \in DOMAIN log : Charged(l, Since(i), log[i].time)

RlInv ==
  /\ algorithm \in Algorithms
  /\ clock \in Nat /\ Uptime
  /\ log \in Seq(Request) /\ \A i \in DOMAIN log : log[i].time <= clock
  /\ Books(rl)
  /\ RateWithinLimit

LEMMA Ratio ==
  ASSUME NEW W \in Nat \ {0}, NEW a \in Nat
  PROVE  a \div W \in Nat /\ (a \div W) * W <= a /\ a < (a \div W) * W + W
  OBVIOUS

LEMMA RatioGrows ==
  ASSUME NEW W \in Nat \ {0}, NEW a \in Nat, NEW b \in Nat, a <= b
  PROVE  a \div W <= b \div W
  OBVIOUS

LEMMA RatioNext ==
  ASSUME NEW W \in Nat \ {0}, NEW a \in Nat
  PROVE  (a + W) \div W = a \div W + 1
  OBVIOUS

LEMMA TimesGrows ==
  ASSUME NEW m \in Nat, NEW a \in Nat, NEW b \in Nat, a <= b
  PROVE  m * a <= m * b
  OBVIOUS

LEMMA TimesAdds ==
  ASSUME NEW m \in Int, NEW a \in Int, NEW b \in Int
  PROVE  m * (a + b) = m * a + m * b /\ m * (a - b) = m * a - m * b /\ m * a \in Int /\ m * 1 = m
  OBVIOUS

(* The sliding log drops a prefix, of stamps before the window only.         *)
LEMMA Evicts ==
  ASSUME clock \in Nat, clock >= Window, NEW stamps \in Seq(Nat), Ordered(stamps)
  PROVE  /\ Ordered(Evicted(stamps))
         /\ Evicted(stamps) \in Seq(Nat) /\ Len(Evicted(stamps)) <= Len(stamps)
         /\ \A k \in 1 .. Len(Evicted(stamps)) :
              Evicted(stamps)[k] = stamps[Len(stamps) - Len(Evicted(stamps)) + k]
         /\ \A k \in 1 .. (Len(stamps) - Len(Evicted(stamps))) : stamps[k] + Window < clock
<1> DEFINE kept == {k \in DOMAIN stamps : Slot(stamps, k) >= WindowStart}
<1>1. WindowStart = clock - Window /\ WindowStart \in Nat
  BY LimiterAssumption DEF WindowStart
<1>2. Len(stamps) \in Nat /\ DOMAIN stamps = 1 .. Len(stamps) /\ \A k \in 1 .. Len(stamps) : stamps[k] \in Nat
  OBVIOUS
<1>3. ASSUME NEW k \in 1 .. Len(stamps)
      PROVE  Slot(stamps, k) \in Nat /\ stamps[k] <= Slot(stamps, k)
  <2> DEFINE R == RL_MAX_TIMESTAMPS
             q == (Len(stamps) - k) \div R
             x == k + R * q
  <2>1. Len(stamps) - k \in Nat /\ R \in Nat \ {0} /\ k \in Nat
    BY <1>2, LimiterAssumption
  <2>2. q \in Nat /\ q * R <= Len(stamps) - k /\ q * R = R * q /\ R * q \in Nat
    <3>1. q \in Nat /\ q * R <= Len(stamps) - k
      <4> HIDE DEF R
      <4> QED
        BY <2>1, Ratio
    <3> HIDE DEF q, R
    <3> QED
      BY <2>1, <3>1
  <2> HIDE DEF q, R
  <2>3. x \in k .. Len(stamps) /\ x \in 1 .. Len(stamps)
    BY <1>2, <2>1, <2>2
  <2>4. Slot(stamps, k) = stamps[x]
    BY DEF Slot, q, R
  <2> HIDE DEF x
  <2> QED
    BY <1>2, <2>3, <2>4 DEF Ordered
<1>4. ASSUME NEW k \in 1 .. Len(stamps), k \notin kept
      PROVE  stamps[k] + Window < clock
  <2>1. ~(Slot(stamps, k) >= WindowStart)
    BY <1>2, <1>4
  <2> QED
    BY <1>1, <1>2, <1>3, <2>1, LimiterAssumption
<1>5. CASE kept = {}
  <2>1. Evicted(stamps) = << >>
    BY <1>5 DEF Evicted
  <2>2. \A k \in 1 .. Len(stamps) : stamps[k] + Window < clock
    <3> HIDE DEF kept
    <3> QED
      BY <1>4, <1>5
  <2> QED
    BY <1>2, <2>1, <2>2 DEF Ordered
<1>6. CASE kept # {}
  <2> DEFINE m == Min(kept)
             rest == SubSeq(stamps, m, Len(stamps))
  <2>1. m \in kept /\ \A k \in kept : m <= k
    <3>1. kept \subseteq Nat
      BY <1>2
    <3> HIDE DEF kept
    <3> QED
      BY <1>6, <3>1, LeastNumber DEF Min
  <2>2. Evicted(stamps) = rest
    BY <1>6 DEF Evicted
  <2> HIDE DEF m
  <2>3. m \in 1 .. Len(stamps)
    BY <1>2, <2>1
  <2>4. /\ rest \in Seq(Nat) /\ Len(rest) = Len(stamps) - m + 1
        /\ \A k \in 1 .. Len(rest) : rest[k] = stamps[m + k - 1]
    BY <1>2, <2>3
  <2> HIDE DEF rest, kept
  <2>5. ASSUME NEW k \in 1 .. (m - 1)
        PROVE  stamps[k] + Window < clock
    <3>1. k \in 1 .. Len(stamps) /\ ~(m <= k)
      BY <1>2, <2>3
    <3> QED
      BY <1>4, <2>1, <3>1
  <2>6. /\ Len(rest) <= Len(stamps) /\ Len(stamps) - Len(rest) = m - 1
        /\ \A k \in 1 .. Len(rest) : rest[k] = stamps[Len(stamps) - Len(rest) + k]
    BY <1>2, <2>3, <2>4
  <2>7. Ordered(rest)
    <3> SUFFICES ASSUME NEW i \in 1 .. Len(rest)
                 PROVE  rest[i] <= clock /\ \A j \in i .. Len(rest) : rest[i] <= rest[j]
      BY DEF Ordered
    <3>1. m + i - 1 \in 1 .. Len(stamps) /\ rest[i] = stamps[m + i - 1]
      BY <1>2, <2>3, <2>4
    <3>2. ASSUME NEW j \in i .. Len(rest)
          PROVE  rest[i] <= rest[j]
      <4>1. m + j - 1 \in (m + i - 1) .. Len(stamps) /\ j \in 1 .. Len(rest)
        BY <1>2, <2>3, <2>4
      <4> QED
        BY <2>4, <3>1, <4>1 DEF Ordered
    <3> QED
      BY <3>1, <3>2 DEF Ordered
  <2> QED
    BY <2>2, <2>4, <2>5, <2>6, <2>7
<1> QED
  BY <1>5, <1>6

LEMMA RefillFields ==
  ASSUME algorithm \in Algorithms, clock \in Nat, Uptime,
         NEW l \in Lim, l.last <= clock, l.start <= clock, Ordered(l.stamps),
         NEW m, m = Refilled(l)
  PROVE  /\ Ordered(m.stamps)
         /\ m \in Lim /\ m.last <= clock /\ m.start <= clock
         /\ Len(m.stamps) <= Len(l.stamps)
         /\ algorithm = "TOKEN_BUCKET" =>
              m.last = clock /\ m.level = Least(Burst, l.level + Rate * (clock - l.last))
         /\ algorithm = "LEAKY_BUCKET" =>
              m.last = clock /\ m.level = Drop(l.level, Rate * (clock - l.last))
         /\ algorithm = "FIXED_WINDOW" =>
              \/ clock - l.start >= Window /\ m.start = clock /\ m.count = 0
              \/ clock - l.start < Window /\ m.start = l.start /\ m.count = l.count
         /\ algorithm = "SLIDING_WINDOW_LOG" => m.stamps = Evicted(l.stamps)
<1>1. /\ l.level \in 0 .. Burst /\ l.last \in Nat /\ l.count \in 0 .. max_requests /\ l.start \in Nat
      /\ l.stamps \in Seq(Nat)
  BY DEF Lim
<1> DEFINE d == Rate * (clock - l.last)
<1>2. d \in Nat
  BY <1>1, LimiterAssumption
<1> HIDE DEF d
<1>3. CASE algorithm = "TOKEN_BUCKET"
  <2> DEFINE x == Least(Burst, l.level + d)
  <2>1. x \in 0 .. Burst
    BY <1>1, <1>2, LimiterAssumption DEF Least
  <2>2. m = [l EXCEPT !.level = x, !.last = clock]
    BY <1>3 DEF Refilled, Lim, d
  <2> HIDE DEF x
  <2>3. m \in Lim /\ m.level = x /\ m.last = clock /\ m.start = l.start /\ m.stamps = l.stamps
    BY <2>1, <2>2 DEF Lim
  <2> QED
    BY <1>1, <1>3, <2>3 DEF x, d
<1>4. CASE algorithm = "LEAKY_BUCKET"
  <2> DEFINE x == Drop(l.level, d)
  <2>1. x \in 0 .. Burst
    BY <1>1, <1>2, LimiterAssumption DEF Drop
  <2>2. m = [l EXCEPT !.level = x, !.last = clock]
    BY <1>4 DEF Refilled, Lim, d
  <2> HIDE DEF x
  <2>3. m \in Lim /\ m.level = x /\ m.last = clock /\ m.start = l.start /\ m.stamps = l.stamps
    BY <2>1, <2>2 DEF Lim
  <2> QED
    BY <1>1, <1>4, <2>3 DEF x, d
<1>5. CASE algorithm = "FIXED_WINDOW"
  <2>1. CASE clock - l.start >= Window
    <3>1. m = [l EXCEPT !.start = clock, !.count = 0]
      BY <1>5, <2>1 DEF Refilled
    <3>2. 0 \in 0 .. max_requests
      BY LimiterAssumption
    <3>3. m \in Lim /\ m.start = clock /\ m.count = 0 /\ m.last = l.last /\ m.stamps = l.stamps
      BY <3>1, <3>2 DEF Lim
    <3> QED
      BY <1>1, <1>5, <2>1, <3>3
  <2>2. CASE ~(clock - l.start >= Window)
    <3>1. m = l
      BY <1>5, <2>2 DEF Refilled
    <3> QED
      BY <1>1, <1>5, <2>2, <3>1, LimiterAssumption
  <2> QED
    BY <2>1, <2>2
<1>6. CASE algorithm = "SLIDING_WINDOW_LOG"
  <2> DEFINE x == Evicted(l.stamps)
  <2>1. x \in Seq(Nat) /\ Len(x) <= Len(l.stamps) /\ Ordered(x)
    BY <1>1, <1>6, Evicts DEF Uptime
  <2>2. m = [l EXCEPT !.stamps = x]
    BY <1>6 DEF Refilled, Lim
  <2> HIDE DEF x
  <2>3. m \in Lim /\ m.stamps = x /\ m.last = l.last /\ m.start = l.start
    BY <2>1, <2>2 DEF Lim
  <2> QED
    BY <1>6, <2>1, <2>3 DEF x
<1> QED
  BY <1>3, <1>4, <1>5, <1>6 DEF Algorithms

(* A refill keeps the books.                                                 *)
LEMMA RefillCharges ==
  ASSUME algorithm \in Algorithms, clock \in Nat, Uptime,
         NEW l \in Lim, l.last <= clock, l.start <= clock, Ordered(l.stamps),
         NEW m, m = Refilled(l), NEW n \in Nat \ {0}, NEW t \in Nat, t <= clock, Charged(l, n, t)
  PROVE  Charged(m, n, t)
<1>1. /\ l.level \in 0 .. Burst /\ l.last \in Nat /\ l.count \in 0 .. max_requests /\ l.start \in Nat
      /\ l.stamps \in Seq(Nat)
  BY DEF Lim
<1>2. CASE algorithm = "TOKEN_BUCKET"
  <2> DEFINE a == Cost * n
             b == Rate * (l.last - t)
             d == Rate * (clock - l.last)
             e == Rate * (clock - t)
  <2>1. a \in Int /\ b \in Int /\ d \in Int /\ e = b + d
    <3> DEFINE x == l.last - t
               y == clock - l.last
    <3>1. clock - t = x + y /\ x \in Int /\ y \in Int
      BY <1>1
    <3>2. Cost \in Int /\ Rate \in Int
      BY LimiterAssumption
    <3>3. b = Rate * x /\ d = Rate * y /\ e = Rate * (x + y)
      BY <3>1
    <3> HIDE DEF x, y, b, d, e
    <3>4. Rate * (x + y) = Rate * x + Rate * y /\ Rate * x \in Int /\ Rate * y \in Int
      BY <3>1, <3>2, TimesAdds
    <3>5. a \in Int
      BY <3>2
    <3> QED
      BY <3>3, <3>4, <3>5
  <2>2. a + l.level <= Burst + b
    BY <1>2 DEF Charged
  <2>3. m.last = clock /\ m.level = Least(Burst, l.level + d)
    BY <1>2, RefillFields
  <2> HIDE DEF a, b, d, e
  <2>4. a + m.level <= Burst + e
    BY <1>1, <2>1, <2>2, <2>3, LimiterAssumption DEF Least
  <2> QED
    BY <1>2, <2>3, <2>4 DEF Charged, a, e
<1>3. CASE algorithm = "LEAKY_BUCKET"
  <2> DEFINE a == Cost * n
             b == Rate * (l.last - t)
             d == Rate * (clock - l.last)
             e == Rate * (clock - t)
  <2>1. a \in Int /\ b \in Int /\ d \in Int /\ e = b + d
    <3> DEFINE x == l.last - t
               y == clock - l.last
    <3>1. clock - t = x + y /\ x \in Int /\ y \in Int
      BY <1>1
    <3>2. Cost \in Int /\ Rate \in Int
      BY LimiterAssumption
    <3>3. b = Rate * x /\ d = Rate * y /\ e = Rate * (x + y)
      BY <3>1
    <3> HIDE DEF x, y, b, d, e
    <3>4. Rate * (x + y) = Rate * x + Rate * y /\ Rate * x \in Int /\ Rate * y \in Int
      BY <3>1, <3>2, TimesAdds
    <3>5. a \in Int
      BY <3>2
    <3> QED
      BY <3>3, <3>4, <3>5
  <2>2. a <= l.level + b
    BY <1>3 DEF Charged
  <2>3. m.last = clock /\ m.level = Drop(l.level, d)
    BY <1>3, RefillFields
  <2> HIDE DEF a, b, d, e
  <2>4. a <= m.level + e
    BY <1>1, <2>1, <2>2, <2>3 DEF Drop
  <2> QED
    BY <1>3, <2>3, <2>4 DEF Charged, a, e
<1>4. CASE algorithm = "FIXED_WINDOW"
  <2>1. /\ t < l.start + Window
        /\ IF t >= l.start THEN n <= l.count
           ELSE n <= l.count + max_requests * (1 + (l.start - 1 - t) \div Window)
    BY <1>4 DEF Charged
  <2>2. CASE clock - l.start < Window /\ m.start = l.start /\ m.count = l.count
    BY <1>4, <2>1, <2>2 DEF Charged
  <2>3. CASE clock - l.start >= Window /\ m.start = clock /\ m.count = 0
    <3> DEFINE q == (clock - 1 - t) \div Window
    <3>1. t < clock /\ clock - 1 - t \in Nat
      BY <1>1, <2>1, <2>3, LimiterAssumption
    <3>2. q \in Nat
      BY <3>1, Ratio, LimiterAssumption
    <3>3. n <= max_requests * (1 + q)
      <4>1. CASE t >= l.start
        <5>1. n <= max_requests /\ max_requests \in Nat
          BY <1>1, <2>1, <4>1, LimiterAssumption
        <5>2. max_requests * 1 <= max_requests * (1 + q) /\ max_requests * 1 = max_requests
          BY <3>2, <5>1, TimesGrows
        <5>3. max_requests * (1 + q) \in Nat
          BY <3>2, <5>1
        <5> HIDE DEF q
        <5> QED
          BY <5>1, <5>2, <5>3
      <4>2. CASE t < l.start
        <5> DEFINE p == (l.start - 1 - t) \div Window
        <5>1. l.start - 1 - t \in Nat /\ (l.start - 1 - t) + Window <= clock - 1 - t
          BY <1>1, <2>3, <4>2, LimiterAssumption
        <5>2. p \in Nat /\ p + 1 <= q
          <6>1. p \in Nat /\ ((l.start - 1 - t) + Window) \div Window = p + 1
            BY <5>1, Ratio, RatioNext, LimiterAssumption
          <6>2. (l.start - 1 - t) + Window \in Nat
            BY <5>1, LimiterAssumption
          <6>3. ((l.start - 1 - t) + Window) \div Window <= q
            BY <3>1, <5>1, <6>2, RatioGrows, LimiterAssumption
          <6> QED
            BY <6>1, <6>3
        <5>3. n <= l.count + max_requests * (1 + p)
          BY <1>1, <2>1, <4>2
        <5> HIDE DEF p, q
        <5>4. /\ max_requests * (1 + (1 + p)) <= max_requests * (1 + q)
              /\ max_requests * (1 + (1 + p)) = max_requests * 1 + max_requests * (1 + p)
              /\ max_requests * 1 = max_requests
          <6>1. 1 + (1 + p) \in Nat /\ 1 + q \in Nat /\ 1 + (1 + p) <= 1 + q /\ max_requests \in Nat
            BY <3>2, <5>2, LimiterAssumption
          <6> QED
            BY <5>2, <6>1, TimesGrows, TimesAdds
        <5>5. max_requests * (1 + p) \in Nat /\ max_requests * (1 + q) \in Nat /\ max_requests \in Nat
          BY <3>2, <5>2, LimiterAssumption
        <5> QED
          BY <1>1, <5>3, <5>4, <5>5
      <4> QED
        BY <1>1, <4>1, <4>2
    <3>4. max_requests * (1 + q) = 0 + max_requests * (1 + q)
      BY <3>2, LimiterAssumption
    <3>5. t < m.start + Window /\ ~(t >= m.start) /\ q = (m.start - 1 - t) \div Window
      BY <2>3, <3>1, LimiterAssumption
    <3> HIDE DEF q
    <3>6. n <= m.count + max_requests * (1 + q)
      BY <2>3, <3>3, <3>4
    <3> QED
      BY <1>4, <3>5, <3>6 DEF Charged
  <2> QED
    BY <1>4, <2>2, <2>3, RefillFields
<1>5. CASE algorithm = "SLIDING_WINDOW_LOG"
  <2> DEFINE x == Evicted(l.stamps)
             u == Len(l.stamps)
             v == Len(x)
  <2>1. m.stamps = x
    BY <1>5, RefillFields
  <2>2. /\ x \in Seq(Nat) /\ v <= u
        /\ \A k \in 1 .. v : x[k] = l.stamps[u - v + k]
        /\ \A k \in 1 .. (u - v) : l.stamps[k] + Window < clock
    BY <1>1, <1>5, Evicts DEF Uptime
  <2>3. IF n <= u THEN t = l.stamps[u - n + 1] ELSE t + Window < clock
    BY <1>5 DEF Charged
  <2> HIDE DEF x
  <2>4. u \in Nat /\ v \in Nat
    BY <1>1, <2>2
  <2> HIDE DEF u, v
  <2>5. IF n <= v THEN t = x[v - n + 1] ELSE t + Window < clock
    <3>1. CASE n <= v
      <4>1. v - n + 1 \in 1 .. v /\ u - v + (v - n + 1) = u - n + 1 /\ n <= u
        BY <2>2, <2>4, <3>1
      <4> QED
        BY <2>2, <2>3, <3>1, <4>1
    <3>2. CASE ~(n <= v) /\ n <= u
      <4>1. u - n + 1 \in 1 .. (u - v)
        BY <2>2, <2>4, <3>2
      <4> QED
        BY <2>2, <2>3, <3>2, <4>1
    <3>3. CASE ~(n <= u)
      BY <2>2, <2>3, <2>4, <3>3
    <3> QED
      BY <3>1, <3>2, <3>3
  <2> QED
    BY <1>5, <2>1, <2>5 DEF Charged, v
<1> QED
  BY <1>2, <1>3, <1>4, <1>5 DEF Algorithms

LEMMA TakeFields ==
  ASSUME algorithm \in Algorithms, clock \in Nat, NEW l \in Lim, Ordered(l.stamps), Room(l),
         NEW m, m = Take(l)
  PROVE  /\ Ordered(m.stamps)
         /\ m \in Lim /\ m.last = l.last /\ m.start = l.start
         /\ Len(l.stamps) <= max_requests => Len(m.stamps) <= max_requests
         /\ algorithm = "TOKEN_BUCKET" => m.level = l.level - Cost
         /\ algorithm = "LEAKY_BUCKET" => m.level = l.level + Cost
         /\ algorithm = "FIXED_WINDOW" => m.count = l.count + 1
         /\ algorithm = "SLIDING_WINDOW_LOG" => m.stamps = Append(l.stamps, clock)
<1>1. /\ l.level \in 0 .. Burst /\ l.last \in Nat /\ l.count \in 0 .. max_requests /\ l.start \in Nat
      /\ l.stamps \in Seq(Nat)
  BY DEF Lim
<1>2. CASE algorithm = "TOKEN_BUCKET"
  <2> DEFINE x == l.level - Cost
  <2>1. x \in 0 .. Burst
    BY <1>1, <1>2, LimiterAssumption DEF Room
  <2>2. m = [l EXCEPT !.level = x]
    BY <1>2 DEF Take, Lim
  <2> HIDE DEF x
  <2>3. m \in Lim /\ m.level = x /\ m.last = l.last /\ m.start = l.start /\ m.stamps = l.stamps
    BY <2>1, <2>2 DEF Lim
  <2> QED
    BY <1>2, <2>3 DEF x
<1>3. CASE algorithm = "LEAKY_BUCKET"
  <2> DEFINE x == l.level + Cost
  <2>1. x \in 0 .. Burst
    BY <1>1, <1>3, LimiterAssumption DEF Room
  <2>2. m = [l EXCEPT !.level = x]
    BY <1>3 DEF Take, Lim
  <2> HIDE DEF x
  <2>3. m \in Lim /\ m.level = x /\ m.last = l.last /\ m.start = l.start /\ m.stamps = l.stamps
    BY <2>1, <2>2 DEF Lim
  <2> QED
    BY <1>3, <2>3 DEF x
<1>4. CASE algorithm = "FIXED_WINDOW"
  <2> DEFINE x == l.count + 1
  <2>1. x \in 0 .. max_requests
    BY <1>1, <1>4, LimiterAssumption DEF Room
  <2>2. m = [l EXCEPT !.count = x]
    BY <1>4 DEF Take, Lim
  <2> HIDE DEF x
  <2>3. m \in Lim /\ m.count = x /\ m.last = l.last /\ m.start = l.start /\ m.stamps = l.stamps
    BY <2>1, <2>2 DEF Lim
  <2> QED
    BY <1>4, <2>3 DEF x
<1>5. CASE algorithm = "SLIDING_WINDOW_LOG"
  <2> DEFINE x == Append(l.stamps, clock)
  <2>1. /\ x \in Seq(Nat) /\ Len(x) = Len(l.stamps) + 1 /\ Len(l.stamps) \in Nat
        /\ x[Len(x)] = clock /\ \A i \in 1 .. Len(l.stamps) : x[i] = l.stamps[i]
    BY <1>1
  <2>2. m = [l EXCEPT !.stamps = x] /\ Len(l.stamps) < max_requests
    BY <1>5 DEF Take, Room, Lim
  <2> HIDE DEF x
  <2>3. m \in Lim /\ m.stamps = x /\ m.last = l.last /\ m.start = l.start
    BY <2>1, <2>2 DEF Lim
  <2>4. Len(x) <= max_requests
    BY <2>1, <2>2, LimiterAssumption
  <2>5. Ordered(x)
    <3> SUFFICES ASSUME NEW i \in 1 .. Len(x)
                 PROVE  x[i] <= clock /\ \A j \in i .. Len(x) : x[i] <= x[j]
      BY DEF Ordered
    <3>1. CASE i = Len(x)
      <4>1. \A j \in i .. Len(x) : j = Len(x)
        BY <2>1, <3>1
      <4> QED
        BY <2>1, <3>1, <4>1
    <3>2. CASE i # Len(x)
      <4>1. i \in 1 .. Len(l.stamps)
        BY <2>1, <3>2
      <4>2. x[i] = l.stamps[i] /\ l.stamps[i] <= clock
        BY <2>1, <4>1 DEF Ordered
      <4>3. ASSUME NEW j \in i .. Len(x), j # Len(x)
            PROVE  x[i] <= x[j]
        <5>1. j \in i .. Len(l.stamps) /\ j \in 1 .. Len(l.stamps)
          BY <2>1, <4>1, <4>3
        <5> QED
          BY <2>1, <4>1, <4>2, <5>1 DEF Ordered
      <4> QED
        BY <2>1, <4>2, <4>3
    <3> QED
      BY <3>1, <3>2
  <2> QED
    BY <1>5, <2>3, <2>4, <2>5 DEF x
<1> QED
  BY <1>2, <1>3, <1>4, <1>5 DEF Algorithms

(* A request that a refilled limiter takes is on its books, for every one    *)
(* before it and for itself.                                                 *)
LEMMA TakeCharges ==
  ASSUME algorithm \in Algorithms, clock \in Nat,
         NEW l \in Lim, l.last <= clock, l.start <= clock, Ordered(l.stamps), Fresh(l), Room(l),
         NEW m, m = Take(l)
  PROVE  /\ Charged(m, 1, clock)
         /\ \A n \in Nat \ {0}, t \in Nat : t <= clock /\ Charged(l, n, t) => Charged(m, n + 1, t)
<1>1. /\ l.level \in 0 .. Burst /\ l.last \in Nat /\ l.count \in 0 .. max_requests /\ l.start \in Nat
      /\ l.stamps \in Seq(Nat)
  BY DEF Lim
<1>2. m.last = l.last /\ m.start = l.start
  BY TakeFields
<1>3. CASE algorithm = "TOKEN_BUCKET"
  <2>1. m.level = l.level - Cost /\ l.last = clock
    BY <1>3, TakeFields DEF Fresh
  <2>2. Charged(m, 1, clock)
    <3>1. Cost * 1 = Cost /\ Rate * (clock - clock) = 0
      BY LimiterAssumption
    <3> QED
      BY <1>1, <1>2, <1>3, <2>1, <3>1, LimiterAssumption DEF Charged
  <2>3. ASSUME NEW n \in Nat \ {0}, NEW t \in Nat, t <= clock, Charged(l, n, t)
        PROVE  Charged(m, n + 1, t)
    <3> DEFINE a == Cost * n
               b == Rate * (l.last - t)
    <3>1. Cost * (n + 1) = a + Cost /\ a \in Int /\ b \in Int
      BY <1>1, TimesAdds, LimiterAssumption
    <3>2. a + l.level <= Burst + b /\ t <= l.last
      BY <1>3, <2>3 DEF Charged
    <3> HIDE DEF a, b
    <3>3. Cost * (n + 1) + m.level <= Burst + b
      BY <1>1, <2>1, <3>1, <3>2, LimiterAssumption
    <3> QED
      BY <1>2, <1>3, <3>2, <3>3 DEF Charged, b
  <2> QED
    BY <2>2, <2>3
<1>4. CASE algorithm = "LEAKY_BUCKET"
  <2>1. m.level = l.level + Cost /\ l.last = clock
    BY <1>4, TakeFields DEF Fresh
  <2>2. Charged(m, 1, clock)
    <3>1. Cost * 1 = Cost /\ Rate * (clock - clock) = 0
      BY LimiterAssumption
    <3> QED
      BY <1>1, <1>2, <1>4, <2>1, <3>1, LimiterAssumption DEF Charged
  <2>3. ASSUME NEW n \in Nat \ {0}, NEW t \in Nat, t <= clock, Charged(l, n, t)
        PROVE  Charged(m, n + 1, t)
    <3> DEFINE a == Cost * n
               b == Rate * (l.last - t)
    <3>1. Cost * (n + 1) = a + Cost /\ a \in Int /\ b \in Int
      BY <1>1, TimesAdds, LimiterAssumption
    <3>2. a <= l.level + b /\ t <= l.last
      BY <1>4, <2>3 DEF Charged
    <3> HIDE DEF a, b
    <3>3. Cost * (n + 1) <= m.level + b
      BY <1>1, <2>1, <3>1, <3>2, LimiterAssumption
    <3> QED
      BY <1>2, <1>4, <3>2, <3>3 DEF Charged, b
  <2> QED
    BY <2>2, <2>3
<1>5. CASE algorithm = "FIXED_WINDOW"
  <2>1. m.count = l.count + 1 /\ clock < l.start + Window
    BY <1>5, TakeFields DEF Fresh
  <2>2. Charged(m, 1, clock)
    BY <1>1, <1>2, <1>5, <2>1, LimiterAssumption DEF Charged
  <2>3. ASSUME NEW n \in Nat \ {0}, NEW t \in Nat, t <= clock, Charged(l, n, t)
        PROVE  Charged(m, n + 1, t)
    <3>1. /\ t < l.start + Window
          /\ IF t >= l.start THEN n <= l.count
             ELSE n <= l.count + max_requests * (1 + (l.start - 1 - t) \div Window)
      BY <1>5, <2>3 DEF Charged
    <3>2. CASE t >= l.start
      BY <1>1, <1>2, <1>5, <2>1, <3>1, <3>2 DEF Charged
    <3>3. CASE ~(t >= l.start)
      <4> DEFINE x == max_requests * (1 + (l.start - 1 - t) \div Window)
      <4>1. x \in Int
        <5>1. l.start - 1 - t \in Nat
          BY <1>1, <3>3
        <5> QED
          BY <5>1, Ratio, LimiterAssumption
      <4>2. n <= l.count + x
        BY <3>1, <3>3
      <4> HIDE DEF x
      <4>3. n + 1 <= m.count + x
        BY <1>1, <2>1, <4>1, <4>2
      <4> QED
        BY <1>2, <1>5, <3>1, <3>3, <4>3 DEF Charged, x
    <3> QED
      BY <3>2, <3>3
  <2> QED
    BY <2>2, <2>3
<1>6. CASE algorithm = "SLIDING_WINDOW_LOG"
  <2> DEFINE u == Len(l.stamps)
  <2>1. m.stamps = Append(l.stamps, clock)
    BY <1>6, TakeFields
  <2>2. /\ u \in Nat /\ Len(m.stamps) = u + 1 /\ m.stamps[u + 1] = clock
        /\ \A k \in 1 .. u : m.stamps[k] = l.stamps[k]
    BY <1>1, <2>1
  <2> HIDE DEF u
  <2>3. Charged(m, 1, clock)
    BY <1>6, <2>2 DEF Charged
  <2>4. ASSUME NEW n \in Nat \ {0}, NEW t \in Nat, t <= clock, Charged(l, n, t)
        PROVE  Charged(m, n + 1, t)
    <3>1. IF n <= u THEN t = l.stamps[u - n + 1] ELSE t + Window < clock
      BY <1>6, <2>4 DEF Charged, u
    <3>2. IF n + 1 <= u + 1 THEN t = m.stamps[(u + 1) - (n + 1) + 1] ELSE t + Window < clock
      <4>1. CASE n <= u
        <5>1. (u + 1) - (n + 1) + 1 = u - n + 1 /\ u - n + 1 \in 1 .. u
          BY <2>2, <4>1
        <5> QED
          BY <2>2, <3>1, <4>1, <5>1
      <4>2. CASE ~(n <= u)
        BY <2>2, <3>1, <4>2
      <4> QED
        BY <4>1, <4>2
    <3> QED
      BY <1>6, <2>2, <3>2 DEF Charged
  <2> QED
    BY <2>3, <2>4
<1> QED
  BY <1>3, <1>4, <1>5, <1>6 DEF Algorithms

(* What is on the books of a limiter is within its promise.                  *)
LEMMA ChargedIsPromised ==
  ASSUME algorithm \in Algorithms, clock \in Nat,
         NEW l \in Lim, l.last <= clock, l.start <= clock, Len(l.stamps) <= max_requests,
         NEW n \in Nat \ {0}, NEW t \in Nat, t <= clock, Charged(l, n, t)
  PROVE  Promised(n, clock - t)
<1>1. /\ l.level \in 0 .. Burst /\ l.last \in Nat /\ l.count \in 0 .. max_requests /\ l.start \in Nat
      /\ l.stamps \in Seq(Nat)
  BY DEF Lim
<1>2. CASE algorithm \in {"TOKEN_BUCKET", "LEAKY_BUCKET"}
  <2> DEFINE a == Cost * n
             b == Rate * (l.last - t)
             e == Rate * (clock - t)
  <2>1. a <= Burst + b /\ t <= l.last
    <3>1. t <= l.last /\ (a + l.level <= Burst + b \/ a <= l.level + b)
      BY <1>2 DEF Charged
    <3>2. a \in Int /\ b \in Int
      BY <1>1, LimiterAssumption
    <3> HIDE DEF a, b
    <3> QED
      BY <1>1, <3>1, <3>2, LimiterAssumption
  <2>2. b <= e /\ a \in Int /\ b \in Int /\ e \in Int
    <3>1. l.last - t \in Nat /\ clock - t \in Nat /\ l.last - t <= clock - t
      BY <1>1, <2>1
    <3> QED
      BY <3>1, TimesGrows, LimiterAssumption
  <2>3. a <= Burst + e
    <3> HIDE DEF a, b, e
    <3> QED
      BY <2>1, <2>2, LimiterAssumption
  <2> QED
    BY <1>2, <2>3 DEF Promised
<1>3. CASE algorithm = "FIXED_WINDOW"
  <2> DEFINE M == max_requests
             q == (clock - 1 - t) \div Window
             p == (l.start - 1 - t) \div Window
  <2>1. IF t >= l.start THEN n <= l.count ELSE n <= l.count + M * (1 + p)
    BY <1>3 DEF Charged
  <2>2. M \in Nat /\ M * 1 = M
    BY LimiterAssumption
  <2>3. CASE clock = t
    <3>1. n <= M * 1
      BY <1>1, <2>1, <2>2, <2>3
    <3>2. clock - t = 0
      BY <2>3
    <3> QED
      BY <1>3, <3>1, <3>2 DEF Promised
  <2>4. CASE t < clock
    <3>1. clock - 1 - t \in Nat /\ clock - t # 0 /\ clock - t - 1 = clock - 1 - t
      BY <2>4
    <3>2. q \in Nat
      BY <3>1, Ratio, LimiterAssumption
    <3>3. n <= M * (2 + q)
      <4>1. CASE t >= l.start
        <5>1. n <= M /\ 1 <= 2 + q /\ 2 + q \in Nat
          BY <1>1, <2>1, <2>2, <3>2, <4>1
        <5>2. M * 1 <= M * (2 + q) /\ M * (2 + q) \in Nat
          BY <2>2, <5>1, TimesGrows
        <5> HIDE DEF q, M
        <5> QED
          BY <2>2, <5>1, <5>2
      <4>2. CASE t < l.start
        <5>1. l.start - 1 - t \in Nat /\ l.start - 1 - t <= clock - 1 - t
          BY <1>1, <4>2
        <5>2. p \in Nat /\ p <= q
          BY <3>1, <5>1, Ratio, RatioGrows, LimiterAssumption
        <5>3. n <= l.count + M * (1 + p)
          BY <1>1, <2>1, <4>2
        <5>4. l.count <= M /\ l.count \in Nat
          BY <1>1, <2>2
        <5> HIDE DEF p, q, M
        <5>5. M * (1 + (1 + p)) <= M * (2 + q) /\ M * (1 + (1 + p)) = M * 1 + M * (1 + p)
          <6>1. 1 + (1 + p) \in Nat /\ 2 + q \in Nat /\ 1 + (1 + p) <= 2 + q
            BY <3>2, <5>2
          <6> QED
            BY <2>2, <5>2, <6>1, TimesGrows, TimesAdds
        <5>6. M * (1 + p) \in Nat /\ M * (2 + q) \in Nat
          BY <2>2, <3>2, <5>2
        <5> QED
          BY <2>2, <5>3, <5>4, <5>5, <5>6
      <4> QED
        BY <1>1, <4>1, <4>2
    <3> QED
      BY <1>3, <3>1, <3>3 DEF Promised
  <2> QED
    BY <2>3, <2>4
<1>4. CASE algorithm = "SLIDING_WINDOW_LOG"
  <2>1. n <= Len(l.stamps) \/ t + Window < clock
    BY <1>4 DEF Charged
  <2>2. Len(l.stamps) \in Nat
    BY <1>1
  <2>3. clock - t <= Window => n <= max_requests
    BY <2>1, <2>2, LimiterAssumption
  <2> QED
    BY <1>4, <2>3 DEF Promised
<1> QED
  BY <1>2, <1>3, <1>4 DEF Algorithms

LEMMA LogTimes ==
  ASSUME RlInv, NEW i \in DOMAIN log
  PROVE  /\ Len(log) \in Nat /\ i \in 1 .. Len(log) /\ Since(i) \in Nat \ {0}
         /\ log[i].time \in Nat /\ log[i].time <= clock
<1>1. log \in Seq(Request) /\ log[i].time <= clock
  BY DEF RlInv
<1>2. Len(log) \in Nat /\ DOMAIN log = 1 .. Len(log) /\ log[i] \in Request
  BY <1>1
<1> QED
  BY <1>1, <1>2 DEF Since, Request

LEMMA Refills ==
  ASSUME RlInv, NEW m, m = Refilled(rl)
  PROVE  Books(m) /\ Fresh(m)
<1>1. /\ algorithm \in Algorithms /\ clock \in Nat /\ Uptime
      /\ rl \in Lim /\ rl.last <= clock /\ rl.start <= clock /\ Len(rl.stamps) <= max_requests
      /\ Ordered(rl.stamps)
  BY DEF RlInv, Books
<1>2. /\ m \in Lim /\ m.last <= clock /\ m.start <= clock
      /\ Len(m.stamps) <= Len(rl.stamps) /\ Ordered(m.stamps)
  BY <1>1, RefillFields
<1>3. Len(m.stamps) <= max_requests
  <2>1. Len(m.stamps) \in Nat /\ Len(rl.stamps) \in Nat
    BY <1>1, <1>2 DEF Lim
  <2> QED
    BY <1>1, <1>2, <2>1, LimiterAssumption
<1>4. ASSUME NEW i \in DOMAIN log
      PROVE  Charged(m, Since(i), log[i].time)
  <2>1. Since(i) \in Nat \ {0} /\ log[i].time \in Nat /\ log[i].time <= clock
    BY LogTimes
  <2>2. Charged(rl, Since(i), log[i].time)
    BY DEF RlInv, Books
  <2> QED
    BY <1>1, <2>1, <2>2, RefillCharges
<1>5. Fresh(m)
  <2>1. algorithm \in {"TOKEN_BUCKET", "LEAKY_BUCKET"} => m.last = clock
    BY <1>1, RefillFields
  <2>2. CASE algorithm = "FIXED_WINDOW"
    <3>1. (m.start = clock) \/ (clock - rl.start < Window /\ m.start = rl.start)
      BY <1>1, <2>2, RefillFields
    <3>2. rl.start \in Nat
      BY <1>1 DEF Lim
    <3> QED
      BY <1>1, <2>1, <3>1, <3>2, LimiterAssumption DEF Fresh
  <2>3. CASE algorithm # "FIXED_WINDOW"
    BY <2>1, <2>3 DEF Fresh
  <2> QED
    BY <2>2, <2>3
<1> QED
  BY <1>2, <1>3, <1>4, <1>5 DEF Books

(* Every call of the rate limiter does one of three things to the parent:    *)
(* nothing, a refill, or a refill and an admission where there is room.      *)
LEMMA RlSteps ==
  ASSUME RlNext
  PROVE  /\ algorithm' = algorithm
         /\ \/ clock' = clock + 1 /\ UNCHANGED <<rl, log>>
            \/ UNCHANGED <<clock, log>> /\ rl' \in {rl, Refilled(rl)}
            \/ /\ UNCHANGED clock /\ Room(Refilled(rl)) /\ rl' = Take(Refilled(rl))
               /\ \E c \in Clients \cup {Nobody} : log' = Append(log, [client |-> c, time |-> clock])
<1>1. CASE rl_refill
  BY <1>1 DEF rl_refill
<1>2. CASE rl_allow
  BY <1>2 DEF rl_allow
<1>3. ASSUME NEW c \in Clients, rl_allow_client(c)
      PROVE  /\ UNCHANGED <<algorithm, clock>>
             /\ \/ UNCHANGED log /\ rl' \in {rl, Refilled(rl)}
                \/ /\ Room(Refilled(rl)) /\ rl' = Take(Refilled(rl))
                   /\ log' = Append(log, [client |-> c, time |-> clock])
  BY <1>3 DEF rl_allow_client, rlVars
<1>4. CASE RlTick
  BY <1>4 DEF RlTick
<1> QED
  BY <1>1, <1>2, <1>3, <1>4 DEF RlNext

LEMMA AdmissionKeeps ==
  ASSUME RlInv, UNCHANGED <<algorithm, clock>>, Room(Refilled(rl)), rl' = Take(Refilled(rl)),
         NEW c \in Clients \cup {Nobody}, log' = Append(log, [client |-> c, time |-> clock])
  PROVE  RlInv'
<1> DEFINE l == Refilled(rl)
           m == Take(l)
           e == [client |-> c, time |-> clock]
           L == Len(log)
<1>1. Books(l) /\ Fresh(l)
  BY Refills
<1>2. algorithm \in Algorithms /\ clock \in Nat /\ Uptime /\ log \in Seq(Request)
  BY DEF RlInv
<1>3. /\ l \in Lim /\ l.last <= clock /\ l.start <= clock
      /\ Len(l.stamps) <= max_requests /\ Ordered(l.stamps)
      /\ \A i \in DOMAIN log : Charged(l, Since(i), log[i].time)
  BY <1>1 DEF Books
<1>4. Room(l) /\ rl' = m /\ log' = Append(log, e) /\ e \in Request /\ e.time = clock
  BY <1>2 DEF Request
<1> HIDE DEF l, e
<1>5. /\ m \in Lim /\ m.last <= clock /\ m.start <= clock
      /\ Len(m.stamps) <= max_requests /\ Ordered(m.stamps)
  BY <1>2, <1>3, <1>4, TakeFields
<1>6. /\ Charged(m, 1, clock)
      /\ \A n \in Nat \ {0}, t \in Nat : t <= clock /\ Charged(l, n, t) => Charged(m, n + 1, t)
  BY <1>1, <1>2, <1>3, <1>4, TakeCharges
<1> HIDE DEF m
<1>7. /\ L \in Nat /\ DOMAIN log = 1 .. L /\ log' \in Seq(Request) /\ Len(log') = L + 1
      /\ DOMAIN log' = 1 .. (L + 1) /\ log'[L + 1] = e
      /\ \A i \in 1 .. L : log'[i] = log[i]
  BY <1>2, <1>4
<1> HIDE DEF L
<1>8. ASSUME NEW i \in DOMAIN log'
      PROVE  /\ log'[i].time \in Nat /\ log'[i].time <= clock
             /\ L + 1 - i + 1 \in Nat \ {0}
             /\ Charged(m, L + 1 - i + 1, log'[i].time)
  <2>1. CASE i = L + 1
    <3>1. L + 1 - i + 1 = 1
      BY <1>7, <2>1
    <3>2. log'[i].time = clock
      BY <1>4, <1>7, <2>1
    <3>3. L + 1 - i + 1 \in Nat \ {0} /\ clock <= clock
      BY <1>2, <3>1
    <3>4. Charged(m, L + 1 - i + 1, log'[i].time)
      BY <1>6, <3>1, <3>2
    <3> QED
      BY <1>2, <3>2, <3>3, <3>4
  <2>2. CASE i \in 1 .. L
    <3>1. /\ log[i].time \in Nat /\ log[i].time <= clock
          /\ L - i + 1 \in Nat \ {0} /\ L + 1 - i + 1 = (L - i + 1) + 1
      <4>1. i \in DOMAIN log
        BY <1>7, <2>2
      <4> QED
        BY <1>7, <2>2, <4>1, LogTimes
    <3>2. Charged(l, L - i + 1, log[i].time)
      BY <1>3, <1>7, <2>2 DEF Since, L
    <3> QED
      BY <1>6, <1>7, <2>2, <3>1, <3>2
  <2> QED
    BY <1>7, <2>1, <2>2
<1>9. ASSUME NEW i \in DOMAIN log'
      PROVE  Promised(L + 1 - i + 1, clock - log'[i].time)
  BY <1>2, <1>5, <1>8, ChargedIsPromised
<1>10. ASSUME NEW i \in DOMAIN log', NEW j \in DOMAIN log', i <= j
       PROVE  Promised(j - i + 1, log'[j].time - log'[i].time)
  <2>1. CASE j = L + 1
    BY <1>4, <1>7, <1>9, <2>1
  <2>2. CASE j # L + 1
    <3>1. i \in DOMAIN log /\ j \in DOMAIN log
      BY <1>7, <1>10, <2>2
    <3> QED
      BY <1>7, <1>10, <3>1 DEF RlInv, RateWithinLimit
  <2> QED
    BY <2>1, <2>2
<1>11. RateWithinLimit'
  BY <1>10 DEF RateWithinLimit, Promised
<1>12. Books(rl)'
  <2>1. ASSUME NEW i \in DOMAIN log'
        PROVE  Charged(rl, Since(i), log[i].time)'
    <3>1. Charged(rl', L + 1 - i + 1, log'[i].time) /\ Since(i)' = L + 1 - i + 1
      BY <1>4, <1>7, <1>8 DEF Since
    <3> DEFINE n == L + 1 - i + 1
    <3>2. Charged(rl', n, log'[i].time) /\ Since(i)' = n
      BY <3>1
    <3> HIDE DEF n
    <3> QED
      BY <3>2 DEF Charged
  <2> QED
    BY <1>4, <1>5, <2>1 DEF Books, Ordered
<1> QED
  BY <1>2, <1>7, <1>8, <1>11, <1>12 DEF RlInv, Uptime

(* The rate limiters: between two admitted requests no more were admitted    *)
(* than the burst and the refill, or the windows, allow for that long, for   *)
(* every rate, burst, window and capacity, whoever asks.  The sliding log    *)
(* needs a machine that has been up for a window: before that rl_allow       *)
(* subtracts the window from a smaller uptime and evicts everything.         *)
THEOREM LimitKept ==
  RlSpec /\ (algorithm = "SLIDING_WINDOW_LOG" => Start >= Window) => []RateWithinLimit
<1>1. rl_init /\ (algorithm = "SLIDING_WINDOW_LOG" => Start >= Window) => RlInv
  <2> SUFFICES ASSUME rl_init, algorithm = "SLIDING_WINDOW_LOG" => Start >= Window
               PROVE  RlInv
    OBVIOUS
  <2>1. /\ algorithm \in Algorithms /\ clock = Start /\ clock \in Nat /\ Uptime
        /\ log = << >> /\ log \in Seq(Request) /\ DOMAIN log = {}
    BY LimiterAssumption DEF rl_init, Algorithms, Uptime
  <2> DEFINE x == IF algorithm = "TOKEN_BUCKET" THEN Burst ELSE 0
  <2>2. x \in 0 .. Burst /\ 0 \in 0 .. max_requests /\ << >> \in Seq(Nat)
    BY LimiterAssumption
  <2>3. rl = [level |-> x, last |-> clock, count |-> 0, start |-> clock, stamps |-> << >>]
    BY <2>1 DEF rl_init, Limiter
  <2> HIDE DEF x
  <2>4. rl \in Lim /\ rl.last = clock /\ rl.start = clock /\ rl.stamps = << >>
    BY <2>1, <2>2, <2>3 DEF Lim
  <2>5. Len(rl.stamps) <= max_requests /\ Ordered(rl.stamps)
    BY <2>4, LimiterAssumption DEF Ordered
  <2> QED
    BY <2>1, <2>4, <2>5 DEF RlInv, Books, RateWithinLimit
<1>2. RlInv /\ [RlNext]_rlVars => RlInv'
  <2> SUFFICES ASSUME RlInv, [RlNext]_rlVars PROVE RlInv'
    OBVIOUS
  <2>1. CASE UNCHANGED <<algorithm, clock, log>> /\ rl' \in {rl, Refilled(rl)}
    <3> DEFINE m == rl'
    <3>1. Books(m)
      BY <2>1, Refills DEF RlInv
    <3>2. Books(rl)'
      BY <2>1, <3>1 DEF Books, Charged, Since, Ordered
    <3> QED
      BY <2>1, <3>2 DEF RlInv, Uptime, RateWithinLimit, Promised
  <2>2. CASE clock' = clock + 1 /\ UNCHANGED <<algorithm, rl, log>>
    <3>1. clock' \in Nat /\ Uptime'
      BY <2>2, LimiterAssumption DEF RlInv, Uptime
    <3>2. rl \in Lim /\ rl.last \in Nat /\ rl.start \in Nat /\ rl.last <= clock' /\ rl.start <= clock'
      BY <2>2 DEF RlInv, Books, Lim
    <3>3. \A i \in DOMAIN log : log[i].time \in Nat /\ log[i].time <= clock'
      BY <2>2, LogTimes DEF RlInv
    <3>4. ASSUME NEW i \in DOMAIN log
          PROVE  Charged(rl, Since(i), log[i].time)'
      <4>1. Charged(rl, Since(i), log[i].time) /\ Since(i)' = Since(i)
        BY <2>2 DEF RlInv, Books, Since
      <4>2. log[i].time + Window < clock => log[i].time + Window < clock'
        BY <2>2, <3>3, LimiterAssumption DEF RlInv
      <4> QED
        <5>1. PICK n \in Nat, t \in Nat : n = Since(i) /\ t = log[i].time
          BY LogTimes
        <5>2. /\ Charged(rl, n, t) /\ Since(i)' = n /\ log'[i].time = t
              /\ t + Window < clock => t + Window < clock'
          BY <2>2, <4>1, <4>2, <5>1
        <5>3. CASE algorithm = "SLIDING_WINDOW_LOG"
          BY <2>2, <5>2, <5>3 DEF Charged
        <5>4. CASE algorithm # "SLIDING_WINDOW_LOG"
          <6>1. algorithm \in {"TOKEN_BUCKET", "LEAKY_BUCKET", "FIXED_WINDOW"}
            BY <5>4 DEF RlInv, Algorithms
          <6> QED
            BY <2>2, <5>2, <6>1 DEF Charged
        <5> QED
          BY <5>3, <5>4
    <3>5. Ordered(rl.stamps)'
      <4>1. rl.stamps \in Seq(Nat) /\ Ordered(rl.stamps) /\ clock \in Nat
        BY DEF RlInv, Books, Lim
      <4> QED
        BY <2>2, <4>1 DEF Ordered
    <3>6. Books(rl)'
      BY <2>2, <3>2, <3>4, <3>5 DEF Books, RlInv
    <3> QED
      BY <2>2, <3>1, <3>3, <3>6 DEF RlInv, RateWithinLimit, Promised
  <2>3. ASSUME UNCHANGED <<algorithm, clock>>, Room(Refilled(rl)), rl' = Take(Refilled(rl)),
               NEW c \in Clients \cup {Nobody}, log' = Append(log, [client |-> c, time |-> clock])
        PROVE  RlInv'
    BY <2>3, AdmissionKeeps
  <2>4. CASE UNCHANGED rlVars
    BY <2>1, <2>4 DEF rlVars
  <2> QED
    BY <2>1, <2>2, <2>3, <2>4, RlSteps
<1>3. RlInv => RateWithinLimit
  BY DEF RlInv
<1> QED
  BY <1>1, <1>2, <1>3, PTL DEF RlSpec

-----------------------------------------------------------------------------
(* Sequences and loops, for the parts that a request passes.                 *)

(* Sequences of anything.                                                    *)
IsSequence(s) == \E S : s \in Seq(S)

LEMMA SequenceShape ==
  ASSUME NEW s, IsSequence(s)
  PROVE  Len(s) \in Nat /\ DOMAIN s = 1 .. Len(s) /\ (s = <<>> <=> Len(s) = 0)
  BY DEF IsSequence

LEMMA SequenceAppended ==
  ASSUME NEW s, IsSequence(s), NEW e
  PROVE  /\ IsSequence(Append(s, e))
         /\ Len(Append(s, e)) = Len(s) + 1
         /\ \A i \in 1 .. Len(s) : Append(s, e)[i] = s[i]
         /\ Append(s, e)[Len(s) + 1] = e
<1>1. PICK S : s \in Seq(S)
  BY DEF IsSequence
<1>2. s \in Seq(S \cup {e})
  BY <1>1
<1>3. Append(s, e) \in Seq(S \cup {e})
  BY <1>2
<1> QED
  BY <1>2, <1>3 DEF IsSequence

LEMMA SequenceShortened ==
  ASSUME NEW s, IsSequence(s), s # <<>>
  PROVE  /\ IsSequence(Tail(s))
         /\ Len(Tail(s)) = Len(s) - 1
         /\ \A i \in 1 .. Len(s) - 1 : Tail(s)[i] = s[i + 1]
         /\ Head(s) = s[1]
  BY DEF IsSequence

LEMMA EmptySequence == IsSequence(<<>>) /\ Len(<<>>) = 0
  BY DEF IsSequence

(* s is the beginning of t.                                                  *)
Begins(s, t) == Len(s) <= Len(t) /\ \A i \in 1 .. Len(s) : s[i] = t[i]

LEMMA BeginsIsPrefix ==
  ASSUME NEW s, NEW t, IsSequence(s), IsSequence(t), Begins(s, t)
  PROVE  IsPrefix(s, t)
<1>1. PICK S : s \in Seq(S)
  BY DEF IsSequence
<1>2. PICK T : t \in Seq(T)
  BY DEF IsSequence
<1>3. SubSeq(s, 1, Len(s)) = s
  BY <1>1
<1>4. SubSeq(t, 1, Len(s)) = [i \in 1 .. Len(s) |-> t[i]]
  BY <1>1, <1>2 DEF Begins
<1>5. s = [i \in 1 .. Len(s) |-> s[i]]
  BY <1>1
<1> QED
  BY <1>3, <1>4, <1>5 DEF Begins, IsPrefix

LEMMA Removed ==
  ASSUME NEW S, NEW s \in Seq(S), NEW i \in DOMAIN s
  PROVE  RemoveAt(s, i) \in Seq(S)
<1>1. SubSeq(s, 1, i - 1) \in Seq(S) /\ SubSeq(s, i + 1, Len(s)) \in Seq(S)
  OBVIOUS
<1> QED
  BY <1>1 DEF RemoveAt

(* What holds before a loop of n turns, and after a turn if before it, holds  *)
(* all along: T is the set of turns after which it holds.                    *)
LEMMA TurnsKeep ==
  ASSUME NEW n \in Nat, NEW T, 0 \in T, \A k \in 1 .. n : k - 1 \in T => k \in T
  PROVE  \A k \in 0 .. n : k \in T
<1> DEFINE Bad == {k \in 0 .. n : k \notin T}
<1>1. CASE Bad = {}
  BY <1>1
<1>2. CASE Bad # {}
  <2>1. PICK k \in Bad : \A l \in Bad : k <= l
    <3>1. Bad \subseteq Nat
      OBVIOUS
    <3> HIDE DEF Bad
    <3> QED
      BY <3>1, <1>2, LeastNumber
  <2>2. k # 0 /\ k \in 1 .. n /\ k - 1 \in 0 .. n /\ k \notin T
    OBVIOUS
  <2>3. k - 1 \notin Bad
    <3> HIDE DEF Bad
    <3> QED
      BY <2>1, <2>2
  <2> QED
    BY <2>2, <2>3
<1> QED
  BY <1>1, <1>2

(* A loop of n iterations from base has a course.                            *)
Course(g, n, S, base, step) ==
  /\ g \in [0 .. n -> S]
  /\ g[0] = base
  /\ \A k \in 1 .. n : g[k] = step[k][g[k - 1]]

LEMMA CourseGrows ==
  ASSUME NEW n \in Nat, NEW m \in Nat, m + 1 <= n, NEW S, NEW base \in S,
         NEW step \in [1 .. n -> [S -> S]], NEW g, Course(g, m, S, base, step)
  PROVE  \E h : Course(h, m + 1, S, base, step)
<1> DEFINE h == [k \in 0 .. m + 1 |-> IF k = m + 1 THEN step[m + 1][g[m]] ELSE g[k]]
<1>1. g \in [0 .. m -> S] /\ g[m] \in S /\ m \in 0 .. m
  BY DEF Course
<1>2. step[m + 1][g[m]] \in S
  <2>1. step[m + 1] \in [S -> S]
    OBVIOUS
  <2> QED
    BY <1>1, <2>1
<1>3. h \in [0 .. m + 1 -> S]
  BY <1>1, <1>2
<1>4. h[0] = base
  BY DEF Course
<1>5. ASSUME NEW k \in 1 .. m + 1
      PROVE  h[k] = step[k][h[k - 1]]
  <2>1. CASE k = m + 1
    <3>1. h[k - 1] = g[m]
      BY <2>1
    <3>2. h[k] = step[m + 1][g[m]]
      BY <2>1
    <3> QED
      BY <2>1, <3>1, <3>2
  <2>2. CASE k # m + 1
    <3>1. k \in 1 .. m /\ k - 1 \in 0 .. m /\ k - 1 # m + 1
      BY <2>2
    <3>2. h[k] = g[k] /\ h[k - 1] = g[k - 1]
      BY <2>2, <3>1
    <3> HIDE DEF h
    <3> QED
      BY <3>1, <3>2 DEF Course
  <2> QED
    BY <2>1, <2>2
<1> HIDE DEF h
<1> QED
  BY <1>3, <1>4, <1>5 DEF Course

LEMMA CourseExists ==
  ASSUME NEW n \in Nat, NEW S, NEW base \in S, NEW step \in [1 .. n -> [S -> S]]
  PROVE  \E g : Course(g, n, S, base, step)
<1> DEFINE Bad == {m \in 0 .. n : ~\E g : Course(g, m, S, base, step)}
<1>1. CASE Bad = {}
  <2>1. n \in 0 .. n
    OBVIOUS
  <2> QED
    BY <1>1, <2>1
<1>2. CASE Bad # {}
  <2>1. PICK m \in Bad : \A l \in Bad : m <= l
    <3>1. Bad \subseteq Nat
      OBVIOUS
    <3> HIDE DEF Bad
    <3> QED
      BY <3>1, <1>2, LeastNumber
  <2>2. m \in 0 .. n /\ ~\E g : Course(g, m, S, base, step)
    OBVIOUS
  <2>3. m # 0
    <3> DEFINE f == [k \in 0 .. 0 |-> base]
    <3>1. Course(f, 0, S, base, step)
      BY DEF Course
    <3> HIDE DEF f
    <3> QED
      BY <2>2, <3>1
  <2>4. m - 1 \in Nat /\ m - 1 \in 0 .. n /\ (m - 1) + 1 <= n /\ (m - 1) + 1 = m
    BY <2>2, <2>3
  <2>5. m - 1 \notin Bad
    <3> HIDE DEF Bad
    <3> QED
      BY <2>1, <2>2, <2>4
  <2>6. \E g : Course(g, m - 1, S, base, step)
    BY <2>4, <2>5
  <2>7. \E h : Course(h, (m - 1) + 1, S, base, step)
    BY <2>4, <2>6, CourseGrows
  <2> QED
    BY <2>2, <2>4, <2>7
<1> QED
  BY <1>1, <1>2

-----------------------------------------------------------------------------
(* middleware_chain.c.  Behind every handler that has run and was not the    *)
(* last one stands a request that it let pass.                               *)

(* A MiddlewareContext, as far as its fields are concerned.                  *)
IsContext(c) ==
  /\ c = [request |-> c.request, aborted |-> c.aborted, error_code |-> c.error_code,
          status |-> c.status, store |-> c.store]

(* A handler that lets the request r pass.                                   *)
LetsPass(h, r) ==
  /\ h = "auth" => r.token
  /\ h = "cors" => ~(r.origin /\ r.options)

(* The first n handlers have been done, and all but perhaps the last let the *)
(* request pass.                                                             *)
HasRun(done, all, n, r) ==
  /\ n \in 0 .. Len(all)
  /\ Len(done) = n /\ \A i \in 1 .. n : done[i] = all[i]
  /\ \A i \in 1 .. n - 1 : LetsPass(all[i], r)

ChainInv ==
  /\ chain \in Seq(Handlers) /\ ran \in Seq(Handlers) /\ index \in Nat
  /\ ctx # None =>
       /\ IsContext(ctx)
       /\ index # 0 => /\ index <= Len(chain)
                       /\ ~ctx.aborted /\ HasRun(ran, chain, index - 1, ctx.request)
                       /\ index # 1 => LetsPass(chain[index - 1], ctx.request)
       /\ index = 0 => HasRun(ran, chain, Len(ran), ctx.request) /\ (~ctx.aborted => Len(ran) = Len(chain))

LEMMA SetKeeps ==
  ASSUME NEW c, IsContext(c), NEW k, NEW v
  PROVE  LET d == mw_context_set(c, k, v)
         IN  IsContext(d) /\ d.request = c.request /\ d.aborted = c.aborted
<1>1. CASE Len(c.store) >= MaxStore
  BY <1>1 DEF mw_context_set
<1>2. CASE ~(Len(c.store) >= MaxStore)
  <2> DEFINE s == Append(c.store, <<k, v>>)
  <2>1. mw_context_set(c, k, v) = [c EXCEPT !.store = s]
    BY <1>2 DEF mw_context_set
  <2> HIDE DEF s
  <2>2. mw_context_set(c, k, v) =
          [request |-> c.request, aborted |-> c.aborted, error_code |-> c.error_code,
           status |-> c.status, store |-> s]
    BY <2>1 DEF IsContext
  <2> QED
    BY <2>2 DEF IsContext
<1> QED
  BY <1>1, <1>2

(* One field of a context changes.                                           *)
LEMMA FieldSet ==
  ASSUME NEW c, IsContext(c), NEW e
  PROVE  /\ IsContext([c EXCEPT !.aborted = e])
         /\ [c EXCEPT !.aborted = e].request = c.request
         /\ [c EXCEPT !.aborted = e].aborted = e
         /\ IsContext([c EXCEPT !.error_code = e])
         /\ [c EXCEPT !.error_code = e].request = c.request
         /\ [c EXCEPT !.error_code = e].aborted = c.aborted
         /\ IsContext([c EXCEPT !.status = e])
         /\ [c EXCEPT !.status = e].request = c.request
         /\ [c EXCEPT !.status = e].aborted = c.aborted
<1>1. [c EXCEPT !.aborted = e] =
        [request |-> c.request, aborted |-> e, error_code |-> c.error_code,
         status |-> c.status, store |-> c.store]
  BY DEF IsContext
<1>2. [c EXCEPT !.error_code = e] =
        [request |-> c.request, aborted |-> c.aborted, error_code |-> e,
         status |-> c.status, store |-> c.store]
  BY DEF IsContext
<1>3. [c EXCEPT !.status = e] =
        [request |-> c.request, aborted |-> c.aborted, error_code |-> c.error_code,
         status |-> e, store |-> c.store]
  BY DEF IsContext
<1>4. /\ IsContext([c EXCEPT !.aborted = e])
      /\ [c EXCEPT !.aborted = e].request = c.request
      /\ [c EXCEPT !.aborted = e].aborted = e
  BY <1>1 DEF IsContext
<1>5. /\ IsContext([c EXCEPT !.error_code = e])
      /\ [c EXCEPT !.error_code = e].request = c.request
      /\ [c EXCEPT !.error_code = e].aborted = c.aborted
  BY <1>2 DEF IsContext
<1>6. /\ IsContext([c EXCEPT !.status = e])
      /\ [c EXCEPT !.status = e].request = c.request
      /\ [c EXCEPT !.status = e].aborted = c.aborted
  BY <1>3 DEF IsContext
<1> QED
  BY <1>4, <1>5, <1>6

(* A context that was aborted with an error or an answer.                    *)
LEMMA AbortKeeps ==
  ASSUME NEW c, IsContext(c), NEW e
  PROVE  /\ LET d == [c EXCEPT !.aborted = TRUE, !.error_code = e]
            IN  IsContext(d) /\ d.request = c.request /\ d.aborted = TRUE
         /\ LET d == [c EXCEPT !.aborted = TRUE, !.status = e]
            IN  IsContext(d) /\ d.request = c.request /\ d.aborted = TRUE
<1> DEFINE a == [c EXCEPT !.aborted = TRUE]
<1>1. IsContext(a) /\ a.request = c.request /\ a.aborted = TRUE
  BY FieldSet
<1>2. /\ [c EXCEPT !.aborted = TRUE, !.error_code = e] = [a EXCEPT !.error_code = e]
      /\ [c EXCEPT !.aborted = TRUE, !.status = e] = [a EXCEPT !.status = e]
  OBVIOUS
<1> HIDE DEF a
<1>3. /\ IsContext([a EXCEPT !.error_code = e])
      /\ [a EXCEPT !.error_code = e].request = a.request
      /\ [a EXCEPT !.error_code = e].aborted = a.aborted
      /\ IsContext([a EXCEPT !.status = e])
      /\ [a EXCEPT !.status = e].request = a.request
      /\ [a EXCEPT !.status = e].aborted = a.aborted
  BY <1>1, FieldSet
<1> QED
  BY <1>1, <1>2, <1>3

(* What a handler leaves is a context of the same request, and aborted       *)
(* unless the handler lets it pass.                                          *)
Leaves(h, c, r) ==
  /\ IsContext(r.ctx) /\ r.ctx.request = c.request
  /\ r.ret < 0 \/ r.ctx.aborted \/ LetsPass(h, c.request)

LEMMA HandlerLeaves ==
  ASSUME NEW h \in Handlers, NEW c, IsContext(c)
  PROVE  Leaves(h, c, Handled(h, c))
<1>1. CASE h = "auth"
  <2>1. Handled(h, c) = mw_builtin_auth(c)
    BY <1>1 DEF Handled
  <2>2. CASE c.request.token
    <3> DEFINE d == mw_context_set(c, "auth.validated", "true")
    <3>1. mw_builtin_auth(c) = [ctx |-> d, ret |-> 0]
      BY <2>2 DEF mw_builtin_auth
    <3>2. IsContext(d) /\ d.request = c.request
      BY SetKeeps
    <3> HIDE DEF d
    <3> QED
      BY <1>1, <2>1, <2>2, <3>1, <3>2 DEF Leaves, LetsPass
  <2>3. CASE ~c.request.token
    <3> DEFINE d == [c EXCEPT !.aborted = TRUE, !.error_code = 401]
    <3>1. mw_builtin_auth(c) = [ctx |-> d, ret |-> -1]
      BY <2>3 DEF mw_builtin_auth
    <3>2. IsContext(d) /\ d.request = c.request
      BY AbortKeeps
    <3> HIDE DEF d
    <3> QED
      BY <2>1, <3>1, <3>2 DEF Leaves
  <2> QED
    BY <2>2, <2>3
<1>2. CASE h = "logger"
  <2> DEFINE d == mw_context_set(c, "log.timestamp", "<current>")
  <2>1. Handled(h, c) = [ctx |-> d, ret |-> 0]
    BY <1>2 DEF Handled, mw_builtin_logger
  <2>2. IsContext(d) /\ d.request = c.request
    BY SetKeeps
  <2> HIDE DEF d
  <2> QED
    BY <1>2, <2>1, <2>2 DEF Leaves, LetsPass
<1>3. CASE h = "cors"
  <2>1. Handled(h, c) = mw_builtin_cors(c)
    BY <1>3 DEF Handled
  <2>2. CASE c.request.origin /\ c.request.options
    <3> DEFINE d == [c EXCEPT !.aborted = TRUE, !.status = 204]
    <3>1. mw_builtin_cors(c) = [ctx |-> d, ret |-> 0]
      BY <2>2 DEF mw_builtin_cors
    <3>2. IsContext(d) /\ d.request = c.request /\ d.aborted = TRUE
      BY AbortKeeps
    <3> HIDE DEF d
    <3> QED
      BY <2>1, <3>1, <3>2 DEF Leaves
  <2>3. CASE ~(c.request.origin /\ c.request.options)
    <3>1. mw_builtin_cors(c) = [ctx |-> c, ret |-> 0]
      BY <2>3 DEF mw_builtin_cors
    <3> QED
      BY <1>3, <2>1, <2>3, <3>1 DEF Leaves, LetsPass
  <2> QED
    BY <2>2, <2>3
<1>4. CASE h = "compressor"
  <2> DEFINE d == IF c.request.gzip THEN mw_context_set(c, "compress.algorithm", "gzip") ELSE c
  <2>1. Handled(h, c) = [ctx |-> d, ret |-> 0]
    BY <1>4 DEF Handled, mw_builtin_compressor
  <2>2. IsContext(d) /\ d.request = c.request
    BY SetKeeps
  <2> HIDE DEF d
  <2> QED
    BY <1>4, <2>1, <2>2 DEF Leaves, LetsPass
<1>5. CASE h = "timeout"
  <2> DEFINE d == IF mw_context_get(c, "timeout.ms") = ""
                  THEN mw_context_set(c, "timeout.ms", "30000") ELSE c
  <2>1. Handled(h, c) = [ctx |-> d, ret |-> 0]
    BY <1>5 DEF Handled, mw_builtin_timeout
  <2>2. IsContext(d) /\ d.request = c.request
    BY SetKeeps
  <2> HIDE DEF d
  <2> QED
    BY <1>5, <2>1, <2>2 DEF Leaves, LetsPass
<1> QED
  BY <1>1, <1>2, <1>3, <1>4, <1>5, ChainAssumption

LEMMA ChainStarts == ChainInit => ChainInv
  BY DEF ChainInit, ChainInv

LEMMA ConfigureKeeps ==
  ASSUME ChainInv, NEW h \in Handlers, mw_chain_use(h) \/ mw_chain_remove(h)
  PROVE  ChainInv'
<1>0. ctx = None /\ UNCHANGED <<ctx, index, ran>>
  BY DEF mw_chain_use, mw_chain_remove
<1>1. chain' \in Seq(Handlers)
  <2>1. CASE mw_chain_use(h)
    BY <2>1 DEF mw_chain_use, ChainInv
  <2>2. CASE mw_chain_remove(h)
    <3>1. PICK i \in DOMAIN chain : chain' = RemoveAt(chain, i)
      BY <2>2 DEF mw_chain_remove
    <3> QED
      BY <3>1, Removed DEF ChainInv
  <2> QED
    BY <2>1, <2>2
<1> QED
  BY <1>0, <1>1 DEF ChainInv

LEMMA RunKeeps ==
  ASSUME ChainInv, NEW req, mw_chain_run(req)
  PROVE  ChainInv'
<1>1. ctx' = [request |-> req, aborted |-> FALSE, error_code |-> 0, status |-> 0, store |-> <<>>]
  BY DEF mw_chain_run
<1>2. IsContext(ctx') /\ ~ctx'.aborted
  BY <1>1 DEF IsContext
<1>3. chain' = chain /\ chain # <<>> /\ index' = 1 /\ ran' = <<>> /\ chain \in Seq(Handlers)
  BY DEF mw_chain_run, ChainInv
<1>4. Len(chain) \in Nat /\ Len(chain) # 0
  BY <1>3
<1>5. HasRun(ran', chain', 0, ctx'.request)
  BY <1>3, <1>4 DEF HasRun
<1> QED
  BY <1>2, <1>3, <1>4, <1>5 DEF ChainInv

(* The context that a step of the chain leaves.                              *)
LEMMA StepContext ==
  ASSUME ChainInv, mw_chain_run_internal
  PROVE  /\ index \in 1 .. Len(chain) /\ chain[index] \in Handlers
         /\ IsContext(ctx') /\ ctx'.request = ctx.request
         /\ ctx'.aborted \/ LetsPass(chain[index], ctx.request)
<1> DEFINE h == chain[index]
           r == Handled(h, ctx)
<1>1. /\ ctx # None /\ index \in 1 .. Len(chain) /\ h \in Handlers /\ IsContext(ctx)
      /\ ctx' = IF r.ret < 0 THEN [r.ctx EXCEPT !.aborted = TRUE, !.error_code = r.ret] ELSE r.ctx
  BY DEF ChainInv, mw_chain_run_internal
<1>2. Leaves(h, ctx, r)
  <2> HIDE DEF h
  <2> QED
    BY <1>1, HandlerLeaves
<1> HIDE DEF h, r
<1>3. CASE r.ret < 0
  <2>1. ctx' = [r.ctx EXCEPT !.aborted = TRUE, !.error_code = r.ret]
    BY <1>1, <1>3
  <2>2. IsContext(r.ctx) /\ r.ctx.request = ctx.request
    BY <1>2 DEF Leaves
  <2>3. IsContext(ctx') /\ ctx'.request = r.ctx.request /\ ctx'.aborted = TRUE
    BY <2>1, <2>2, AbortKeeps
  <2> QED
    BY <1>1, <2>2, <2>3 DEF h
<1>4. CASE ~(r.ret < 0)
  BY <1>1, <1>2, <1>4 DEF Leaves, h
<1> QED
  BY <1>3, <1>4

LEMMA InternalKeeps ==
  ASSUME ChainInv, mw_chain_run_internal
  PROVE  ChainInv'
<1>1. /\ index \in 1 .. Len(chain) /\ chain[index] \in Handlers
      /\ IsContext(ctx') /\ ctx'.request = ctx.request
      /\ ctx'.aborted \/ LetsPass(chain[index], ctx.request)
  BY StepContext
<1>2. /\ chain' = chain /\ ran' = Append(ran, chain[index])
      /\ index' = IF ctx'.aborted \/ index = Len(chain) THEN 0 ELSE index + 1
      /\ ctx # None
  BY DEF mw_chain_run_internal
<1>3. /\ chain \in Seq(Handlers) /\ ran \in Seq(Handlers)
      /\ HasRun(ran, chain, index - 1, ctx.request)
      /\ index # 1 => LetsPass(chain[index - 1], ctx.request)
  BY <1>1, <1>2 DEF ChainInv
<1>4. ran' \in Seq(Handlers) /\ Len(ran') = index /\ \A i \in 1 .. index : ran'[i] = chain[i]
  BY <1>1, <1>2, <1>3 DEF HasRun
<1>5. \A i \in 1 .. index - 1 : LetsPass(chain[i], ctx.request)
  <2> SUFFICES ASSUME NEW i \in 1 .. index - 1 PROVE LetsPass(chain[i], ctx.request)
    OBVIOUS
  <2>1. CASE i = index - 1
    BY <1>1, <1>3, <2>1
  <2>2. CASE i # index - 1
    <3>1. i \in 1 .. (index - 1) - 1
      BY <1>1, <2>2
    <3> QED
      BY <1>3, <3>1 DEF HasRun
  <2> QED
    BY <2>1, <2>2
<1>6. HasRun(ran', chain', index, ctx'.request)
  BY <1>1, <1>2, <1>4, <1>5 DEF HasRun
<1>7. CASE ctx'.aborted \/ index = Len(chain)
  BY <1>1, <1>2, <1>3, <1>4, <1>6, <1>7 DEF ChainInv
<1>8. CASE ~(ctx'.aborted \/ index = Len(chain))
  <2>1. index' = index + 1 /\ index' # 1 /\ index' # 0 /\ index' - 1 = index /\ index' <= Len(chain')
    <3>1. index # Len(chain) /\ index' = index + 1 /\ chain' = chain
      BY <1>2, <1>8
    <3>2. Len(chain) \in Nat /\ index \in 1 .. Len(chain)
      BY <1>1, <1>3
    <3> QED
      BY <3>1, <3>2
  <2>2. LetsPass(chain'[index' - 1], ctx'.request)
    BY <1>1, <1>2, <1>8, <2>1
  <2> QED
    BY <1>1, <1>2, <1>3, <1>4, <1>6, <1>8, <2>1, <2>2 DEF ChainInv
<1> QED
  BY <1>7, <1>8

LEMMA ChainStep == ChainInv /\ [ChainNext]_chainVars => ChainInv'
<1> SUFFICES ASSUME ChainInv, [ChainNext]_chainVars PROVE ChainInv'
  OBVIOUS
<1>1. CASE UNCHANGED chainVars
  BY <1>1 DEF ChainInv, chainVars
<1>2. CASE mw_context_free
  BY <1>2 DEF ChainInv, mw_context_free
<1> QED
  BY <1>1, <1>2, ConfigureKeeps, RunKeeps, InternalKeeps DEF ChainNext

LEMMA ChainInvPasses == ChainInv => ChainPasses
<1> SUFFICES ASSUME ChainInv, ctx # None, index = 0
             PROVE  /\ IsPrefix(ran, chain)
                    /\ ~ctx.aborted => ran = chain
                    /\ "auth" \in {ran[i] : i \in 1 .. Len(ran) - 1} => ctx.request.token
                    /\ "cors" \in {ran[i] : i \in 1 .. Len(ran) - 1} =>
                         ~(ctx.request.origin /\ ctx.request.options)
  BY DEF ChainPasses
<1>1. /\ chain \in Seq(Handlers) /\ ran \in Seq(Handlers)
      /\ HasRun(ran, chain, Len(ran), ctx.request)
      /\ ~ctx.aborted => Len(ran) = Len(chain)
  BY DEF ChainInv
<1>2. Len(ran) <= Len(chain) /\ \A i \in 1 .. Len(ran) : ran[i] = chain[i]
  BY <1>1 DEF HasRun
<1>3. SubSeq(ran, 1, Len(ran)) = SubSeq(chain, 1, Len(ran))
  BY <1>1, <1>2
<1>4. ~ctx.aborted => ran = chain
  BY <1>1, <1>2
<1>5. ASSUME NEW i \in 1 .. Len(ran) - 1
      PROVE  LetsPass(ran[i], ctx.request)
  <2>1. i \in 1 .. Len(ran)
    BY <1>1
  <2> QED
    BY <1>1, <1>2, <2>1 DEF HasRun
<1> QED
  BY <1>2, <1>3, <1>4, <1>5 DEF IsPrefix, LetsPass

LEMMA ChainSafe == ChainSpec => []ChainPasses
<1>1. ChainSpec => []ChainInv
  BY ChainStarts, ChainStep, PTL DEF ChainSpec
<1> QED
  BY <1>1, ChainInvPasses, PTL

-----------------------------------------------------------------------------
(* api_gateway.c.  What the loop over the routes has found.                  *)

Scan == [found : Nat, best : Nat, len : Nat]

NothingFound == [found |-> 0, best |-> 0, len |-> 0]

(* Routes whose paths are paths.                                             *)
AreRoutes(rs) ==
  /\ IsSequence(rs)
  /\ \A i \in 1 .. Len(rs) : rs[i].path \in RoutePaths

FitsPath(r, path) == Exact(r, path) \/ Wildcard(r, path)

(* After k routes: the one that is returned, or the longest of those that    *)
(* fit by path; if there is none, no route so far fits at all.               *)
ScanSound(rs, path, method, k, x) ==
  /\ x \in Scan
  /\ x.found # 0 =>
       /\ x.found \in 1 .. k /\ method_match(rs[x.found], method)
       /\ FitsPath(rs[x.found], path) \/ Prefix(rs[x.found], path)
  /\ x.found = 0 => \A j \in 1 .. k : ~(FitsPath(rs[j], path) /\ method_match(rs[j], method))
  /\ x.found = 0 /\ x.best = 0 =>
       /\ x.len = 0
       /\ \A j \in 1 .. k : ~FitsPath(rs[j], path) /\ ~Prefix(rs[j], path)
  /\ x.best # 0 =>
       /\ x.best \in 1 .. k
       /\ FitsPath(rs[x.best], path) \/ Prefix(rs[x.best], path)

LEMMA ScanFields ==
  ASSUME NEW x \in Scan, NEW i \in Nat, NEW n \in Nat
  PROVE  /\ x.found \in Nat /\ x.best \in Nat /\ x.len \in Nat
         /\ [x EXCEPT !.found = i] \in Scan /\ [x EXCEPT !.found = i].found = i
         /\ [x EXCEPT !.found = i].best = x.best /\ [x EXCEPT !.found = i].len = x.len
         /\ [x EXCEPT !.best = i, !.len = n] \in Scan /\ [x EXCEPT !.best = i, !.len = n].best = i
         /\ [x EXCEPT !.best = i, !.len = n].found = x.found /\ [x EXCEPT !.best = i, !.len = n].len = n
  BY DEF Scan

LEMMA PathLength ==
  ASSUME NEW rs, AreRoutes(rs), NEW i \in 1 .. Len(rs)
  PROVE  Len(rs[i].path) \in Nat /\ Len(rs[i].path) > 0
<1>1. rs[i].path \in Seq(STRING) \ {<<>>}
  BY RoutesAssumption DEF AreRoutes
<1> QED
  BY <1>1

LEMMA ScannedTyped ==
  ASSUME NEW rs, AreRoutes(rs), NEW path, NEW method, NEW i \in 1 .. Len(rs), NEW x \in Scan
  PROVE  Scanned(rs, i, path, method, x) \in Scan
<1>1. i \in Nat /\ Len(rs[i].path) \in Nat
  BY PathLength
<1>2. [x EXCEPT !.found = i] \in Scan /\ [x EXCEPT !.best = i, !.len = Len(rs[i].path)] \in Scan
  BY <1>1, ScanFields
<1> QED
  BY <1>2 DEF Scanned

LEMMA ScannedSound ==
  ASSUME NEW rs, AreRoutes(rs), NEW path, NEW method, NEW i \in 1 .. Len(rs), NEW x,
         ScanSound(rs, path, method, i - 1, x)
  PROVE  ScanSound(rs, path, method, i, Scanned(rs, i, path, method, x))
<1> DEFINE r == rs[i]
           n == Len(r.path)
           longer == n > x.len
           hit == FitsPath(r, path) \/ (Prefix(r, path) /\ longer)
           y == Scanned(rs, i, path, method, x)
<1>0. Len(rs) \in Nat /\ i \in Nat /\ i # 0 /\ \A j \in 1 .. i : j = i \/ j \in 1 .. i - 1
  BY DEF AreRoutes
<1>1. n \in Nat /\ n > 0
  BY PathLength
<1>2. x \in Scan /\ x.found \in Nat /\ x.best \in Nat /\ x.len \in Nat
  BY ScanFields DEF ScanSound
<1>3. y = IF x.found # 0 \/ ~hit THEN x
          ELSE IF method_match(r, method) THEN [x EXCEPT !.found = i]
          ELSE IF longer THEN [x EXCEPT !.best = i, !.len = n]
          ELSE x
  BY DEF Scanned, FitsPath
<1> HIDE DEF y, r, n
<1>4. CASE x.found # 0
  BY <1>0, <1>2, <1>3, <1>4 DEF ScanSound, y
<1>5. CASE x.found = 0 /\ ~hit
  BY <1>0, <1>1, <1>2, <1>3, <1>5 DEF ScanSound, y, r
<1>6. CASE x.found = 0 /\ hit /\ method_match(r, method)
  <2>1. y = [x EXCEPT !.found = i]
    BY <1>3, <1>6
  <2>2. y \in Scan /\ y.found = i /\ y.best = x.best /\ y.len = x.len
    BY <1>0, <1>1, <1>2, <2>1, ScanFields
  <2> QED
    BY <1>0, <1>2, <1>6, <2>2 DEF ScanSound, y, r
<1>7. CASE x.found = 0 /\ hit /\ ~method_match(r, method) /\ longer
  <2>1. y = [x EXCEPT !.best = i, !.len = n]
    BY <1>3, <1>7
  <2>2. y \in Scan /\ y.found = 0 /\ y.best = i /\ y.len = n
    <3>1. y \in Scan /\ y.found = x.found /\ y.best = i /\ y.len = n
      <4> DEFINE z == [x EXCEPT !.best = i, !.len = n]
      <4>1. z \in Scan /\ z.found = x.found /\ z.best = i /\ z.len = n
        BY <1>0, <1>1, <1>2 DEF Scan
      <4> HIDE DEF z
      <4> QED
        BY <2>1, <4>1 DEF z
    <3> QED
      BY <1>7, <3>1
  <2> QED
    BY <1>0, <1>2, <1>7, <2>2 DEF ScanSound, y, r
<1>8. CASE x.found = 0 /\ hit /\ ~method_match(r, method) /\ ~longer
  <2>1. y = x
    BY <1>3, <1>8
  <2>2. x.best # 0
    BY <1>1, <1>2, <1>8 DEF ScanSound
  <2> QED
    BY <1>0, <1>2, <1>8, <2>1, <2>2 DEF ScanSound, y, r
<1> QED
  BY <1>4, <1>5, <1>6, <1>7, <1>8 DEF y

(* The route that is matched.                                                *)
Matched(rs, path, method, i) ==
  /\ i = 0 <=> \A k \in 1 .. Len(rs) : ~FitsPath(rs[k], path) /\ ~Prefix(rs[k], path)
  /\ i # 0 => /\ i \in 1 .. Len(rs)
              /\ FitsPath(rs[i], path) \/ Prefix(rs[i], path)
              /\ ~method_match(rs[i], method) =>
                   ~\E k \in 1 .. Len(rs) : FitsPath(rs[k], path) /\ method_match(rs[k], method)

LEMMA ScanMatches ==
  ASSUME NEW rs, Len(rs) \in Nat, NEW path, NEW method, NEW x,
         ScanSound(rs, path, method, Len(rs), x)
  PROVE  Matched(rs, path, method, IF x.found # 0 THEN x.found ELSE x.best)
<1>1. x.found \in Nat /\ x.best \in Nat
  BY DEF ScanSound, Scan
<1>2. CASE x.found # 0
  BY <1>1, <1>2 DEF ScanSound, Matched
<1>3. CASE x.found = 0 /\ x.best # 0
  BY <1>1, <1>3 DEF ScanSound, Matched
<1>4. CASE x.found = 0 /\ x.best = 0
  BY <1>1, <1>4 DEF ScanSound, Matched
<1> QED
  BY <1>2, <1>3, <1>4

LEMMA RouteMatched ==
  ASSUME NEW rs, AreRoutes(rs), NEW path, NEW method
  PROVE  Matched(rs, path, method, gateway_match_route(rs, path, method))
<1> DEFINE n == Len(rs)
           F(g) == [i \in 0 .. n |->
                      IF i = 0 THEN NothingFound ELSE Scanned(rs, i, path, method, g[i - 1])]
           h == CHOOSE g : g = F(g)
           step == [i \in 1 .. n |-> [x \in Scan |-> Scanned(rs, i, path, method, x)]]
<1>1. n \in Nat
  BY DEF AreRoutes
<1>2. step \in [1 .. n -> [Scan -> Scan]]
  BY ScannedTyped
<1>3. NothingFound \in Scan
  BY DEF NothingFound, Scan
<1>4. PICK c : Course(c, n, Scan, NothingFound, step)
  <2> HIDE DEF step, n
  <2> QED
    BY <1>1, <1>2, <1>3, CourseExists
<1>5. c \in [0 .. n -> Scan] /\ c[0] = NothingFound /\ \A i \in 1 .. n : c[i] = step[i][c[i - 1]]
  BY <1>4 DEF Course
<1>6. c = F(c)
  <2>1. ASSUME NEW i \in 1 .. n
        PROVE  c[i] = Scanned(rs, i, path, method, c[i - 1])
    <3>1. i - 1 \in 0 .. n
      BY <1>1
    <3>2. step[i] = [x \in Scan |-> Scanned(rs, i, path, method, x)]
      OBVIOUS
    <3> HIDE DEF step, n
    <3>3. c[i - 1] \in Scan /\ c[i] = step[i][c[i - 1]]
      BY <1>5, <3>1
    <3> QED
      BY <3>2, <3>3
  <2>2. ASSUME NEW i \in 0 .. n
        PROVE  c[i] = IF i = 0 THEN NothingFound ELSE Scanned(rs, i, path, method, c[i - 1])
    <3>1. CASE i = 0
      BY <1>5, <3>1
    <3>2. CASE i # 0
      <4>1. i \in 1 .. n
        BY <1>1, <3>2
      <4> QED
        BY <2>1, <3>2, <4>1
    <3> QED
      BY <3>1, <3>2
  <2> QED
    BY <1>5, <2>2, Zenon
<1>7. h = F(h)
  <2> HIDE DEF F
  <2> QED
    BY <1>6
<1> HIDE DEF h
<1>8. h[0] = NothingFound /\ \A i \in 1 .. n : h[i] = Scanned(rs, i, path, method, h[i - 1])
  <2>1. \A i \in 0 .. n : h[i] = F(h)[i]
    BY <1>7
  <2>2. \A i \in 0 .. n :
          F(h)[i] = IF i = 0 THEN NothingFound ELSE Scanned(rs, i, path, method, h[i - 1])
    OBVIOUS
  <2> HIDE DEF F
  <2>3. 0 \in 0 .. n /\ \A i \in 1 .. n : i \in 0 .. n /\ i # 0
    BY <1>1
  <2> QED
    BY <2>1, <2>2, <2>3
<1>9. ScanSound(rs, path, method, n, h[n])
  <2> DEFINE T == {i \in 0 .. n : ScanSound(rs, path, method, i, h[i])}
  <2>1. ScanSound(rs, path, method, 0, h[0])
    BY <1>8 DEF ScanSound, NothingFound, Scan
  <2>2. 0 \in T
    BY <1>1, <2>1
  <2>3. ASSUME NEW i \in 1 .. n, i - 1 \in T
        PROVE  i \in T
    <3>1. ScanSound(rs, path, method, i - 1, h[i - 1])
      BY <2>3
    <3>2. ScanSound(rs, path, method, i, h[i])
      BY <1>8, <3>1, ScannedSound
    <3>3. i \in 0 .. n
      BY <1>1
    <3> QED
      BY <3>2, <3>3
  <2>4. \A i \in 0 .. n : i \in T
    <3> HIDE DEF T, n
    <3> QED
      BY <1>1, <2>2, <2>3, TurnsKeep
  <2>5. n \in 0 .. n
    BY <1>1
  <2> QED
    BY <2>4, <2>5
<1>10. gateway_match_route(rs, path, method) = IF h[n].found # 0 THEN h[n].found ELSE h[n].best
  BY DEF gateway_match_route, h, NothingFound
<1> QED
  BY <1>1, <1>9, <1>10, ScanMatches

RoutesInv == AreRoutes(routes)

(* A route with other fields in the place of one of the same path.           *)
LEMMA RouteReplaced ==
  ASSUME NEW rs, AreRoutes(rs), NEW ns, NEW i \in DOMAIN rs, NEW r, r.path = rs[i].path,
         ns = [rs EXCEPT ![i] = r]
  PROVE  AreRoutes(ns)
<1>1. PICK S : rs \in Seq(S)
  BY DEF AreRoutes, IsSequence
<1>2. rs \in Seq(S \cup {r})
  BY <1>1
<1>3. ns \in Seq(S \cup {r}) /\ Len(ns) = Len(rs)
  BY <1>2
<1>4. \A k \in 1 .. Len(rs) : ns[k].path = rs[k].path
  BY <1>1
<1> QED
  BY <1>3, <1>4 DEF AreRoutes, IsSequence

LEMMA RouteAdded ==
  ASSUME NEW rs, AreRoutes(rs), NEW r, r.path \in RoutePaths
  PROVE  AreRoutes(Append(rs, r))
<1>1. PICK S : rs \in Seq(S)
  BY DEF AreRoutes, IsSequence
<1>2. rs \in Seq(S \cup {r})
  BY <1>1
<1>3. Append(rs, r) \in Seq(S \cup {r}) /\ Len(Append(rs, r)) = Len(rs) + 1
  BY <1>2
<1>4. \A k \in 1 .. Len(rs) + 1 : Append(rs, r)[k].path \in RoutePaths
  BY <1>1 DEF AreRoutes
<1> QED
  BY <1>3, <1>4 DEF AreRoutes, IsSequence

LEMMA GatewayStarts == GatewayInit => RoutesInv
  BY DEF GatewayInit, RoutesInv, AreRoutes, IsSequence

LEMMA RegisterKeeps ==
  ASSUME RoutesInv, NEW p \in RoutePaths, NEW m, NEW a, NEW l, gateway_register_route(p, m, a, l)
  PROVE  RoutesInv'
<1>1. PICK r : routes' = Append(routes, r) /\ r.path = p
  BY DEF gateway_register_route
<1> QED
  BY <1>1, RouteAdded DEF RoutesInv

(* Whatever else changes in a route.                                         *)
LEMMA PluginKeeps ==
  ASSUME RoutesInv, NEW i \in DOMAIN routes, NEW p, gateway_add_route_plugin(i, p)
  PROVE  RoutesInv'
<1> DEFINE ps == Append(routes[i].plugins, p)
           r == [routes[i] EXCEPT !.plugins = ps]
<1>1. routes' = [routes EXCEPT ![i] = r]
  BY DEF gateway_add_route_plugin
<1>2. r.path = routes[i].path
  OBVIOUS
<1> HIDE DEF r
<1> QED
  BY <1>1, <1>2, RouteReplaced DEF RoutesInv

LEMMA RequestKeeps ==
  ASSUME RoutesInv, NEW req, gateway_handle_request(req)
  PROVE  RoutesInv'
<1> DEFINE i == gateway_match_route(routes, req.path, req.method)
<1>1. CASE i = 0
  BY <1>1 DEF gateway_handle_request, RoutesInv
<1>2. CASE i # 0
  <2>1. i \in DOMAIN routes
    <3>1. Matched(routes, req.path, req.method, i)
      BY RouteMatched DEF RoutesInv
    <3>2. DOMAIN routes = 1 .. Len(routes)
      BY DEF RoutesInv, AreRoutes
    <3> HIDE DEF i
    <3> QED
      BY <1>2, <3>1, <3>2 DEF Matched
  <2>2. PICK l : routes' = [routes EXCEPT ![i].rate_limiter = l]
    BY <1>2 DEF gateway_handle_request
  <2> HIDE DEF i
  <2> DEFINE r == [routes[i] EXCEPT !.rate_limiter = l]
  <2>3. routes' = [routes EXCEPT ![i] = r]
    BY <2>2
  <2>4. r.path = routes[i].path
    OBVIOUS
  <2> HIDE DEF r
  <2> QED
    BY <2>1, <2>3, <2>4, RouteReplaced DEF RoutesInv
<1> QED
  BY <1>1, <1>2

LEMMA GatewayStep == RoutesInv /\ [GatewayNext]_gatewayVars => RoutesInv'
<1> SUFFICES ASSUME RoutesInv, [GatewayNext]_gatewayVars PROVE RoutesInv'
  OBVIOUS
<1>1. CASE UNCHANGED routes
  BY <1>1 DEF RoutesInv
<1>2. CASE Configure
  BY <1>1, <1>2, RegisterKeeps, PluginKeeps DEF Configure, gateway_add_plugin
<1> QED
  BY <1>1, <1>2, RequestKeeps DEF GatewayNext, GatewayTick, gatewayVars

LEMMA RoutesInvSound == RoutesInv => RouteSound
<1> SUFFICES ASSUME RoutesInv, NEW req \in Requests
             PROVE  LET i == gateway_match_route(routes, req.path, req.method)
                    IN  Matched(routes, req.path, req.method, i)
  <2>1. DOMAIN routes = 1 .. Len(routes)
    BY DEF RoutesInv, AreRoutes
  <2> QED
    BY <2>1 DEF RouteSound, Matched, FitsPath
<1> QED
  BY RouteMatched DEF RoutesInv

LEMMA RoutesSafe == GatewaySpec => []RouteSound
<1>1. GatewaySpec => []RoutesInv
  BY GatewayStarts, GatewayStep, PTL DEF GatewaySpec
<1> QED
  BY <1>1, RoutesInvSound, PTL

-----------------------------------------------------------------------------
(* reverse_proxy.c.  What a side has not been given yet is what the proxy    *)
(* has not read yet, as long as there is a descriptor to write it to.        *)

(* s is what is left of t behind its first n elements.                       *)
Rest(s, t, n) ==
  /\ Len(t) = n + Len(s)
  /\ \A i \in 1 .. Len(s) : s[i] = t[n + i]

LEMMA RestShortened ==
  ASSUME NEW s, NEW t, NEW n \in Nat, IsSequence(s), IsSequence(t), s # <<>>, Rest(s, t, n)
  PROVE  Rest(Tail(s), t, n + 1) /\ t[n + 1] = Head(s) /\ n + 1 <= Len(t)
<1>1. Len(s) \in Nat /\ Len(s) # 0 /\ Len(t) \in Nat
  BY SequenceShape
<1>2. /\ Len(Tail(s)) = Len(s) - 1
      /\ \A i \in 1 .. Len(s) - 1 : Tail(s)[i] = s[i + 1]
      /\ Head(s) = s[1]
  BY SequenceShortened
<1>3. ASSUME NEW i \in 1 .. Len(s) - 1
      PROVE  Tail(s)[i] = t[(n + 1) + i]
  <2>1. i + 1 \in 1 .. Len(s) /\ n + (i + 1) = (n + 1) + i
    BY <1>1
  <2>2. s[i + 1] = t[n + (i + 1)]
    BY <2>1 DEF Rest
  <2> QED
    BY <1>2, <2>1, <2>2
<1>4. 1 \in 1 .. Len(s)
  BY <1>1
<1> QED
  BY <1>1, <1>2, <1>3, <1>4 DEF Rest

LEMMA RestAppended ==
  ASSUME NEW s, NEW t, NEW n \in Nat, NEW e, IsSequence(s), IsSequence(t), Rest(s, t, n)
  PROVE  Rest(Append(s, e), Append(t, e), n)
<1>1. Len(s) \in Nat /\ Len(t) \in Nat /\ Len(t) = n + Len(s)
  BY SequenceShape DEF Rest
<1>2. /\ Len(Append(s, e)) = Len(s) + 1
      /\ \A i \in 1 .. Len(s) : Append(s, e)[i] = s[i]
      /\ Append(s, e)[Len(s) + 1] = e
  BY SequenceAppended
<1>3. /\ Len(Append(t, e)) = Len(t) + 1
      /\ \A i \in 1 .. Len(t) : Append(t, e)[i] = t[i]
      /\ Append(t, e)[Len(t) + 1] = e
  BY SequenceAppended
<1>4. ASSUME NEW i \in 1 .. Len(s) + 1
      PROVE  Append(s, e)[i] = Append(t, e)[n + i]
  <2>1. CASE i = Len(s) + 1
    BY <1>1, <1>2, <1>3, <2>1
  <2>2. CASE i # Len(s) + 1
    <3>1. i \in 1 .. Len(s) /\ n + i \in 1 .. Len(t)
      BY <1>1, <2>2
    <3> QED
      BY <1>2, <1>3, <3>1 DEF Rest
  <2> QED
    BY <2>1, <2>2
<1> QED
  BY <1>1, <1>2, <1>3, <1>4 DEF Rest

LEMMA BeginsAppended ==
  ASSUME NEW s, NEW t, NEW e, IsSequence(s), IsSequence(t), Begins(s, t)
  PROVE  /\ Begins(s, Append(t, e))
         /\ Len(s) < Len(t) /\ t[Len(s) + 1] = e => Begins(Append(s, e), t)
<1>1. Len(s) \in Nat /\ Len(t) \in Nat /\ Len(s) <= Len(t)
  BY SequenceShape DEF Begins
<1>2. /\ Len(Append(s, e)) = Len(s) + 1
      /\ \A i \in 1 .. Len(s) : Append(s, e)[i] = s[i]
      /\ Append(s, e)[Len(s) + 1] = e
  BY SequenceAppended
<1>3. /\ Len(Append(t, e)) = Len(t) + 1
      /\ \A i \in 1 .. Len(t) : Append(t, e)[i] = t[i]
  BY SequenceAppended
<1>4. Begins(s, Append(t, e))
  <2>1. \A i \in 1 .. Len(s) : i \in 1 .. Len(t)
    BY <1>1
  <2> QED
    BY <1>1, <1>3, <2>1 DEF Begins
<1>5. ASSUME Len(s) < Len(t), t[Len(s) + 1] = e
      PROVE  Begins(Append(s, e), t)
  <2>1. ASSUME NEW i \in 1 .. Len(s) + 1
        PROVE  Append(s, e)[i] = t[i]
    <3>1. CASE i = Len(s) + 1
      BY <1>2, <1>5, <3>1
    <3>2. CASE i # Len(s) + 1
      <4>1. i \in 1 .. Len(s)
        BY <1>1, <3>2
      <4> QED
        BY <1>2, <4>1 DEF Begins
    <3> QED
      BY <3>1, <3>2
  <2> QED
    BY <1>1, <1>2, <1>5, <2>1 DEF Begins
<1> QED
  BY <1>4, <1>5

(* The backend has got the request, rewritten, and then what came behind it. *)
Forwards(s, t) ==
  s # <<>> => Len(s) <= Len(t) /\ \A i \in 2 .. Len(s) : s[i] = t[i]

LEMMA ForwardsAppended ==
  ASSUME NEW s, NEW t, NEW e, IsSequence(s), IsSequence(t), Forwards(s, t)
  PROVE  /\ Forwards(s, Append(t, e))
         /\ s # <<>> /\ Len(s) < Len(t) /\ t[Len(s) + 1] = e => Forwards(Append(s, e), t)
<1>1. Len(s) \in Nat /\ Len(t) \in Nat
  BY SequenceShape
<1>2. /\ Len(Append(s, e)) = Len(s) + 1
      /\ \A i \in 1 .. Len(s) : Append(s, e)[i] = s[i]
      /\ Append(s, e)[Len(s) + 1] = e
  BY SequenceAppended
<1>3. /\ Len(Append(t, e)) = Len(t) + 1
      /\ \A i \in 1 .. Len(t) : Append(t, e)[i] = t[i]
  BY SequenceAppended
<1>4. Forwards(s, Append(t, e))
  <2> SUFFICES ASSUME s # <<>>
               PROVE  Len(s) <= Len(t) + 1 /\ \A i \in 2 .. Len(s) : s[i] = Append(t, e)[i]
    BY <1>3 DEF Forwards
  <2>1. Len(s) <= Len(t) /\ \A i \in 2 .. Len(s) : s[i] = t[i]
    BY DEF Forwards
  <2>2. \A i \in 2 .. Len(s) : i \in 1 .. Len(t)
    BY <1>1, <2>1
  <2> QED
    BY <1>1, <1>3, <2>1, <2>2
<1>5. ASSUME s # <<>>, Len(s) < Len(t), t[Len(s) + 1] = e
      PROVE  Forwards(Append(s, e), t)
  <2>1. ASSUME NEW i \in 2 .. Len(s) + 1
        PROVE  Append(s, e)[i] = t[i]
    <3>1. CASE i = Len(s) + 1
      BY <1>2, <1>5, <3>1
    <3>2. CASE i # Len(s) + 1
      <4>1. i \in 1 .. Len(s) /\ i \in 2 .. Len(s)
        BY <1>1, <3>2
      <4> QED
        BY <1>2, <1>5, <4>1 DEF Forwards
    <3> QED
      BY <3>1, <3>2
  <2> QED
    BY <1>1, <1>2, <1>5, <2>1 DEF Forwards
<1> QED
  BY <1>4, <1>5

LEMMA ForwardsIsPrefix ==
  ASSUME NEW s, NEW t, IsSequence(s), IsSequence(t), Forwards(s, t), s # <<>>
  PROVE  IsPrefix(Tail(s), Tail(t))
<1>1. Len(s) \in Nat /\ Len(s) # 0 /\ Len(t) \in Nat /\ Len(s) <= Len(t) /\ t # <<>>
  BY SequenceShape DEF Forwards
<1>2. /\ IsSequence(Tail(s)) /\ Len(Tail(s)) = Len(s) - 1
      /\ \A i \in 1 .. Len(s) - 1 : Tail(s)[i] = s[i + 1]
  BY SequenceShortened
<1>3. /\ IsSequence(Tail(t)) /\ Len(Tail(t)) = Len(t) - 1
      /\ \A i \in 1 .. Len(t) - 1 : Tail(t)[i] = t[i + 1]
  BY <1>1, SequenceShortened
<1>4. ASSUME NEW i \in 1 .. Len(s) - 1
      PROVE  Tail(s)[i] = Tail(t)[i]
  <2>1. i \in 1 .. Len(t) - 1 /\ i + 1 \in 2 .. Len(s)
    BY <1>1
  <2> QED
    BY <1>2, <1>3, <2>1 DEF Forwards
<1>5. Begins(Tail(s), Tail(t))
  BY <1>1, <1>2, <1>3, <1>4 DEF Begins
<1> QED
  BY <1>2, <1>3, <1>5, BeginsIsPrefix

IsPeer(p) == p = [unread |-> p.unread, eof |-> p.eof] /\ IsSequence(p.unread)

ProxyInv ==
  /\ pc \in {"select", "read", "route", "pipe", "write_b", "write_c", "killed"}
  /\ IsPeer(client) /\ IsPeer(backend)
  /\ IsSequence(to_backend) /\ IsSequence(to_client)
  /\ IsSequence(sent_c) /\ IsSequence(sent_b)
  /\ Forwards(to_backend, sent_c)
  /\ to_client = <<"502">> \/ Begins(to_client, sent_b)
  /\ pc = "select" => ~client_fd /\ ~backend_fd
  /\ pc = "read" => Rest(client.unread, sent_c, 0)
  /\ pc = "route" => Rest(client.unread, sent_c, 1)
  /\ pc \in {"read", "route"} =>
       ~backend_fd /\ to_backend = <<>> /\ to_client = <<>> /\ sent_b = <<>>
  /\ pc \in {"pipe", "write_b", "write_c"} =>
       /\ Begins(to_client, sent_b)
       /\ backend_fd => to_backend # <<>> /\ Rest(client.unread, sent_c, Len(to_backend))
       /\ client_fd => Rest(backend.unread, sent_b, Len(to_client))

LEMMA PeerUnread ==
  ASSUME NEW p, IsPeer(p), NEW u, IsSequence(u)
  PROVE  /\ IsPeer([p EXCEPT !.unread = u])
         /\ [p EXCEPT !.unread = u].unread = u
<1>1. [p EXCEPT !.unread = u] = [unread |-> u, eof |-> p.eof]
  BY DEF IsPeer
<1> QED
  BY <1>1 DEF IsPeer

LEMMA PeerCloses ==
  ASSUME NEW p, IsPeer(p), NEW e
  PROVE  /\ IsPeer([p EXCEPT !.eof = e])
         /\ [p EXCEPT !.eof = e].unread = p.unread
<1>1. [p EXCEPT !.eof = e] = [unread |-> p.unread, eof |-> e]
  BY DEF IsPeer
<1> QED
  BY <1>1 DEF IsPeer

LEMMA NewPeer == IsPeer(Peer) /\ Peer.unread = <<>>
  BY EmptySequence DEF IsPeer, Peer

LEMMA NothingYet ==
  /\ Begins(<<>>, <<>>) /\ Forwards(<<>>, <<>>)
  /\ \A t : IsSequence(t) => Begins(<<>>, t) /\ Forwards(<<>>, t)
  /\ Rest(<<>>, <<>>, 0)
  BY EmptySequence, SequenceShape DEF Begins, Forwards, Rest

LEMMA ProxyStarts == ProxyInit => ProxyInv
  BY EmptySequence, NewPeer, NothingYet DEF ProxyInit, ProxyInv

LEMMA AcceptKeeps == ProxyInv /\ proxy_accept_connection => ProxyInv'
  BY EmptySequence, NewPeer, NothingYet DEF ProxyInv, proxy_accept_connection

LEMMA ReadKeeps == ProxyInv /\ ReadRequest => ProxyInv'
<1> SUFFICES ASSUME ProxyInv, ReadRequest PROVE ProxyInv'
  OBVIOUS
<1>1. CASE client.unread # <<>> /\ client' = [client EXCEPT !.unread = Tail(@)] /\ pc' = "route"
  <2>1. IsSequence(client.unread) /\ IsSequence(sent_c) /\ Rest(client.unread, sent_c, 0)
    BY DEF ProxyInv, ReadRequest, IsPeer
  <2>2. Rest(Tail(client.unread), sent_c, 1) /\ IsSequence(Tail(client.unread))
    BY <1>1, <2>1, RestShortened, SequenceShortened
  <2>3. IsPeer(client') /\ client'.unread = Tail(client.unread)
    BY <1>1, <2>2, PeerUnread DEF ProxyInv
  <2> QED
    BY <1>1, <2>2, <2>3 DEF ProxyInv, ReadRequest
<1>2. CASE pc' = "select" /\ client_fd' = FALSE /\ UNCHANGED client
  BY <1>2 DEF ProxyInv, ReadRequest
<1> QED
  BY <1>1, <1>2 DEF ReadRequest

LEMMA ConnectKeeps == ProxyInv /\ proxy_connect_backend => ProxyInv'
<1> SUFFICES ASSUME ProxyInv, proxy_connect_backend PROVE ProxyInv'
  OBVIOUS
<1>0. /\ pc = "route" /\ UNCHANGED <<client, request, sent_c, sent_b, accepted>>
      /\ to_client = <<>> /\ sent_b = <<>> /\ to_backend = <<>>
      /\ Rest(client.unread, sent_c, 1) /\ IsSequence(client.unread) /\ IsSequence(sent_c)
  BY DEF ProxyInv, proxy_connect_backend, IsPeer
<1>1. CASE BadGateway /\ UNCHANGED <<backend, to_backend>>
  <2>1. to_client' = <<"502">> /\ IsSequence(to_client')
    <3>1. to_client' = Append(<<>>, "502")
      BY <1>0, <1>1 DEF BadGateway
    <3>2. to_client' = <<"502">>
      BY <3>1
    <3>3. IsSequence(Append(<<>>, "502"))
      BY EmptySequence, SequenceAppended
    <3> QED
      BY <3>1, <3>2, <3>3
  <2> QED
    BY <1>0, <1>1, <2>1 DEF ProxyInv, BadGateway, CloseBoth
<1>2. CASE /\ backend_fd' = TRUE /\ pc' = "write_b" /\ UNCHANGED <<client_fd, to_client>>
           /\ \E refused \in BOOLEAN : backend' = [Peer EXCEPT !.eof = refused]
           /\ to_backend' = <<proxy_rewrite_headers(request.lines)>>
  <2> DEFINE text == proxy_rewrite_headers(request.lines)
  <2>1. to_backend' = Append(<<>>, text)
    BY <1>2
  <2> HIDE DEF text
  <2>2. IsSequence(to_backend') /\ Len(to_backend') = 1 /\ to_backend' # <<>>
    <3>1. IsSequence(Append(<<>>, text)) /\ Len(Append(<<>>, text)) = Len(<<>>) + 1
      BY EmptySequence, SequenceAppended
    <3>2. Len(Append(<<>>, text)) = 1
      BY <3>1, EmptySequence
    <3>3. Append(<<>>, text) # <<>>
      BY <3>2, EmptySequence
    <3> QED
      BY <2>1, <3>1, <3>2, <3>3
  <2>3. IsPeer(backend') /\ backend'.unread = <<>>
    BY <1>2, NewPeer, PeerCloses
  <2>4. Forwards(to_backend', sent_c')
    <3>1. Len(sent_c) = 1 + Len(client.unread) /\ Len(client.unread) \in Nat
      BY <1>0, SequenceShape DEF Rest
    <3> QED
      BY <1>0, <2>2, <3>1 DEF Forwards
  <2>5. Rest(backend'.unread, sent_b', Len(to_client')) /\ Begins(to_client', sent_b')
    BY <1>0, <1>2, <2>3, NothingYet, EmptySequence
  <2> QED
    BY <1>0, <1>2, <2>2, <2>3, <2>4, <2>5 DEF ProxyInv
<1> QED
  BY <1>1, <1>2 DEF proxy_connect_backend

LEMMA WriteKeeps == ProxyInv /\ WriteReturns => ProxyInv'
  BY DEF ProxyInv, WriteReturns

LEMMA PipeClientKeeps == ProxyInv /\ PipeClient => ProxyInv'
<1> SUFFICES ASSUME ProxyInv, PipeClient PROVE ProxyInv'
  OBVIOUS
<1>0. /\ pc = "pipe"
      /\ UNCHANGED <<backend_fd, backend, request, to_client, sent_c, sent_b, accepted>>
      /\ IsSequence(client.unread) /\ IsSequence(sent_c) /\ IsSequence(to_backend)
      /\ Forwards(to_backend, sent_c)
  BY DEF ProxyInv, PipeClient, IsPeer
<1>1. CASE client_fd' = FALSE /\ UNCHANGED <<pc, client, to_backend>>
  BY <1>0, <1>1 DEF ProxyInv
<1>2. CASE /\ client.unread # <<>> /\ client' = [client EXCEPT !.unread = Tail(@)]
           /\ to_backend' = IF backend_fd THEN Append(to_backend, Head(client.unread)) ELSE to_backend
           /\ pc' \in {"pipe", "write_b"} /\ UNCHANGED client_fd
  <2>1. IsSequence(Tail(client.unread))
    BY <1>0, <1>2, SequenceShortened
  <2>2. IsPeer(client') /\ client'.unread = Tail(client.unread)
    BY <1>2, <2>1, PeerUnread DEF ProxyInv
  <2>3. CASE ~backend_fd
    BY <1>0, <1>2, <2>2, <2>3 DEF ProxyInv
  <2>4. CASE backend_fd
    <3>1. to_backend # <<>> /\ Rest(client.unread, sent_c, Len(to_backend)) /\ Len(to_backend) \in Nat
      BY <1>0, <2>4, SequenceShape DEF ProxyInv
    <3>2. /\ Rest(Tail(client.unread), sent_c, Len(to_backend) + 1)
          /\ sent_c[Len(to_backend) + 1] = Head(client.unread)
          /\ Len(to_backend) + 1 <= Len(sent_c)
      BY <1>0, <1>2, <3>1, RestShortened
    <3>3. Len(to_backend) < Len(sent_c)
      BY <1>0, <3>1, <3>2, SequenceShape
    <3>4. to_backend' = Append(to_backend, Head(client.unread))
      BY <1>2, <2>4
    <3>5. /\ IsSequence(to_backend') /\ Len(to_backend') = Len(to_backend) + 1
          /\ to_backend' # <<>>
      BY <1>0, <3>1, <3>4, SequenceAppended, SequenceShape
    <3>6. Forwards(to_backend', sent_c)
      BY <1>0, <3>1, <3>2, <3>3, <3>4, ForwardsAppended
    <3> QED
      BY <1>0, <1>2, <2>2, <3>2, <3>5, <3>6 DEF ProxyInv
  <2> QED
    BY <2>3, <2>4
<1> QED
  BY <1>1, <1>2 DEF PipeClient

LEMMA PipeBackendKeeps == ProxyInv /\ PipeBackend => ProxyInv'
<1> SUFFICES ASSUME ProxyInv, PipeBackend PROVE ProxyInv'
  OBVIOUS
<1>0. /\ pc = "pipe"
      /\ UNCHANGED <<client_fd, client, request, to_backend, sent_c, sent_b, accepted>>
      /\ IsSequence(backend.unread) /\ IsSequence(sent_b) /\ IsSequence(to_client)
      /\ Begins(to_client, sent_b)
  BY DEF ProxyInv, PipeBackend, IsPeer
<1>1. CASE backend_fd' = FALSE /\ UNCHANGED <<pc, backend, to_client>>
  BY <1>0, <1>1 DEF ProxyInv
<1>2. CASE /\ backend.unread # <<>> /\ backend' = [backend EXCEPT !.unread = Tail(@)]
           /\ to_client' = IF client_fd THEN Append(to_client, Head(backend.unread)) ELSE to_client
           /\ pc' \in {"pipe", "write_c"} /\ UNCHANGED backend_fd
  <2>1. IsSequence(Tail(backend.unread))
    BY <1>0, <1>2, SequenceShortened
  <2>2. IsPeer(backend') /\ backend'.unread = Tail(backend.unread)
    BY <1>2, <2>1, PeerUnread DEF ProxyInv
  <2>3. CASE ~client_fd
    BY <1>0, <1>2, <2>2, <2>3 DEF ProxyInv
  <2>4. CASE client_fd
    <3>1. Rest(backend.unread, sent_b, Len(to_client)) /\ Len(to_client) \in Nat
      BY <1>0, <2>4, SequenceShape DEF ProxyInv
    <3>2. /\ Rest(Tail(backend.unread), sent_b, Len(to_client) + 1)
          /\ sent_b[Len(to_client) + 1] = Head(backend.unread)
          /\ Len(to_client) + 1 <= Len(sent_b)
      BY <1>0, <1>2, <3>1, RestShortened
    <3>3. Len(to_client) < Len(sent_b)
      BY <1>0, <3>1, <3>2, SequenceShape
    <3>4. to_client' = Append(to_client, Head(backend.unread))
      BY <1>2, <2>4
    <3>5. IsSequence(to_client') /\ Len(to_client') = Len(to_client) + 1
      BY <1>0, <3>4, SequenceAppended
    <3>6. Begins(to_client', sent_b)
      BY <1>0, <3>2, <3>3, <3>4, BeginsAppended
    <3> QED
      BY <1>0, <1>2, <2>2, <3>2, <3>5, <3>6 DEF ProxyInv
  <2> QED
    BY <2>3, <2>4
<1> QED
  BY <1>1, <1>2 DEF PipeBackend

LEMMA CloseKeeps == ProxyInv /\ proxy_close_connection => ProxyInv'
  BY DEF ProxyInv, proxy_close_connection, CloseBoth

LEMMA ClientSendsKeeps == ProxyInv /\ ClientSends => ProxyInv'
<1> SUFFICES ASSUME ProxyInv, ClientSends PROVE ProxyInv'
  OBVIOUS
<1>1. PICK chunk : /\ client' = [client EXCEPT !.unread = Append(@, chunk)]
                   /\ sent_c' = Append(sent_c, chunk)
  BY DEF ClientSends
<1>2. /\ IsSequence(client.unread) /\ IsSequence(sent_c) /\ IsSequence(to_backend)
      /\ Forwards(to_backend, sent_c)
      /\ UNCHANGED <<pc, client_fd, backend_fd, backend, request, to_backend, to_client,
                     sent_b, accepted>>
      /\ pc # "select"
  BY DEF ProxyInv, ClientSends, IsPeer
<1>3. IsSequence(Append(client.unread, chunk)) /\ IsSequence(sent_c')
  BY <1>1, <1>2, SequenceAppended
<1>4. IsPeer(client') /\ client'.unread = Append(client.unread, chunk)
  BY <1>1, <1>3, PeerUnread DEF ProxyInv
<1>5. Forwards(to_backend', sent_c')
  BY <1>1, <1>2, ForwardsAppended
<1>6. ASSUME NEW n \in Nat, Rest(client.unread, sent_c, n)
      PROVE  Rest(client'.unread, sent_c', n)
  BY <1>1, <1>2, <1>4, <1>6, RestAppended
<1>7. Len(to_backend) \in Nat /\ 0 \in Nat /\ 1 \in Nat
  BY <1>2, SequenceShape
<1> QED
  BY <1>2, <1>3, <1>4, <1>5, <1>6, <1>7 DEF ProxyInv

LEMMA ClientClosesKeeps == ProxyInv /\ ClientCloses => ProxyInv'
<1> SUFFICES ASSUME ProxyInv, ClientCloses PROVE ProxyInv'
  OBVIOUS
<1>1. IsPeer(client') /\ client'.unread = client.unread
  BY PeerCloses DEF ProxyInv, ClientCloses
<1> QED
  BY <1>1 DEF ProxyInv, ClientCloses

LEMMA BackendKeeps == ProxyInv /\ BackendActs => ProxyInv'
<1> SUFFICES ASSUME ProxyInv, BackendActs PROVE ProxyInv'
  OBVIOUS
<1>0. /\ IsSequence(backend.unread) /\ IsSequence(sent_b) /\ IsSequence(to_client)
      /\ UNCHANGED <<pc, client_fd, backend_fd, client, request, to_backend, to_client,
                     sent_c, accepted>>
      /\ pc \notin {"select", "read", "route"}
  BY DEF ProxyInv, BackendActs, IsPeer
<1>1. CASE /\ backend' = [backend EXCEPT !.unread = Append(@, Len(sent_b))]
           /\ sent_b' = Append(sent_b, Len(sent_b))
  <2> DEFINE chunk == Len(sent_b)
  <2>1. /\ backend' = [backend EXCEPT !.unread = Append(@, chunk)]
        /\ sent_b' = Append(sent_b, chunk)
    BY <1>1
  <2> HIDE DEF chunk
  <2>2. IsSequence(Append(backend.unread, chunk)) /\ IsSequence(sent_b')
    BY <1>0, <2>1, SequenceAppended
  <2>3. IsPeer(backend') /\ backend'.unread = Append(backend.unread, chunk)
    BY <2>1, <2>2, PeerUnread DEF ProxyInv
  <2>4. Begins(to_client, sent_b) => Begins(to_client', sent_b')
    BY <1>0, <2>1, BeginsAppended
  <2>5. Rest(backend.unread, sent_b, Len(to_client)) => Rest(backend'.unread, sent_b', Len(to_client'))
    BY <1>0, <2>1, <2>3, RestAppended, SequenceShape
  <2> QED
    BY <1>0, <2>2, <2>3, <2>4, <2>5 DEF ProxyInv
<1>2. CASE backend' = [backend EXCEPT !.eof = TRUE] /\ UNCHANGED sent_b
  <2>1. IsPeer(backend') /\ backend'.unread = backend.unread
    BY <1>2, PeerCloses DEF ProxyInv
  <2> QED
    BY <1>0, <1>2, <2>1 DEF ProxyInv
<1> QED
  BY <1>1, <1>2 DEF BackendActs

LEMMA ProxyStep == ProxyInv /\ [ProxyNext]_proxyVars => ProxyInv'
<1>1. CASE UNCHANGED proxyVars
  BY <1>1 DEF ProxyInv, proxyVars
<1> QED
  BY <1>1, AcceptKeeps, ReadKeeps, ConnectKeeps, WriteKeeps, PipeClientKeeps, PipeBackendKeeps,
     CloseKeeps, ClientSendsKeeps, ClientClosesKeeps, BackendKeeps
  DEF ProxyNext

(* What the backend got first is the rewritten request, and the request is   *)
(* what the client sent first.                                               *)
RequestKept ==
  /\ sent_c # <<>> => sent_c[1].lines \in Messages
  /\ pc = "route" => request = sent_c[1]
  /\ to_backend # <<>> =>
       sent_c # <<>> /\ to_backend[1] = proxy_rewrite_headers(sent_c[1].lines)

LEMMA RequestStarts == ProxyInit => RequestKept
  BY DEF ProxyInit, RequestKept

LEMMA ReadsRequest == ProxyInv /\ RequestKept /\ ReadRequest => RequestKept'
<1> SUFFICES ASSUME ProxyInv, RequestKept, ReadRequest PROVE RequestKept'
  OBVIOUS
<1>1. CASE client.unread # <<>> /\ request' = Head(client.unread)
  <2>1. IsSequence(client.unread) /\ IsSequence(sent_c) /\ Rest(client.unread, sent_c, 0)
    BY DEF ProxyInv, ReadRequest, IsPeer
  <2>2. sent_c[0 + 1] = Head(client.unread)
    BY <1>1, <2>1, RestShortened
  <2> QED
    BY <1>1, <2>2 DEF RequestKept, ReadRequest
<1>2. CASE pc' = "select"
  BY <1>2 DEF RequestKept, ReadRequest
<1> QED
  BY <1>1, <1>2 DEF ReadRequest

LEMMA ForwardsRequest == ProxyInv /\ RequestKept /\ proxy_connect_backend => RequestKept'
<1> SUFFICES ASSUME ProxyInv, RequestKept, proxy_connect_backend PROVE RequestKept'
  OBVIOUS
<1>0. /\ pc = "route" /\ UNCHANGED <<request, sent_c>> /\ request = sent_c[1]
      /\ to_backend = <<>> /\ sent_c # <<>>
  <2>1. Rest(client.unread, sent_c, 1) /\ IsSequence(client.unread) /\ IsSequence(sent_c)
    BY DEF ProxyInv, proxy_connect_backend, IsPeer
  <2>2. Len(sent_c) # 0
    BY <2>1, SequenceShape DEF Rest
  <2> QED
    BY <2>1, <2>2, SequenceShape DEF ProxyInv, RequestKept, proxy_connect_backend
<1>1. CASE BadGateway /\ UNCHANGED <<backend, to_backend>>
  BY <1>0, <1>1 DEF RequestKept, BadGateway, CloseBoth
<1>2. CASE to_backend' = <<proxy_rewrite_headers(request.lines)>> /\ pc' = "write_b"
  BY <1>0, <1>2 DEF RequestKept
<1> QED
  BY <1>1, <1>2 DEF proxy_connect_backend

LEMMA PipesBehindRequest == ProxyInv /\ RequestKept /\ PipeClient => RequestKept'
<1> SUFFICES ASSUME ProxyInv, RequestKept, PipeClient PROVE RequestKept'
  OBVIOUS
<1>0. pc = "pipe" /\ pc' # "route" /\ UNCHANGED <<request, sent_c>> /\ IsSequence(to_backend)
  BY DEF ProxyInv, PipeClient
<1>1. CASE UNCHANGED to_backend
  BY <1>0, <1>1 DEF RequestKept
<1>2. CASE to_backend' = Append(to_backend, Head(client.unread)) /\ to_backend # <<>>
  <2>1. Len(to_backend) \in Nat /\ Len(to_backend) # 0
    BY <1>0, <1>2, SequenceShape
  <2>2. to_backend'[1] = to_backend[1]
    BY <1>0, <1>2, <2>1, SequenceAppended
  <2> QED
    BY <1>0, <1>2, <2>2 DEF RequestKept
<1> QED
  BY <1>1, <1>2 DEF PipeClient, ProxyInv

LEMMA SendsBehindRequest == ProxyInv /\ RequestKept /\ ClientSends => RequestKept'
<1> SUFFICES ASSUME ProxyInv, RequestKept, ClientSends PROVE RequestKept'
  OBVIOUS
<1>0. UNCHANGED <<pc, request, to_backend>> /\ IsSequence(sent_c)
  BY DEF ProxyInv, ClientSends
<1>1. CASE sent_c = <<>>
  <2>1. PICK chunk \in [path: ProxyPaths, lines: Messages] : sent_c' = Append(sent_c, chunk)
    BY <1>1 DEF ClientSends
  <2>2. sent_c'[1] = chunk /\ chunk.lines \in Messages
    BY <1>1, <2>1, EmptySequence, SequenceAppended
  <2>3. to_backend = <<>>
    BY <1>1 DEF RequestKept
  <2>4. pc # "route"
    <3>1. ASSUME pc = "route" PROVE FALSE
      <4>1. Rest(client.unread, sent_c, 1) /\ IsSequence(client.unread)
        BY <3>1 DEF ProxyInv, IsPeer
      <4> QED
        BY <1>1, <4>1, EmptySequence, SequenceShape DEF Rest
    <3> QED
      BY <3>1
  <2> QED
    BY <1>0, <2>2, <2>3, <2>4 DEF RequestKept
<1>2. CASE sent_c # <<>>
  <2>1. PICK chunk : sent_c' = Append(sent_c, chunk)
    BY DEF ClientSends
  <2>2. Len(sent_c) \in Nat /\ Len(sent_c) # 0
    BY <1>0, <1>2, SequenceShape
  <2>3. sent_c'[1] = sent_c[1] /\ sent_c' # <<>>
    <3>1. IsSequence(sent_c') /\ Len(sent_c') = Len(sent_c) + 1 /\ sent_c'[1] = sent_c[1]
      BY <1>0, <2>1, <2>2, SequenceAppended
    <3> QED
      BY <2>2, <3>1, SequenceShape
  <2> QED
    BY <1>0, <1>2, <2>3 DEF RequestKept
<1> QED
  BY <1>1, <1>2

LEMMA RequestStep == ProxyInv /\ RequestKept /\ [ProxyNext]_proxyVars => RequestKept'
<1> SUFFICES ASSUME ProxyInv, RequestKept, [ProxyNext]_proxyVars PROVE RequestKept'
  OBVIOUS
<1>1. CASE UNCHANGED <<pc, request, to_backend, sent_c>>
  BY <1>1 DEF RequestKept
<1>2. CASE proxy_accept_connection
  BY <1>2 DEF RequestKept, proxy_accept_connection
<1>3. CASE WriteReturns \/ proxy_close_connection \/ PipeBackend
  <2>1. UNCHANGED <<request, to_backend, sent_c>> /\ pc' # "route"
    BY <1>3 DEF WriteReturns, proxy_close_connection, CloseBoth, PipeBackend
  <2> QED
    BY <2>1 DEF RequestKept
<1>4. CASE ClientCloses \/ BackendActs
  BY <1>1, <1>4 DEF ClientCloses, BackendActs
<1> QED
  BY <1>1, <1>2, <1>3, <1>4, ReadsRequest, ForwardsRequest, PipesBehindRequest, SendsBehindRequest
  DEF ProxyNext, proxyVars

(* Sequences put together, as proxy_rewrite_headers does.                    *)
LEMMA SequencesJoined ==
  ASSUME NEW s, NEW t, IsSequence(s), IsSequence(t)
  PROVE  /\ IsSequence(s \o t)
         /\ Len(s \o t) = Len(s) + Len(t)
         /\ \A i \in 1 .. Len(s) : (s \o t)[i] = s[i]
         /\ \A i \in 1 .. Len(t) : (s \o t)[Len(s) + i] = t[i]
<1>1. PICK S : s \in Seq(S)
  BY DEF IsSequence
<1>2. PICK T : t \in Seq(T)
  BY DEF IsSequence
<1>3. s \in Seq(S \cup T) /\ t \in Seq(S \cup T)
  BY <1>1, <1>2
<1>4. s \o t \in Seq(S \cup T)
  BY <1>3
<1> QED
  BY <1>3, <1>4 DEF IsSequence

LEMMA OneElement ==
  ASSUME NEW e
  PROVE  IsSequence(<<e>>) /\ Len(<<e>>) = 1 /\ <<e>>[1] = e
<1>1. <<e>> \in Seq({e})
  OBVIOUS
<1> QED
  BY <1>1 DEF IsSequence

LEMMA SequenceMapped ==
  ASSUME NEW s, IsSequence(s), NEW T, NEW f \in [DOMAIN s -> T]
  PROVE  IsSequence(f) /\ Len(f) = Len(s)
<1>1. Len(s) \in Nat /\ DOMAIN s = 1 .. Len(s)
  BY SequenceShape
<1>2. f \in [1 .. Len(s) -> T]
  BY <1>1
<1>3. f \in Seq(T) /\ Len(f) = Len(s)
  BY <1>1, <1>2
<1> QED
  BY <1>3 DEF IsSequence

(* proxy_rewrite_headers on any sequence of lines.                           *)
LEMMA HeaderIsLines ==
  ASSUME NEW S, NEW lines \in Seq(S)
  PROVE  Header(lines) \in Seq(S)
<1> DEFINE cut == {i \in DOMAIN lines : lines[i] = "body"}
           first == CHOOSE i \in cut : \A j \in cut : i <= j
<1>1. CASE cut = {}
  BY <1>1 DEF Header
<1>2. CASE cut # {}
  <2>1. cut \subseteq Nat /\ cut \subseteq 1 .. Len(lines)
    OBVIOUS
  <2>2. first \in cut
    BY <1>2, <2>1, LeastNumber
  <2>3. first - 1 \in 0 .. Len(lines)
    BY <2>1, <2>2
  <2> HIDE DEF first
  <2>4. SubSeq(lines, 1, first - 1) \in Seq(S)
    BY <2>3
  <2> QED
    BY <1>2, <2>4 DEF Header, first
<1> QED
  BY <1>1, <1>2

LEMMA RewrittenLine ==
  /\ \A l : Rewritten(l) \notin {"Host", "XFF"}
  /\ \A l : l \notin {"Host", "XFF"} => Rewritten(l) = l
  /\ Rewritten("Host") = "Host: backend" /\ Rewritten("XFF") = "XFF: client"
  /\ \A l : Rewritten(l) \in {"Host: backend", "XFF: client", l}
<1>1. ASSUME NEW l
      PROVE  /\ l = "Host" => Rewritten(l) = "Host: backend"
             /\ l = "XFF" => Rewritten(l) = "XFF: client"
             /\ l \notin {"Host", "XFF"} => Rewritten(l) = l
  BY DEF Rewritten
<1>3. "Host: backend" \notin {"Host", "XFF"} /\ "XFF: client" \notin {"Host", "XFF"}
  OBVIOUS
<1>4. ASSUME NEW l PROVE Rewritten(l) \notin {"Host", "XFF"}
  <2>1. CASE l = "Host"
    BY <1>1, <1>3, <2>1
  <2>2. CASE l = "XFF"
    BY <1>1, <1>3, <2>2
  <2>3. CASE l \notin {"Host", "XFF"}
    BY <1>1, <2>3
  <2> QED
    BY <2>1, <2>2, <2>3
<1>5. ASSUME NEW l PROVE Rewritten(l) \in {"Host: backend", "XFF: client", l}
  BY <1>1
<1> QED
  BY <1>1, <1>4, <1>5

LEMMA MissingLine ==
  ASSUME NEW line, NEW lines
  PROVE  /\ IsSequence(Missing(line, lines))
         /\ Len(Missing(line, lines)) = 0 \/ Len(Missing(line, lines)) = 1
         /\ \A i \in 1 .. Len(Missing(line, lines)) : Missing(line, lines)[i] = Rewritten(line)
         /\ Len(Missing(line, lines)) = 0 => \E i \in DOMAIN lines : lines[i] = line
<1>1. CASE \E i \in DOMAIN lines : lines[i] = line
  <2>1. Missing(line, lines) = <<>>
    BY <1>1 DEF Missing
  <2> QED
    BY <1>1, <2>1, EmptySequence
<1>2. CASE ~ \E i \in DOMAIN lines : lines[i] = line
  <2>1. Missing(line, lines) = <<Rewritten(line)>>
    BY <1>2 DEF Missing
  <2> QED
    BY <2>1, OneElement
<1> QED
  BY <1>1, <1>2

LEMMA TwoMore ==
  ASSUME NEW k \in Nat, NEW m \in Nat, NEW n \in Nat, m <= 1, n <= 1
  PROVE  /\ (k + m) + n <= k + 2
         /\ \A j \in Nat :
              j <= (k + m) + n => j <= k \/ (m = 1 /\ j = k + 1) \/ (n = 1 /\ j = (k + m) + 1)
  OBVIOUS

(* The lines of a text of three parts, of which the last two have at most    *)
(* one line: no string is mentioned here.                                    *)
Parts(kept, here, a, b) ==
  LET text == here \o a \o b
  IN  /\ IsSequence(text)
      /\ Len(text) <= Len(kept) + 2
      /\ \A i \in DOMAIN kept : i \in DOMAIN text /\ text[i] = here[i]
      /\ Len(a) = 1 => \E i \in DOMAIN text : text[i] = a[1]
      /\ Len(b) = 1 => \E i \in DOMAIN text : text[i] = b[1]
      /\ \A i \in DOMAIN text :
           \/ i \in DOMAIN kept /\ i <= Len(kept)
           \/ Len(a) = 1 /\ text[i] = a[1]
           \/ Len(b) = 1 /\ text[i] = b[1]

LEMMA ThreeParts ==
  ASSUME NEW kept, IsSequence(kept),
         NEW here, IsSequence(here), Len(here) = Len(kept),
         NEW a, IsSequence(a), Len(a) = 0 \/ Len(a) = 1,
         NEW b, IsSequence(b), Len(b) = 0 \/ Len(b) = 1
  PROVE  Parts(kept, here, a, b)
<1> DEFINE two == here \o a
           text == two \o b
<1>1. IsSequence(here) /\ Len(here) = Len(kept)
  OBVIOUS
<1>2. /\ IsSequence(two) /\ Len(two) = Len(here) + Len(a)
      /\ \A i \in 1 .. Len(here) : two[i] = here[i]
      /\ \A i \in 1 .. Len(a) : two[Len(here) + i] = a[i]
  BY <1>1, SequencesJoined
<1> HIDE DEF two
<1>3. /\ IsSequence(text) /\ Len(text) = Len(two) + Len(b)
      /\ \A i \in 1 .. Len(two) : text[i] = two[i]
      /\ \A i \in 1 .. Len(b) : text[Len(two) + i] = b[i]
  BY <1>2, SequencesJoined
<1> HIDE DEF text
<1>4. /\ Len(kept) \in Nat /\ Len(two) \in Nat /\ Len(text) \in Nat
      /\ DOMAIN kept = 1 .. Len(kept) /\ DOMAIN text = 1 .. Len(text)
  BY <1>2, <1>3, SequenceShape
<1>0. /\ Len(two) = Len(kept) + Len(a) /\ Len(text) = Len(two) + Len(b)
      /\ Len(a) \in Nat /\ Len(a) <= 1 /\ Len(b) \in Nat /\ Len(b) <= 1 /\ Len(kept) \in Nat
  BY <1>1, <1>2, <1>3, <1>4
<1>5. Len(text) <= Len(kept) + 2
  BY <1>0, TwoMore
<1>6. ASSUME NEW i \in DOMAIN kept
      PROVE  i \in DOMAIN text /\ text[i] = here[i]
  <2>1. i \in 1 .. Len(here) /\ i \in 1 .. Len(two) /\ i \in 1 .. Len(text)
    BY <1>1, <1>2, <1>3, <1>4
  <2> QED
    BY <1>2, <1>3, <1>4, <2>1
<1>7. ASSUME Len(a) = 1
      PROVE  Len(kept) + 1 \in DOMAIN text /\ text[Len(kept) + 1] = a[1]
  <2>1. 1 \in 1 .. Len(a) /\ Len(here) + 1 \in 1 .. Len(two) /\ Len(here) + 1 \in 1 .. Len(text)
    BY <1>1, <1>2, <1>3, <1>4, <1>7
  <2> QED
    BY <1>1, <1>2, <1>3, <1>4, <2>1
<1>8. ASSUME Len(b) = 1
      PROVE  Len(two) + 1 \in DOMAIN text /\ text[Len(two) + 1] = b[1]
  <2>1. 1 \in 1 .. Len(b) /\ Len(two) + 1 \in 1 .. Len(text)
    BY <1>3, <1>4, <1>8
  <2> QED
    BY <1>3, <1>4, <2>1
<1>9. ASSUME NEW i \in DOMAIN text
      PROVE  \/ i \in DOMAIN kept /\ i <= Len(kept)
             \/ Len(a) = 1 /\ text[i] = a[1]
             \/ Len(b) = 1 /\ text[i] = b[1]
  <2>1. \/ i \in DOMAIN kept /\ i <= Len(kept)
        \/ Len(a) = 1 /\ i = Len(kept) + 1
        \/ Len(b) = 1 /\ i = Len(two) + 1
    <3>1. i \in 1 .. Len(text) /\ DOMAIN kept = 1 .. Len(kept)
      BY <1>4
    <3>2. /\ i \in Nat /\ 1 <= i /\ i <= Len(text)
          /\ i <= Len(kept) => i \in DOMAIN kept
      BY <1>4, <3>1
    <3> QED
      BY <1>0, <3>2, TwoMore
  <2> QED
    BY <1>7, <1>8, <2>1
<1>10. here \o a \o b = text
  BY DEF text, two
<1> QED
  BY <1>3, <1>5, <1>6, <1>7, <1>8, <1>9, <1>10 DEF Parts

LEMMA HeaderRewritten ==
  ASSUME NEW S, NEW lines \in Seq(S)
  PROVE  HeaderPasses(proxy_rewrite_headers(lines), lines)
<1> DEFINE kept == Header(lines)
           here == [i \in DOMAIN kept |-> Rewritten(kept[i])]
           host == Missing("Host", kept)
           xff == Missing("XFF", kept)
           text == here \o host \o xff
           H == "Host"
           X == "XFF"
<1>1. IsSequence(kept)
  BY HeaderIsLines DEF IsSequence
<1>2. proxy_rewrite_headers(lines) = text
  BY DEF proxy_rewrite_headers
<1>3. IsSequence(here) /\ Len(here) = Len(kept) /\ \A i \in DOMAIN kept : here[i] = Rewritten(kept[i])
  <2> HIDE DEF kept
  <2> DEFINE T == {Rewritten(kept[i]) : i \in DOMAIN kept}
  <2>1. here \in [DOMAIN kept -> T] /\ \A i \in DOMAIN kept : here[i] = Rewritten(kept[i])
    OBVIOUS
  <2> HIDE DEF here, T
  <2> QED
    BY <1>1, <2>1, SequenceMapped
<1>4. host = Missing(H, kept) /\ xff = Missing(X, kept)
  OBVIOUS
<1>0. DOMAIN kept = 1 .. Len(kept) /\ Len(kept) \in Nat
  BY <1>1, SequenceShape
<1> HIDE DEF kept, here, host, xff, H, X
<1>5. /\ IsSequence(host) /\ (Len(host) = 0 \/ Len(host) = 1)
      /\ Len(host) = 1 => host[1] = Rewritten(H)
      /\ Len(host) = 0 => \E i \in DOMAIN kept : kept[i] = H
  BY <1>4, MissingLine
<1>6. /\ IsSequence(xff) /\ (Len(xff) = 0 \/ Len(xff) = 1)
      /\ Len(xff) = 1 => xff[1] = Rewritten(X)
      /\ Len(xff) = 0 => \E i \in DOMAIN kept : kept[i] = X
  BY <1>4, MissingLine
<1>7. /\ IsSequence(text)
      /\ Len(text) <= Len(kept) + 2
      /\ \A i \in DOMAIN kept : i \in DOMAIN text /\ text[i] = here[i]
      /\ Len(host) = 1 => \E i \in DOMAIN text : text[i] = host[1]
      /\ Len(xff) = 1 => \E i \in DOMAIN text : text[i] = xff[1]
      /\ \A i \in DOMAIN text :
           \/ i \in DOMAIN kept /\ i <= Len(kept)
           \/ Len(host) = 1 /\ text[i] = host[1]
           \/ Len(xff) = 1 /\ text[i] = xff[1]
  <2>1. /\ IsSequence(here) /\ Len(here) = Len(kept)
        /\ IsSequence(host) /\ (Len(host) = 0 \/ Len(host) = 1)
        /\ IsSequence(xff) /\ (Len(xff) = 0 \/ Len(xff) = 1)
    BY <1>3, <1>5, <1>6
  <2>2. Parts(kept, here, host, xff)
    BY <1>1, <2>1, ThreeParts
  <2> QED
    BY <2>2 DEF Parts
<1> HIDE DEF text
<1>8. \E i \in DOMAIN text : text[i] = Rewritten(H)
  BY <1>3, <1>5, <1>7
<1>9. \E i \in DOMAIN text : text[i] = Rewritten(X)
  BY <1>3, <1>6, <1>7
<1>10. ASSUME NEW i \in DOMAIN text
       PROVE  (\E l : text[i] = Rewritten(l)) /\ (i \in DOMAIN kept \/ text[i] = Rewritten(H) \/ text[i] = Rewritten(X))
  BY <1>3, <1>5, <1>6, <1>7
<1>11. ASSUME NEW i \in DOMAIN text
       PROVE  /\ text[i] \notin {"Host", "XFF"}
              /\ i > Len(kept) => text[i] \in {"Host: backend", "XFF: client"}
  <2>1. text[i] \notin {"Host", "XFF"}
    BY <1>10, RewrittenLine
  <2>2. i \in DOMAIN kept => ~(i > Len(kept))
    BY <1>0
  <2>3. i > Len(kept) => text[i] \in {"Host: backend", "XFF: client"}
    BY <1>10, <2>2, RewrittenLine DEF H, X
  <2> QED
    BY <2>1, <2>3
<1>12. \A i \in DOMAIN kept : kept[i] \notin {"Host", "XFF"} => text[i] = kept[i]
  BY <1>3, <1>7, RewrittenLine
<1>13. \A l \in {"Host: backend", "XFF: client"} : \E i \in DOMAIN text : text[i] = l
  BY <1>8, <1>9, RewrittenLine DEF H, X
<1>14. Len(text) <= Len(kept) + 2
  BY <1>7
<1> QED
  BY <1>2, <1>11, <1>12, <1>13, <1>14, Zenon DEF HeaderPasses, kept

LEMMA ProxyInvRelays == ProxyInv /\ RequestKept => ProxyRelays
<1> SUFFICES ASSUME ProxyInv, RequestKept PROVE ProxyRelays
  OBVIOUS
<1>1. to_backend # <<>> => IsPrefix(Tail(to_backend), Tail(sent_c))
  BY ForwardsIsPrefix DEF ProxyInv
<1>2. IsPrefix(to_client, sent_b) \/ to_client = <<"502">>
  BY BeginsIsPrefix DEF ProxyInv
<1>3. to_backend # <<>> => sent_c # <<>> /\ HeaderPasses(to_backend[1], sent_c[1].lines)
  BY HeaderRewritten, MessagesAssumption DEF RequestKept
<1> QED
  BY <1>1, <1>2, <1>3 DEF ProxyInv, ProxyRelays

LEMMA ProxySafe == ProxySpec => []ProxyRelays
<1>1. ProxySpec => []ProxyInv
  BY ProxyStarts, ProxyStep, PTL DEF ProxySpec
<1>2. ProxySpec => []RequestKept
  BY <1>1, RequestStarts, RequestStep, PTL DEF ProxySpec
<1> QED
  BY <1>1, <1>2, ProxyInvRelays, PTL

-----------------------------------------------------------------------------
(* RequestsRelayed: a request passes the whole middleware chain or stops at  *)
(* the first handler that refuses or answers it, gateway_match_route finds a  *)
(* route exactly when the path fits one, and the proxy gives the backend the *)
(* rewritten header of what the client sent first, without a body read with  *)
(* it, and then each side what the other sent, in order and without gaps,    *)
(* with nothing left open when it returns to select: for every chain, table  *)
(* of routes, header and number of chunks.                                   *)
THEOREM RequestsPass == ChainSpec /\ GatewaySpec /\ ProxySpec => []RequestsRelayed
<1>1. ChainPasses /\ RouteSound /\ ProxyRelays => RequestsRelayed
  BY DEF RequestsRelayed
<1> QED
  BY <1>1, ChainSafe, RoutesSafe, ProxySafe, PTL
=============================================================================
