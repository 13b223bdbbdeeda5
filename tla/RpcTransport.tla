---------------------------- MODULE RpcTransport ----------------------------
(***************************************************************************)
(* What an RPC call passes on its way in mini-rpc-framework: the pool of   *)
(* connections, the chain of interceptors and the streams over one         *)
(* session.  They share no state.                                          *)
(***************************************************************************)
EXTENDS Naturals, FiniteSets, Sequences, SequencesExt

-----------------------------------------------------------------------------
(***************************************************************************)
(* The client side of rpc_transport.c: the connections a transport opens,    *)
(* the pool it moves some of them to, and the clean-up that closes up the    *)
(* pool.  The arrays keep what was in them: an entry beyond connection_count *)
(* or pool_size is stale, not empty.  fd 0 stands for -1.                    *)
(***************************************************************************)

CONSTANTS
  PoolAddresses,
  PoolConnections,  \* RPC_MAX_CONNECTIONS
  MaxPool,         \* RPC_MAX_POOL_SIZE
  MaxFd            \* a bound on the sockets open at one time

ASSUME PoolAssumption == PoolConnections \in Nat /\ MaxPool \in Nat /\ MaxFd \in Nat

VARIABLES
  connections, connection_count, pool, pool_size,
  open,            \* the descriptors the kernel has open for the process
  overrun          \* pool[RPC_MAX_POOL_SIZE] has been written

poolVars == <<connections, connection_count, pool, pool_size, open, overrun>>

rpc_connection_init == [fd |-> 0, addr |-> "", connected |-> FALSE, idle |-> FALSE]

rpc_transport_init ==
  /\ connections = [i \in 1 .. PoolConnections |-> rpc_connection_init] /\ connection_count = 0
  /\ pool = [i \in 1 .. MaxPool |-> rpc_connection_init] /\ pool_size = 0
  /\ open = {} /\ overrun = FALSE

pool_connection_close(conn) == [conn EXCEPT !.fd = 0, !.connected = FALSE]
Fresh(addr, fd) == [fd |-> fd, addr |-> addr, connected |-> TRUE, idle |-> FALSE]
NewFds == {f \in 1 .. MaxFd \ open : \A g \in 1 .. MaxFd \ open : f <= g}

rpc_transport_connect(addr) ==
  /\ connection_count < PoolConnections
  /\ \E f \in NewFds :
       /\ open' = open \cup {f}
       /\ connections' = [connections EXCEPT ![connection_count + 1] = Fresh(addr, f)]
  /\ connection_count' = connection_count + 1
  /\ UNCHANGED <<pool, pool_size, overrun>>

(* A user of the transport, or the event loop after rpc_keepalive_check,     *)
(* closes one.                                                               *)
Close(i) ==
  /\ i <= connection_count
  /\ open' = open \ {connections[i].fd}
  /\ connections' = [connections EXCEPT ![i] = pool_connection_close(@)]
  /\ UNCHANGED <<connection_count, pool, pool_size, overrun>>

(***************************************************************************)
(* The pool.                                                                 *)
(***************************************************************************)
Kept == {i \in 1 .. pool_size : pool[i].connected /\ ~ pool[i].idle}

(* Entry number w of the kept ones moves to position w; what is dropped is    *)
(* closed where it stands, unless a kept one has been put there.             *)
Shrunk ==
  [w \in 1 .. MaxPool |->
     IF w <= Cardinality(Kept)
     THEN pool[CHOOSE i \in Kept : Cardinality({j \in Kept : j < i}) = w - 1]
     ELSE IF w <= pool_size /\ w \notin Kept THEN pool_connection_close(pool[w]) ELSE pool[w]]
DroppedFds == {pool[i].fd : i \in (1 .. pool_size) \ Kept}

ShrinksOpen == \* mutant: what is dropped is not closed
  /\ pool' = Shrunk
  /\ pool_size' = Cardinality(Kept)
  /\ UNCHANGED <<connections, connection_count, open, overrun>>

rpc_transport_pool_shrink ==
  /\ pool' = Shrunk
  /\ pool_size' = Cardinality(Kept)
  /\ open' = open \ DroppedFds
  /\ UNCHANGED <<connections, connection_count, overrun>>

(* The connection made for the pool is copied there and given back.          *)
Into(p, size, addr, fd) == IF size < MaxPool THEN [p EXCEPT ![size + 1] = Fresh(addr, fd)] ELSE p

rpc_transport_pool_acquire(addr) ==
  LET full == pool_size >= MaxPool
      p    == IF full THEN Shrunk ELSE pool
      size == IF full THEN Cardinality(Kept) ELSE pool_size
      left == IF full THEN open \ DroppedFds ELSE open
  IN  /\ \A i \in 1 .. pool_size : ~ (pool[i].connected /\ pool[i].addr = addr)
      /\ connection_count < PoolConnections
      /\ \E f \in {g \in 1 .. MaxFd \ left : \A h \in 1 .. MaxFd \ left : g <= h} :
           /\ open' = left \cup {f}
           /\ connections' = [connections EXCEPT ![connection_count + 1] = Fresh(addr, f)]
           /\ pool' = Into(p, size, addr, f)
      /\ overrun' = (size >= MaxPool)
      /\ pool_size' = size + 1
      /\ UNCHANGED connection_count

(* The connection for it cannot be made: only the clean-up has happened, and *)
(* the slot behind the last one is blank.                                    *)
AcquireFails(addr) ==
  LET full == pool_size >= MaxPool
      size == IF full THEN Cardinality(Kept) ELSE pool_size
  IN  /\ \A i \in 1 .. pool_size : ~ (pool[i].connected /\ pool[i].addr = addr)
      /\ pool' = [i \in 1 .. MaxPool |-> IF i = size + 1 THEN rpc_connection_init
                                         ELSE IF full THEN Shrunk[i] ELSE pool[i]]
      /\ overrun' = (size >= MaxPool)
      /\ pool_size' = size
      /\ open' = IF full THEN open \ DroppedFds ELSE open
      /\ UNCHANGED <<connections, connection_count>>

rpc_transport_pool_release(i) ==
  /\ i <= pool_size
  /\ pool' = [pool EXCEPT ![i].idle = FALSE]
  /\ UNCHANGED <<connections, connection_count, pool_size, open, overrun>>

(* Three minutes without a release of it.                                    *)
Idle(i) ==
  /\ i <= pool_size /\ pool[i].connected
  /\ pool' = [pool EXCEPT ![i].idle = TRUE]
  /\ UNCHANGED <<connections, connection_count, pool_size, open, overrun>>

Closed(array, count) == [i \in DOMAIN array |-> IF i <= count THEN pool_connection_close(array[i]) ELSE array[i]]

rpc_transport_close_all ==
  /\ connections' = Closed(connections, connection_count) /\ connection_count' = 0
  /\ pool' = Closed(pool, pool_size) /\ pool_size' = 0
  /\ open' = open \ ({connections[i].fd : i \in 1 .. connection_count} \cup {pool[i].fd : i \in 1 .. pool_size})
  /\ UNCHANGED overrun

(* What a write behind the pool does to pool_size and the fields after it is *)
(* not followed: the program stops there.                                    *)
PoolNext ==
  /\ ~ overrun
  /\ \/ \E a \in PoolAddresses : rpc_transport_connect(a) \/ rpc_transport_pool_acquire(a) \/ AcquireFails(a)
     \/ \E i \in 1 .. PoolConnections : Close(i)
     \/ \E i \in 1 .. MaxPool : rpc_transport_pool_release(i) \/ Idle(i)
     \/ rpc_transport_pool_shrink \/ rpc_transport_close_all

PoolSpec == rpc_transport_init /\ [][PoolNext]_poolVars

-----------------------------------------------------------------------------
Holders(f) ==
  Cardinality({i \in 1 .. connection_count : connections[i].fd = f})
  + Cardinality({i \in 1 .. pool_size : i <= MaxPool /\ pool[i].fd = f})

(* Transport: every open socket is held by exactly one live entry of the two  *)
(* arrays, and no live entry holds a closed one, though entries are copied    *)
(* between the arrays and the stale copies stay behind.                      *)
SocketsOwned ==
  ~ overrun => \A f \in 1 .. MaxFd : Holders(f) = IF f \in open THEN 1 ELSE 0

-----------------------------------------------------------------------------
(***************************************************************************)
(* rpc_interceptor.c: a chain of interceptors, kept in order of priority.    *)
(* A request goes down the chain until one refuses it; a response comes back *)
(* up.  Only a rate limiter refuses, and its tokens are the only state the    *)
(* rest depends on; what the others print and count is left out.  An         *)
(* interceptor is copied into the chain with the pointer to its context, so  *)
(* that one made once may be in the chain twice, or come back to it, with    *)
(* the tokens it has; the context of one that is removed stays.              *)
(***************************************************************************)

CONSTANTS
  Names,           \* the interceptors in use, of those interceptor_make_* builds
  MaxChain,        \* RPC_MAX_INTERCEPTORS
  MaxPerSecond,    \* the rate limiter's max_per_second
  MaxAdds,         \* a bound on the interceptors added in a behaviour
  MaxLimiters,     \* a bound on the rate limiters made in a behaviour
  MaxTime          \* a bound on the seconds of a behaviour

ASSUME ChainAssumption ==
  /\ Names \subseteq {"logging", "auth", "metrics", "rate_limit", "retry", "tracing"}
  /\ MaxChain \in Nat /\ MaxPerSecond \in Nat /\ MaxAdds \in Nat /\ MaxLimiters \in Nat /\ MaxTime \in Nat

VARIABLES
  chain,           \* chain->interceptors
  limiters,        \* the RateLimitContexts, and what each let through this second
  now,
  serial,          \* the interceptors added so far
  trace            \* what the last invocation ran: down, up, and its verdict

chainVars == <<chain, limiters, now, serial, trace>>

(* interceptor_make_logging, _auth, _metrics, _rate_limit, _retry, _tracing.  *)
interceptor_make ==
  [logging    |-> [priority |-> 100, before |-> TRUE,  after |-> TRUE],
   auth       |-> [priority |-> 50,  before |-> TRUE,  after |-> FALSE],
   metrics    |-> [priority |-> 200, before |-> FALSE, after |-> TRUE],
   rate_limit |-> [priority |-> 40,  before |-> TRUE,  after |-> FALSE],
   retry      |-> [priority |-> 30,  before |-> TRUE,  after |-> FALSE],
   tracing    |-> [priority |-> 60,  before |-> TRUE,  after |-> TRUE]]

interceptor_chain_init ==
  /\ chain = <<>> /\ serial = 0 /\ limiters = <<>> /\ now = 0
  /\ trace = [down |-> <<>>, up |-> <<>>, refused |-> FALSE]

Priority(ic) == interceptor_make[ic.name].priority

(* Before the first one of a larger priority.                                *)
InsertPos(name) ==
  LET k == SelectInSeq(chain, LAMBDA ic : interceptor_make[name].priority < Priority(ic))
  IN  IF k = 0 THEN Len(chain) + 1 ELSE k

RateLimitContext(t, time, n) == [tokens |-> t, last_refill |-> time, passed |-> n]

interceptor_make_rate_limit ==
  /\ Len(limiters) < MaxLimiters
  /\ limiters' = Append(limiters, RateLimitContext(MaxPerSecond, now, 0))
  /\ UNCHANGED <<chain, now, serial, trace>>

(* Of a rate limiter, the number of its context; the others need none.       *)
Contexts(name) == IF name = "rate_limit" THEN DOMAIN limiters ELSE {0}

interceptor_chain_add(name, enabled, context) ==
  /\ Len(chain) < MaxChain /\ serial < MaxAdds
  /\ chain' = InsertAt(chain, InsertPos(name),
                       [name |-> name, enabled |-> enabled, serial |-> serial, context |-> context])
  /\ serial' = serial + 1
  /\ UNCHANGED <<limiters, now, trace>>

interceptor_chain_remove(name) ==
  LET k == SelectInSeq(chain, LAMBDA ic : ic.name = name) IN
  /\ k > 0
  /\ chain' = RemoveAt(chain, k)
  /\ UNCHANGED <<limiters, now, serial, trace>>

(***************************************************************************)
(* One invocation.  A rate limiter tops its tokens up once per second, in    *)
(* the first request it sees in that second, and takes one for each request  *)
(* it lets by: one that stands in the chain twice takes two.                 *)
(***************************************************************************)
Refilled(l) ==
  IF now > l.last_refill
  THEN LET t == l.tokens + (now - l.last_refill) * MaxPerSecond
       IN  IF t > MaxPerSecond THEN MaxPerSecond ELSE t
  ELSE l.tokens

Limiters == {i \in DOMAIN chain : chain[i].enabled /\ chain[i].name = "rate_limit"}
SameBefore(i) == {j \in Limiters : j < i /\ chain[j].context = chain[i].context}
Dry == {i \in Limiters : Cardinality(SameBefore(i)) >= Refilled(limiters[chain[i].context])}
Refuser == \* the position of the limiter that finds no token, or 0
  IF Dry = {} THEN 0 ELSE CHOOSE i \in Dry : \A j \in Dry : i <= j

(* Where context c let the request by, and what is left in it.               *)
Passing(c) == {i \in Limiters : chain[i].context = c /\ (Refuser = 0 \/ i < Refuser)}
interceptor_builtin_rate_limit_before(c) ==
  RateLimitContext(Refilled(limiters[c]) - Cardinality(Passing(c)), now,
                   limiters[c].passed + Cardinality(Passing(c)))
Asked == {chain[i].context : i \in {j \in Limiters : Refuser = 0 \/ j <= Refuser}}

(* Those of the first ones that are enabled and have the callback, in order.  *)
Running(which, upto) == {i \in 1 .. upto : chain[i].enabled /\ interceptor_make[chain[i].name][which]}
Runs(which, upto) ==
  LET R == Running(which, upto) IN
  [w \in 1 .. Cardinality(R) |-> chain[CHOOSE i \in R : Cardinality({j \in R : j < i}) = w - 1]]

interceptor_before_invoke ==
  Runs("before", IF Refuser = 0 THEN Len(chain) ELSE Refuser)
interceptor_after_invoke ==
  IF Refuser = 0 THEN Reverse(Runs("after", Len(chain))) ELSE <<>>

Invoke ==
  /\ trace' = [down |-> interceptor_before_invoke, up |-> interceptor_after_invoke,
               refused |-> Refuser # 0]
  /\ limiters' = [c \in DOMAIN limiters |->
                    IF c \in Asked THEN interceptor_builtin_rate_limit_before(c) ELSE limiters[c]]
  /\ UNCHANGED <<chain, now, serial>>

Tick ==
  /\ now < MaxTime
  /\ now' = now + 1
  /\ limiters' = [c \in DOMAIN limiters |-> [limiters[c] EXCEPT !.passed = 0]]
  /\ UNCHANGED <<chain, serial, trace>>

ChainNext ==
  \/ \E n \in Names :
       \/ interceptor_chain_remove(n)
       \/ \E e \in BOOLEAN, c \in Contexts(n) : interceptor_chain_add(n, e, c)
  \/ interceptor_make_rate_limit
  \/ Invoke
  \/ Tick

ChainSpec == interceptor_chain_init /\ [][ChainNext]_chainVars

-----------------------------------------------------------------------------
(* interceptor_chain_add and _remove: whatever comes and goes, a request meets *)
(* the interceptors in order of priority, equals in the order they were      *)
(* added, and a response meets them the other way round.                     *)
Earlier(a, b) == Priority(a) < Priority(b) \/ (Priority(a) = Priority(b) /\ a.serial < b.serial)
ChainOrderly ==
  /\ \A i, j \in DOMAIN trace.down : i < j => Earlier(trace.down[i], trace.down[j])
  /\ \A i, j \in DOMAIN trace.up : i < j => Earlier(trace.up[j], trace.up[i])

(* Rate limiter: one that was made lets no more requests by in a second than *)
(* its max_per_second, though it is removed and comes back, or is in the      *)
(* chain twice.  A second one made in its place has tokens of its own.       *)
RateHolds == \A c \in DOMAIN limiters : limiters[c].passed <= MaxPerSecond

-----------------------------------------------------------------------------
(***************************************************************************)
(* rpc_protocol.c: two sessions that shake hands and exchange frames over a  *)
(* network that loses, repeats, reorders and damages them.  A stream has the *)
(* same number on both sides; its chunks carry a sequence number, and the    *)
(* receiver keeps the one it expects and drops the others.                   *)
(*                                                                           *)
(* A frame is a record, and its CRC a bit that says whether it is the frame  *)
(* that was built: CRC-32 is taken to notice damage.  A version is a number, *)
(* 1 for RPC_PROTO_VER_1_0.                                                  *)
(***************************************************************************)

CONSTANTS
  MaxStreams,      \* RPC_PROTO_MAX_STREAMS
  AnyVersion,      \* RPC_PROTO_VER_ANY
  HighWatermark,   \* in chunks
  MaxOpens,        \* a bound on the streams a side opens in a behaviour
  MaxChunks        \* a bound on the chunks sent in a behaviour

ASSUME StreamAssumption == MaxStreams \in Nat /\ MaxOpens \in Nat /\ MaxChunks \in Nat

VARIABLES
  sess,            \* the two RPCProtocolSessions
  net,             \* every frame that was sent: any of them may arrive, never or often
  sent,            \* the chunks each side has sent on each stream
  chunks           \* the number of chunks sent

streamVars == <<sess, net, sent, chunks>>

Sides == {"A", "B"}
Peer(x) == CHOOSE y \in Sides : y # x

RPCStream == [stream_id |-> 0, active |-> FALSE, closed |-> FALSE, next_sequence |-> 0,
              expected_sequence |-> 0, reassembly_buffer |-> <<>>]

rpc_proto_session_init ==
  /\ sess = [x \in Sides |-> [version |-> 1, handshake_complete |-> FALSE, next_stream_id |-> 1,
                              streams |-> [i \in 1 .. MaxStreams |-> RPCStream]]]
  /\ net = {} /\ chunks = 0
  /\ sent = [x \in Sides |-> [id \in 1 .. MaxOpens |-> <<>>]]

(***************************************************************************)
(* The handshake.  The side that builds one is done with it at once.         *)
(***************************************************************************)
rpc_proto_version_compare(a, b) == a = b \/ a = AnyVersion \/ b = AnyVersion \/ a < b

rpc_proto_version_negotiate(a, b) ==
  CASE a = AnyVersion -> b
    [] a # AnyVersion /\ b = AnyVersion -> a
    [] OTHER -> IF rpc_proto_version_compare(a, b) THEN a ELSE b

rpc_proto_build_handshake(x) ==
  /\ net' = net \cup {[type |-> "HANDSHAKE", from |-> x, version |-> sess[x].version]}
  /\ sess' = [sess EXCEPT ![x].handshake_complete = TRUE]
  /\ UNCHANGED <<sent, chunks>>

(* The own version counts as 1.0 here, whatever the session says.            *)
rpc_proto_parse_handshake(x, f) ==
  /\ f.type = "HANDSHAKE" /\ f.from = Peer(x)
  /\ sess' = [sess EXCEPT ![x].handshake_complete = TRUE,
                          ![x].version = rpc_proto_version_negotiate(1, f.version)]
  /\ UNCHANGED <<net, sent, chunks>>

(***************************************************************************)
(* Streams.                                                                  *)
(***************************************************************************)
find_stream(x, id) ==
  LET hits == {i \in 1 .. MaxStreams : sess[x].streams[i].active /\ sess[x].streams[i].stream_id = id}
  IN  IF hits = {} THEN 0 ELSE CHOOSE i \in hits : \A j \in hits : i <= j

Opened(s, id) == [s EXCEPT !.stream_id = id, !.active = TRUE, !.closed = FALSE, !.next_sequence = 0,
                           !.expected_sequence = 0, !.reassembly_buffer = <<>>]

rpc_proto_stream_open(x) ==
  LET free == {i \in 1 .. MaxStreams : ~ sess[x].streams[i].active} IN
  /\ free # {} /\ sess[x].next_stream_id <= MaxOpens
  /\ LET i == CHOOSE k \in free : \A j \in free : k <= j IN
       sess' = [sess EXCEPT ![x].streams[i] = Opened(@, sess[x].next_stream_id),
                            ![x].next_stream_id = @ + 1]
  /\ UNCHANGED <<net, sent, chunks>>

(* A frame of stream i of x, as rpc_proto_frame_build makes it.              *)
rpc_proto_frame_build(x, i, type, payload) ==
  [type |-> type, from |-> x, stream_id |-> sess[x].streams[i].stream_id,
   sequence |-> sess[x].streams[i].next_sequence, payload |-> payload]

rpc_proto_stream_send(x, id) ==
  LET i == find_stream(x, id) IN
  /\ i > 0 /\ ~ sess[x].streams[i].closed /\ chunks < MaxChunks
  /\ net' = net \cup {rpc_proto_frame_build(x, i, "STREAM_DATA", chunks)}
  /\ sess' = [sess EXCEPT ![x].streams[i].next_sequence = @ + 1]
  /\ sent' = [sent EXCEPT ![x][id] = Append(@, chunks)]
  /\ chunks' = chunks + 1

(* A frame that is damaged fails to parse and is as good as lost.            *)
rpc_proto_frame_parse(x, f) == f.type # "HANDSHAKE" /\ f.from = Peer(x)

(* Only data changes anything: the end of a stream is not looked at.         *)
rpc_proto_stream_recv(x, f) ==
  LET i == find_stream(x, f.stream_id) IN
  /\ rpc_proto_frame_parse(x, f) /\ f.type = "STREAM_DATA"
  /\ i > 0 /\ f.sequence = sess[x].streams[i].expected_sequence
  /\ sess' = [sess EXCEPT ![x].streams[i].expected_sequence = @ + 1,
                          ![x].streams[i].reassembly_buffer = Append(@, f.payload)]
  /\ UNCHANGED <<net, sent, chunks>>

rpc_proto_stream_close(x, id) ==
  LET i == find_stream(x, id) IN
  /\ i > 0
  /\ net' = net \cup {rpc_proto_frame_build(x, i, "STREAM_END", 0)}
  /\ sess' = [sess EXCEPT ![x].streams[i].active = FALSE, ![x].streams[i].closed = TRUE]
  /\ UNCHANGED <<sent, chunks>>

(* For the caller to look at; nothing in the protocol acts on it.            *)
rpc_proto_stream_is_backpressured(x, id) ==
  find_stream(x, id) > 0 /\ Len(sess[x].streams[find_stream(x, id)].reassembly_buffer) > HighWatermark

StreamNext ==
  \/ \E x \in Sides :
       \/ rpc_proto_build_handshake(x) \/ rpc_proto_stream_open(x)
       \/ \E id \in 1 .. MaxOpens : rpc_proto_stream_send(x, id) \/ rpc_proto_stream_close(x, id)
       \/ \E f \in net : rpc_proto_parse_handshake(x, f) \/ rpc_proto_stream_recv(x, f)

StreamSpec == rpc_proto_session_init /\ [][StreamNext]_streamVars

-----------------------------------------------------------------------------
(* rpc_proto_stream_recv: what has been put together for a stream is a prefix *)
(* of what the peer sent on the stream of that number, whatever the network  *)
(* lost, repeated or delayed, and over any reuse of the slots.               *)
StreamPrefix ==
  \A x \in Sides, i \in 1 .. MaxStreams :
    LET s == sess[x].streams[i] IN
    s.active => IsPrefix(s.reassembly_buffer, sent[Peer(x)][s.stream_id])

(* Transport, interceptors and streams: one owner for every open socket, the  *)
(* order of the chain and the limit of each limiter, and streams put together  *)
(* as they were sent.                                                        *)
TransportSound == SocketsOwned /\ ChainOrderly /\ RateHolds /\ StreamPrefix
=============================================================================
