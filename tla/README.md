# A TLA+ model of mini-network-dist-proto

The repository is a collection of seven independent C packages, each a single-threaded
model of a family of network or distributed-system protocols. There is no network and no
thread in most of it: a *cluster* is an array of structures, a *message* a function call
or an entry of a ring, and concurrency is the order in which a caller makes the calls.
Only the RPC server starts threads, and only the proxy and the RPC transport open
sockets. The hard part is therefore exactly that order. Every package exports a set of
functions that may be called by many logical actors (transactions, clients, nodes,
participants) in any interleaving, and the documents promise protocol properties
(agreement, serializability, mutual exclusion, atomicity) of the whole.

This directory models these components, checks them with TLC on small instances
(eight passing runs, one per family of components, and four runs that exhibit a
disagreement between the code and its own comments) and proves with TLAPS, for every
instance, more than half of the properties the runs check: what Raft, Paxos, the commit
protocols, the storage engines, the locks and leases, the work queue of the RPC
server, the connection pools and rate limiters of the gateway and the clocks, quorums
and elections of the theory package promise.

## 1. Inventory

`PROJECT.json` lists every component with its sources, its status and a note.

### mini-dist-protocol

| component | state | operations | what is hard, what makes it correct |
|---|---|---|---|
| raft | array of `RaftNode` (state, term, vote, log, commit, next/match index, active) | `raft_tick`, `raft_submit_command`, isolate, reconnect; internally request vote, heartbeat, append entries | one node's tick runs a whole round against all others; elections and replication interleave with isolation. Terms, logs and commits monotone and ordered; agreement |
| paxos | acceptors' promises and acceptances, proposers, learned values | prepare, promise, accept, accepted, learn, multi-Paxos leader and replication | competing proposers, lost answers; at most one value chosen |
| leader_election | bully, ring and ZooKeeper-style nodes | election, declare, crash, recover, watch | crash during an election; one leader, the right one |
| gossip, swim | peers' data and views, incarnation numbers, suspicion timers | push/pull rounds; ping, indirect ping, suspect, confirm, refute | stale news overtaking fresh news; convergence, refutation |
| distributed_apps | a 2PC store, a replicated key-value store, a lock service | prepare/commit/abort, put/get/replicate/quorum read, acquire/renew/release/tick | partial replication, lease expiry |
| advanced_topics | CRDTs, vector clocks, an eventually consistent store | increments, merges, hinted handoff, read repair | order and repetition of merges |
| consensus_theorems | demonstrations (FLP, CAP, two generals) | – | numbers and prints, little state |

### mini-dist-transaction

| component | state | operations | what is hard, what makes it correct |
|---|---|---|---|
| two_pc | participant objects, coordinator with *copies* of them, phase, timed-out flag | enlist, vote, prepare, commit, abort, timeout; 3PC adds precommit | calls in any order, votes after enlistment, timeouts between the phases; a commit is unanimous |
| saga | steps with status, transaction status | add, execute, retry, reset | failure after partial success; all effects or none |
| tcc | resources with state, phase, tried count | add, try, confirm, cancel, execute | repeated tries; no reservation leaks, all used or none |
| xa | enlisted resource managers, transaction state | start, end, prepare, commit, rollback, heuristics | a refusal after others prepared; no commit over a refusal |
| occ | record table, version counter, copies of active transactions, watermarks | begin, read, write, validate, commit, abort | interleaved transactions, full tables; serializability |
| mvcc | version chains, timestamp oracle, active transactions | begin, snapshot read, write, validate, commit, abort, GC | overlapping writers, full version array; snapshots, first committer wins |
| dist_lock | locks by resource, one shared wait queue; Redlock over several managers | acquire, release, renew, expire, process queue, upgrade; Redlock acquire and release | leases running out between calls, renewals of dead leases, interleaved walks over the nodes; mutual exclusion |
| fencing | token slots, counter, guard | issue, validate, check-and-advance, revoke | delayed writers; no stale write |
| wal | circular record array, LSNs, flush position | append, flush, checkpoint, analyse, redo, undo, recover | a crash anywhere, twice; recovery restores the committed state |
| idempotency | LRU cache of processed requests | check, record, evict, retry loop | retries that overlap or outlive the cache; executed once |
| isolation_levels | none (functions on given histories) | anomaly tables, cycle and write-skew detection | pure algorithms, to be checked against their definitions |

### mini-dist-system-theory

`raft` (a second, message-queue Raft), `leader_election` (message-queue bully,
ring and heartbeat election), `gossip`, `crdt` (G-counter, PN-counter, G-set,
2P-set, OR-set, LWW register), `time_ordering` (Lamport, vector and hybrid
clocks), `snapshot` (Chandy–Lamport), `byzantine` (oral messages), `dht` (Chord
and consistent hashing), `cap_theorem` (a partitioned replicated register),
`flp_impossibility` (an adversarial scheduler). Their queues make delivery order
explicit. What makes them correct: merges form a semilattice, clocks respect
causality, a snapshot is a consistent cut, a lookup finds the responsible node.

### mini-gateway-proxy

`circuit_breaker` (closed, open, half-open with counters and a timer),
`connection_pool` (bounded pool, idle and lifetime eviction, pool manager),
`rate_limiter` (token bucket, leaky bucket, windows, per client),
`load_balancer` (round robin, weighted, least connections, hash ring),
`service_discovery` (registry with TTL), `middleware_chain`, `api_gateway`
(routes and plugins), `reverse_proxy` (poll loop), `tls_termination`
(negotiation), `http_message` (text), `lean_formal` (prints). Hard: limits and
timers at their boundary, a connection used by two borrowers, a breaker that
never closes again.

### mini-network-base

`socket_tcp` (TCP state machine), `tcp_congestion` (RTT estimation, slow start,
recovery), `tls_handshake` (TLS 1.3 states), `ip_routing` (longest prefix,
aggregation, Dijkstra, Bellman–Ford), `ip_packet` (fragmentation and reassembly),
`udp_dns` (resolver), `icmp_proto` and `http_basic` (single messages).

### mini-app-protocol

`http2_frames` (settings, streams, flow control, priority tree), `mqtt` (broker
with sessions, subscriptions, retained messages, QoS), `websocket` (handshake and
frames), `sse` (event stream and reconnection), `grpc_proto`, `rest_api`.

### mini-rpc-framework

`rpc_server` (the one component with threads: an event loop and workers around a
bounded ring without a lock, graceful shutdown), `rpc_protocol` (handshake,
streams with sequence numbers), `rpc_registry`, `rpc_transport` (connections, their
pool and keepalive), `rpc_stub` (retries, asynchronous calls, timeouts),
`rpc_interceptor`, `rpc_encoding`. Hard: what a thread does between two accesses of
the ring, shutdown against workers, lost and repeated frames, a clock that wraps.

### Interactions

Packages do not call each other. Inside a package the components meet in a few places:
Redlock runs over several lock managers; two-phase and three-phase commit share
participants; the API gateway calls breaker and limiter on the path of a request
(`ApiGateway` instantiates `Admission`); the RPC stub calls registry and transport (both
in `RpcStub`), and the server owns the transport's listening side (`RpcServer`).

## 2. Modules

| module | models | how |
|---|---|---|
| `Raft` | `mini-dist-protocol/src/raft.c` | `nodes` is the cluster array, `turn` the loop index of `raft_tick`; one action per iteration of that loop, with all calls it makes to the other nodes, and one per client call; `LeaderView` merges states that differ only in dead leader bookkeeping |
| `RaftProof` | | proofs |
| `Consensus` | – | the abstract specification: at most one value is ever chosen, and it was proposed |
| `PaxosAcceptor` | `mini-dist-protocol/src/paxos.c` | acceptor, learner and proposal numbers, shared by the next two |
| `Paxos` | the same, `paxos_run_instance` | one call of `paxos_promise` or `paxos_accepted` on one acceptor is a step, so the rounds of several proposers interleave; implements `Consensus` |
| `ConsensusProof` | | proofs: Paxos and its log, SWIM, gossip and the quorum store, the leases and transactions of `DistributedApps` |
| `MultiPaxos` | the same, `multi_paxos_*` | whole calls in any order: instances, elections of a leader, replication |
| `Elections` (bully, ring, sequence numbers) | `leader_election.c` | one action per exported call; an election runs to its end inside the call, as in the code |
| `Membership`, gossip | `gossip.c` | `at` is the loop position of a round; one exchange between two nodes is a step, writes and failures fall between them |
| `Membership`, SWIM | `swim.c` | the shared membership table; `sent` keeps the changes ever sent, which may arrive again at any time; `since` is history: when a suspicion began |
| `TwoPC`, two and three phases | `two_pc.c` | the coordinator record with its copies of the participants; one action per function |
| `TwoPC`, XA | `xa.c` | one action per call; the resource managers answer nondeterministically; `forced` is history: what `xa_handle_heuristic` committed before the transaction was prepared |
| `Compensation`, saga | `saga.c` | one action per callback of `saga_execute`, so that a failure or a compensation that does nothing can strike between any two |
| `Compensation`, TCC | `tcc.c` | one action per call; the parameter is the number of tries that succeed; any confirm or cancel callback may fail, which the code does not look at |
| `CommitProof` | | proofs: two and three phases, sagas, TCC, XA |
| `Occ`, `Mvcc` | `occ.c`, `mvcc.c` | one action per call of a transaction handle; calls of different handles interleave |
| `Wal` | `wal.c` | the log manager, an external database whose pages reach disk at any moment, crash and recovery; the analysis pass has room for `MaxTracked` transactions |
| `DistLock` | `dist_lock.c` | every call as a function from a lock manager to a lock manager |
| `LockManager` | the same | one manager, its clients, a clock |
| `Redlock` | `redlock_acquire`, `redlock_release` | clients walk the managers one node per step |
| `OnceOnly` (fencing tokens, idempotency) | `fencing.c`, `idempotency.c` | clients with tokens; server, cache and retrying clients |
| `StorageProof`, `LocksProof` | | proofs: `Occ`, `Mvcc` and `Wal`; the lock manager, `Redlock` and `OnceOnly` |
| `MCCommit`, `MCStorage`, `MCLocks` | | compose the components of mini-dist-transaction for TLC |
| `DistributedApps` (`dtx_`, `dkv_`, `dlm_`) | `distributed_apps.c` | the transaction over participant values, the store with version vectors (an entry that was never initialised is any of `Garbage`), and the lease manager with unsigned times that wrap |
| `Membership`, quorum store | `advanced_topics.c`, `ec_*` | replicas that go off line and come back; a hint is filed where the code files it |
| `MCConsensus` | | composes Paxos, the elections, gossip, SWIM and the stores and leases for TLC |
| `Leadership`, Raft | `mini-dist-system-theory/src/raft.c` | nodes, one bounded ring of messages, one `leader_id`; a message, a passed deadline, a heartbeat or a client command is a step |
| `Leadership`, elections | the same package, `leader_election.c` | the three modes; `draining` is the loop of `le_process_messages`, one message per step |
| `Convergence`, gossip | `gossip.c` | pushes and pulls in a ring that drops what does not fit; `sender` is whose turn it is in a round of `gossip_rounds_to_converge`, or -1 when the program calls sending and processing itself |
| `Convergence`, CRDTs | `crdt.c` | `net` holds every state a replica ever had: any of them may be merged at any time; `seen` is history |
| `Causality` (snapshot, clocks) | `snapshot.c`, `time_ordering.c` | markers taken in any order, resets and starts at any moment; three clocks side by side; `orderly` and `events` are history |
| `Quorums` (partitioned store, generals), `Dht` | `cap_theorem.c`, `byzantine.c`, `dht.c` | one action per call; the oral-messages loop one lieutenant per step |
| `MCTheory` | | composes these for TLC |
| `TheoryProof` | | proofs: the clocks, the partitioned store, the generals, the elections of Raft, the hash rings |
| `Admission`, breaker | `mini-gateway-proxy/src/circuit_breaker.c` | admission and result are two steps, so calls overlap; the clock is the age of the open state |
| `Admission`, limiters | `rate_limiter.c` | one action per call; tokens in units, the sliding log with the slots of its ring, `log` is history |
| `Backends`, pool | `connection_pool.c` | borrowers, reaper and pool manager; seconds and fractions kept apart as in `timespec` |
| `Backends`, discovery; `LoadBalancer` | `service_discovery.c`, `load_balancer.c` | one action per call; the hashes of virtual nodes are any function, times are ages |
| `ApiGateway` (with the middleware chain), `ReverseProxy` | `middleware_chain.c`, `api_gateway.c`, `reverse_proxy.c` | one handler, one request, one read or write of a socket per step; a write may never return |
| `MCGateway` | | composes these for TLC |
| `GatewayProof` | | proofs: the connection pools, the rate limiters, the way of a request through middleware, routes and proxy |
| `RpcServer` | `rpc_server.c`, server side of `rpc_transport.c` | every thread has a program counter; a step ends at each access to the shared ring or flags, and the shutdown is a thread of its own; `recv` waits for as long as the client likes |
| `RpcStub` (with the registry) | `rpc_registry.c`, dispatch table of `rpc_server.c`, `rpc_stub.c` | tables closed up when an entry goes; asynchronous contexts and a clock of `Period` values; `frames` is the stack of callbacks that are running, each of which may call the stub again |
| `RpcTransport`, pool and interceptors | client side of `rpc_transport.c`, `rpc_interceptor.c` | arrays with the stale entries the code leaves behind; one action per call; `limiters` are the contexts that `interceptor_make_rate_limit` allocates, each with its own bucket |
| `RpcTransport`, streams | `rpc_protocol.c` | two sessions and a network that loses, repeats, reorders and damages frames |
| `Mqtt` | `mini-app-protocol/src/mqtt.c` | a manager at each end of a network that loses, repeats and reorders; several messages may have one id, trackers are removed in any state; the broker's table |
| `RpcProof` | | proofs: the work queue, the transport, registry and stub, MQTT |
| `MCRpc` | | composes these for TLC |

`LockManager` and `Redlock` share `DistLock`: the same definitions of
`lock_acquire` and `lock_release` are interleaved call by call in the first and
node by node in the second.

A module that holds several components keeps a section for each, with its own
variables and a next-state relation of its own (`BullyNext`, `RingNext`, ...); no
section reads the variables of another, but for the stub and its registry.

Components that share no state are checked in one run: a variable `part`, chosen
in the initial state, says which of them the behaviour exercises, and the others
stay as initialised. The state space is the sum, not the product, of the parts,
and every property of every part is checked on every state.

Data is abstracted to what the properties tell apart. Names, keys, values and
request ids are model values; a log record keeps LSN, type, transaction, key and
both images; printing, string lengths and statistics counters are left out. What
a component keeps in a fixed array is a sequence or a function with the array's
capacity as a CONSTANT, and the guard that protects the array is in the action.
Definitions keep the C names. History variables are named as such in each module
header and are never read by a guard.

Operators introduced by the comment "Mutant" are the plausible bugs against
which the properties are tested: each is a drop-in replacement of the definition
it stands in front of. No specification uses them.

## 3. Runs

### Passing

A property of a run is either one statement of a module or the conjunction of the
statements that several parts make about the same danger; the conjuncts have names
of their own in their modules. The type invariants of the parts are conjuncts of
one property per run.

* **raft** – three nodes, two terms, logs of two entries, one command, one node
  isolated at a time. `LogTermsSorted` (terms along a log never decrease or exceed
  the node's term, whatever leaders cut and extend it), `VotedForStarted` (a recorded
  vote belongs to the current term), `NeverBack` (no step takes a node back in term
  or commit index). Two terms are enough for one leader's entries to be overwritten
  by the next; three nodes are the smallest cluster with a majority that excludes a
  node.
* **commit** – 2PC with two participant objects and 3PC, both with an array of four,
  sagas of three steps, TCC with three resources used up to twice, XA with three
  resource managers. `CommitsCovered` (2PC and 3PC; participants enlisted late apart),
  `TimeoutFinal`, `AllOrNothing` (saga and TCC; a resource whose own confirm or cancel
  callback failed apart, because the code counts it as done), `NoCommitOverRefusal` (XA;
  what `xa_handle_heuristic` commits before the transaction is prepared apart). Arrays
  of three and four leave room for a participant before, at and after the one that
  fails, and for one enlisted late.
* **storage** – OCC with two transactions on three keys, tables and sets of two;
  MVCC with three transactions, two at a time, on two keys and three version slots;
  WAL with two transactions, two keys, a log of six records and one crash.
  `Serializable`, `SnapshotIsolation` (first committer wins, chains ordered, reads as
  of the snapshot), `RecoveryExact` (an action property: what the step of
  the recovery does after the first crash). The tables are small so that they fill up.
  `Serializable` speaks of the reads in the read set, `SnapshotIsolation` of keys of
  which no version was dropped: section 5 says what happens beyond.
* **locks** – two owners, two resources, leases of one and two ticks, a queue of one and
  a clock of three ticks; Redlock with two clients on three nodes and a lease of two;
  fencing with two clients and three resources in a table of two; three requests against
  a cache of two, each sent at most twice. `MutualExclusion`, `PromiseKept`, `OneHolder`
  (Redlock), `OnceAndInOrder` (fencing and idempotency), `NothingLeftBehind` (whatever
  order two walks over the nodes interleave in, no node keeps a lease for a client that
  has given up). The clock outlasts every first lease, so expired leases are renewed,
  swept and taken over.
* **consensus** – Paxos with three acceptors and two proposers whose number ranges wrap
  around after two rounds (the code's 1000 scaled down, so that reused numbers happen);
  the Paxos log with three leaders; elections among four nodes that crash and, in bully,
  recover, down to the last one; gossip among three nodes, one failing, of a key that
  reaches version 3 from several writers, so that versions compete; SWIM with two
  founding members, one joining and a clock that outlasts the dead timeout; leases of 0,
  1 and 7 on a clock of 8 values; a quorum store of three replicas with three outages;
  two replicas of the versioned store; a transaction over the values of two
  participants. `ImplementsConsensus` (the learners never change their value: `Paxos`
  refines `Consensus`), `AcceptedWithinPromise`, `RightNodeLeads`, `NothingTakenBack`,
  `ReportsTrue` (a quorum read is as new as every acknowledged write, gossip that
  reports agreement has it, a transaction's outcome is that of every participant),
  `LeasesKept`, `SuspicionEnds` (a running member is under suspicion for at most the
  dead timeout, counted from the moment the suspicion began and not from the timer the
  code keeps), `Converges`. Three acceptors are the smallest set in which two majorities
  share a single member, which is the only witness of a choice.
* **gateway** – a breaker with three overlapping callers, thresholds and timeout of two;
  a pool of two connections for two borrowers, its lifetimes at the carry from fractions
  to seconds; four limiters with a window of two, three requests to a window and a ring
  of two timestamps; three servers and two virtual nodes each on a ring of three
  positions, weights one and three; a registry of two endpoints; chains of three
  handlers; two routes; a proxy with two clients and three chunks each way.
  `PoolAccounts`, `RateWithinLimit`, `ServersInRotation`, `KeysStay`, `RequestsRelayed`
  (of a first read the rewritten header passes, and what follows it in order and without
  gaps), `RefusalEnds` (a breaker does not stay open or half-open). Capacities are one
  below what the actors ask for, so that every refusal happens.
* **theory** – a Raft cluster of three with a ring of three messages and two terms;
  elections among three nodes, two crashes or revivals, the highest not the last; gossip
  with a ring of three, which in push-pull mode drops half of a round; two replicas of
  each CRDT and three updates; three processes with channels both ways, and a reset or a
  second start at any moment; four events on three processes with two wall times; four
  writes under any partition of three nodes; a Chord ring of three ids that join again,
  with room for two keys at a node; four generals with one traitor. `OneLeaderPerTerm`
  (Raft), `SeenDecides` (the updates a replica has seen decide the value of counters and
  two-phase sets and bound that of the other types, equal versions mean equal values, a
  snapshot that no left-over marker, second start or full array disturbed is complete
  exactly when it was started and no marker is in flight, and nodes that have processed
  the messages of an election name one leader), `ClocksFollowCausality`,
  `QuorumsPrevail`, `KeysHandedOver` (a key is lost only for want of room, and moves
  between virtual nodes only with them), `ElectionsAndGossipEnd` (the loop over the
  messages of an election ends, unless the token of a crashed node goes round, and so do
  the rounds of gossip in each of its modes). Three updates are needed for two
  concurrent ones and one that has seen both; a ring smaller than the messages of a
  round makes it drop some.
* **rpc** – the server with no worker or one and a ring of three slots, one of them
  always free, for three connections, and with two workers for one; a registry with two
  services and a stub with two instances of one; three calls over a clock of four values
  with callbacks inside callbacks, two deep; pools of two; three interceptors, among them
  limiters made twice; a second stream in the slot of the first, with four chunks; MQTT
  with three messages, two under one id, in managers of two trackers, and with two
  messages in managers of three; two clients and three slots. `FifoOnce` (with one
  worker, or none, nothing is dispatched twice or out of turn, what the loop dispatches
  behind a joined worker included), `StubSound` (one entry for a service, instances out of
  rotation only after a silent interval, one callback for a call until a callback calls
  the stub where that does harm), `TransportSound` (one owner for a socket, the order of
  the interceptors, the rate of each limiter that was made, streams put together in
  order), `MqttDelivers` (an id that counts as complete was passed on, quality 2 once,
  unless the receiver removed a tracker of that id; a publication goes once to every
  client that asked for it and never disconnected, and to nobody else), `ServerProgress`.

Deadlock is checked in **raft** and **commit** only. Elsewhere clients may stop
calling, handles are used once, bounded clocks and counters come to an end, and an
election may hang (section 5).

### Fairness

Where the code waits for somebody else without a timeout, nothing is assumed of that
somebody; the first property below alone needs callers that behave.

* `RefusalEnds`: time passes; the callers of the breaker keep calling, and the functions
  it protects return. These are assumptions on the program around the breaker: one that
  nobody calls stays open by design. Nothing is said of the proxy's thread, which a
  client that is silent or does not read may hold for ever (section 5).
* `Converges`: weak fairness of the steps inside a round, for the same reason, strong
  fairness of starting push-pull rounds, which `gossip_converge` does in a loop, and
  strong fairness of each exchange between two neighbours, because
  `gossip_select_peer` draws every neighbour with positive probability.
* `ElectionsAndGossipEnd`: weak fairness of the loop of `le_process_messages`, and of
  processing at the end of a round of `gossip_rounds_to_converge`, in which the nodes
  send in their order first; strong fairness of each draw of a peer at a node's turn,
  because the draw gives every peer with positive probability. The loop's `max_rounds`
  is taken to be large enough, and the ring to hold a message of every node.
* `ServerProgress`: weak fairness of each thread of the server, and nothing of clients:
  nobody need connect, send, leave or shut down. The property has a premise instead, that
  no worker stays for ever in `recv` for a silent client (`NoneHeldForEver`); without it
  the property is false (section 5).

Each property is also run against a mutated definition (`mutants` in
`PROJECT.json`) under the same configuration, and is then violated.

### Violations

Each of these runs checks one statement of the repository's own documents or
comments, quoted in `findings`.

* **raft_safety** – `voted_for` is cleared without a new term: by `raft_become_leader`
  (raft.c:80), and when a node is reconnected (raft.c:353). In the run the leader of a
  term so grants a rival candidate of the same term its vote, and the two leaders commit
  different entries at one position.
* **wal_twice** – undo is not logged; a second crash repeats the undone changes.
* **kv_replicate** – the test in `dkv_replicate` is inverted: a newer version is
  skipped and an older value replaces a newer one.
* **rpc_shutdown** – the workers leave their loop as soon as the shutdown begins, so
  what is queued is never dispatched.

## 4. Proofs

The proof modules prove, for every value of the constants allowed by the named
assumptions, what the corresponding runs check on an instance. The assumptions say
that capacities, bounds and times are naturals, positive where the code cannot do
without, and that sentinels are no members of the sets they stand beside. A property
is seldom inductive as it stands; each paragraph below says what had to be added.
Every such invariant was checked by TLC before it was proved.

### mini-dist-protocol

**`RaftProof`** (assumption `RaftAssumption`: at least one node, naturals as
capacities and bounds) proves `[]TypeOK`, `[]LogTermsSorted`,
`[]VotedForStarted` and the action property `NeverBack`. A step of `raft_tick`
composes functions on the node array, so the lemmas are of the form *a sound
array stays sound and no node goes back* (`Sound`), and compose by transitivity.
The invariant adds that a node that is not a follower has a positive term,
without which a leader's first entry could carry term 0. The heart of it is
`MergeSorted`: the entry-by-entry merge of `raft_handle_append_entries` keeps a
log sorted when the batch is sorted, fits behind the previous entry and is not
beyond the leader's term.

**`ConsensusProof`** (assumptions `PaxosAssumption`: at least one node, a positive
stride, 0 is no value; `ProposersAssumption`: proposers are nodes) proves
`[]TypeOK`, `[]AcceptedWithinPromise` and that `Paxos` implements `Consensus`
(`ImplementsConsensus`). Acceptors remember only what they accepted last, and a
proposer uses numbers again after a wrap-around or a reset, so the textbook
argument over all votes ever cast is not available: a ballot does not determine a
value. The invariant `IInv` is `Base /\ Rounds /\ Learned`. `Base` carries what the
prepare loop gives because it visits every acceptor: no accepted number exceeds
*any* acceptor's promise (`Below`), so a number that is used again gets no promise
and a round that holds a promise has a number nobody accepted (`FreshNumber`).
`Lock(b, S, v)` says that whatever was accepted, reported or is being proposed
with number `b` or higher carries `v`, and that every promise of a member of `S`
to a higher number reported it; a lock is kept by every step as long as a majority
consists of `S` and of acceptors that promised nothing above `b` (`LockStep`).
`Rounds` says that a round which can still win a majority locks its value,
`Learned` that the learned value is locked by a majority. Acceptances of a round
that can no longer win are not covered, and need not be: that is why the lock
speaks of numbers from `b` on only. The proof leans on the loop of `paxos_prepare`
asking all acceptors; with the accept phase entered after the first majority of
promises (the mutant `PreparedEarly`) `AcceptedWithinPromise` fails.

**`ConsensusProof`, `distributed_apps.c`** (`LeaseAssumption`, `DtxValuesAssumption`)
proves `[]LeasesKept` of the lease manager and `[]OneOutcome` of the transaction over
values, a conjunct of `ReportsTrue`. A promise is an absolute time in a client's hands,
a lease an unsigned time in the manager's books, and the end of a lease may wrap
around. `LeaseInv` ties the two together: a promise that still runs *is* the booked
expiry of a lock granted to that client (`Booked`), and no lock's clock is ahead of the
manager's (`ClocksBelow`), so that the next grant gets a clock no lock has. For the
transaction the votes before the commit are what matters: once PREPARED, everybody
voted yes for a value other than 0.

**`ConsensusProof`, Multi-Paxos** (`MultiPaxosAssumption`: at least one try) proves
`[]LeaderHoldsPromise`, a conjunct of `RightNodeLeads`, and that no learner goes back to
an earlier round, a conjunct of `NothingTakenBack`. `TopCovers` says that all acceptors
have promised the same number, the highest a proposer has drawn, because a prepare visits
all of them; `LeaderOvertaken` that whoever took the promise from a leader did so with a
number of its own range, which is not the leader's.

**`ConsensusProof`, SWIM** (`SwimAssumption`: ids, times and bounds are naturals) proves
`[]SuspicionEnds` and the rest of `NothingTakenBack`. An id may have several entries in
the table, and `swim_find` returns the first: `Table` says that later entries of an id
stay ALIVE, so what is said of the first covers the id. The messages ever sent may
arrive at any time; none of them is newer than the entry it is about (`SentOld`), which
is why a late copy changes nothing and does not start the timer of a suspicion again.
The property counts from `since`, the moment a member came under suspicion, which no
action reads; that the timer of a suspect, which `InTime` bounds, has not been moved
since is part of the invariant (`Watched`).

**`ConsensusProof`, gossip and the quorum store** (`GossipAssumption`, `EcAssumption`)
proves `[]ReportsTrue`. Gossip needs that no node lists a key twice, through all the
loops of an exchange (`Tidy`): `gossip_all_synced` compares the lengths of two tables
and looks up the keys of one of them, and for tables without repetition that is
equality. For the store the invariant counts, for every key, the replicas that cover the
last acknowledged version (`EcInv`): they hold the key at that version or above, or they
are full and do not hold it, which no later call changes, the handing over of hints
included. A read that finds the key on a quorum therefore meets a replica that covers
the version and, as it holds the key, has it.

### mini-dist-transaction

**`CommitProof`** (`TwoPCAssumption`, `SagaAssumption`, `TccAssumption`, `XaAssumption`)
proves `[]CommitsCovered`, `TimeoutFinal`, `[]AllOrNothing` and `[]NoCommitOverRefusal`.
`TimeoutFinal`, an action property, needs that a coordinator that has timed out is not
in its COMMIT phase to begin with (`TimedOutAborted`). The saga's effects are a prefix
at rest, but while `saga_execute` runs they depend on where the loop stands:
`GoingForward` and `GoingBack` say which steps are done, which undone and which
untouched on either side of it. For TCC a resource counted as tried is reserved
(`TriedReserved`), and what a failed callback leaves reserved or unused is in `failed`,
which the property excepts. For XA the managers asked so far have all agreed while the
loop goes on, and only the branches that were asked can be committed; the branches that
`xa_handle_heuristic` commits before the transaction is prepared are in `forced` and
excepted, those it commits later are not.

**`LocksProof`, one lock manager** (assumptions `DistLockAssumption`,
`LockManagerAssumption`: capacities and times are naturals, the empty owner is no
owner) proves `Spec => []TypeOK`, `[]PromiseKept` and `[]MutualExclusion`. The
promise in a client's hands and the lease in the manager's books are different
things: a renewal or upgrade lets them diverge, so neither property is inductive.
The invariant `IInv` adds `PromiseBooked`: a running promise is at most
acquisition time plus lease of a lock the manager attributes to that owner. It
implies `PromiseKept`, which implies `MutualExclusion` because a lock has one
owner. The finiteness of the lock table is carried along for the cardinality in
`CanFind`. One lemma per call states what it does to a well-typed manager; the
step theorem has one case per action.

**`LocksProof`, Redlock** (`RedlockAssumption`) proves `[]OneHolder` under the
hypothesis `~Retry`, because with `Retry` it is false (section 5). Majorities meet
once it is known that a majority stays behind its client: `CallInv` counts, for every
client, the nodes that granted its current call and still record that grant. While the
lease counted from the start of the call runs nobody else can take one of them, and the
client gives them back only after it has given the lock up. Under the same hypothesis it
proves `[]NothingLeftBehind` (`RedlockLeavesNothing`): a node attributes a running lease
to a client only in front of its walk out or behind its walk back, whatever the other
clients do in between.

**`LocksProof`, fencing and idempotency** (`FencingAssumption`,
`IdempotencyAssumption`) proves `[]OnceAndInOrder` under the hypothesis `~ByPointer`;
with `ByPointer` it is false as well. In fencing the guard of a resource is at once the
number of the last accepted write and that of the newest writer. In the cache the LRU
counters order the slots as their last uses do (`LruOrder`), so the eviction hits the
request used longest ago, and a request that the cache can still remember has one
execution, which is over with an answer in the cache or still under way
(`Deliveries`).

**`StorageProof`, `Occ` and `Mvcc`** (`OccAssumption`, `MvccAssumption`) proves
`[]Serializable` and `[]SnapshotIsolation`. For OCC a record's version is at least the
timestamp of every commit that wrote the key (`Stamped`), so what passes backward
validation has been overwritten by nobody; a write that a full table drops is of a key
that nobody can read afterwards. For MVCC timestamps are never given out twice, and
while nothing of a key was dropped its chain lists exactly the committed writers in the
order of their commits (`Linked`); the newest version a snapshot may see is then the one
of the last writer that committed before it.

**`StorageProof`, `Wal`** (`WalAssumption`) proves the action property `RecoveryExact`:
a recovery after the first crash puts into the database what the committed transactions
wrote. It is stated of the step because nothing is true of the log afterwards: undo is
not logged, and **wal_twice** shows what a second crash makes of it. `ValueAt` is the
value of a key after a prefix of the log. While the system runs (`Running`) each key has
a boundary in the log: the changes up to it belong to committed transactions and give
the committed value, those beyond it to one transaction that is still active
(`Boundary`; a transaction changes no key another active one has changed), each change
holds the value it replaced, and a page on disk is as of some record that has been
flushed. The crash cuts the log behind a commit or within the changes of one
transaction, so the same boundary exists in what is left (`Fallen`). Redo then brings
every key to the end of the log, from whichever page it started, and undo back to the
boundary.

### mini-dist-system-theory

**`TheoryProof`** (`RaftClusterAssumption`, `ClocksAssumption`, `CapAssumption`,
`GeneralsAssumption`, `DhtAssumption`) proves five things.

* `[]OneLeaderPerTerm`. A vote is on its way as the request of a candidate to a node or
  as that node's granting reply; whatever the ring drops it carries each vote at most
  once (`Ring`). The invariant names the votes a standing node has counted, and says
  that a counted vote was cast in that term and is not on its way any more (`Counted`).
  Two quorums meet, and nobody votes twice in a term. The Raft of the other package
  forgets its vote when it becomes leader (**raft_safety**), and this argument fails there
  at exactly that point.
* `[]ClocksFollowCausality`. The property speaks of events, the next event gets its
  clocks from the process: the invariant says of the process what the property says of
  an event. Its clocks cover exactly what it has heard of, and nobody is ahead of
  process `p` in component `p`, so that the next number there is new.
* `[]QuorumsPrevail`, the partitioned store: a quorum of the nodes has the last
  accepted write, and a write that is refused changes nothing.
* `[]QuorumsPrevail`, the generals: among `n > 3m` generals the loyal ones other than
  the one that collects are at least `n - m - 1`, more than the `m` that may lie; that
  bound is the code's own precondition and part of the initial states.
* `KeysHandedOver`, an action property of every join, leave, store, addition and removal.
  The Chord ring: no node has more keys than its array, so that the heir's own keys
  survive the hand-over and what is handed over is there unless the array is now full;
  the fingers of active nodes name active nodes (`FingersLive`), which joining and
  leaving establish anew and storing does not disturb. The ring of virtual nodes: the
  first one at the least distance decides (`IsFirst`). Added ones come behind the others
  and lose every tie. Removal is a loop that closes up the array; what it leaves is
  shown to be the rest in its old order (`Places`), so a first one that stays is first
  again, whatever the collisions.

### mini-gateway-proxy

**`GatewayProof`** (`PoolAssumption`, `LimiterAssumption`, `ChainAssumption`,
`RoutesAssumption`) proves three things.

* `[]PoolAccounts`. The counters of a pool are right whatever is closed, because what
  is closed is idle or in use; the choices of `cp_acquire` and `cp_evict` exist because
  a set of places has a least one. That no connection is lent twice needs to know of
  the pointers in the borrowers' hands (`Pointer`): each names a place that was given
  out and is in use or closed but not idle, and closed places are not reused, so that
  what `cp_acquire` finds idle or adds is in nobody's hands.
* `[]RateWithinLimit`. Every call does one of three things to the parent limiter:
  nothing, a refill, or a refill and an admission (`RlSteps`). What the limiter
  remembers bounds what it admitted since any earlier request (`Charged`): a bucket by
  its level, the fixed window by its count and the number of windows that ended since,
  the sliding log because the timestamps it dropped are older than a window, also when
  its ring has wrapped and it reads later timestamps in the place of earlier ones. The
  sliding log is assumed to start on a machine that has been up for a window; before
  that `now - window` underflows and the log forgets everything (section 5).
* `[]RequestsRelayed`, of which each part has an invariant of its own. The middleware:
  what has run for a request is a beginning of the chain, and every handler of it but
  perhaps the last let the request pass (`ChainInv`); a handler is one of the five
  built-in ones. The routes: `gateway_match_route` keeps the longest match so far, so
  the proof states what its loop has found after `k` routes (`ScanSound`); paths are
  assumed non-empty, because the loop starts from a best length of 0 and does not
  remember an empty one that fits but is of another method. The proxy: behind the first
  read, what one side has been given followed by what the proxy has not read yet is what
  the other side has sent, for as long as the descriptor it writes to is open
  (`ProxyInv`, `Rest`); once that is closed a beginning of it has arrived. Of the first
  read the property says what arrives: the lines of the header at their places with the
  proxy's `Host` and `X-Forwarded-For`, and not the part of a body that was read with
  them, which `proxy_rewrite_headers` drops.

### mini-rpc-framework

**`RpcProof`, the server** (`RpcServerAssumption`) proves `[]FifoOnce`. The order of
what was dispatched says nothing of what is still in the ring, so the invariant `Ring`
orders the whole path of a request: dispatched before waiting before carried by the
loop, and the waiting ones along the ring from `head` to `tail`. Between its copy into a
slot and the move of `tail` the loop owns that slot, between its copy out of a slot and
the move of `head` the worker owns the slot at `head`. Once the shutdown has joined the
worker and set `worker_count` to 0 the loop dispatches itself what it accepts: `Down`
says that it does so only when every thread is done (`AllDone`), so that it overtakes
nothing but what stays in the ring for ever. The property, and with it the theorem,
speaks of one worker at most; with two it is false (section 5).

**`RpcProof`, the transport** (`PoolAssumption`, `ChainAssumption`, `StreamAssumption`)
proves `[]TransportSound`. `PoolInv`: every open socket is in exactly one of the two
arrays, once, whatever closing up an array leaves behind its end. `ChainInv`: the
interceptors are sorted by priority and, among equals, by age through every insertion
and removal, and for every limiter that was made the tokens left and the calls passed in
a second add up to its rate at most, in the chain, out of it or in it twice.
`StreamInv`: a frame under way carries the chunk of its number (`FrameTrue`), a stream
takes the frame it waits for and no other, and the number of a stream is given out once,
although its slot is used again.

**`RpcProof`, registry and stub** (`RegistryAssumption`, `StubAssumption`) proves
`[]StubSound`. `RegistryInv`: names are listed once, and an unhealthy instance has been
silent for longer than `StaleAfter`. For the calls the contexts move when one of them
goes, so the invariant speaks of the ids in them: no id twice, one that is not completed
has had no callback, and a call without a callback has such a context (`Books`). While
callbacks run the books are open: a call on the stack has an answer and a slot that is
not counted yet, a sweep on the stack a context that has been called back and is not
completed yet; `Stack` says which of them there can be as long as the history is not
`disturbed`. The theorem says nothing of a history in which a callback calls the stub
where that does harm: there it is false (section 5).

**`RpcProof`, MQTT** (`MqttAssumption`) proves `[]MqttDelivers`. `QosInv` says of every
packet that may still arrive what its receiver relies on: a PUBACK or PUBCOMP, that a
message of that id was passed on, a PUBREC or PUBREL, that the receiver has one in a
tracker or has passed it on, unless it removed one of that id that waited (`forgotten`);
and that a message of quality 2 that was passed on stands completed in front of the other
trackers of its id, unless one of that id was removed or moved (`shifted`). Ids are shared
by any number of messages. `BrokerInv`: of several slots of one client only the first has
subscriptions, and those the client asked for; of a client that never disconnected they
are all it asked for while they fit, and that slot is connected.

### How loops are proved

The prover cannot instantiate the induction theorems of its library, which take an
operator as a parameter, so what a loop computes is proved by least counterexample: of
the positions at which a claim fails there is a least one (`LeastNumber`), it is not the
first, and the step before it gives the contradiction. `LoopKeeps` is that argument for a
property of the states of a loop, as a set. Loops of the code are recursive functions
`g[k \in 0 .. n]` over their position in the modules that are proved about; that such a
function satisfies its own equations is proved once (`Course`, `CourseExists`).

### Only model-checked

* **Liveness** under fairness is outside of the prover's reach: `Converges`,
  `RefusalEnds`, `ElectionsAndGossipEnd`, `ServerProgress`.
* `RightNodeLeads`, but for its part about Multi-Paxos: the nested calls of
  `bully_election` are a RECURSIVE operator, which the prover does not support.
* `ServersInRotation`: the share of a server in the smooth weighted rotation is a
  statement about sums over a whole cycle, for which no inductive bound is known to us
  that holds for every choice of weights.
* `KeysStay` (positions on a sorted ring of virtual nodes found by binary search) and
  `SeenDecides` (that markers reach every process is a statement about paths) have no
  proof.
* Agreement of Raft (`StateMachineSafety`) is not provable: it does not hold.

## 5. Differences between documents and code, and edges, that have no run

Where a definition is named, TLC refutes it: it is stated in its module with the
comment that it does not hold, and no run uses it.

### mini-dist-transaction

* After a NO vote `tpc_coordinator_prepare` leaves the other participants READY
  (`TwoPC!AbortReachesAll`).
* `lock_release` discards the head of the wait queue, which is shared by all
  resources, without granting it anything (`LockManager!NoLostWaiter`).
* A Redlock holder that asks again fails, and the clean-up of the failure releases
  the lock it holds (`Redlock!OneHolder` with `Retry = TRUE`).
* Fencing clients that keep the token *object* share it with the next client, so a
  stale writer passes (`OnceOnly!NoStaleWrite` with `ByPointer = TRUE`).
* `occ_txn_read` succeeds without remembering the read once the read set is full
  (occ.c:134; repeated reads of one key use up slots), so a transaction with more
  reads than slots can commit although it is not serializable;
  `docs/knowledge-graph.md:53` says OCC guarantees serializability.
* `occ_txn_begin` copies the transaction into the active table while it is empty
  (occ.c:111) and nothing refreshes the copy, so `occ_forward_validation` never
  finds a conflict; its comment (occ.c:180) says it does.
* `mvcc_version_chain_append` drops a version when the version array is full
  (mvcc.c:120) and the commit succeeds without it; `docs/knowledge-graph.md:52`
  promises a consistent snapshot.
* `tpc_coordinator_abort` and `tpc_handle_timeout` do not look at the phase, so a
  committed transaction can be aborted (two_pc.c:121-132).
* `threepc_commit` looks at the phase only, so a participant enlisted after the
  precommit is committed whatever its vote (two_pc.c:194).
* `lock_process_wait_queue` serves a lock that is FREE or WAITING only; a lock
  swept as EXPIRED is handed to no waiter (dist_lock.c:200).
* `XA_RDONLY` and `XA_RBDEADLOCK` have the same value, so `xa_prepare_all` takes
  a deadlock victim for a read-only branch (xa.h, xa.c:105).
* `xa_handle_heuristic` asks every resource manager to commit whatever the state
  (xa.c:155-168): called after a failed prepare it commits the branches that had
  prepared, over the refusal.
* TCC does not look at what its confirm and cancel callbacks return (tcc.c:102-105,
  118-121): a failed confirm counts as CONFIRMED, a failed cancel as CANCELLED, and the
  reservation stays.
* `idempotent_record` with a NULL result leaves the result of the slot's previous
  user in place (idempotency.c:81), and `REQ_PROCESSING` is never set, so two
  deliveries of one request that overlap are both executed.

### mini-dist-protocol

* A gossip node that learned a higher version from a later entry of a message writes
  that key with a lower version, and the next exchange undoes the write
  (`Membership!VersionsIncrease`).
* A proposer of `paxos_run_instance` draws numbers below those of every proposer
  with a higher id (paxos.c:106), so it never gets a promise once one of them has
  run; a proposer whose range wrapped around is refused in the same way.
* `multi_paxos_replicate` appends to the log before the acceptors are asked and
  leaves the entry there when they refuse (paxos.c:170).
* When the last active node of a ring crashes as leader, `ring_node_crash` does
  not return (leader_election.c:187).
* After all nodes have crashed, bully's `leader_id` still names the last leader;
  a node with a lower id that recovers does not start an election
  (leader_election.c:87). `RightNodeLeads` speaks of the other histories.
* Two nodes that write one key independently reach the same version with
  different values; neither replaces the other (gossip.c:203), and
  `gossip_all_synced` compares versions, so agreement is reported all the same.
  `Converges` and `SyncedMeansEqual` are about keys and versions.
* A node without data takes no part in a PULL round (gossip.c:148), so a new node
  cannot pull.
* SWIM's detector picks its targets among the active members (swim.c:357) and
  therefore never suspects a member that has failed; `swim_suspect` is left to
  the embedding program.
* `dtx_abort` has no guard and undoes a commit (distributed_apps.c:100).
* A replica that meets a key for the first time compares with a version nobody
  initialised (distributed_apps.c:200), and the cast at distributed_apps.c:211 merges
  the entry's version one place further along the replica's vector.
* A lease whose end wraps around is over at once (distributed_apps.c:358); acquiring a
  lock again lists it twice, until the list is full and later locks go unlisted
  (distributed_apps.c:362).
* `ec_hinted_handoff` files a hint under the number of its slot, as key and as version,
  so a key that was never written can be read (`Membership!ReadsWhatWasWritten`;
  advanced_topics.c:458).

### mini-dist-system-theory

* The leader of raft.c never sends entries (raft.c:173), so nothing is committed in a
  cluster of two or more; `leader_id` survives a leader's stepping down, so a command
  may be appended on a follower (raft.c:341).
* With the ring full a bully coordinator message is dropped and the nodes disagree
  (leader_election.c:8); there is no timeout for an answer, so an election whose higher
  node dies stays in progress and a dead leader is kept (leader_election.c:65); the ring
  token of a crashed node goes round for ever, and `le_process_messages` with it
  (leader_election.c:199); the Raft-style mode counts crashed nodes as voters
  (leader_election.c:250). `LeaderIsAgreed` is checked with a ring that holds the
  messages of an election, `ElectionsAndGossipEnd` but for that token.
* Two gossip nodes that hold different values of equal version keep them (gossip.c:83);
  the model gives every key one writer. The nodes of a round send in their order before
  anything is processed (gossip.c:219-221), so with a ring that holds fewer messages than
  there are nodes (255) the pulls of the last ones are dropped in every round and they
  learn nothing; the rounds converge only if `max_rounds` is large enough.
* `lww_merge` keeps the id of the last writer and not of the value, so the order of
  merges decides (crdt.c:281; `Convergence!SameSeenSameRegister`), although
  `docs/distributed-theory-primer.md:169` asks for a commutative merge. An element
  removed from the OR-set (crdt.c:188) or from the grow-only set (crdt.c:91) comes back
  with the next merge.
* Over one-way channels, such as the demonstration's ring, a snapshot never completes
  (snapshot.c:111). A reset leaves markers in flight, which the next snapshot takes for
  its own (snapshot.c:144-156), and a second start at a process sends its markers again
  (snapshot.c:55-73): after either, a snapshot may count as complete while markers are
  in flight. `CompleteWhenQuiet` speaks of the others. No function receives an
  application message, so channel states stay empty.
* The counter of the hybrid clock is not reset on receive (time_ordering.c:118).
* A CP read answers with the value of the first reachable node that has one, which may
  be old (cap_theorem.c:122; `Quorums!ConsistentReads`).
* Keys do not move when a Chord node joins and go to the first slot when one leaves, so
  a lookup may miss them (dht.c:70-93); a full array loses keys (dht.c:82; the
  property allows for it); a finger lookup does not look at the key (dht.c:152).
* With a faulty commander that answers at random, loyal lieutenants may disagree, where
  `byz_check_conditions` prints "consensus possible" (byzantine.c:188;
  `Quorums!LoyalAgree`).

### mini-gateway-proxy

* A half-open breaker stays so if `half_open_max_requests` is below
  `success_threshold` (circuit_breaker.c:113): the setters do not compare them. The
  instance has them equal.
* The age of a connection is wrong by up to a second when the nanoseconds wrap, so a
  connection is closed early, even a borrowed one (connection_pool.c:172, 198); slots of
  closed connections are not reused (connection_pool.c:69).
* `now - window` underflows in the first window after start (rate_limiter.c:111).
  More than `RL_MAX_TIMESTAMPS` requests to a window overwrite timestamps that still
  count (rate_limiter.c:121): requests are refused for longer than they should be.
* Consistent hashing does not look at the health of a server (load_balancer.c:193); a
  failing ping still refreshes `last_heartbeat` (service_discovery.c:120); with no healthy
  endpoint the first one is chosen (service_discovery.c:220, 232). `rr_index` is never
  reduced (load_balancer.c:126-127): the model counts it modulo the number of servers and
  leaves out what happens after 2^31 choices.
* A refusal of a middleware handler is overwritten with -1 (middleware_chain.c:49).
* A route with the wrong method hides a later one that fits only by a prefix. The breaker
  of a route is given NULL as the function to call (api_gateway.c:214), which it calls
  whenever it is closed or probes (circuit_breaker.c:74, 96): the first request that passes
  plugins, authentication and limiter ends the process (`ApiGateway!RequestsReturn`).
* A client that closes its sending side loses the response (reverse_proxy.c:259). What
  stands behind the last line of the first read, the beginning of a body, is lost
  (reverse_proxy.c:110), and an added header lands behind the blank line
  (reverse_proxy.c:142).
* The proxy has one thread and little that gives it back: the first read has no timeout
  (reverse_proxy.c:295), nor has a write to a peer that does not read
  (reverse_proxy.c:264, 276), and the 30 s of `select` start again with every datum
  (reverse_proxy.c:246-281). A write to a peer that is gone may end the process by SIGPIPE.

### mini-rpc-framework, mini-app-protocol, mini-network-base

* With two workers an item is taken twice or skipped, because nothing protects `head`
  (rpc_server.c:63-73), where rpc_server.h:55 speaks of a lock-free queue for many
  producers and consumers; all workers watch the flag of the first running slot
  (rpc_server.c:291), so `rpc_server_free` may wait for ever.
* `THREAD_JOIN` (rpc_server.c:351) has no deadline and `recv` (rpc_transport.c:218) no
  timeout: a client that connects and sends nothing keeps its worker, and with it the
  shutdown, for ever, where rpc_server.c:21 says "with timeout". `ServerProgress` has that
  as its premise. `rpc_server_free` clears a server whose loop may still run.
* The event loop stays in `accept` when a shutdown begins and meets a closed listening
  socket afterwards (rpc_transport.c:133).
* `rpc_transport_pool_acquire` writes behind the pool when nothing can be closed
  (rpc_transport.c:291; the model stops there); indices into the pool change when it
  shrinks (rpc_transport.c:314).
* Every `interceptor_make_rate_limit` allocates a full bucket (rpc_interceptor.c:176-180):
  a limiter made anew in the place of another lets the rate by once more.
* The callback of an asynchronous call runs before its slot is counted
  (rpc_stub.c:148-161). A call made in it takes the same slot, so that one of the two loses
  its callback or its timeout; a slot that was never used is then counted, whose callback,
  NULL, a later sweep calls; the count may run past the array. A sweep inside a callback
  moves contexts under the loop or the call that waits. `CallbackOnce` speaks of the
  callbacks that do neither.
* The millisecond clock of the stub is 32 bits wide and wraps (rpc_stub.c:139): a call
  that crosses the wrap times out at once or a period late; the connection index of a
  resolved instance is that of another table (rpc_stub.c:35).
* A full registry refuses names it already has (rpc_registry.c:36); a second method
  overwrites the descriptor of the first (rpc_server.c:116-161).
* A handshake is complete once built, and STREAM_END is ignored (rpc_protocol.c:140,
  407).
* A repeated PUBLISH is tracked twice, and removing any tracker may bring the second one
  to the front: the message is delivered twice although its quality is 2 (mqtt.c:550-575);
  `max_retries` is compared with nothing (mqtt.c:639-677).
* Packet ids have 16 bits and are used again, and trackers are found by their id alone
  (mqtt.c:524-575): a second message under an id is swallowed while the receiver has not
  removed the first, and a late PUBACK or PUBCOMP of the first completes the second. A
  tracker may be removed while it waits (mqtt.c:679-693); its PUBREL is then answered
  with PUBCOMP although nothing was passed on.
* A client that disconnects and comes back takes a new slot, while it is found by the
  first, which stays disconnected: it subscribes in vain and gets nothing
  (mqtt.c:462-507).
* In `tcp_congestion.c` the window stands still between the third duplicate
  acknowledgement and `tcp_cc_fast_retransmit`, and the 32-bit window may wrap
  (tcp_congestion.c:122).

## 6. Plan

Ordered by how much of the repository's promises rests on the part.

1. *Done*: Raft, the commit protocols, concurrency control and logging, locks.
2. *Done*: consensus and membership, the stores and leases of mini-dist-protocol.
3. *Done*: theory, gateway, RPC and MQTT.
4. *Done*: proofs of the lock manager, Raft and Paxos.
5. *Done*: proofs of the commit protocols, OCC and MVCC, Redlock, fencing and
   idempotency, the leases, the work queue, the clocks, the partitioned store, the
   generals and the elections of the second Raft, the connection pools and the rate
   limiters.
6. *Done*: proofs of the write-ahead log, the RPC transport, registry and stub, MQTT,
   Multi-Paxos, SWIM, gossip, the quorum store, and the way of a request through the
   gateway: middleware, routes, proxy; the hash rings.
7. **Wire** that has state worth a model: HTTP/2 send windows and priority tree,
   congestion control, reassembly of fragments.

Related parts are checked together in one run per subsystem, as `part` does now.

## 7. Not modelled

* Formatting and parsing of single messages (`http_message`, `http_basic`,
  `icmp_proto`, `ip_packet`, `udp_dns`, `grpc_proto`, `websocket`, `sse`,
  `tls_termination`, `rpc_encoding`, the packet codecs of `mqtt` and `rpc_protocol`):
  byte layouts with little or no protocol state, better served by tests.
* Pure algorithms on given tables (`ip_routing`, `isolation_levels`) and numeric
  demonstrations (`consensus_theorems`, `lean_formal`, throughput formulas):
  floating-point arithmetic, bit masks and prints.
* Objects without a peer (`socket_tcp`, `tls_handshake`, `flp_impossibility`): the
  handshake, or the whole schedule, is one function that runs through its states in a
  fixed order.
* `rest_api` and the CRDTs and vector clocks of `advanced_topics`: of the same kind as
  the gateway's chain and routes and as `crdt.c` and `time_ordering.c`.
* Left for the plan: `tcp_congestion` and `http2_frames`.
* Statistics counters and logging everywhere, allocation failure, NULL arguments, and
  strings cut at the length of their buffers.
