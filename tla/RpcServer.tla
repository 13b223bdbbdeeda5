------------------------------ MODULE RpcServer ------------------------------
(***************************************************************************)
(* rpc_server.c with the server side of rpc_transport.c.  Three kinds of     *)
(* thread share the server without a lock: the event loop accepts            *)
(* connections and pushes one work item for each, worker threads pop items   *)
(* and dispatch them, and the thread that calls rpc_server_graceful_shutdown *)
(* (or rpc_server_free) closes the queue, waits, joins the workers and       *)
(* closes the connections.  A step is what one thread does between two reads *)
(* or writes of shared memory that matter: the copy out of a queue slot and  *)
(* the move of head are two steps, and so are the copy into a slot and the   *)
(* move of tail.                                                             *)
(*                                                                           *)
(* A request is the connection it came on.  The sockets block: accept waits  *)
(* for a client and recv for its request.  What the handler computes, the    *)
(* statistics, and the reuse of descriptor numbers are left out.             *)
(***************************************************************************)
EXTENDS Naturals, Sequences, FiniteSets

CONSTANTS
  WorkerCounts,    \* the arguments of rpc_server_start_workers
  QueueSize,       \* RPC_SERVER_WORK_QUEUE_SIZE
  MaxConnections   \* RPC_MAX_CONNECTIONS

ASSUME RpcServerAssumption ==
  /\ QueueSize \in Nat \ {0}
  /\ MaxConnections \in Nat
  /\ WorkerCounts \subseteq Nat

VARIABLES
  conns,           \* srv->transport.connections, each with what its client has done
  server_socket,   \* whether transport.server_socket is there
  queue,           \* srv->work_queue
  flags,           \* srv->running, srv->shutting_down, srv->worker_count
  slots,           \* srv->workers[i].running
  loop,            \* the event loop: where it is, and the item it pushes
  wk,              \* the worker threads: where, their wid, their item
  shut,            \* the thread that shuts down: where, and the worker it joins
  dispatched,      \* the items given to rpc_server_dispatch
  inOrder          \* whether each was given once and in the order of arrival

vars == <<conns, server_socket, queue, flags, slots, loop, wk, shut,
          dispatched, inOrder>>
marks == <<dispatched, inOrder>>

Threads == DOMAIN wk
NoItem  == 0

Init ==
  /\ conns = <<>>
  /\ server_socket = TRUE
  /\ queue = [items |-> [i \in 0 .. QueueSize - 1 |-> 1], head |-> 0, tail |-> 0,
              closed |-> FALSE]
  /\ \E n \in WorkerCounts :
       /\ flags = [running |-> TRUE, shutting_down |-> FALSE, worker_count |-> n]
       /\ slots = [i \in 1 .. n |-> TRUE]
       /\ wk = [i \in 1 .. n |-> [pc |-> "start", wid |-> 1, item |-> NoItem]]
  /\ loop = [pc |-> "poll", item |-> NoItem]
  /\ shut = [pc |-> "no", i |-> 1]
  /\ dispatched = {}
  /\ inOrder = TRUE

(***************************************************************************)
(* The clients: one that has connected sends its request, or goes; a request *)
(* that does not decode gets no answer and counts as going.                  *)
(***************************************************************************)
ClientActs(k) ==
  /\ conns[k].peer = "silent"
  /\ \E p \in {"sent", "gone"} : conns' = [conns EXCEPT ![k].peer = p]
  /\ UNCHANGED <<server_socket, queue, flags, slots, loop, wk, shut, marks>>

(***************************************************************************)
(* The work queue: a ring that is full when one slot is left.                *)
(***************************************************************************)
NextSlot(i) == (i + 1) % QueueSize
rpc_work_queue_empty == queue.head = queue.tail
rpc_work_queue_full  == NextSlot(queue.tail) = queue.head

Filled(item) == [queue EXCEPT !.items[queue.tail] = item]
Published    == [queue EXCEPT !.tail = NextSlot(queue.tail)]
Taken        == queue.items[queue.head]
Released     == [queue EXCEPT !.head = NextSlot(queue.head)]
rpc_work_queue_close == [queue EXCEPT !.closed = TRUE]

(***************************************************************************)
(* The event loop.                                                           *)
(***************************************************************************)
rpc_connection_close(conn) == [conn EXCEPT !.connected = FALSE]
NewConnection == [peer |-> "silent", connected |-> TRUE]

rpc_server_run ==
  /\ loop.pc = "poll"
  /\ LET more == flags.running /\ ~ flags.shutting_down
         may  == server_socket /\ Len(conns) < MaxConnections
     IN  loop' = [loop EXCEPT !.pc = CASE ~ more -> "returned"
                                       [] more /\ may -> "accepting"
                                       [] OTHER -> "sweep"]
  /\ UNCHANGED <<conns, server_socket, queue, flags, slots, wk, shut, marks>>

(* accept has a client; the code then reads through transport.server_socket, *)
(* which rpc_transport_close may have freed and set to NULL meanwhile.       *)
rpc_transport_accept ==
  /\ loop.pc = "accepting"
  /\ IF server_socket
     THEN /\ conns' = Append(conns, NewConnection)
          /\ loop' = [pc |-> "accepted", item |-> Len(conns) + 1]
     ELSE loop' = [loop EXCEPT !.pc = "crashed"] /\ UNCHANGED conns
  /\ UNCHANGED <<server_socket, queue, flags, slots, wk, shut, marks>>

(* An accepted connection goes to the workers, or without them to the loop:  *)
(* worker_count is 0 again when rpc_server_stop_workers has joined them.     *)
rpc_server_poll ==
  /\ loop.pc = "accepted"
  /\ loop' = [loop EXCEPT !.pc = IF flags.worker_count > 0 THEN "push" ELSE "dispatch"]
  /\ UNCHANGED <<conns, server_socket, queue, flags, slots, wk, shut, marks>>

(* rpc_work_queue_push: into the slot, then the tail; dropped when full.     *)
PushItem ==
  /\ loop.pc = "push"
  /\ LET refused == queue.closed \/ rpc_work_queue_full IN
       /\ loop' = [loop EXCEPT !.pc = IF refused THEN "sweep" ELSE "publish"]
       /\ queue' = IF refused THEN queue ELSE Filled(loop.item)
  /\ UNCHANGED <<conns, server_socket, flags, slots, wk, shut, marks>>

Publish ==
  /\ loop.pc = "publish"
  /\ queue' = Published
  /\ loop' = [loop EXCEPT !.pc = "sweep"]
  /\ UNCHANGED <<conns, server_socket, flags, slots, wk, shut, marks>>

(* rpc_server_poll closes every connection that rpc_keepalive_check fails:   *)
(* any of them may have been silent for the ninety seconds.                  *)
rpc_keepalive_check ==
  /\ loop.pc = "sweep"
  /\ \E stale \in SUBSET {k \in DOMAIN conns : conns[k].connected} :
       conns' = [k \in DOMAIN conns |-> IF k \in stale THEN rpc_connection_close(conns[k]) ELSE conns[k]]
  /\ loop' = [pc |-> "poll", item |-> NoItem]
  /\ UNCHANGED <<server_socket, queue, flags, slots, wk, shut, marks>>

(***************************************************************************)
(* rpc_server_dispatch, called by a worker or, without workers, by the loop. *)
(***************************************************************************)
Dispatch(k) ==
  /\ dispatched' = dispatched \cup {k}
  /\ inOrder' = (inOrder /\ \A j \in dispatched : j < k)

CanDispatch(k)      == k \in DOMAIN conns /\ conns[k].connected
rpc_recv_message(k) == conns[k].peer # "silent"
Received(k)         == conns[k].peer = "sent"

(* The response goes out if the connection is still there.                  *)
rpc_send_message(k) ==
  conns' = IF conns[k].connected THEN [conns EXCEPT ![k].peer = "answered"] ELSE conns

LoopDispatches ==
  /\ loop.pc = "dispatch"
  /\ CanDispatch(loop.item) => rpc_recv_message(loop.item)
  /\ IF CanDispatch(loop.item) /\ Received(loop.item) THEN rpc_send_message(loop.item) ELSE UNCHANGED conns
  /\ Dispatch(loop.item)
  /\ loop' = [loop EXCEPT !.pc = "sweep"]
  /\ UNCHANGED <<server_socket, queue, flags, slots, wk, shut>>

(***************************************************************************)
(* The workers.  Every thread looks for the first running slot and takes     *)
(* that slot's flag for its own.                                             *)
(***************************************************************************)
worker_thread_fn(t) ==
  /\ wk[t].pc = "start"
  /\ LET up == {i \in 1 .. flags.worker_count : slots[i]} IN
     wk' = [wk EXCEPT ![t].pc = "loop",
                      ![t].wid = IF up = {} THEN 1 ELSE CHOOSE i \in up : \A j \in up : i <= j]
  /\ UNCHANGED <<conns, server_socket, queue, flags, slots, loop, shut, marks>>

WorkerGivesUp(t) == \* mutant: an empty queue ends the worker
  /\ wk[t].pc = "loop"
  /\ wk' = [wk EXCEPT ![t].pc =
              IF ~ slots[wk[t].wid] \/ flags.shutting_down \/ rpc_work_queue_empty THEN "done" ELSE "take"]
  /\ UNCHANGED <<conns, server_socket, queue, flags, slots, loop, shut, marks>>

(* The loop test and the test for an empty queue.                            *)
rpc_server_worker_loop(t) ==
  /\ wk[t].pc = "loop"
  /\ wk' = [wk EXCEPT ![t].pc =
              IF ~ slots[wk[t].wid] \/ flags.shutting_down THEN "done"
              ELSE IF ~ rpc_work_queue_empty THEN "take"
              ELSE IF queue.closed THEN "done" ELSE "loop"]
  /\ wk' # wk
  /\ UNCHANGED <<conns, server_socket, queue, flags, slots, loop, shut, marks>>

(* rpc_work_queue_pop: out of the slot, then the head.                       *)
Take(t) ==
  /\ wk[t].pc = "take"
  /\ wk' = [wk EXCEPT ![t].pc = "release", ![t].item = Taken]
  /\ UNCHANGED <<conns, server_socket, queue, flags, slots, loop, shut, marks>>

ReleasesServed(t) == \* mutant: head stays when the connection is gone
  /\ wk[t].pc = "release"
  /\ queue' = IF CanDispatch(wk[t].item) THEN Released ELSE queue
  /\ Dispatch(wk[t].item)
  /\ wk' = [wk EXCEPT ![t].pc = IF CanDispatch(wk[t].item) THEN "recv" ELSE "loop"]
  /\ UNCHANGED <<conns, server_socket, flags, slots, loop, shut>>

Release(t) ==
  /\ wk[t].pc = "release"
  /\ queue' = Released
  /\ Dispatch(wk[t].item)
  /\ wk' = [wk EXCEPT ![t].pc = IF CanDispatch(wk[t].item) THEN "recv" ELSE "loop"]
  /\ UNCHANGED <<conns, server_socket, flags, slots, loop, shut>>

Receive(t) ==
  /\ wk[t].pc = "recv" /\ rpc_recv_message(wk[t].item)
  /\ wk' = [wk EXCEPT ![t].pc = IF Received(wk[t].item) THEN "send" ELSE "loop"]
  /\ UNCHANGED <<conns, server_socket, queue, flags, slots, loop, shut, marks>>

Send(t) ==
  /\ wk[t].pc = "send"
  /\ rpc_send_message(wk[t].item)
  /\ wk' = [wk EXCEPT ![t].pc = "loop"]
  /\ UNCHANGED <<server_socket, queue, flags, slots, loop, shut, marks>>

Worker(t) == worker_thread_fn(t) \/ rpc_server_worker_loop(t) \/ Take(t) \/ Release(t)
             \/ Receive(t) \/ Send(t)

(***************************************************************************)
(* Shutting down.                                                            *)
(***************************************************************************)
rpc_server_graceful_shutdown ==
  /\ shut.pc = "no"
  /\ flags' = [flags EXCEPT !.running = FALSE, !.shutting_down = TRUE]
  /\ queue' = rpc_work_queue_close
  /\ shut' = [shut EXCEPT !.pc = "drain"]
  /\ UNCHANGED <<conns, server_socket, slots, loop, wk, marks>>

(* The wait ends with an empty queue or at the deadline, whichever is first. *)
Drain ==
  /\ shut.pc = "drain"
  /\ shut' = [shut EXCEPT !.pc = "stop"]
  /\ UNCHANGED <<conns, server_socket, queue, flags, slots, loop, wk, marks>>

rpc_server_free ==
  /\ shut.pc = "no"
  /\ queue' = rpc_work_queue_close
  /\ shut' = [shut EXCEPT !.pc = "stop"]
  /\ UNCHANGED <<conns, server_socket, flags, slots, loop, wk, marks>>

(* One turn of the loop of rpc_server_stop_workers: lower the flag ...       *)
rpc_server_stop_workers ==
  /\ shut.pc = "stop" /\ shut.i \in 1 .. flags.worker_count
  /\ slots' = [slots EXCEPT ![shut.i] = FALSE]
  /\ shut' = IF slots[shut.i] THEN [shut EXCEPT !.pc = "join"] ELSE [shut EXCEPT !.i = @ + 1]
  /\ UNCHANGED <<conns, server_socket, queue, flags, loop, wk, marks>>

(* ... and wait, without a deadline, for the thread.                         *)
Join ==
  /\ shut.pc = "join" /\ wk[shut.i].pc = "done"
  /\ shut' = [pc |-> "stop", i |-> shut.i + 1]
  /\ UNCHANGED <<conns, server_socket, queue, flags, slots, loop, wk, marks>>

NoWorkers ==
  /\ shut.pc = "stop" /\ shut.i \notin 1 .. flags.worker_count
  /\ flags' = [flags EXCEPT !.worker_count = 0]
  /\ shut' = [shut EXCEPT !.pc = "close"]
  /\ UNCHANGED <<conns, server_socket, queue, slots, loop, wk, marks>>

(* rpc_server_free then clears the server, of which the loop reads running.  *)
rpc_transport_close ==
  /\ shut.pc = "close"
  /\ server_socket' = FALSE
  /\ conns' = [k \in DOMAIN conns |-> rpc_connection_close(conns[k])]
  /\ flags' = [flags EXCEPT !.running = FALSE]
  /\ shut' = [shut EXCEPT !.pc = "done"]
  /\ UNCHANGED <<queue, slots, loop, wk, marks>>

Alive == loop.pc # "crashed"
Loop == rpc_server_run \/ rpc_server_poll \/ PushItem \/ Publish \/ rpc_keepalive_check \/ LoopDispatches
Shutdown == Drain \/ rpc_server_stop_workers \/ Join \/ NoWorkers \/ rpc_transport_close

Next ==
  /\ Alive
  /\ \/ \E k \in DOMAIN conns : ClientActs(k)
     \/ Loop \/ rpc_transport_accept
     \/ \E t \in Threads : Worker(t)
     \/ rpc_server_graceful_shutdown \/ rpc_server_free
     \/ Shutdown

(* Threads that can run do run.  Nothing is assumed of the clients: nobody   *)
(* need connect, and one that has connected may be silent for ever.          *)
Fairness ==
  /\ WF_vars(Alive /\ Loop) /\ WF_vars(Alive /\ Shutdown)
  /\ \A t \in 1 .. 2 : WF_vars(Alive /\ t \in Threads /\ Worker(t))

Spec == Init /\ [][Next]_vars /\ Fairness

-----------------------------------------------------------------------------
(* Every position of the ring is one of its slots and every item a number.   *)
TypeOK ==
  /\ conns \in Seq([peer : {"silent", "sent", "gone", "answered"}, connected : BOOLEAN])
  /\ queue \in [items : [0 .. QueueSize - 1 -> Nat], head : 0 .. QueueSize - 1,
                tail : 0 .. QueueSize - 1, closed : BOOLEAN]
  /\ loop \in [pc : {"poll", "accepting", "accepted", "push", "publish", "dispatch", "sweep",
                     "returned", "crashed"}, item : Nat]
  /\ wk \in [Threads -> [pc : {"start", "loop", "take", "release", "recv", "send", "done"},
                         wid : Nat, item : Nat]]
  /\ dispatched \subseteq Nat

(* Queue: with at most one worker no item is repeated or overtaken, though    *)
(* loop and worker share the ring without a lock, the ring wraps around, and *)
(* the loop dispatches by itself what it accepts behind a joined worker.     *)
FifoOnce == TypeOK /\ (Cardinality(Threads) <= 1 => inOrder)

Waiting == {queue.items[i] : i \in {j \in 0 .. QueueSize - 1 :
              (j + QueueSize - queue.head) % QueueSize < (queue.tail + QueueSize - queue.head) % QueueSize}}

(* A worker in recv, which has no timeout, for a client that sends nothing.  *)
Held(t) == t \in Threads /\ wk[t].pc = "recv" /\ ~ rpc_recv_message(wk[t].item)
NoneHeldForEver == \A t \in 1 .. 2 : []<> ~ Held(t)

(* Worker loop: with one worker, what is in the queue is dispatched, unless   *)
(* the server is shut down first or the worker waits for ever for a client.  *)
RequestsServed ==
  NoneHeldForEver =>
    \A k \in 1 .. MaxConnections :
      (Cardinality(Threads) = 1 /\ k \in Waiting) ~> (k \in dispatched \/ shut.pc # "no" \/ ~ Alive)

(* Shutdown: only a worker that waits for ever for its client keeps           *)
(* rpc_server_graceful_shutdown from returning with no worker left behind,   *)
(* whatever the loop still does; the same holds of rpc_server_free, which    *)
(* raises no flag, while there is one worker.                                *)
ShutdownEnds ==
  NoneHeldForEver =>
    (shut.pc # "no" /\ (flags.shutting_down \/ Cardinality(Threads) <= 1))
      ~> ((shut.pc = "done" /\ \A t \in Threads : wk[t].pc = "done") \/ ~ Alive)

(* What rpc_server.c says of the shutdown: "shut down without dropping        *)
(* in-flight requests".  Everything that was queued has been dispatched when *)
(* the connections are closed.                                               *)
QueueDrained == (shut.pc = "done" /\ flags.shutting_down) => Waiting \subseteq dispatched
=============================================================================
