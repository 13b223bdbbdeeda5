------------------------------ MODULE RpcProof ------------------------------
(***************************************************************************)
(* What is proved of mini-rpc-framework and of mqtt.c, each part over an     *)
(* inductive invariant of its own: the work queue of rpc_server.c (Ring),    *)
(* the connection pool, interceptors and streams (PoolInv, ChainInv,         *)
(* StreamInv), the registry and the client stub (RegistryInv, CallsInv), and *)
(* MQTT's deliveries and broker (QosInv, BrokerInv).                         *)
(*                                                                           *)
(* The queue first: event loop and worker share a ring without a lock, and   *)
(* still a single worker gets every request at most once and in the order of *)
(* arrival, whatever the size of the ring and wherever a thread stops        *)
(* between its accesses.  FifoOnce alone is not inductive: it says nothing   *)
(* of what is still in the ring.  The invariant Ring orders the whole path   *)
(* of a request: dispatched before waiting before about to be published, and *)
(* the waiting ones along the ring from head to tail.  Two facts keep the    *)
(* threads apart.  Between its copy into a slot and the move of tail the     *)
(* loop owns that slot, which lies outside of the waiting ones and is not    *)
(* the last free one; between its copy out of a slot and the move of head    *)
(* the worker owns the slot at head, and nobody else moves head.  Down adds  *)
(* when the loop may dispatch: only behind the last thread that was joined.  *)
(***************************************************************************)
EXTENDS RpcServer, RpcTransport, RpcStub, Mqtt, TLAPS, FiniteSetTheorems, SequenceTheorems, WellFoundedInduction

Slot == 0 .. QueueSize - 1

(* The slots between h and t of a ring, and their order from h on.           *)
Between(h, t, i) == IF h <= t THEN h <= i /\ i < t ELSE h <= i \/ i < t

Before(h, i, j) == IF (h <= i) = (h <= j) THEN i < j ELSE h <= i

Busy(i) == Between(queue.head, queue.tail, i)

OneConsumer == \A t, u \in Threads : t = u

(* The loop has an item that it has not handed on.                           *)
Carrying == loop.pc \in {"accepted", "push", "publish", "dispatch"}

(* No worker dispatches any more: there is none, or they are all joined.     *)
AllDone == \A t \in Threads : wk[t].pc = "done"

Ring ==
  /\ dispatched \subseteq 1 .. Len(conns)
  /\ \A i \in Slot : Busy(i) =>
       /\ queue.items[i] \in 1 .. Len(conns)
       /\ AllDone \/ \A d \in dispatched : d < queue.items[i]
       /\ Carrying => queue.items[i] < loop.item
  /\ \A i, j \in Slot : Busy(i) /\ Busy(j) /\ Before(queue.head, i, j) =>
       queue.items[i] < queue.items[j]
  /\ Carrying => loop.item = Len(conns) /\ loop.item > 0 /\ loop.item \notin dispatched
  /\ loop.pc = "publish" =>
       queue.items[queue.tail] = loop.item /\ NextSlot(queue.tail) # queue.head
  /\ \A t \in Threads :
       /\ wk[t].pc \in {"take", "release"} => queue.head # queue.tail
       /\ wk[t].pc = "release" => wk[t].item = queue.items[queue.head]
  /\ loop.pc = "dispatch" => AllDone
  /\ inOrder

(* A worker that reads or answers a request has its connection.              *)
Serving == \A t \in Threads : wk[t].pc \in {"recv", "send"} => wk[t].item \in 1 .. Len(conns)

Shape ==
  /\ TypeOK
  /\ slots \in Seq(BOOLEAN) /\ Threads = 1 .. Len(slots)
  /\ Serving

Core == Shape /\ (OneConsumer => Ring)

(* The shutdown: the threads before the one it is at are done, the slots     *)
(* behind it are still up, and no workers are counted only when all are done. *)
Down ==
  /\ flags \in [running : BOOLEAN, shutting_down : BOOLEAN, worker_count : Nat]
  /\ shut \in [pc : {"no", "drain", "stop", "join", "close", "done"}, i : Nat \ {0}]
  /\ flags.worker_count \in {0, Len(slots)}
  /\ shut.pc = "join" => shut.i \in Threads
  /\ \A i \in Threads : shut.i < i \/ (shut.i = i /\ shut.pc # "join") => slots[i]
  /\ \A t \in Threads : t < shut.i => wk[t].pc = "done"
  /\ flags.worker_count = 0 => AllDone

IInv == Core /\ Down

-----------------------------------------------------------------------------
(* The ring.                                                                 *)

LEMMA NextSlotCases ==
  ASSUME NEW i \in Slot
  PROVE  /\ NextSlot(i) = IF i = QueueSize - 1 THEN 0 ELSE i + 1
         /\ NextSlot(i) \in Slot
<1>1. QueueSize \in Nat \ {0} /\ i \in Nat /\ i < QueueSize
  BY RpcServerAssumption DEF Slot
<1>2. CASE i = QueueSize - 1
  <2>1. i + 1 = QueueSize /\ QueueSize % QueueSize = 0
    BY <1>1, <1>2
  <2> QED
    BY <1>1, <1>2, <2>1 DEF NextSlot, Slot
<1>3. CASE i # QueueSize - 1
  <2>1. i + 1 \in Nat /\ i + 1 < QueueSize
    BY <1>1, <1>3
  <2>2. (i + 1) % QueueSize = i + 1
    BY <1>1, <2>1
  <2> QED
    BY <1>1, <1>3, <2>1, <2>2 DEF NextSlot, Slot
<1> QED
  BY <1>2, <1>3

(* Taking the first slot away.                                               *)
LEMMA HeadMoves ==
  ASSUME NEW h \in Slot, NEW t \in Slot, h # t
  PROVE  /\ Between(h, t, h)
         /\ \A i \in Slot : Between(NextSlot(h), t, i) =>
              Between(h, t, i) /\ i # h /\ Before(h, h, i)
         /\ \A i, j \in Slot :
              ( /\ Between(NextSlot(h), t, i) /\ Between(NextSlot(h), t, j)
                /\ Before(NextSlot(h), i, j) ) => Before(h, i, j)
         /\ NextSlot(t) # h => NextSlot(t) # NextSlot(h)
<1>1. QueueSize \in Nat \ {0} /\ h \in Int /\ t \in Int
  BY RpcServerAssumption DEF Slot
<1>2. /\ NextSlot(h) = IF h = QueueSize - 1 THEN 0 ELSE h + 1
      /\ NextSlot(t) = IF t = QueueSize - 1 THEN 0 ELSE t + 1
  BY NextSlotCases
<1> QED
  BY <1>1, <1>2 DEF Slot, Between, Before

(* Adding a slot at the end.                                                 *)
LEMMA TailMoves ==
  ASSUME NEW h \in Slot, NEW t \in Slot, NextSlot(t) # h
  PROVE  /\ ~Between(h, t, t)
         /\ \A i \in Slot : Between(h, NextSlot(t), i) => Between(h, t, i) \/ i = t
         /\ \A i \in Slot : Between(h, t, i) => ~Before(h, t, i)
<1>1. QueueSize \in Nat \ {0} /\ h \in Int /\ t \in Int
  BY RpcServerAssumption DEF Slot
<1>2. NextSlot(t) = IF t = QueueSize - 1 THEN 0 ELSE t + 1
  BY NextSlotCases
<1> QED
  BY <1>1, <1>2 DEF Slot, Between, Before
-----------------------------------------------------------------------------
(* Steps that leave the path of the requests alone.                          *)

Conn == [peer : {"silent", "sent", "gone", "answered"}, connected : BOOLEAN]
LoopPc == {"poll", "accepting", "accepted", "push", "publish", "dispatch", "sweep", "returned", "crashed"}
WorkerPc == {"start", "loop", "take", "release", "recv", "send", "done"}
WorkerRec == [pc : WorkerPc, wid : Nat, item : Nat]
QueueRec == [items : [Slot -> Nat], head : Slot, tail : Slot, closed : BOOLEAN]

LEMMA Types ==
  TypeOK <=> /\ conns \in Seq(Conn)
             /\ queue \in QueueRec
             /\ loop \in [pc : LoopPc, item : Nat]
             /\ wk \in [Threads -> WorkerRec]
             /\ dispatched \subseteq Nat
BY DEF TypeOK, Conn, LoopPc, WorkerPc, WorkerRec, QueueRec, Slot

LEMMA TypesNext ==
  TypeOK' <=> /\ conns' \in Seq(Conn)
              /\ queue' \in QueueRec
              /\ loop' \in [pc : LoopPc, item : Nat]
              /\ wk' \in [Threads' -> WorkerRec]
              /\ dispatched' \subseteq Nat
BY DEF TypeOK, Conn, LoopPc, WorkerPc, WorkerRec, QueueRec, Slot

(* What the worker knows of the ring.                                        *)
WorkerSees(t) ==
  /\ wk[t].pc \in {"take", "release"} => queue.head # queue.tail
  /\ wk[t].pc = "release" => wk[t].item = queue.items[queue.head]

LEMMA RingQuiet ==
  ASSUME Ring,
         queue'.items = queue.items, queue'.head = queue.head, queue'.tail = queue.tail,
         Threads' = Threads, Len(conns') = Len(conns),
         dispatched' = dispatched, inOrder' = inOrder,
         loop' = loop \/ loop'.pc \notin {"accepted", "push", "publish", "dispatch"},
         \A t \in Threads : WorkerSees(t)', AllDone => AllDone'
  PROVE  Ring'
<1>1. \A i \in Slot : Busy(i)' <=> Busy(i)
  BY DEF Busy
<1>2. Carrying' => Carrying /\ loop' = loop
  BY DEF Carrying
<1>3. loop'.pc = "publish" => loop' = loop
  OBVIOUS
<1>4. loop'.pc = "dispatch" => loop' = loop
  OBVIOUS
<1> QED
  BY <1>1, <1>2, <1>3, <1>4 DEF Ring, WorkerSees, NextSlot

LEMMA SeesNow ==
  ASSUME Ring PROVE \A t \in Threads : WorkerSees(t)
BY DEF Ring, WorkerSees

(* Closing connections, or what a client does, keeps their number.           *)
LEMMA SameConnections ==
  ASSUME conns \in Seq(Conn), NEW c, c \in [DOMAIN conns -> Conn]
  PROVE  c \in Seq(Conn) /\ Len(c) = Len(conns)
<1>1. DOMAIN conns = 1 .. Len(conns) /\ Len(conns) \in Nat
  BY DEF Conn
<1>2. c \in Seq(Conn)
  BY <1>1
<1> QED
  BY <1>1, <1>2

-----------------------------------------------------------------------------
(* The initial state.                                                        *)

LEMMA Initially == Init => Core
<1> SUFFICES ASSUME Init PROVE Core
  OBVIOUS
<1>1. PICK n \in Nat : /\ slots = [i \in 1 .. n |-> TRUE]
                       /\ wk = [i \in 1 .. n |-> [pc |-> "start", wid |-> 1, item |-> NoItem]]
  BY RpcServerAssumption DEF Init
<1>2. slots \in Seq(BOOLEAN) /\ Len(slots) = n
  <2>1. slots \in [1 .. n -> BOOLEAN]
    BY <1>1
  <2>2. slots \in Seq(BOOLEAN)
    BY <2>1
  <2> QED
    BY <2>1, <2>2
<1>3. Threads = 1 .. n
  BY <1>1 DEF Threads
<1>4. TypeOK
  <2>1. QueueSize \in Nat \ {0}
    BY RpcServerAssumption
  <2>2. queue \in QueueRec /\ conns \in Seq(Conn) /\ loop \in [pc : LoopPc, item : Nat]
    BY <2>1 DEF Init, QueueRec, Slot, LoopPc, NoItem
  <2>3. wk \in [Threads -> WorkerRec]
    BY <1>1, <1>3 DEF WorkerRec, WorkerPc, NoItem
  <2>4. dispatched \subseteq Nat
    BY DEF Init
  <2> QED
    BY <2>2, <2>3, <2>4, Types
<1>6. Serving
  BY <1>1, <1>3 DEF Serving
<1>5. Ring
  <2>1. /\ queue.head = 0 /\ queue.tail = 0 /\ loop.pc = "poll" /\ inOrder
        /\ dispatched = {}
    BY DEF Init
  <2>2. \A t \in Threads : wk[t].pc = "start"
    BY <1>1, <1>3
  <2>3. \A i \in Slot : ~Busy(i)
    BY <2>1, RpcServerAssumption DEF Busy, Between, Slot
  <2> QED
    BY <2>1, <2>2, <2>3 DEF Ring, Carrying
<1> QED
  BY <1>2, <1>3, <1>4, <1>5, <1>6 DEF Core, Shape
-----------------------------------------------------------------------------
(* The event loop.                                                           *)

(* Steps of the clients, of the shutdown and of the loop outside of a push.  *)
LEMMA QuietStep ==
  ASSUME IInv, conns' \in [DOMAIN conns -> Conn],
         queue' = queue \/ queue' = rpc_work_queue_close,
         Threads' = Threads, slots' \in Seq(BOOLEAN), Len(slots') = Len(slots),
         wk' \in [Threads -> WorkerRec],
         dispatched' = dispatched, inOrder' = inOrder,
         loop' \in [pc : LoopPc, item : Nat],
         loop' = loop \/ loop'.pc \notin {"accepted", "push", "publish", "dispatch"},
         OneConsumer /\ Ring => \A t \in Threads : WorkerSees(t)', AllDone => AllDone',
         \A t \in Threads : wk'[t].pc \in {"recv", "send"} => wk'[t].item \in 1 .. Len(conns)
  PROVE  Core'
<1>1. /\ conns \in Seq(Conn) /\ queue \in QueueRec /\ Threads = 1 .. Len(slots)
      /\ dispatched \subseteq Nat
  BY Types DEF IInv, Core, Shape
<1>2. conns' \in Seq(Conn) /\ Len(conns') = Len(conns)
  BY <1>1, SameConnections
<1>3. /\ queue' \in QueueRec /\ queue'.items = queue.items
      /\ queue'.head = queue.head /\ queue'.tail = queue.tail
  BY <1>1 DEF QueueRec, rpc_work_queue_close
<1>4. TypeOK'
  BY <1>1, <1>2, <1>3, TypesNext
<1>5. OneConsumer' <=> OneConsumer
  BY DEF OneConsumer
<1>6. ASSUME OneConsumer PROVE Ring'
  <2>1. Ring /\ \A t \in Threads : WorkerSees(t)'
    BY <1>6 DEF IInv, Core
  <2> QED
    BY <1>2, <1>3, <2>1, RingQuiet
<1> QED
  BY <1>1, <1>2, <1>4, <1>5, <1>6 DEF IInv, Core, Shape, Serving

(* While the workers and the ring rest, they see what they saw.              *)
LEMMA SeesStill ==
  ASSUME Ring, wk' = wk, queue' = queue \/ queue' = rpc_work_queue_close, queue \in QueueRec
  PROVE  \A t \in Threads : WorkerSees(t)'
<1>1. queue'.items = queue.items /\ queue'.head = queue.head /\ queue'.tail = queue.tail
  BY DEF QueueRec, rpc_work_queue_close
<1>2. \A t \in Threads : WorkerSees(t)
  BY SeesNow
<1> QED
  BY <1>1, <1>2 DEF WorkerSees

LEMMA DoneStill == ASSUME wk' = wk PROVE AllDone => AllDone'
BY DEF AllDone, Threads

LEMMA Facts ==
  ASSUME IInv
  PROVE  /\ conns \in Seq(Conn) /\ conns \in [DOMAIN conns -> Conn]
         /\ DOMAIN conns = 1 .. Len(conns)
         /\ queue \in QueueRec /\ loop \in [pc : LoopPc, item : Nat]
         /\ wk \in [Threads -> WorkerRec] /\ slots \in Seq(BOOLEAN)
         /\ Threads = 1 .. Len(slots)
         /\ dispatched \subseteq Nat
         /\ \A t \in Threads : wk[t].pc \in {"recv", "send"} => wk[t].item \in 1 .. Len(conns)
<1>1. TypeOK
  BY DEF IInv, Core, Shape
<1>2. conns \in Seq(Conn)
  BY <1>1, Types
<1> QED
  BY <1>1, <1>2, Types DEF IInv, Core, Shape, Serving

LEMMA ClientStep ==
  ASSUME IInv, NEW k \in DOMAIN conns, ClientActs(k)
  PROVE  Core'
<1>1. PICK p \in {"sent", "gone"} : conns' = [conns EXCEPT ![k].peer = p]
  BY DEF ClientActs
<1>2. conns' \in [DOMAIN conns -> Conn]
  <2>1. conns[k] \in Conn /\ conns \in [DOMAIN conns -> Conn]
    BY Facts
  <2>2. [conns[k] EXCEPT !.peer = p] \in Conn
    BY <2>1 DEF Conn
  <2>3. conns' = [conns EXCEPT ![k] = [conns[k] EXCEPT !.peer = p]]
    BY <1>1
  <2> QED
    BY <2>1, <2>2, <2>3
<1>3. /\ queue' = queue /\ slots' = slots /\ wk' = wk /\ loop' = loop
      /\ dispatched' = dispatched /\ inOrder' = inOrder
  BY DEF ClientActs, marks
<1>4. Threads' = Threads
  BY <1>3 DEF Threads
<1>5. Ring => \A t \in Threads : WorkerSees(t)'
  BY <1>3, Facts, SeesStill
<1> QED
  BY <1>2, <1>3, <1>4, <1>5, Facts, DoneStill, QuietStep

(* rpc_server_run decides what to do next.                                   *)
LEMMA RunStep ==
  ASSUME IInv, rpc_server_run
  PROVE  Core'
<1>1. /\ queue' = queue /\ slots' = slots /\ wk' = wk /\ conns' = conns
      /\ dispatched' = dispatched /\ inOrder' = inOrder
  BY DEF rpc_server_run, marks
<1>2. /\ loop' \in [pc : LoopPc, item : Nat]
      /\ loop'.pc \notin {"accepted", "push", "publish", "dispatch"}
  <2>1. PICK q \in {"returned", "accepting", "sweep"} : loop' = [loop EXCEPT !.pc = q]
    BY DEF rpc_server_run
  <2>2. loop \in [pc : LoopPc, item : Nat]
    BY Facts
  <2> QED
    BY <2>1, <2>2 DEF LoopPc
<1>3. Threads' = Threads
  BY <1>1 DEF Threads
<1>4. Ring => \A t \in Threads : WorkerSees(t)'
  BY <1>1, Facts, SeesStill
<1> QED
  BY <1>1, <1>2, <1>3, <1>4, Facts, DoneStill, QuietStep

LEMMA KeepaliveStep ==
  ASSUME IInv, rpc_keepalive_check
  PROVE  Core'
<1>1. /\ queue' = queue /\ slots' = slots /\ wk' = wk
      /\ dispatched' = dispatched /\ inOrder' = inOrder
      /\ loop' = [pc |-> "poll", item |-> NoItem]
  BY DEF rpc_keepalive_check, marks
<1>2. conns' \in [DOMAIN conns -> Conn]
  <2>1. PICK stale \in SUBSET DOMAIN conns :
          conns' = [k \in DOMAIN conns |->
                      IF k \in stale THEN rpc_connection_close(conns[k]) ELSE conns[k]]
    BY DEF rpc_keepalive_check
  <2>2. \A k \in DOMAIN conns : conns[k] \in Conn /\ rpc_connection_close(conns[k]) \in Conn
    BY Facts DEF rpc_connection_close, Conn
  <2> QED
    BY <2>1, <2>2
<1>3. loop' \in [pc : LoopPc, item : Nat] /\ loop'.pc \notin {"accepted", "push", "publish", "dispatch"}
  BY <1>1 DEF LoopPc, NoItem
<1>4. Threads' = Threads
  BY <1>1 DEF Threads
<1>5. Ring => \A t \in Threads : WorkerSees(t)'
  BY <1>1, Facts, SeesStill
<1> QED
  BY <1>1, <1>2, <1>3, <1>4, <1>5, Facts, DoneStill, QuietStep
(* A new connection is younger than all that is dispatched or waiting.        *)
LEMMA AcceptStep ==
  ASSUME IInv, rpc_transport_accept
  PROVE  Core'
<1>1. /\ queue' = queue /\ slots' = slots /\ wk' = wk
      /\ dispatched' = dispatched /\ inOrder' = inOrder /\ Threads' = Threads
  BY DEF rpc_transport_accept, marks, Threads
<1>2. CASE ~server_socket
  <2>1. loop' = [loop EXCEPT !.pc = "crashed"] /\ conns' = conns
    BY <1>2 DEF rpc_transport_accept
  <2>2. loop' \in [pc : LoopPc, item : Nat] /\ loop'.pc \notin {"accepted", "push", "publish", "dispatch"}
    <3>1. loop \in [pc : LoopPc, item : Nat]
      BY Facts
    <3> QED
      BY <2>1, <3>1 DEF LoopPc
  <2>3. Ring => \A t \in Threads : WorkerSees(t)'
    BY <1>1, Facts, SeesStill
  <2> QED
    BY <1>1, <2>1, <2>2, <2>3, Facts, DoneStill, QuietStep
<1>3. CASE server_socket
  <2> DEFINE m == Len(conns)
  <2>1. /\ conns' = Append(conns, NewConnection)
        /\ loop' = [pc |-> "accepted", item |-> m + 1]
    BY <1>3 DEF rpc_transport_accept
  <2>2. conns' \in Seq(Conn) /\ Len(conns') = m + 1 /\ m \in Nat
    <3>1. NewConnection \in Conn /\ conns \in Seq(Conn)
      BY Facts DEF NewConnection, Conn
    <3> QED
      BY <2>1, <3>1
  <2>3. /\ queue \in QueueRec /\ wk \in [Threads -> WorkerRec]
        /\ slots \in Seq(BOOLEAN) /\ Threads = 1 .. Len(slots) /\ dispatched \subseteq Nat
        /\ \A t \in Threads : wk[t].pc \in {"recv", "send"} => wk[t].item \in 1 .. m
    BY Facts
  <2> HIDE DEF m
  <2>4. loop' \in [pc : LoopPc, item : Nat]
    BY <2>1, <2>2 DEF LoopPc
  <2>5. Serving'
    BY <1>1, <2>2, <2>3 DEF Serving
  <2>6. TypeOK'
    BY <1>1, <2>2, <2>3, <2>4, TypesNext
  <2>7. loop'.pc = "accepted" /\ loop'.item = m + 1 /\ (AllDone' <=> AllDone)
    BY <1>1, <2>1 DEF AllDone
  <2>8. ASSUME OneConsumer PROVE Ring'
    <3>1. Ring
      BY <2>8 DEF IInv, Core
    <3>0. dispatched \subseteq 1 .. m + 1 /\ m + 1 \notin dispatched
      BY <2>2, <3>1 DEF Ring, m
    <3>2. \A i \in Slot : Busy(i)' <=> Busy(i)
      BY <1>1 DEF Busy
    <3>3. \A i \in Slot : Busy(i) =>
            queue.items[i] \in 1 .. m /\ (AllDone \/ \A d \in dispatched : d < queue.items[i])
      BY <3>1 DEF Ring, m
    <3>4. \A i \in Slot : Busy(i) => queue.items[i] \in 1 .. m + 1 /\ queue.items[i] < m + 1
      BY <2>2, <3>3
    <3>5. \A t \in Threads : WorkerSees(t)'
      BY <1>1, <2>3, <3>1, SeesStill
    <3>6. \A i, j \in Slot : Busy(i) /\ Busy(j) /\ Before(queue.head, i, j) =>
            queue.items[i] < queue.items[j]
      BY <3>1 DEF Ring
    <3>7. inOrder
      BY <3>1 DEF Ring
    <3>8. Carrying'
      BY <2>7 DEF Carrying
    <3> QED
      BY <1>1, <2>2, <2>7, <3>0, <3>2, <3>3, <3>4, <3>5, <3>6, <3>7, <3>8
      DEF Ring, WorkerSees
  <2>9. OneConsumer' <=> OneConsumer
    BY <1>1 DEF OneConsumer
  <2> QED
    BY <1>1, <2>3, <2>5, <2>6, <2>8, <2>9 DEF IInv, Core, Shape
<1> QED
  BY <1>2, <1>3

(* The loop keeps its item, and dispatches it only when no worker does.       *)
LEMMA ChooseStep ==
  ASSUME IInv, rpc_server_poll
  PROVE  Core'
<1>0. loop.pc = "accepted" /\ loop \in [pc : LoopPc, item : Nat]
  BY Facts DEF rpc_server_poll
<1>1. /\ conns' = conns /\ slots' = slots /\ wk' = wk /\ queue' = queue
      /\ dispatched' = dispatched /\ inOrder' = inOrder /\ Threads' = Threads
  BY DEF rpc_server_poll, marks, Threads
<1>2. PICK q \in {"push", "dispatch"} : loop' = [loop EXCEPT !.pc = q] /\ (q = "dispatch" => AllDone)
  <2>1. flags.worker_count = 0 => AllDone
    BY DEF IInv, Down
  <2>2. flags.worker_count \in Nat
    BY DEF IInv, Down
  <2> QED
    BY <2>1, <2>2 DEF rpc_server_poll
<1>3. loop' \in [pc : LoopPc, item : Nat] /\ loop'.pc = q /\ loop'.item = loop.item
  BY <1>0, <1>2 DEF LoopPc
<1>4. TypeOK'
  BY <1>1, <1>3, Facts, TypesNext
<1>5. ASSUME OneConsumer PROVE Ring'
  <2>1. Ring
    BY <1>5 DEF IInv, Core
  <2>2. Carrying /\ Carrying' /\ (AllDone' <=> AllDone) /\ loop'.pc # "publish" /\ (loop'.pc = "dispatch" => AllDone)
    BY <1>0, <1>1, <1>2, <1>3 DEF Carrying, AllDone
  <2>3. \A i \in Slot : Busy(i)' <=> Busy(i)
    BY <1>1 DEF Busy
  <2> QED
    BY <1>1, <1>3, <2>1, <2>2, <2>3 DEF Ring
<1>6. OneConsumer' <=> OneConsumer
  BY <1>1 DEF OneConsumer
<1> QED
  BY <1>1, <1>4, <1>5, <1>6 DEF IInv, Core, Shape, Serving

(* The copy into the slot at tail: no waiting item is there, and the slot     *)
(* the worker reads is not it.                                                *)
LEMMA PushStep ==
  ASSUME IInv, PushItem
  PROVE  Core'
<1>0. loop.pc = "push" /\ loop \in [pc : LoopPc, item : Nat]
  BY Facts DEF PushItem
<1>1. /\ conns' = conns /\ slots' = slots /\ wk' = wk
      /\ dispatched' = dispatched /\ inOrder' = inOrder /\ Threads' = Threads
  BY DEF PushItem, marks, Threads
<1>2. CASE queue.closed \/ rpc_work_queue_full
  <2>1. loop' = [loop EXCEPT !.pc = "sweep"] /\ queue' = queue
    BY <1>2 DEF PushItem
  <2>2. loop' \in [pc : LoopPc, item : Nat] /\ loop'.pc \notin {"accepted", "push", "publish", "dispatch"}
    BY <1>0, <2>1 DEF LoopPc
  <2>3. Ring => \A t \in Threads : WorkerSees(t)'
    BY <1>1, <2>1, Facts, SeesStill
  <2> QED
    BY <1>1, <2>1, <2>2, <2>3, Facts, DoneStill, QuietStep
<1>3. CASE ~(queue.closed \/ rpc_work_queue_full)
  <2>1. /\ loop' = [loop EXCEPT !.pc = "publish"]
        /\ queue' = [queue EXCEPT !.items[queue.tail] = loop.item]
    BY <1>3 DEF PushItem, Filled
  <2>2. loop' \in [pc : LoopPc, item : Nat] /\ loop'.pc = "publish" /\ loop'.item = loop.item
    BY <1>0, <2>1 DEF LoopPc
  <2>3. queue \in QueueRec /\ conns \in Seq(Conn) /\ dispatched \subseteq Nat
        /\ wk \in [Threads -> WorkerRec]
    BY Facts
  <2>4. /\ queue' \in QueueRec /\ queue'.head = queue.head /\ queue'.tail = queue.tail
        /\ queue'.items[queue.tail] = loop.item
        /\ \A i \in Slot : i # queue.tail => queue'.items[i] = queue.items[i]
    <3>1. queue.items \in [Slot -> Nat] /\ queue.tail \in Slot /\ loop.item \in Nat
      BY <1>0, <2>3 DEF QueueRec
    <3>2. queue' = [queue EXCEPT !.items = [queue.items EXCEPT ![queue.tail] = loop.item]]
      BY <2>1
    <3> DEFINE its == [queue.items EXCEPT ![queue.tail] = loop.item]
    <3>3. /\ its \in [Slot -> Nat] /\ its[queue.tail] = loop.item
          /\ \A i \in Slot : i # queue.tail => its[i] = queue.items[i]
      BY <3>1
    <3> HIDE DEF its
    <3>4. queue' = [queue EXCEPT !.items = its]
      BY <3>2 DEF its
    <3>5. queue' = [items |-> its, head |-> queue.head, tail |-> queue.tail,
                    closed |-> queue.closed]
      BY <2>3, <3>4 DEF QueueRec
    <3> QED
      BY <2>3, <3>3, <3>5 DEF QueueRec
  <2>5. TypeOK'
    BY <1>1, <2>2, <2>3, <2>4, TypesNext
  <2>6. ASSUME OneConsumer PROVE Ring'
    <3>1. Ring
      BY <2>6 DEF IInv, Core
    <3>2. queue.head \in Slot /\ queue.tail \in Slot /\ NextSlot(queue.tail) # queue.head
      BY <1>3, <2>3 DEF QueueRec, rpc_work_queue_full
    <3>3. ~Busy(queue.tail)
      BY <3>2, TailMoves DEF Busy
    <3>4. \A i \in Slot : Busy(i)' <=> Busy(i)
      BY <2>4 DEF Busy
    <3>5. \A i \in Slot : Busy(i) => queue'.items[i] = queue.items[i]
      BY <2>4, <3>3
    <3>6. Carrying /\ Carrying'
      BY <1>0, <2>2 DEF Carrying
    <3>7. \A t \in Threads : WorkerSees(t)'
      <4> SUFFICES ASSUME NEW t \in Threads PROVE WorkerSees(t)'
        OBVIOUS
      <4>1. WorkerSees(t)
        BY <3>1, SeesNow
      <4>2. queue.head # queue.tail => queue'.items[queue.head] = queue.items[queue.head]
        BY <2>4, <3>2
      <4> QED
        BY <1>1, <2>4, <4>1, <4>2 DEF WorkerSees
    <3>8. \A i \in Slot : Busy(i) =>
            /\ queue.items[i] \in 1 .. Len(conns)
            /\ AllDone \/ \A d \in dispatched : d < queue.items[i]
            /\ queue.items[i] < loop.item
      BY <3>1, <3>6 DEF Ring
    <3>9. \A i, j \in Slot : Busy(i) /\ Busy(j) /\ Before(queue.head, i, j) =>
            queue.items[i] < queue.items[j]
      BY <3>1 DEF Ring
    <3>10. /\ loop.item = Len(conns) /\ loop.item > 0 /\ loop.item \notin dispatched
           /\ inOrder /\ dispatched \subseteq 1 .. Len(conns) /\ (AllDone' <=> AllDone)
      BY <1>0, <1>1, <3>1, <3>6 DEF Ring, AllDone
    <3> QED
      BY <1>1, <2>2, <2>4, <3>2, <3>4, <3>5, <3>6, <3>7, <3>8, <3>9, <3>10
      DEF Ring, WorkerSees, NextSlot
  <2>7. OneConsumer' <=> OneConsumer
    BY <1>1 DEF OneConsumer
  <2> QED
    BY <1>1, <2>5, <2>6, <2>7 DEF IInv, Core, Shape, Serving
<1> QED
  BY <1>2, <1>3

(* The move of tail: the item joins the waiting ones as the youngest.         *)
LEMMA PublishStep ==
  ASSUME IInv, Publish
  PROVE  Core'
<1>0. loop.pc = "publish" /\ loop \in [pc : LoopPc, item : Nat]
  BY Facts DEF Publish
<1>1. /\ conns' = conns /\ slots' = slots /\ wk' = wk
      /\ dispatched' = dispatched /\ inOrder' = inOrder /\ Threads' = Threads
      /\ loop' = [loop EXCEPT !.pc = "sweep"]
      /\ queue' = [queue EXCEPT !.tail = NextSlot(queue.tail)]
  BY DEF Publish, Published, marks, Threads
<1>2. loop' \in [pc : LoopPc, item : Nat] /\ loop'.pc = "sweep"
  BY <1>0, <1>1 DEF LoopPc
<1>3. queue \in QueueRec /\ conns \in Seq(Conn) /\ dispatched \subseteq Nat
      /\ wk \in [Threads -> WorkerRec]
  BY Facts
<1>4. queue.tail \in Slot /\ queue.head \in Slot /\ NextSlot(queue.tail) \in Slot
  BY <1>3, NextSlotCases DEF QueueRec
<1>5. /\ queue' \in QueueRec /\ queue'.items = queue.items /\ queue'.head = queue.head
      /\ queue'.tail = NextSlot(queue.tail)
  BY <1>1, <1>3, <1>4 DEF QueueRec
<1>6. TypeOK'
  BY <1>1, <1>2, <1>3, <1>5, TypesNext
<1>7. ASSUME OneConsumer PROVE Ring'
  <2>1. Ring
    BY <1>7 DEF IInv, Core
  <2>2. /\ queue.items[queue.tail] = loop.item /\ NextSlot(queue.tail) # queue.head
        /\ Carrying /\ ~Carrying'
    BY <1>0, <1>2, <2>1 DEF Ring, Carrying
  <2>3. \A i \in Slot : Busy(i)' => Busy(i) \/ i = queue.tail
    BY <1>4, <1>5, <2>2, TailMoves DEF Busy
  <2>4. \A i \in Slot : Busy(i) => ~Before(queue.head, queue.tail, i)
    BY <1>4, <2>2, TailMoves DEF Busy
  <2>5. \A i \in Slot : Busy(i) =>
          /\ queue.items[i] \in 1 .. Len(conns)
          /\ AllDone \/ \A d \in dispatched : d < queue.items[i]
          /\ queue.items[i] < loop.item
    BY <2>1, <2>2 DEF Ring
  <2>6. loop.item = Len(conns) /\ loop.item > 0 /\ loop.item \notin dispatched /\ inOrder
        /\ dispatched \subseteq 1 .. Len(conns) /\ (AllDone' <=> AllDone)
    BY <1>0, <1>1, <2>1, <2>2 DEF Ring, AllDone
  <2>7. \A d \in dispatched : d < loop.item
    BY <1>3, <2>6
  <2>8. \A i \in Slot : Busy(i)' =>
          /\ queue.items[i] \in 1 .. Len(conns)
          /\ AllDone \/ \A d \in dispatched : d < queue.items[i]
    <3> SUFFICES ASSUME NEW i \in Slot, Busy(i)'
                 PROVE  /\ queue.items[i] \in 1 .. Len(conns)
                        /\ AllDone \/ \A d \in dispatched : d < queue.items[i]
      OBVIOUS
    <3>1. CASE Busy(i)
      BY <2>5, <3>1
    <3>2. CASE i = queue.tail
      BY <1>0, <2>2, <2>6, <2>7, <3>2
    <3> QED
      BY <2>3, <3>1, <3>2
  <2>9. ASSUME NEW i \in Slot, NEW j \in Slot, Busy(i)', Busy(j)', Before(queue.head, i, j)
        PROVE  queue.items[i] < queue.items[j]
    <3>1. CASE Busy(i) /\ Busy(j)
      BY <2>1, <2>9, <3>1 DEF Ring
    <3>2. CASE Busy(i) /\ j = queue.tail
      BY <2>2, <2>5, <3>2
    <3>3. CASE i = queue.tail /\ j = queue.tail
      BY <1>4, <2>9, <3>3 DEF Before, Slot
    <3>4. CASE i = queue.tail /\ Busy(j)
      BY <2>4, <2>9, <3>4
    <3> QED
      BY <2>3, <2>9, <3>1, <3>2, <3>3, <3>4
  <2>10. \A t \in Threads : WorkerSees(t)'
    BY <1>1, <1>5, <2>1, <2>2, SeesNow DEF WorkerSees
  <2> QED
    BY <1>1, <1>2, <1>5, <2>2, <2>6, <2>8, <2>9, <2>10 DEF Ring, WorkerSees
<1>8. OneConsumer' <=> OneConsumer
  BY <1>1 DEF OneConsumer
<1> QED
  BY <1>1, <1>6, <1>7, <1>8 DEF IInv, Core, Shape, Serving
(* An answer leaves the connections what they are.                           *)
LEMMA AnswerTyped ==
  ASSUME IInv, NEW k \in DOMAIN conns, rpc_send_message(k)
  PROVE  conns' \in [DOMAIN conns -> Conn]
<1>1. conns \in [DOMAIN conns -> Conn]
  BY Facts
<1>2. [conns[k] EXCEPT !.peer = "answered"] \in Conn
  BY <1>1 DEF Conn
<1>3. conns' = conns \/ conns' = [conns EXCEPT ![k] = [conns[k] EXCEPT !.peer = "answered"]]
  BY DEF rpc_send_message
<1> QED
  BY <1>1, <1>2, <1>3

(* Without workers the loop dispatches what it has just accepted, which is    *)
(* the youngest of all; what joined workers left in the ring stays there.     *)
LEMMA LoopDispatchStep ==
  ASSUME IInv, LoopDispatches
  PROVE  Core'
<1>0. loop.pc = "dispatch" /\ loop \in [pc : LoopPc, item : Nat]
  BY Facts DEF LoopDispatches
<1>1. /\ queue' = queue /\ slots' = slots /\ wk' = wk /\ Threads' = Threads
      /\ dispatched' = dispatched \cup {loop.item}
      /\ inOrder' = (inOrder /\ \A j \in dispatched : j < loop.item)
      /\ loop' = [loop EXCEPT !.pc = "sweep"]
  BY DEF LoopDispatches, Dispatch, Threads
<1>2. loop' \in [pc : LoopPc, item : Nat] /\ loop'.pc = "sweep"
  BY <1>0, <1>1 DEF LoopPc
<1>3. /\ queue \in QueueRec /\ conns \in Seq(Conn) /\ dispatched \subseteq Nat
      /\ wk \in [Threads -> WorkerRec] /\ conns \in [DOMAIN conns -> Conn]
  BY Facts
<1>4. conns' \in [DOMAIN conns -> Conn]
  <2>1. CASE CanDispatch(loop.item) /\ Received(loop.item)
    <3>1. loop.item \in DOMAIN conns /\ rpc_send_message(loop.item)
      BY <2>1 DEF LoopDispatches, CanDispatch
    <3> QED
      BY <3>1, AnswerTyped
  <2>2. CASE ~(CanDispatch(loop.item) /\ Received(loop.item))
    BY <1>3, <2>2 DEF LoopDispatches
  <2> QED
    BY <2>1, <2>2
<1>5. conns' \in Seq(Conn) /\ Len(conns') = Len(conns) /\ Len(conns) \in Nat
  BY <1>3, <1>4, SameConnections
<1>6. TypeOK'
  BY <1>0, <1>1, <1>2, <1>3, <1>5, TypesNext
<1>7. ASSUME OneConsumer PROVE Ring'
  <2>1. Ring /\ Carrying
    BY <1>0, <1>7 DEF IInv, Core, Carrying
  <2>2. /\ loop.item = Len(conns) /\ loop.item > 0 /\ loop.item \notin dispatched
        /\ dispatched \subseteq 1 .. Len(conns) /\ inOrder /\ AllDone /\ AllDone'
    BY <1>0, <1>1, <2>1 DEF Ring, AllDone
  <2>3. \A j \in dispatched : j < loop.item
    BY <1>3, <1>5, <2>2
  <2>4. dispatched' \subseteq 1 .. Len(conns')
    BY <1>1, <1>5, <2>2
  <2>5. \A i \in Slot : Busy(i)' <=> Busy(i)
    BY <1>1 DEF Busy
  <2>6. \A t \in Threads : WorkerSees(t)'
    BY <1>1, <1>3, <2>1, SeesStill
  <2>7. ~Carrying'
    BY <1>2 DEF Carrying
  <2> QED
    BY <1>1, <1>2, <1>5, <2>1, <2>2, <2>3, <2>4, <2>5, <2>6, <2>7 DEF Ring, WorkerSees
<1>8. OneConsumer' <=> OneConsumer
  BY <1>1 DEF OneConsumer
<1>9. Serving' /\ slots' \in Seq(BOOLEAN) /\ Threads' = 1 .. Len(slots')
  BY <1>1, <1>5, Facts DEF Serving
<1> QED
  BY <1>6, <1>7, <1>8, <1>9 DEF IInv, Core, Shape
-----------------------------------------------------------------------------
(* The workers.                                                              *)

(* A worker's step outside of Release: the other threads, of which there are *)
(* none if there is one consumer, stay where they are.                       *)
LEMMA WorkerQuiet ==
  ASSUME IInv, NEW t \in Threads, NEW w \in WorkerRec,
         wk[t].pc # "done", wk' = [wk EXCEPT ![t] = w], conns' \in [DOMAIN conns -> Conn],
         queue' = queue, slots' = slots, loop' = loop,
         dispatched' = dispatched, inOrder' = inOrder,
         w.pc \in {"take", "release"} => queue.head # queue.tail,
         w.pc = "release" => w.item = queue.items[queue.head],
         w.pc \in {"recv", "send"} => w.item \in 1 .. Len(conns)
  PROVE  Core'
<1>1. wk \in [Threads -> WorkerRec]
  BY Facts
<1>2. Threads' = Threads /\ wk' \in [Threads -> WorkerRec]
  BY <1>1 DEF Threads
<1>3. \A u \in Threads : wk'[u] = IF u = t THEN w ELSE wk[u]
  BY <1>1
<1>4. Ring => \A u \in Threads : WorkerSees(u)'
  BY <1>3, SeesNow DEF WorkerSees
<1>5. \A u \in Threads : wk'[u].pc \in {"recv", "send"} => wk'[u].item \in 1 .. Len(conns)
  BY <1>3, Facts
<1>6. ~ AllDone
  BY DEF AllDone
<1> QED
  BY <1>2, <1>4, <1>5, <1>6, Facts, QuietStep

LEMMA LeastNumber ==
  ASSUME NEW S, S \subseteq Nat, S # {}
  PROVE  \E i \in S : \A j \in S : i <= j
<1> DEFINE less == {p \in Nat \X Nat : p[1] < p[2]}
<1>1. IsWellFoundedOn(less, Nat)
  BY NatLessThanWellFounded DEF OpToRel
<1> HIDE DEF less
<1>2. PICK i \in S : \A j \in S : ~(<<j, i>> \in less)
  BY <1>1, WFMin
<1>3. \A j \in S : ~(j < i)
  BY <1>2 DEF less
<1> QED
  BY <1>3

LEMMA WorkerStarts ==
  ASSUME IInv, NEW t \in Threads, worker_thread_fn(t)
  PROVE  Core'
<1> DEFINE up == {i \in 1 .. flags.worker_count : slots[i]}
           id == IF up = {} THEN 1 ELSE CHOOSE i \in up : \A j \in up : i <= j
           w  == [wk[t] EXCEPT !.pc = "loop", !.wid = id]
<1>1. wk[t] \in WorkerRec /\ slots \in Seq(BOOLEAN)
  BY Facts
<1>2. id \in Nat
  <2>1. up \subseteq Nat
    BY <1>1
  <2>2. CASE up # {}
    BY <2>1, <2>2, LeastNumber
  <2> QED
    BY <2>2
<1>3. w \in WorkerRec /\ w.pc = "loop"
  BY <1>1, <1>2 DEF WorkerRec, WorkerPc
<1>4. wk' = [wk EXCEPT ![t] = w]
  <2>1. wk' = [wk EXCEPT ![t].pc = "loop", ![t].wid = id]
    BY DEF worker_thread_fn
  <2>2. wk \in [Threads -> WorkerRec]
    BY Facts
  <2> HIDE DEF id
  <2> QED
    BY <2>1, <2>2
<1>5. /\ conns' = conns /\ queue' = queue /\ slots' = slots /\ loop' = loop
      /\ dispatched' = dispatched /\ inOrder' = inOrder /\ wk[t].pc # "done"
  BY DEF worker_thread_fn, marks
<1> HIDE DEF w
<1> QED
  BY <1>3, <1>4, <1>5, Facts, WorkerQuiet

(* The test for an empty queue: with one consumer it stays true that the     *)
(* queue is not empty, for only this worker moves head.                      *)
LEMMA WorkerTests ==
  ASSUME IInv, NEW t \in Threads, rpc_server_worker_loop(t)
  PROVE  Core'
<1>1. PICK q \in {"done", "take", "loop"} :
        wk' = [wk EXCEPT ![t].pc = q] /\ (q = "take" => queue.head # queue.tail)
  <2> DEFINE to == IF ~ slots[wk[t].wid] \/ flags.shutting_down THEN "done"
                   ELSE IF ~ rpc_work_queue_empty THEN "take"
                   ELSE IF queue.closed THEN "done" ELSE "loop"
  <2>1. wk' = [wk EXCEPT ![t].pc = to]
    BY DEF rpc_server_worker_loop
  <2>2. to \in {"done", "take", "loop"} /\ (to = "take" => queue.head # queue.tail)
    BY DEF rpc_work_queue_empty
  <2> HIDE DEF to
  <2> QED
    BY <2>1, <2>2
<1> DEFINE w == [wk[t] EXCEPT !.pc = q]
<1>2. w \in WorkerRec /\ w.pc = q
  <2>1. wk[t] \in WorkerRec
    BY Facts
  <2> QED
    BY <2>1 DEF WorkerRec, WorkerPc
<1>3. wk' = [wk EXCEPT ![t] = w]
  BY <1>1
<1>4. /\ conns' = conns /\ queue' = queue /\ slots' = slots /\ loop' = loop
      /\ dispatched' = dispatched /\ inOrder' = inOrder /\ wk[t].pc # "done"
  BY DEF rpc_server_worker_loop, marks
<1> HIDE DEF w
<1> QED
  BY <1>1, <1>2, <1>3, <1>4, Facts, WorkerQuiet

(* The copy out of the slot at head.                                         *)
LEMMA TakeStep ==
  ASSUME IInv, NEW t \in Threads, Take(t)
  PROVE  Core'
<1> DEFINE w == [wk[t] EXCEPT !.pc = "release", !.item = queue.items[queue.head]]
<1>1. wk \in [Threads -> WorkerRec] /\ queue \in QueueRec /\ wk[t].pc = "take"
  BY Facts DEF Take
<1>2. queue.items[queue.head] \in Nat
  BY <1>1 DEF QueueRec
<1>3. w \in WorkerRec /\ w.pc = "release" /\ w.item = queue.items[queue.head]
  <2>1. wk[t] \in WorkerRec
    BY <1>1
  <2> QED
    BY <1>2, <2>1 DEF WorkerRec, WorkerPc
<1>4. wk' = [wk EXCEPT ![t] = w]
  BY DEF Take, Taken
<1>5. /\ conns' = conns /\ queue' = queue /\ slots' = slots /\ loop' = loop
      /\ dispatched' = dispatched /\ inOrder' = inOrder
  BY DEF Take, marks
<1> HIDE DEF w
<1>6. Threads' = Threads /\ wk' \in [Threads -> WorkerRec]
  BY <1>1, <1>3, <1>4 DEF Threads
<1>7. \A u \in Threads : wk'[u] = IF u = t THEN w ELSE wk[u]
  BY <1>1, <1>4
<1>8. Ring => \A u \in Threads : WorkerSees(u)'
  BY <1>1, <1>3, <1>5, <1>7, SeesNow DEF WorkerSees
<1>9. \A u \in Threads : wk'[u].pc \in {"recv", "send"} => wk'[u].item \in 1 .. Len(conns)
  BY <1>3, <1>7, Facts
<1>10. ~ AllDone
  BY <1>1 DEF AllDone
<1> QED
  BY <1>5, <1>6, <1>8, <1>9, <1>10, Facts, QuietStep

LEMMA ReceiveStep ==
  ASSUME IInv, NEW t \in Threads, Receive(t)
  PROVE  Core'
<1>1. PICK q \in {"send", "loop"} : wk' = [wk EXCEPT ![t].pc = q]
  BY DEF Receive
<1> DEFINE w == [wk[t] EXCEPT !.pc = q]
<1>2. wk[t] \in WorkerRec /\ wk[t].item \in 1 .. Len(conns)
  BY Facts DEF Receive
<1>3. w \in WorkerRec /\ w.pc = q /\ w.item = wk[t].item
  BY <1>2 DEF WorkerRec, WorkerPc
<1>4. wk' = [wk EXCEPT ![t] = w]
  BY <1>1
<1>5. /\ conns' = conns /\ queue' = queue /\ slots' = slots /\ loop' = loop
      /\ dispatched' = dispatched /\ inOrder' = inOrder /\ wk[t].pc # "done"
  BY DEF Receive, marks
<1> HIDE DEF w
<1> QED
  BY <1>2, <1>3, <1>4, <1>5, Facts, WorkerQuiet

LEMMA SendStep ==
  ASSUME IInv, NEW t \in Threads, Send(t)
  PROVE  Core'
<1> DEFINE w == [wk[t] EXCEPT !.pc = "loop"]
<1>1. wk[t] \in WorkerRec /\ wk[t].item \in DOMAIN conns
  BY Facts DEF Send
<1>2. conns' \in [DOMAIN conns -> Conn]
  BY <1>1, AnswerTyped DEF Send
<1>3. w \in WorkerRec /\ w.pc = "loop"
  BY <1>1 DEF WorkerRec, WorkerPc
<1>4. wk' = [wk EXCEPT ![t] = w]
  BY DEF Send
<1>5. /\ queue' = queue /\ slots' = slots /\ loop' = loop
      /\ dispatched' = dispatched /\ inOrder' = inOrder /\ wk[t].pc # "done"
  BY DEF Send, marks
<1> HIDE DEF w
<1> QED
  BY <1>2, <1>3, <1>4, <1>5, WorkerQuiet

(* The move of head: the oldest of the waiting items is dispatched.          *)
LEMMA ReleaseStep ==
  ASSUME IInv, NEW t \in Threads, Release(t)
  PROVE  Core'
<1> DEFINE k == wk[t].item
<1>1. /\ conns' = conns /\ slots' = slots /\ loop' = loop
      /\ queue' = [queue EXCEPT !.head = NextSlot(queue.head)]
      /\ dispatched' = dispatched \cup {k}
      /\ inOrder' = (inOrder /\ \A j \in dispatched : j < k)
  BY DEF Release, Released, Dispatch
<1>2. /\ queue \in QueueRec /\ conns \in Seq(Conn) /\ wk \in [Threads -> WorkerRec]
      /\ DOMAIN conns = 1 .. Len(conns) /\ dispatched \subseteq Nat /\ wk[t].pc = "release"
  BY Facts DEF Release
<1>3. PICK q \in {"recv", "loop"} :
        wk' = [wk EXCEPT ![t].pc = q] /\ (q = "recv" => k \in DOMAIN conns)
  BY DEF Release, CanDispatch
<1> DEFINE w == [wk[t] EXCEPT !.pc = q]
<1>4. w \in WorkerRec /\ w.pc = q /\ w.item = k /\ k \in Nat
  <2>1. wk[t] \in WorkerRec
    BY <1>2
  <2> QED
    BY <2>1 DEF WorkerRec, WorkerPc
<1>5. wk' = [wk EXCEPT ![t] = w]
  BY <1>3
<1> HIDE DEF w, k
<1>6. /\ Threads' = Threads /\ wk' \in [Threads -> WorkerRec]
      /\ \A u \in Threads : wk'[u] = IF u = t THEN w ELSE wk[u]
  BY <1>2, <1>4, <1>5 DEF Threads
<1>7. queue.tail \in Slot /\ queue.head \in Slot /\ NextSlot(queue.head) \in Slot
  BY <1>2, NextSlotCases DEF QueueRec
<1>8. /\ queue' \in QueueRec /\ queue'.items = queue.items /\ queue'.tail = queue.tail
      /\ queue'.head = NextSlot(queue.head)
  BY <1>1, <1>2, <1>7 DEF QueueRec
<1>9. TypeOK'
  BY <1>1, <1>2, <1>4, <1>6, <1>8, Facts, TypesNext
<1>10. Serving'
  BY <1>1, <1>2, <1>3, <1>4, <1>6, Facts DEF Serving
<1>11. ASSUME OneConsumer PROVE Ring'
  <2>1. Ring
    BY <1>11 DEF IInv, Core
  <2>0. ~ AllDone
    BY <1>2 DEF AllDone
  <2>2. queue.head # queue.tail /\ k = queue.items[queue.head]
    BY <1>2, <2>1, SeesNow DEF WorkerSees, k
  <2>3. /\ Between(queue.head, queue.tail, queue.head)
        /\ \A i \in Slot : Between(NextSlot(queue.head), queue.tail, i) =>
              /\ Between(queue.head, queue.tail, i)
              /\ i # queue.head /\ Before(queue.head, queue.head, i)
        /\ \A i, j \in Slot :
              ( /\ Between(NextSlot(queue.head), queue.tail, i)
                /\ Between(NextSlot(queue.head), queue.tail, j)
                /\ Before(NextSlot(queue.head), i, j) ) => Before(queue.head, i, j)
        /\ NextSlot(queue.tail) # queue.head => NextSlot(queue.tail) # NextSlot(queue.head)
    BY <1>7, <2>2, HeadMoves
  <2>4. Busy(queue.head) /\ \A i \in Slot : Busy(i)' =>
          Busy(i) /\ Before(queue.head, queue.head, i)
    BY <1>8, <2>3 DEF Busy
  <2>5. /\ k \in 1 .. Len(conns) /\ \A d \in dispatched : d < k
        /\ Carrying => k < loop.item
    BY <1>7, <2>1, <2>2, <2>4, <2>0 DEF Ring
  <2>6. dispatched' \subseteq 1 .. Len(conns') /\ inOrder'
    BY <1>1, <2>1, <2>5 DEF Ring
  <2>7. \A i \in Slot : Busy(i) =>
          /\ queue.items[i] \in 1 .. Len(conns)
          /\ \A d \in dispatched : d < queue.items[i]
          /\ Carrying => queue.items[i] < loop.item
    BY <2>0, <2>1 DEF Ring
  <2>8. \A i \in Slot : Busy(i)' => k < queue.items[i]
    BY <1>7, <2>1, <2>2, <2>4 DEF Ring
  <2>9. \A i \in Slot : Busy(i)' =>
          /\ queue'.items[i] \in 1 .. Len(conns')
          /\ \A d \in dispatched' : d < queue'.items[i]
          /\ Carrying' => queue'.items[i] < loop'.item
    BY <1>1, <1>8, <2>4, <2>7, <2>8 DEF Carrying
  <2>10. \A i, j \in Slot : Busy(i)' /\ Busy(j)' /\ Before(queue'.head, i, j) =>
           queue'.items[i] < queue'.items[j]
    <3> SUFFICES ASSUME NEW i \in Slot, NEW j \in Slot, Busy(i)', Busy(j)',
                        Before(NextSlot(queue.head), i, j)
                 PROVE  queue.items[i] < queue.items[j]
      BY <1>8
    <3>1. Before(queue.head, i, j)
      BY <1>8, <2>3 DEF Busy
    <3> QED
      BY <2>1, <2>4, <3>1 DEF Ring
  <2>11. Carrying' => /\ loop'.item = Len(conns') /\ loop'.item > 0
                      /\ loop'.item \notin dispatched'
    <3>1. Carrying => /\ loop.item = Len(conns) /\ loop.item > 0
                      /\ loop.item \notin dispatched
      BY <2>1 DEF Ring
    <3>2. Carrying => loop.item # k
      BY <1>4, <2>5
    <3> QED
      BY <1>1, <3>1, <3>2 DEF Carrying
  <2>12. loop'.pc = "publish" =>
           queue'.items[queue'.tail] = loop'.item /\ NextSlot(queue'.tail) # queue'.head
    BY <1>1, <1>8, <2>1, <2>3 DEF Ring
  <2>13. \A u \in Threads : u = t
    BY <1>11 DEF OneConsumer
  <2>14. \A u \in Threads' : wk'[u].pc \notin {"take", "release"}
    BY <1>3, <1>4, <1>6, <2>13
  <2>15. loop'.pc # "dispatch"
    BY <1>1, <2>0, <2>1 DEF Ring
  <2> QED
    BY <2>6, <2>9, <2>10, <2>11, <2>12, <2>14, <2>15 DEF Ring, NextSlot
<1>12. OneConsumer' <=> OneConsumer
  BY <1>6 DEF OneConsumer
<1> QED
  BY <1>1, <1>6, <1>9, <1>10, <1>11, <1>12, Facts DEF IInv, Core, Shape
-----------------------------------------------------------------------------
(* Shutting down closes the queue but moves nothing in it.                   *)
LEMMA ShutdownStep ==
  ASSUME IInv, wk' = wk, loop' = loop, dispatched' = dispatched, inOrder' = inOrder,
         conns' \in [DOMAIN conns -> Conn],
         queue' = queue \/ queue' = rpc_work_queue_close,
         slots' \in Seq(BOOLEAN), Len(slots') = Len(slots)
  PROVE  Core'
<1>1. Threads' = Threads
  BY DEF Threads
<1>2. Ring => \A t \in Threads : WorkerSees(t)'
  BY Facts, SeesStill
<1> QED
  BY <1>1, <1>2, Facts, DoneStill, QuietStep

LEMMA ShutdownSteps ==
  ASSUME IInv, rpc_server_graceful_shutdown \/ rpc_server_free \/ Shutdown
  PROVE  Core'
<1>1. CASE rpc_server_graceful_shutdown \/ rpc_server_free
  <2>1. /\ wk' = wk /\ loop' = loop /\ dispatched' = dispatched /\ inOrder' = inOrder
        /\ conns' = conns /\ queue' = rpc_work_queue_close /\ slots' = slots
    BY <1>1 DEF rpc_server_graceful_shutdown, rpc_server_free, marks
  <2> QED
    BY <2>1, Facts, ShutdownStep
<1>2. CASE Drain \/ Join \/ NoWorkers
  <2>1. /\ wk' = wk /\ loop' = loop /\ dispatched' = dispatched /\ inOrder' = inOrder
        /\ conns' = conns /\ queue' = queue /\ slots' = slots
    BY <1>2 DEF Drain, Join, NoWorkers, marks
  <2> QED
    BY <2>1, Facts, ShutdownStep
<1>3. CASE rpc_server_stop_workers
  <2>1. /\ wk' = wk /\ loop' = loop /\ dispatched' = dispatched /\ inOrder' = inOrder
        /\ conns' = conns /\ queue' = queue
        /\ slots' = [slots EXCEPT ![shut.i] = FALSE]
    BY <1>3 DEF rpc_server_stop_workers, marks
  <2>2. slots \in Seq(BOOLEAN)
    BY Facts
  <2>3. slots' \in Seq(BOOLEAN) /\ Len(slots') = Len(slots)
    <3>1. /\ DOMAIN slots = 1 .. Len(slots) /\ Len(slots) \in Nat
          /\ slots \in [1 .. Len(slots) -> BOOLEAN]
      BY <2>2
    <3>2. slots' \in [1 .. Len(slots) -> BOOLEAN]
      BY <2>1, <3>1
    <3>3. slots' \in Seq(BOOLEAN)
      BY <3>1, <3>2
    <3> QED
      BY <3>1, <3>2, <3>3
  <2> QED
    BY <2>1, <2>3, Facts, ShutdownStep
<1>4. CASE rpc_transport_close
  <2>1. /\ wk' = wk /\ loop' = loop /\ dispatched' = dispatched /\ inOrder' = inOrder
        /\ conns' = [k \in DOMAIN conns |-> rpc_connection_close(conns[k])]
        /\ queue' = queue /\ slots' = slots
    BY <1>4 DEF rpc_transport_close, marks
  <2>2. \A k \in DOMAIN conns : rpc_connection_close(conns[k]) \in Conn
    BY Facts DEF rpc_connection_close, Conn
  <2>3. conns' \in [DOMAIN conns -> Conn]
    BY <2>1, <2>2
  <2> QED
    BY <2>1, <2>3, Facts, ShutdownStep
<1> QED
  BY <1>1, <1>2, <1>3, <1>4 DEF Shutdown

LEMMA Stutter ==
  ASSUME IInv, UNCHANGED vars
  PROVE  Core'
<1>1. /\ wk' = wk /\ loop' = loop /\ dispatched' = dispatched /\ inOrder' = inOrder
      /\ conns' = conns /\ queue' = queue /\ slots' = slots
  BY DEF vars
<1> QED
  BY <1>1, Facts, ShutdownStep
-----------------------------------------------------------------------------
(* The shutdown, and the threads it waits for.                               *)

LEMMA DownFacts ==
  ASSUME IInv
  PROVE  /\ flags \in [running : BOOLEAN, shutting_down : BOOLEAN, worker_count : Nat]
         /\ shut \in [pc : {"no", "drain", "stop", "join", "close", "done"}, i : Nat \ {0}]
         /\ slots \in Seq(BOOLEAN) /\ Threads = 1 .. Len(slots) /\ Len(slots) \in Nat
         /\ DOMAIN slots = 1 .. Len(slots)
<1>1. slots \in Seq(BOOLEAN) /\ Threads = 1 .. Len(slots)
  BY Facts
<1> QED
  BY <1>1 DEF IInv, Down

(* A thread that is done stays so, and the shutdown goes on where it was.    *)
LEMMA DownRests ==
  ASSUME IInv, flags' \in [running : BOOLEAN, shutting_down : BOOLEAN, worker_count : Nat],
         flags'.worker_count = flags.worker_count, slots' = slots,
         shut' \in [pc : {"no", "drain", "stop", "join", "close", "done"}, i : Nat \ {0}],
         shut'.i = shut.i, shut'.pc = shut.pc \/ (shut.pc # "join" /\ shut'.pc # "join"),
         Threads' = Threads, \A t \in Threads : wk[t].pc = "done" => wk'[t].pc = "done"
  PROVE  Down'
<1>1. Down
  BY DEF IInv
<1> QED
  BY <1>1 DEF Down, AllDone

LEMMA WorkerDown ==
  ASSUME IInv, NEW t \in Threads, Worker(t)
  PROVE  Down'
<1>1. /\ wk[t].pc # "done" /\ flags' = flags /\ shut' = shut /\ slots' = slots
  BY DEF Worker, worker_thread_fn, rpc_server_worker_loop, Take, Release, Receive, Send
<1>2. wk \in [Threads -> WorkerRec]
  BY Facts
<1>3. DOMAIN wk' = DOMAIN wk /\ \A u \in DOMAIN wk : u # t => wk'[u] = wk[u]
  BY <1>2 DEF Worker, worker_thread_fn, rpc_server_worker_loop, Take, Release, Receive, Send, Threads
<1>4. Threads' = Threads /\ \A u \in Threads : wk[u].pc = "done" => wk'[u].pc = "done"
  BY <1>1, <1>3 DEF Threads
<1> QED
  BY <1>1, <1>4, DownFacts, DownRests

(* One turn of the loop that lowers the flags.                               *)
LEMMA StopDown ==
  ASSUME IInv, rpc_server_stop_workers
  PROVE  Down'
<1>1. Down
  BY DEF IInv
<1>2. /\ shut.pc = "stop" /\ shut.i \in 1 .. flags.worker_count /\ flags' = flags /\ wk' = wk
      /\ slots' = [slots EXCEPT ![shut.i] = FALSE]
  BY DEF rpc_server_stop_workers
<1>3. shut.i \in Threads /\ slots[shut.i]
  BY <1>1, <1>2, DownFacts DEF Down
<1>4. shut' = [shut EXCEPT !.pc = "join"]
  BY <1>3 DEF rpc_server_stop_workers
<1>5. /\ shut' \in [pc : {"no", "drain", "stop", "join", "close", "done"}, i : Nat \ {0}]
      /\ shut'.pc = "join" /\ shut'.i = shut.i
  BY <1>4, DownFacts
<1>6. Len(slots') = Len(slots) /\ \A i \in Threads : i # shut.i => slots'[i] = slots[i]
  BY <1>2, DownFacts
<1>7. Threads' = Threads /\ AllDone' = AllDone
  BY <1>2 DEF Threads, AllDone
<1>8. \A i \in Threads : shut.i < i => slots'[i]
  <2> SUFFICES ASSUME NEW i \in Threads, shut.i < i PROVE slots'[i]
    OBVIOUS
  <2>1. i # shut.i
    BY DownFacts
  <2>2. slots[i]
    BY <1>1 DEF Down
  <2> QED
    BY <1>6, <2>1, <2>2
<1> QED
  BY <1>1, <1>2, <1>3, <1>5, <1>6, <1>7, <1>8 DEF Down

(* The thread waited for is done, and the next slot is looked at.            *)
LEMMA JoinDown ==
  ASSUME IInv, Join
  PROVE  Down'
<1>1. Down
  BY DEF IInv
<1>2. /\ shut.pc = "join" /\ wk[shut.i].pc = "done" /\ flags' = flags /\ wk' = wk /\ slots' = slots
      /\ shut' = [pc |-> "stop", i |-> shut.i + 1]
  BY DEF Join
<1>3. /\ shut' \in [pc : {"no", "drain", "stop", "join", "close", "done"}, i : Nat \ {0}]
      /\ shut'.pc = "stop" /\ shut'.i = shut.i + 1 /\ shut.i \in Nat
  BY <1>2, DownFacts
<1>4. Threads' = Threads /\ AllDone' = AllDone
  BY <1>2 DEF Threads, AllDone
<1>5. \A i \in Threads : i \in Nat /\ (i < shut.i + 1 => i < shut.i \/ i = shut.i) /\ (shut.i + 1 <= i => shut.i < i)
  BY <1>3, DownFacts
<1>6. \A i \in Threads : i < shut.i + 1 => wk[i].pc = "done"
  BY <1>1, <1>2, <1>5 DEF Down
<1>7. \A i \in Threads : shut.i + 1 < i \/ shut.i + 1 = i => slots[i]
  <2> SUFFICES ASSUME NEW i \in Threads, shut.i + 1 < i \/ shut.i + 1 = i PROVE slots[i]
    OBVIOUS
  <2>1. shut.i < i
    BY <1>3, <1>5
  <2> QED
    BY <1>1, <2>1 DEF Down
<1> QED
  BY <1>1, <1>2, <1>3, <1>4, <1>6, <1>7 DEF Down

(* Past the last slot all threads are done: none is left to be counted.      *)
LEMMA NoWorkersDown ==
  ASSUME IInv, NoWorkers
  PROVE  Down'
<1>1. Down
  BY DEF IInv
<1>2. /\ shut.pc = "stop" /\ shut.i \notin 1 .. flags.worker_count /\ wk' = wk /\ slots' = slots
      /\ flags' = [flags EXCEPT !.worker_count = 0] /\ shut' = [shut EXCEPT !.pc = "close"]
  BY DEF NoWorkers
<1>3. /\ shut' \in [pc : {"no", "drain", "stop", "join", "close", "done"}, i : Nat \ {0}]
      /\ shut'.pc = "close" /\ shut'.i = shut.i
  BY <1>2, DownFacts
<1>4. /\ flags' \in [running : BOOLEAN, shutting_down : BOOLEAN, worker_count : Nat]
      /\ flags'.worker_count = 0
  BY <1>2, DownFacts
<1>5. Threads' = Threads /\ AllDone' = AllDone
  BY <1>2 DEF Threads, AllDone
<1>6. AllDone
  <2>1. CASE flags.worker_count = 0
    BY <1>1, <2>1 DEF Down
  <2>2. CASE flags.worker_count = Len(slots)
    <3>1. \A t \in Threads : t < shut.i
      BY <1>2, <2>2, DownFacts
    <3> QED
      BY <1>1, <3>1 DEF Down, AllDone
  <2> QED
    BY <1>1, <2>1, <2>2 DEF Down
<1> QED
  BY <1>1, <1>2, <1>3, <1>4, <1>5, <1>6 DEF Down

LEMMA CallDown ==
  ASSUME IInv, rpc_server_graceful_shutdown \/ rpc_server_free \/ Drain \/ rpc_transport_close
  PROVE  Down'
<1>1. wk' = wk /\ slots' = slots /\ Threads' = Threads
  BY DEF rpc_server_graceful_shutdown, rpc_server_free, Drain, rpc_transport_close, Threads
<1>2. /\ flags' \in [running : BOOLEAN, shutting_down : BOOLEAN, worker_count : Nat]
      /\ flags'.worker_count = flags.worker_count
  BY DownFacts DEF rpc_server_graceful_shutdown, rpc_server_free, Drain, rpc_transport_close
<1>3. PICK q \in {"drain", "stop", "done"} : shut' = [shut EXCEPT !.pc = q] /\ shut.pc # "join"
  BY DEF rpc_server_graceful_shutdown, rpc_server_free, Drain, rpc_transport_close
<1>4. /\ shut' \in [pc : {"no", "drain", "stop", "join", "close", "done"}, i : Nat \ {0}]
      /\ shut'.pc = q /\ shut'.i = shut.i
  BY <1>3, DownFacts
<1> QED
  BY <1>1, <1>2, <1>3, <1>4, DownRests

(* Clients and loop leave the shutdown alone.                                *)
LEMMA OtherDown ==
  ASSUME IInv, flags' = flags, shut' = shut, slots' = slots, wk' = wk
  PROVE  Down'
<1>1. Threads' = Threads
  BY DEF Threads
<1> QED
  BY <1>1, DownFacts, DownRests

LEMMA DownStarts == Init => Down
<1> SUFFICES ASSUME Init PROVE Down
  OBVIOUS
<1>1. PICK n \in Nat : /\ slots = [i \in 1 .. n |-> TRUE]
                       /\ wk = [i \in 1 .. n |-> [pc |-> "start", wid |-> 1, item |-> NoItem]]
                       /\ flags = [running |-> TRUE, shutting_down |-> FALSE, worker_count |-> n]
  BY RpcServerAssumption DEF Init
<1>2. Len(slots) = n /\ Threads = 1 .. n /\ \A i \in 1 .. n : slots[i]
  BY <1>1 DEF Threads
<1>3. shut = [pc |-> "no", i |-> 1]
  BY DEF Init
<1>4. n = 0 => AllDone
  BY <1>2 DEF AllDone
<1> QED
  BY <1>1, <1>2, <1>3, <1>4 DEF Down
-----------------------------------------------------------------------------
LEMMA Inductive ==
  ASSUME IInv, [Next]_vars
  PROVE  IInv'
<1>1. ASSUME NEW k \in DOMAIN conns, ClientActs(k) PROVE IInv'
  <2>1. flags' = flags /\ shut' = shut /\ slots' = slots /\ wk' = wk
    BY <1>1 DEF ClientActs
  <2> QED
    BY <1>1, <2>1, ClientStep, OtherDown DEF IInv
<1>2. CASE Loop \/ rpc_transport_accept
  <2>1. flags' = flags /\ shut' = shut /\ slots' = slots /\ wk' = wk
    BY <1>2 DEF Loop, rpc_server_run, rpc_server_poll, PushItem, Publish, rpc_keepalive_check, LoopDispatches,
                rpc_transport_accept
  <2>2. Core'
    BY <1>2, RunStep, ChooseStep, PushStep, PublishStep, KeepaliveStep, LoopDispatchStep, AcceptStep DEF Loop
  <2> QED
    BY <2>1, <2>2, OtherDown DEF IInv
<1>3. ASSUME NEW t \in Threads, Worker(t) PROVE IInv'
  <2>1. Core'
    BY <1>3, WorkerStarts, WorkerTests, TakeStep, ReleaseStep, ReceiveStep, SendStep DEF Worker
  <2> QED
    BY <1>3, <2>1, WorkerDown DEF IInv
<1>4. CASE rpc_server_graceful_shutdown \/ rpc_server_free \/ Shutdown
  <2>1. Down'
    BY <1>4, CallDown, StopDown, JoinDown, NoWorkersDown DEF Shutdown
  <2> QED
    BY <1>4, <2>1, ShutdownSteps DEF IInv
<1>5. CASE UNCHANGED vars
  <2>1. flags' = flags /\ shut' = shut /\ slots' = slots /\ wk' = wk
    BY <1>5 DEF vars
  <2> QED
    BY <1>5, <2>1, Stutter, OtherDown DEF IInv
<1> QED
  BY <1>1, <1>2, <1>3, <1>4, <1>5 DEF Next

LEMMA Implies ==
  ASSUME IInv PROVE FifoOnce
<1>1. Threads = 1 .. Len(slots) /\ Len(slots) \in Nat
  BY Facts
<1>2. Cardinality(Threads) = Len(slots)
  <2>1. Cardinality(1 .. Len(slots)) = IF 1 > Len(slots) THEN 0 ELSE Len(slots) - 1 + 1
    BY <1>1, FS_Interval
  <2> QED
    BY <1>1, <2>1
<1>3. Cardinality(Threads) <= 1 => OneConsumer
  BY <1>1, <1>2 DEF OneConsumer
<1> QED
  BY <1>3 DEF IInv, Core, Shape, Ring, FifoOnce

(* Work queue of rpc_server.c: for any number of workers the state keeps its *)
(* types, and with one worker or none every request is dispatched at most    *)
(* once and in the order of arrival, for every size of the ring, through     *)
(* wrap-around, refused pushes and a shutdown at any moment, behind which    *)
(* the loop dispatches by itself.                                            *)
THEOREM QueueFifo == Spec => []FifoOnce
<1>1. Init => IInv
  BY Initially, DownStarts DEF IInv
<1>2. IInv /\ [Next]_vars => IInv'
  BY Inductive
<1>3. IInv => FifoOnce
  BY Implies
<1> QED
  BY <1>1, <1>2, <1>3, PTL DEF Spec

-----------------------------------------------------------------------------
(***************************************************************************)
(* The arrays of rpc_transport.c, rpc_stub.c and mqtt.c are closed up and    *)
(* searched by position: places and their order first, then sequences with an *)
(* entry put in, taken out or replaced.                                      *)
(***************************************************************************)
(***************************************************************************)
(* The positions that are left when an array is closed up, in their order:   *)
(* the place an entry moves to is the number of those before it.             *)
(***************************************************************************)
Rank(S, i) == Cardinality({j \in S : j < i})
Nth(S, w) == CHOOSE i \in S : Cardinality({j \in S : j < i}) = w - 1
Places(S) == (\A i \in S : i \in Nat) /\ IsFiniteSet(S)

(* What is left of an array is a set of its positions.                       *)
LEMMA PlacesOf ==
  ASSUME NEW n \in Nat, NEW S, S \subseteq 1 .. n
  PROVE  Places(S) /\ Cardinality(S) \in Nat /\ Cardinality(S) <= n
<1>1. IsFiniteSet(1 .. n) /\ Cardinality(1 .. n) = n
  BY FS_Interval
<1>2. IsFiniteSet(S) /\ Cardinality(S) <= n
  BY <1>1, FS_Subset
<1> QED
  BY <1>2, FS_CardinalityType DEF Places

LEMMA RankBelow ==
  ASSUME NEW S, Places(S), NEW i \in Nat
  PROVE  /\ Cardinality(S) \in Nat /\ Rank(S, i) \in Nat
         /\ Rank(S, i) <= Cardinality(S)
         /\ i \in S => Rank(S, i) < Cardinality(S)
         /\ \A j \in S : i <= j => Rank(S, i) <= Rank(S, j)
<1> DEFINE B(x) == {j \in S : j < x}
<1>1. IsFiniteSet(S) /\ Cardinality(S) \in Nat
  BY FS_CardinalityType DEF Places
<1>2. \A x \in Nat : B(x) \subseteq S /\ IsFiniteSet(B(x)) /\ Cardinality(B(x)) \in Nat /\ Cardinality(B(x)) <= Cardinality(S)
  <2> TAKE x \in Nat
  <2>1. B(x) \subseteq S
    OBVIOUS
  <2>2. IsFiniteSet(B(x)) /\ Cardinality(B(x)) <= Cardinality(S)
    BY <1>1, <2>1, FS_Subset
  <2> QED
    BY <2>1, <2>2, FS_CardinalityType
<1>3. ASSUME i \in S PROVE Cardinality(B(i)) < Cardinality(S)
  <2>1. B(i) # S
    BY <1>3 DEF Places
  <2> QED
    BY <1>1, <1>2, <2>1, FS_Subset
<1>4. ASSUME NEW j \in S, i <= j PROVE Cardinality(B(i)) <= Cardinality(B(j))
  <2>0. j \in Nat
    BY DEF Places
  <2>1. \A k \in S : k \in Nat
    BY DEF Places
  <2>2. ASSUME NEW k \in B(i) PROVE k \in B(j)
    <3>1. k \in S /\ k < i /\ k \in Nat
      BY <2>1, <2>2
    <3>2. k < j
      BY <1>4, <2>0, <3>1
    <3> QED
      BY <3>1, <3>2
  <2> QED
    BY <1>2, <2>0, <2>2, FS_Subset
<1> QED
  BY <1>1, <1>2, <1>3, <1>4 DEF Rank

(* One position on, the rank is one more.                                    *)
LEMMA RankNext ==
  ASSUME NEW S, Places(S), NEW i \in S, NEW j \in S, i < j
  PROVE  /\ Rank(S, i) < Rank(S, j)
         /\ (\A k \in S : ~ (i < k /\ k < j)) => Rank(S, j) = Rank(S, i) + 1
<1> DEFINE B(x) == {k \in S : k < x}
<1>0. i \in Nat /\ j \in Nat /\ IsFiniteSet(S)
  BY DEF Places
<1>1. IsFiniteSet(B(i)) /\ IsFiniteSet(B(j)) /\ Cardinality(B(i)) \in Nat /\ Cardinality(B(j)) \in Nat
  <2>1. B(i) \subseteq S /\ B(j) \subseteq S
    OBVIOUS
  <2> QED
    BY <1>0, <2>1, FS_Subset, FS_CardinalityType
<1>2. B(i) \cup {i} \subseteq B(j) /\ i \notin B(i)
  <2>1. \A k \in S : k \in Nat
    BY DEF Places
  <2>2. ASSUME NEW k \in B(i) PROVE k \in B(j)
    <3>1. k \in S /\ k < i /\ k \in Nat
      BY <2>1, <2>2
    <3>2. k < j
      BY <1>0, <3>1
    <3> QED
      BY <3>1, <3>2
  <2>3. i \in B(j) /\ i \notin B(i)
    BY <1>0
  <2> QED
    BY <2>2, <2>3
<1>3. IsFiniteSet(B(i) \cup {i}) /\ Cardinality(B(i) \cup {i}) = Cardinality(B(i)) + 1
  BY <1>1, <1>2, FS_AddElement
<1>4. Cardinality(B(i) \cup {i}) <= Cardinality(B(j))
  BY <1>1, <1>2, FS_Subset
<1>5. ASSUME \A k \in S : ~ (i < k /\ k < j) PROVE B(j) = B(i) \cup {i}
  <2>1. ASSUME NEW k \in B(j) PROVE k \in B(i) \cup {i}
    <3>1. k \in S /\ k < j /\ k \in Nat
      BY <2>1 DEF Places
    <3> QED
      BY <1>0, <1>5, <3>1
  <2> QED
    BY <1>2, <2>1
<1> QED
  BY <1>1, <1>3, <1>4, <1>5 DEF Rank

(* Every place up to their number is taken.                                  *)
LEMMA NthExists ==
  ASSUME NEW S, Places(S), NEW w \in 1 .. Cardinality(S)
  PROVE  \E i \in S : Rank(S, i) = w - 1
<1>0. Cardinality(S) \in Nat /\ (\A k \in S : k \in Nat) /\ IsFiniteSet(S)
  BY FS_CardinalityType DEF Places
<1> DEFINE Missing == {v \in 1 .. Cardinality(S) : ~ \E i \in S : Rank(S, i) = v - 1}
<1>1. SUFFICES ASSUME Missing # {} PROVE FALSE
  OBVIOUS
<1>2. PICK v \in Missing : \A u \in Missing : v <= u
  <2>1. Missing \subseteq Nat
    BY <1>0
  <2> QED
    BY <1>1, <2>1, LeastNumber
<1>3. CASE v = 1
  <2>1. S # {}
    BY <1>0, <1>2, FS_EmptySet
  <2>2. PICK i \in S : \A k \in S : i <= k
    <3>1. S \subseteq Nat
      BY <1>0
    <3> QED
      BY <2>1, <3>1, LeastNumber
  <2>3. {k \in S : k < i} = {}
    BY <1>0, <2>2
  <2> QED
    BY <1>2, <1>3, <2>2, <2>3, FS_EmptySet DEF Rank
<1>4. CASE v > 1
  <2>1. v \in Nat /\ v - 1 \in 1 .. Cardinality(S) /\ v - 1 \notin Missing
    BY <1>0, <1>2, <1>4
  <2>2. PICK p \in S : Rank(S, p) = v - 2
    BY <2>1
  <2> DEFINE Above == {k \in S : p < k}
             B == {k \in S : k < p}
  <2>3. Above # {}
    <3>1. SUFFICES ASSUME Above = {} PROVE FALSE
      OBVIOUS
    <3>2. S = B \cup {p} /\ p \notin B
      <4>1. ASSUME NEW k \in S PROVE k \in B \cup {p}
        BY <1>0, <3>1
      <4> QED
        BY <1>0, <4>1
    <3>3. IsFiniteSet(B)
      BY <1>0, FS_Subset
    <3>4. Cardinality(S) = Cardinality(B) + 1
      BY <3>2, <3>3, FS_AddElement
    <3> QED
      BY <1>0, <1>2, <2>1, <2>2, <3>4 DEF Rank
  <2>4. PICK i \in Above : \A k \in Above : i <= k
    <3>1. Above \subseteq Nat
      BY <1>0
    <3> QED
      BY <2>3, <3>1, LeastNumber
  <2>5. \A k \in S : ~ (p < k /\ k < i)
    BY <1>0, <2>4
  <2>6. Rank(S, i) = Rank(S, p) + 1
    BY <2>4, <2>5, RankNext
  <2> QED
    BY <1>2, <2>1, <2>2, <2>4, <2>6
<1> QED
  BY <1>0, <1>2, <1>3, <1>4

LEMMA NthIs ==
  ASSUME NEW S, Places(S), NEW w \in 1 .. Cardinality(S)
  PROVE  Nth(S, w) \in S /\ Rank(S, Nth(S, w)) = w - 1
<1>1. \E i \in S : Cardinality({j \in S : j < i}) = w - 1
  BY NthExists DEF Rank
<1> QED
  BY <1>1 DEF Nth, Rank

LEMMA NthGrows ==
  ASSUME NEW S, Places(S), NEW v \in 1 .. Cardinality(S), NEW w \in 1 .. Cardinality(S), v < w
  PROVE  Nth(S, v) < Nth(S, w)
<1> DEFINE i == Nth(S, v)
           j == Nth(S, w)
<1>1. i \in S /\ j \in S /\ Rank(S, i) = v - 1 /\ Rank(S, j) = w - 1
  BY NthIs
<1>2. i \in Nat /\ j \in Nat /\ Cardinality(S) \in Nat
  BY <1>1, FS_CardinalityType DEF Places
<1>3. CASE j <= i
  <2>1. Rank(S, j) <= Rank(S, i)
    BY <1>1, <1>2, <1>3, RankBelow
  <2> QED
    BY <1>1, <1>2, <2>1
<1> QED
  BY <1>2, <1>3

LEMMA NthOfRank ==
  ASSUME NEW S, Places(S), NEW i \in S
  PROVE  Rank(S, i) + 1 \in 1 .. Cardinality(S) /\ Nth(S, Rank(S, i) + 1) = i
<1> DEFINE w == Rank(S, i) + 1
           j == Nth(S, w)
<1>0. i \in Nat
  BY DEF Places
<1>1. w \in 1 .. Cardinality(S) /\ w - 1 = Rank(S, i)
  BY <1>0, RankBelow
<1>2. j \in S /\ Rank(S, j) = Rank(S, i)
  BY <1>1, NthIs
<1>3. j \in Nat
  BY <1>2 DEF Places
<1>4. ~ (i < j) /\ ~ (j < i)
  BY <1>0, <1>2, <1>3, RankNext, RankBelow
<1> QED
  BY <1>0, <1>1, <1>3, <1>4

(***************************************************************************)
(* A sequence with an entry put in or taken out.                             *)
(***************************************************************************)
Inserted(b, s, k, e) ==
  /\ Len(b) = Len(s) + 1 /\ b[k] = e
  /\ \A i \in 1 .. Len(b) : (i < k => b[i] = s[i]) /\ (i > k => b[i] = s[i - 1])

Removed(b, s, k) ==
  /\ Len(b) = Len(s) - 1
  /\ \A i \in 1 .. Len(b) : b[i] = IF i < k THEN s[i] ELSE s[i + 1]

LEMMA InsertIs ==
  ASSUME NEW T, NEW s \in Seq(T), NEW k \in 1 .. Len(s) + 1, NEW e \in T
  PROVE  InsertAt(s, k, e) \in Seq(T) /\ Inserted(InsertAt(s, k, e), s, k, e)
<1> DEFINE a == SubSeq(s, 1, k - 1)
           c == SubSeq(s, k, Len(s))
           m == a \o <<e>>
<1>0. Len(s) \in Nat /\ k \in Nat
  OBVIOUS
<1>1. a \in Seq(T) /\ Len(a) = k - 1 /\ \A i \in 1 .. k - 1 : a[i] = s[i]
  BY <1>0
<1>2. c \in Seq(T) /\ Len(c) = Len(s) - k + 1 /\ \A i \in 1 .. Len(c) : c[i] = s[k + i - 1]
  BY <1>0
<1>3. <<e>> \in Seq(T) /\ Len(<<e>>) = 1 /\ <<e>>[1] = e
  OBVIOUS
<1> HIDE DEF a, c
<1>4. m \in Seq(T) /\ Len(m) = k /\ m[k] = e /\ \A i \in 1 .. k - 1 : m[i] = s[i]
  BY <1>0, <1>1, <1>3
<1> HIDE DEF m
<1>5. m \o c \in Seq(T) /\ Len(m \o c) = Len(s) + 1
  <2>1. m \o c \in Seq(T) /\ Len(m \o c) = Len(m) + Len(c)
    BY <1>2, <1>4, ConcatProperties
  <2> QED
    BY <1>0, <1>2, <1>4, <2>1
<1>6. \A i \in 1 .. k : (m \o c)[i] = m[i]
  BY <1>0, <1>2, <1>4
<1>7. \A i \in k + 1 .. Len(s) + 1 : (m \o c)[i] = c[i - k]
  BY <1>0, <1>2, <1>4
<1>8. \A i \in k + 1 .. Len(s) + 1 : (m \o c)[i] = s[i - 1]
  <2> TAKE i \in k + 1 .. Len(s) + 1
  <2>1. i - k \in 1 .. Len(c) /\ k + (i - k) - 1 = i - 1
    BY <1>0, <1>2
  <2>2. c[i - k] = s[i - 1]
    BY <1>2, <2>1
  <2> QED
    BY <1>7, <2>2
<1>9. InsertAt(s, k, e) = m \o c
  BY DEF InsertAt, m, a, c
<1> DEFINE q == m \o c
<1>10. q[k] = e /\ \A i \in 1 .. k - 1 : q[i] = s[i]
  BY <1>0, <1>4, <1>6
<1>11. q \in Seq(T) /\ Len(q) = Len(s) + 1
  BY <1>5
<1>12. \A i \in k + 1 .. Len(s) + 1 : q[i] = s[i - 1]
  BY <1>8
<1>13. InsertAt(s, k, e) = q
  BY <1>9
<1> HIDE DEF q
<1>14. \A i \in 1 .. Len(q) : (i < k => q[i] = s[i]) /\ (i > k => q[i] = s[i - 1])
  <2> TAKE i \in 1 .. Len(q)
  <2>1. i < k => i \in 1 .. k - 1
    BY <1>0
  <2>2. i > k => i \in k + 1 .. Len(s) + 1
    BY <1>0, <1>11
  <2> QED
    BY <1>10, <1>12, <2>1, <2>2
<1>15. Inserted(q, s, k, e)
  BY <1>10, <1>11, <1>14 DEF Inserted
<1> QED
  BY <1>11, <1>13, <1>15

LEMMA RemoveIs ==
  ASSUME NEW T, NEW s \in Seq(T), NEW k \in 1 .. Len(s)
  PROVE  RemoveAt(s, k) \in Seq(T) /\ Removed(RemoveAt(s, k), s, k)
<1> DEFINE a == SubSeq(s, 1, k - 1)
           c == SubSeq(s, k + 1, Len(s))
<1>0. Len(s) \in Nat /\ k \in Nat
  OBVIOUS
<1>1. a \in Seq(T) /\ Len(a) = k - 1 /\ \A i \in 1 .. k - 1 : a[i] = s[i]
  BY <1>0
<1>2. c \in Seq(T) /\ Len(c) = Len(s) - k /\ \A i \in 1 .. Len(c) : c[i] = s[k + i]
  BY <1>0
<1> HIDE DEF a, c
<1>3. a \o c \in Seq(T) /\ Len(a \o c) = Len(s) - 1
  <2>1. a \o c \in Seq(T) /\ Len(a \o c) = Len(a) + Len(c)
    BY <1>1, <1>2, ConcatProperties
  <2> QED
    BY <1>0, <1>1, <1>2, <2>1
<1>4. \A i \in 1 .. k - 1 : (a \o c)[i] = s[i]
  BY <1>0, <1>1, <1>2
<1>5. \A i \in k .. Len(s) - 1 : (a \o c)[i] = c[i - (k - 1)]
  BY <1>0, <1>1, <1>2
<1>6. \A i \in k .. Len(s) - 1 : (a \o c)[i] = s[i + 1]
  <2> TAKE i \in k .. Len(s) - 1
  <2>1. i - (k - 1) \in 1 .. Len(c) /\ k + (i - (k - 1)) = i + 1
    BY <1>0, <1>2
  <2>2. c[i - (k - 1)] = s[i + 1]
    BY <1>2, <2>1
  <2> QED
    BY <1>5, <2>2
<1>7. RemoveAt(s, k) = a \o c
  BY DEF RemoveAt, a, c
<1>8. \A i \in 1 .. Len(s) - 1 : (a \o c)[i] = IF i < k THEN s[i] ELSE s[i + 1]
  <2> TAKE i \in 1 .. Len(s) - 1
  <2>1. CASE i < k
    <3>1. i \in 1 .. k - 1
      BY <1>0, <2>1
    <3>2. (a \o c)[i] = s[i]
      BY <1>4, <3>1
    <3> QED
      BY <2>1, <3>2
  <2>2. CASE ~ (i < k)
    <3>1. i \in k .. Len(s) - 1
      BY <1>0, <2>2
    <3>2. (a \o c)[i] = s[i + 1]
      BY <1>6, <3>1
    <3> QED
      BY <2>2, <3>2
  <2> QED
    BY <2>1, <2>2
<1> QED
  BY <1>3, <1>7, <1>8 DEF Removed

(* The first entry that passes a test.                                       *)
First(k, s, S) == \/ k = 0 /\ S = {}
                  \/ k \in S /\ k \in 1 .. Len(s) /\ \A i \in 1 .. k - 1 : i \notin S

LEMMA MinIs ==
  ASSUME NEW T, NEW s \in Seq(T), NEW S, S \subseteq 1 .. Len(s), NEW k, k = IF S # {} THEN Min(S) ELSE 0
  PROVE  First(k, s, S)
<1>1. CASE S = {}
  BY <1>1 DEF First
<1>2. CASE S # {}
  <2>1. S \subseteq Nat
    OBVIOUS
  <2>2. PICK m \in S : \A j \in S : m <= j
    BY <1>2, <2>1, LeastNumber
  <2>3. Min(S) \in S /\ \A j \in S : Min(S) <= j
    BY <2>2 DEF Min
  <2>4. \A i \in 1 .. Min(S) - 1 : i \notin S
    <3> SUFFICES ASSUME NEW i \in 1 .. Min(S) - 1, i \in S PROVE FALSE
      OBVIOUS
    <3>1. Min(S) <= i /\ Min(S) \in Nat
      BY <2>1, <2>3
    <3> QED
      BY <3>1
  <2> QED
    BY <1>2, <2>3, <2>4 DEF First
<1> QED
  BY <1>1, <1>2

Replaced(b, s, k, e) ==
  Len(b) = Len(s) /\ \A i \in 1 .. Len(s) : b[i] = IF i = k THEN e ELSE s[i]

LEMMA ReplaceIs ==
  ASSUME NEW T, NEW s \in Seq(T), NEW k \in 1 .. Len(s), NEW e \in T, NEW b, b = [s EXCEPT ![k] = e]
  PROVE  b \in Seq(T) /\ Replaced(b, s, k, e)
<1>1. s \in [1 .. Len(s) -> T] /\ Len(s) \in Nat
  OBVIOUS
<1>2. b \in [1 .. Len(s) -> T] /\ \A i \in 1 .. Len(s) : b[i] = IF i = k THEN e ELSE s[i]
  BY <1>1
<1>3. b \in Seq(T) /\ Len(b) = Len(s)
  BY <1>1, <1>2
<1> QED
  BY <1>2, <1>3 DEF Replaced

-----------------------------------------------------------------------------
(***************************************************************************)
(* The connection pool: every socket in use is owned by one connection or one *)
(* pooled entry, though entries move up when others are closed.  SocketsOwned *)
(* needs to know that no entry beyond the counts is counted on, and that a   *)
(* socket handed out is new.                                                 *)
(***************************************************************************)

Entry(e) == "fd" \in DOMAIN e
Array(a, n) == a = [i \in 1 .. n |-> a[i]] /\ \A i \in 1 .. n : Entry(a[i])

(* The sockets o are those of the first nc entries of c and the first np of  *)
(* p, each of one of them.                                                   *)
Owned(c, nc, p, np, o) ==
  /\ \A i \in 1 .. nc : c[i].fd # 0 => c[i].fd \in o
  /\ \A i \in 1 .. np : p[i].fd # 0 => p[i].fd \in o
  /\ \A i, j \in 1 .. nc : c[i].fd # 0 /\ c[i].fd = c[j].fd => i = j
  /\ \A i, j \in 1 .. np : p[i].fd # 0 /\ p[i].fd = p[j].fd => i = j
  /\ \A i \in 1 .. nc, j \in 1 .. np : c[i].fd # 0 => c[i].fd # p[j].fd
  /\ \A f \in o : (\E i \in 1 .. nc : c[i].fd = f) \/ (\E i \in 1 .. np : p[i].fd = f)

PoolShape ==
  /\ Array(connections, PoolConnections) /\ connection_count \in 0 .. PoolConnections
  /\ Array(pool, MaxPool) /\ pool_size \in 0 .. MaxPool
  /\ open \subseteq 1 .. MaxFd

PoolInv ==
  ~ overrun => PoolShape /\ Owned(connections, connection_count, pool, pool_size, open)

Put(b, a, n, k, e) ==
  Array(b, n) /\ b[k] = e /\ \A i \in 1 .. n : i # k => b[i] = a[i]

LEMMA ArrayExcept ==
  ASSUME NEW n, NEW a, Array(a, n), NEW k \in 1 .. n, NEW e, Entry(e), NEW b, b = [a EXCEPT ![k] = e]
  PROVE  Put(b, a, n, k, e)
<1>1. a = [i \in 1 .. n |-> a[i]]
  BY DEF Array
<1>2. b = [i \in 1 .. n |-> IF i = k THEN e ELSE a[i]]
  BY <1>1
<1>3. b[k] = e /\ \A i \in 1 .. n : i # k => b[i] = a[i]
  BY <1>2
<1>4. b = [i \in 1 .. n |-> b[i]]
  BY <1>2
<1> QED
  BY <1>3, <1>4 DEF Array, Put

LEMMA OwnedConnect ==
  ASSUME NEW c, NEW nc \in Nat, NEW p, NEW np \in Nat, NEW o, Owned(c, nc, p, np, o),
         NEW f, f \notin o, f # 0, NEW d, d[nc + 1].fd = f,
         \A i \in 1 .. nc : d[i] = c[i]
  PROVE  Owned(d, nc + 1, p, np, o \cup {f})
<1>1. 1 .. nc + 1 = (1 .. nc) \cup {nc + 1}
  OBVIOUS
<1>2. \A i \in 1 .. nc : c[i].fd # f
  BY DEF Owned
<1>3. \A i \in 1 .. np : p[i].fd # f
  BY DEF Owned
<1> QED
  BY <1>1, <1>2, <1>3 DEF Owned

LEMMA OwnedAcquire ==
  ASSUME NEW c, NEW nc \in Nat, NEW p, NEW np \in Nat, NEW o, Owned(c, nc, p, np, o),
         NEW f, f \notin o, f # 0, NEW d, \A i \in 1 .. nc : d[i] = c[i],
         NEW q, q[np + 1].fd = f, \A i \in 1 .. np : q[i] = p[i]
  PROVE  Owned(d, nc, q, np + 1, o \cup {f})
<1>1. 1 .. np + 1 = (1 .. np) \cup {np + 1}
  OBVIOUS
<1>2. \A i \in 1 .. nc : c[i].fd # f
  BY DEF Owned
<1>3. \A i \in 1 .. np : p[i].fd # f
  BY DEF Owned
<1> QED
  BY <1>1, <1>2, <1>3 DEF Owned

LEMMA OwnedClose ==
  ASSUME NEW c, NEW nc \in Nat, NEW p, NEW np \in Nat, NEW o, Owned(c, nc, p, np, o),
         NEW k \in 1 .. nc, NEW d, d[k].fd = 0, \A i \in 1 .. nc : i # k => d[i] = c[i],
         0 \notin o
  PROVE  Owned(d, nc, p, np, o \ {c[k].fd})
<1>1. \A i \in 1 .. nc : i # k /\ c[i].fd # 0 => c[i].fd # c[k].fd
  BY DEF Owned
<1>2. \A i \in 1 .. np : p[i].fd # 0 => p[i].fd # c[k].fd
  BY DEF Owned
<1> QED
  BY <1>1, <1>2 DEF Owned

ClosedUp(q, p, K) == \A w \in 1 .. Cardinality(K) : q[w] = p[Nth(K, w)]
FdsBeside(p, n, K) == {p[i].fd : i \in (1 .. n) \ K}

LEMMA OwnedShrink ==
  ASSUME NEW c, NEW nc \in Nat, NEW p, NEW np \in Nat, NEW o, Owned(c, nc, p, np, o),
         NEW K, K \subseteq 1 .. np,
         NEW q, ClosedUp(q, p, K), 0 \notin o
  PROVE  Owned(c, nc, q, Cardinality(K), o \ FdsBeside(p, np, K))
<1> DEFINE n == Cardinality(K)
           dropped == {p[i].fd : i \in (1 .. np) \ K}
<1>0. \A w \in 1 .. n : q[w] = p[Nth(K, w)]
  BY DEF ClosedUp
<1>1. Places(K) /\ n \in Nat /\ n <= np
  BY PlacesOf
<1>2. \A w \in 1 .. n : Nth(K, w) \in K /\ Nth(K, w) \in 1 .. np
  BY <1>1, NthIs
<1>3. \A v, w \in 1 .. n : Nth(K, v) = Nth(K, w) => v = w
  <2> TAKE v, w \in 1 .. n
  <2>1. CASE v < w
    <3>1. Nth(K, v) < Nth(K, w)
      BY <1>1, <2>1, NthGrows
    <3> QED
      BY <1>2, <3>1
  <2>2. CASE w < v
    <3>1. Nth(K, w) < Nth(K, v)
      BY <1>1, <2>2, NthGrows
    <3> QED
      BY <1>2, <3>1
  <2> QED
    BY <1>1, <2>1, <2>2
<1>4. \A i \in K : \E w \in 1 .. n : Nth(K, w) = i
  BY <1>1, NthOfRank
<1>5. \A w \in 1 .. n : q[w].fd # 0 => q[w].fd \in o \ dropped
  <2> SUFFICES ASSUME NEW w \in 1 .. n, q[w].fd # 0 PROVE q[w].fd \in o \ dropped
    OBVIOUS
  <2>1. PICK i \in K : i \in 1 .. np /\ q[w] = p[i]
    BY <1>0, <1>2
  <2> QED
    BY <2>1 DEF Owned
<1>6. \A i \in 1 .. nc : c[i].fd # 0 => c[i].fd \in o \ dropped
  BY DEF Owned
<1>7. \A v, w \in 1 .. n : q[v].fd # 0 /\ q[v].fd = q[w].fd => v = w
  <2> SUFFICES ASSUME NEW v \in 1 .. n, NEW w \in 1 .. n, q[v].fd # 0, q[v].fd = q[w].fd PROVE v = w
    OBVIOUS
  <2>1. p[Nth(K, v)].fd # 0 /\ p[Nth(K, v)].fd = p[Nth(K, w)].fd
    BY <1>0
  <2>2. Nth(K, v) = Nth(K, w)
    BY <1>2, <2>1 DEF Owned
  <2> QED
    BY <1>3, <2>2
<1>8. \A i \in 1 .. nc, w \in 1 .. n : c[i].fd # 0 => c[i].fd # q[w].fd
  BY <1>0, <1>2 DEF Owned
<1>9. \A f \in o \ dropped : (\E i \in 1 .. nc : c[i].fd = f) \/ (\E w \in 1 .. n : q[w].fd = f)
  <2> SUFFICES ASSUME NEW f \in o \ dropped, ~ \E i \in 1 .. nc : c[i].fd = f
               PROVE  \E w \in 1 .. n : q[w].fd = f
    OBVIOUS
  <2>1. PICK i \in 1 .. np : p[i].fd = f
    BY DEF Owned
  <2>2. i \in K
    BY <2>1
  <2> QED
    BY <1>0, <1>4, <2>1, <2>2
<1>10. \A i, j \in 1 .. nc : c[i].fd # 0 /\ c[i].fd = c[j].fd => i = j
  BY DEF Owned
<1> HIDE DEF n, dropped
<1>11. Owned(c, nc, q, n, o \ dropped)
  BY <1>5, <1>6, <1>7, <1>8, <1>9, <1>10 DEF Owned
<1> QED
  BY <1>11 DEF n, dropped, FdsBeside

LEMMA ShrunkIs ==
  ASSUME PoolShape
  PROVE  /\ Kept \subseteq 1 .. pool_size
         /\ Cardinality(Kept) \in 0 .. pool_size
         /\ Array(Shrunk, MaxPool)
         /\ \A w \in 1 .. Cardinality(Kept) : Shrunk[w] = pool[Nth(Kept, w)]
<1>0. pool_size \in Nat /\ MaxPool \in Nat /\ pool_size <= MaxPool
  BY PoolAssumption DEF PoolShape, Array
<1>1. Kept \subseteq 1 .. pool_size
  BY DEF Kept
<1>2. Places(Kept) /\ Cardinality(Kept) \in Nat /\ Cardinality(Kept) <= pool_size
  BY <1>0, <1>1, PlacesOf
<1>3. \A w \in 1 .. Cardinality(Kept) : Nth(Kept, w) \in 1 .. pool_size
  BY <1>1, <1>2, NthIs
<1>4. \A w \in 1 .. Cardinality(Kept) : Shrunk[w] = pool[Nth(Kept, w)]
  BY <1>0, <1>2 DEF Shrunk, Nth
<1>5. \A w \in 1 .. Cardinality(Kept) : Entry(Shrunk[w])
  BY <1>0, <1>3, <1>4 DEF PoolShape, Array
<1>6. ASSUME NEW w \in 1 .. MaxPool, ~ (w <= Cardinality(Kept)) PROVE Entry(Shrunk[w])
  <2>1. Entry(pool[w])
    BY DEF PoolShape, Array
  <2>2. Entry(pool_connection_close(pool[w]))
    BY <2>1 DEF pool_connection_close, Entry
  <2>3. Shrunk[w] \in {pool_connection_close(pool[w]), pool[w]}
    BY <1>6 DEF Shrunk
  <2> QED
    BY <2>1, <2>2, <2>3
<1>7. Array(Shrunk, MaxPool)
  <2>1. \A w \in 1 .. MaxPool : Entry(Shrunk[w])
    BY <1>2, <1>5, <1>6
  <2>2. Shrunk = [w \in 1 .. MaxPool |-> Shrunk[w]]
    BY DEF Shrunk
  <2> QED
    BY <2>1, <2>2 DEF Array
<1> QED
  BY <1>0, <1>1, <1>2, <1>4, <1>7

(* What the pool is after the clean-up that an acquire begins with.          *)
LEMMA AfterShrink ==
  ASSUME PoolShape, Owned(connections, connection_count, pool, pool_size, open)
  PROVE  Owned(connections, connection_count, Shrunk, Cardinality(Kept), open \ DroppedFds)
<1>1. pool_size \in Nat /\ connection_count \in Nat /\ 0 \notin open
  BY PoolAssumption DEF PoolShape, Array
<1>2. Kept \subseteq 1 .. pool_size /\ \A w \in 1 .. Cardinality(Kept) : Shrunk[w] = pool[Nth(Kept, w)]
  BY ShrunkIs
<1>3. DroppedFds = FdsBeside(pool, pool_size, Kept)
  BY DEF DroppedFds, FdsBeside
<1>4. ClosedUp(Shrunk, pool, Kept)
  BY <1>2 DEF ClosedUp
<1> QED
  BY <1>1, <1>2, <1>3, <1>4, OwnedShrink

LEMMA NewFd ==
  ASSUME NEW left, NEW f \in {g \in 1 .. MaxFd \ left : \A h \in 1 .. MaxFd \ left : g <= h}
  PROVE  f \in 1 .. MaxFd /\ f \notin left /\ f # 0
BY PoolAssumption

LEMMA PoolConnectStep ==
  ASSUME PoolInv, ~ overrun, NEW a \in PoolAddresses, rpc_transport_connect(a)
  PROVE  PoolInv'
<1>1. PoolShape /\ Owned(connections, connection_count, pool, pool_size, open)
  BY DEF PoolInv
<1>2. PICK f \in NewFds : /\ open' = open \cup {f}
                          /\ connections' = [connections EXCEPT ![connection_count + 1] = Fresh(a, f)]
  BY DEF rpc_transport_connect
<1>3. f \in 1 .. MaxFd /\ f \notin open /\ f # 0
  BY NewFd DEF NewFds
<1>4. Entry(Fresh(a, f)) /\ Fresh(a, f).fd = f
  BY DEF Fresh, Entry
<1>5. connection_count \in Nat /\ connection_count + 1 \in 1 .. PoolConnections /\ pool_size \in Nat
  BY <1>1, PoolAssumption DEF PoolShape, Array, rpc_transport_connect
<1>6. /\ Array(connections', PoolConnections)
      /\ connections'[connection_count + 1].fd = f
      /\ \A i \in 1 .. connection_count : connections'[i] = connections[i]
  <2>1. /\ Array(connections', PoolConnections)
        /\ connections'[connection_count + 1] = Fresh(a, f)
        /\ \A i \in 1 .. PoolConnections : i # connection_count + 1 => connections'[i] = connections[i]
    <3>1. Put(connections', connections, PoolConnections, connection_count + 1, Fresh(a, f))
      BY <1>1, <1>2, <1>4, <1>5, ArrayExcept DEF PoolShape
    <3> QED
      BY <3>1 DEF Put
  <2> QED
    BY <1>4, <1>5, <2>1, PoolAssumption
<1>7. Owned(connections', connection_count + 1, pool, pool_size, open \cup {f})
  BY <1>1, <1>3, <1>5, <1>6, OwnedConnect
<1>8. PoolShape'
  BY <1>1, <1>2, <1>3, <1>5, <1>6, PoolAssumption DEF PoolShape, Array, rpc_transport_connect
<1> QED
  BY <1>2, <1>7, <1>8 DEF PoolInv, rpc_transport_connect

LEMMA PoolCloseStep ==
  ASSUME PoolInv, ~ overrun, NEW k \in 1 .. PoolConnections, Close(k)
  PROVE  PoolInv'
<1>1. PoolShape /\ Owned(connections, connection_count, pool, pool_size, open)
  BY DEF PoolInv
<1>2. connection_count \in Nat /\ pool_size \in Nat /\ k \in 1 .. connection_count /\ 0 \notin open
  BY <1>1, PoolAssumption DEF PoolShape, Array, Close
<1>3. Entry(connections[k])
  BY <1>1 DEF PoolShape, Array
<1>4. Entry(pool_connection_close(connections[k])) /\ pool_connection_close(connections[k]).fd = 0
  BY <1>3 DEF pool_connection_close, Entry
<1>5. /\ Array(connections', PoolConnections)
      /\ connections'[k].fd = 0
      /\ \A i \in 1 .. connection_count : i # k => connections'[i] = connections[i]
  <2>1. connections' = [connections EXCEPT ![k] = pool_connection_close(connections[k])]
    BY DEF Close
  <2>2. /\ Array(connections', PoolConnections)
        /\ connections'[k] = pool_connection_close(connections[k])
        /\ \A i \in 1 .. PoolConnections : i # k => connections'[i] = connections[i]
    <3>1. Put(connections', connections, PoolConnections, k, pool_connection_close(connections[k]))
      BY <1>1, <1>4, <2>1, ArrayExcept DEF PoolShape
    <3> QED
      BY <3>1 DEF Put
  <2>3. connection_count <= PoolConnections
    BY <1>1, PoolAssumption DEF PoolShape
  <2> QED
    BY <1>2, <1>4, <2>2, <2>3, PoolAssumption
<1>6. Owned(connections', connection_count, pool, pool_size, open \ {connections[k].fd})
  BY <1>1, <1>2, <1>5, OwnedClose
<1>7. PoolShape'
  BY <1>1, <1>5 DEF PoolShape, Array, Close
<1> QED
  BY <1>6, <1>7 DEF PoolInv, Close

LEMMA PoolShrinkStep ==
  ASSUME PoolInv, ~ overrun, rpc_transport_pool_shrink
  PROVE  PoolInv'
<1>1. PoolShape /\ Owned(connections, connection_count, pool, pool_size, open)
  BY DEF PoolInv
<1>2. Owned(connections, connection_count, Shrunk, Cardinality(Kept), open \ DroppedFds)
  BY <1>1, AfterShrink
<1>3. Array(Shrunk, MaxPool) /\ Cardinality(Kept) \in 0 .. pool_size
  BY <1>1, ShrunkIs
<1>4. PoolShape'
  BY <1>1, <1>3, PoolAssumption DEF PoolShape, Array, rpc_transport_pool_shrink
<1> QED
  BY <1>2, <1>4 DEF PoolInv, rpc_transport_pool_shrink

(* The pool an acquire adds to: closed up first if it was full.              *)
LEMMA PoolToAdd ==
  ASSUME PoolShape, Owned(connections, connection_count, pool, pool_size, open),
         NEW full \in BOOLEAN, NEW p, NEW size, NEW left,
         p = IF full THEN Shrunk ELSE pool,
         size = IF full THEN Cardinality(Kept) ELSE pool_size,
         left = IF full THEN open \ DroppedFds ELSE open
  PROVE  /\ Owned(connections, connection_count, p, size, left)
         /\ Array(p, MaxPool) /\ size \in 0 .. pool_size /\ left \subseteq 1 .. MaxFd
<1>1. Owned(connections, connection_count, Shrunk, Cardinality(Kept), open \ DroppedFds)
  BY AfterShrink
<1>2. Array(Shrunk, MaxPool) /\ Cardinality(Kept) \in 0 .. pool_size
  BY ShrunkIs
<1>3. CASE full
  BY <1>1, <1>2, <1>3 DEF PoolShape, Array
<1>4. CASE ~ full
  BY <1>4 DEF PoolShape, Array
<1> QED
  BY <1>3, <1>4

LEMMA PoolAcquireStep ==
  ASSUME PoolInv, ~ overrun, NEW a \in PoolAddresses, rpc_transport_pool_acquire(a)
  PROVE  PoolInv'
<1>1. PoolShape /\ Owned(connections, connection_count, pool, pool_size, open)
  BY DEF PoolInv
<1> DEFINE full == pool_size >= MaxPool
           p    == IF full THEN Shrunk ELSE pool
           size == IF full THEN Cardinality(Kept) ELSE pool_size
           left == IF full THEN open \ DroppedFds ELSE open
<1>2. PICK f \in {g \in 1 .. MaxFd \ left : \A h \in 1 .. MaxFd \ left : g <= h} :
        /\ open' = left \cup {f}
        /\ connections' = [connections EXCEPT ![connection_count + 1] = Fresh(a, f)]
        /\ pool' = Into(p, size, a, f)
  BY DEF rpc_transport_pool_acquire
<1>3. /\ connection_count < PoolConnections /\ connection_count' = connection_count
      /\ overrun' = (size >= MaxPool) /\ pool_size' = size + 1
  BY DEF rpc_transport_pool_acquire
<1>4. f \in 1 .. MaxFd /\ f \notin left /\ f # 0
  BY NewFd
<1>5. /\ Owned(connections, connection_count, p, size, left)
      /\ Array(p, MaxPool) /\ size \in 0 .. pool_size /\ left \subseteq 1 .. MaxFd
  BY <1>1, PoolToAdd
<1> HIDE DEF full, p, size, left
<1>6. SUFFICES ASSUME ~ overrun'
               PROVE  PoolShape' /\ Owned(connections', connection_count', pool', pool_size', open')
  BY DEF PoolInv
<1>7. size \in Nat /\ size < MaxPool /\ size + 1 \in 1 .. MaxPool
  <2>1. ~ (size >= MaxPool)
    BY <1>3, <1>6
  <2>2. size \in Nat
    BY <1>1, <1>5, PoolAssumption DEF PoolShape
  <2> QED
    BY <2>1, <2>2, PoolAssumption
<1>8. Entry(Fresh(a, f)) /\ Fresh(a, f).fd = f
  BY DEF Fresh, Entry
<1>9. connection_count \in Nat /\ connection_count + 1 \in 1 .. PoolConnections
  BY <1>1, <1>3, PoolAssumption DEF PoolShape, Array
<1>10. /\ Array(connections', PoolConnections)
       /\ \A i \in 1 .. connection_count : connections'[i] = connections[i]
  <2>1. /\ Array(connections', PoolConnections)
        /\ \A i \in 1 .. PoolConnections : i # connection_count + 1 => connections'[i] = connections[i]
    <3>1. Put(connections', connections, PoolConnections, connection_count + 1, Fresh(a, f))
      BY <1>1, <1>2, <1>8, <1>9, ArrayExcept DEF PoolShape
    <3> QED
      BY <3>1 DEF Put
  <2> QED
    BY <1>9, <2>1, PoolAssumption
<1>11. pool' = [p EXCEPT ![size + 1] = Fresh(a, f)]
  BY <1>2, <1>7 DEF Into
<1>12. /\ Array(pool', MaxPool) /\ pool'[size + 1].fd = f
       /\ \A i \in 1 .. size : pool'[i] = p[i]
  <2>1. /\ Array(pool', MaxPool) /\ pool'[size + 1] = Fresh(a, f)
        /\ \A i \in 1 .. MaxPool : i # size + 1 => pool'[i] = p[i]
    <3>1. Put(pool', p, MaxPool, size + 1, Fresh(a, f))
      BY <1>5, <1>7, <1>8, <1>11, ArrayExcept
    <3> QED
      BY <3>1 DEF Put
  <2> QED
    BY <1>7, <1>8, <2>1, PoolAssumption
<1>13. Owned(connections', connection_count, pool', size + 1, left \cup {f})
  BY <1>4, <1>5, <1>7, <1>9, <1>10, <1>12, OwnedAcquire
<1>14. PoolShape'
  BY <1>1, <1>2, <1>3, <1>4, <1>5, <1>7, <1>10, <1>12 DEF PoolShape, Array
<1> QED
  BY <1>2, <1>3, <1>13, <1>14

LEMMA OwnedSame ==
  ASSUME NEW c, NEW nc, NEW p, NEW np, NEW o, Owned(c, nc, p, np, o),
         NEW q, \A i \in 1 .. np : q[i].fd = p[i].fd
  PROVE  Owned(c, nc, q, np, o)
BY DEF Owned

LEMMA PoolFailStep ==
  ASSUME PoolInv, ~ overrun, NEW a \in PoolAddresses, AcquireFails(a)
  PROVE  PoolInv'
<1>1. PoolShape /\ Owned(connections, connection_count, pool, pool_size, open)
  BY DEF PoolInv
<1> DEFINE full == pool_size >= MaxPool
           p    == IF full THEN Shrunk ELSE pool
           size == IF full THEN Cardinality(Kept) ELSE pool_size
           left == IF full THEN open \ DroppedFds ELSE open
<1>2. /\ pool' = [i \in 1 .. MaxPool |-> IF i = size + 1 THEN rpc_connection_init ELSE p[i]]
      /\ pool_size' = size /\ open' = left
      /\ connections' = connections /\ connection_count' = connection_count
  BY DEF AcquireFails
<1>3. /\ Owned(connections, connection_count, p, size, left)
      /\ Array(p, MaxPool) /\ size \in 0 .. pool_size /\ left \subseteq 1 .. MaxFd
  BY <1>1, PoolToAdd
<1> HIDE DEF full, p, size, left
<1>4. size \in 0 .. MaxPool
  BY <1>1, <1>3, PoolAssumption DEF PoolShape, Array
<1>5. Entry(rpc_connection_init)
  BY DEF rpc_connection_init, Entry
<1>6. Array(pool', MaxPool) /\ \A i \in 1 .. size : pool'[i] = p[i]
  <2>1. \A i \in 1 .. MaxPool : pool'[i] = IF i = size + 1 THEN rpc_connection_init ELSE p[i]
    BY <1>2
  <2>2. \A i \in 1 .. MaxPool : Entry(p[i])
    BY <1>3 DEF Array
  <2>3. \A i \in 1 .. MaxPool : Entry(pool'[i])
    BY <1>5, <2>1, <2>2
  <2>4. pool' = [i \in 1 .. MaxPool |-> pool'[i]]
    BY <1>2
  <2>5. \A i \in 1 .. size : pool'[i] = p[i]
    BY <1>4, <2>1, PoolAssumption
  <2> QED
    BY <2>3, <2>4, <2>5 DEF Array
<1>7. Owned(connections, connection_count, pool', size, left)
  BY <1>3, <1>6, OwnedSame
<1>8. PoolShape'
  BY <1>1, <1>2, <1>3, <1>4, <1>6 DEF PoolShape, Array
<1> QED
  BY <1>2, <1>7, <1>8 DEF PoolInv

LEMMA PoolMarkStep ==
  ASSUME PoolInv, ~ overrun, NEW k \in 1 .. MaxPool, rpc_transport_pool_release(k) \/ Idle(k)
  PROVE  PoolInv'
<1>1. PoolShape /\ Owned(connections, connection_count, pool, pool_size, open)
  BY DEF PoolInv
<1>2. PICK b \in BOOLEAN : pool' = [pool EXCEPT ![k] = [@ EXCEPT !.idle = b]]
  BY DEF rpc_transport_pool_release, Idle
<1>3. Entry(pool[k])
  BY <1>1 DEF PoolShape, Array
<1>4. Entry([pool[k] EXCEPT !.idle = b]) /\ [pool[k] EXCEPT !.idle = b].fd = pool[k].fd
  BY <1>3 DEF Entry
<1>5. Array(pool', MaxPool) /\ \A i \in 1 .. MaxPool : pool'[i].fd = pool[i].fd
  BY <1>1, <1>2, <1>4 DEF PoolShape, Array
<1>6. \A i \in 1 .. pool_size : pool'[i].fd = pool[i].fd
  BY <1>1, <1>5, PoolAssumption DEF PoolShape, Array
<1>7. Owned(connections, connection_count, pool', pool_size, open)
  BY <1>1, <1>6, OwnedSame
<1>8. PoolShape'
  BY <1>1, <1>5 DEF PoolShape, Array, rpc_transport_pool_release, Idle
<1> QED
  BY <1>7, <1>8 DEF PoolInv, rpc_transport_pool_release, Idle

LEMMA PoolCloseAllStep ==
  ASSUME PoolInv, ~ overrun, rpc_transport_close_all
  PROVE  PoolInv'
<1>1. PoolShape /\ Owned(connections, connection_count, pool, pool_size, open)
  BY DEF PoolInv
<1>2. open' = {}
  BY <1>1 DEF Owned, rpc_transport_close_all
<1>3. \A c : Entry(c) => Entry(pool_connection_close(c))
  BY DEF pool_connection_close, Entry
<1>4. Array(connections', PoolConnections) /\ Array(pool', MaxPool)
  BY <1>1, <1>3 DEF PoolShape, Array, rpc_transport_close_all, Closed
<1>5. connection_count' = 0 /\ pool_size' = 0
  BY DEF rpc_transport_close_all
<1>6. Owned(connections', 0, pool', 0, {})
  BY DEF Owned
<1> QED
  BY <1>2, <1>4, <1>5, <1>6, PoolAssumption DEF PoolInv, PoolShape, Array

LEMMA PoolStarts == rpc_transport_init => PoolInv
<1> SUFFICES ASSUME rpc_transport_init PROVE PoolInv
  OBVIOUS
<1>1. Entry(rpc_connection_init)
  BY DEF rpc_connection_init, Entry
<1> QED
  BY <1>1, PoolAssumption DEF rpc_transport_init, PoolInv, PoolShape, Array, Owned

LEMMA PoolKeeps == PoolInv /\ [PoolNext]_poolVars => PoolInv'
<1> SUFFICES ASSUME PoolInv, [PoolNext]_poolVars PROVE PoolInv'
  OBVIOUS
<1>1. CASE UNCHANGED poolVars
  BY <1>1 DEF poolVars, PoolInv, PoolShape, Array
<1>2. ASSUME ~ overrun, NEW a \in PoolAddresses,
             rpc_transport_connect(a) \/ rpc_transport_pool_acquire(a) \/ AcquireFails(a)
      PROVE  PoolInv'
  BY <1>2, PoolConnectStep, PoolAcquireStep, PoolFailStep
<1>3. ASSUME ~ overrun, NEW i \in 1 .. PoolConnections, Close(i) PROVE PoolInv'
  BY <1>3, PoolCloseStep
<1>4. ASSUME ~ overrun, NEW i \in 1 .. MaxPool, rpc_transport_pool_release(i) \/ Idle(i) PROVE PoolInv'
  BY <1>4, PoolMarkStep
<1>5. ASSUME ~ overrun, rpc_transport_pool_shrink \/ rpc_transport_close_all PROVE PoolInv'
  BY <1>5, PoolShrinkStep, PoolCloseAllStep
<1> QED
  BY <1>1, <1>2, <1>3, <1>4, <1>5 DEF PoolNext

LEMMA AtMostOne ==
  ASSUME NEW S, \A x, y \in S : x = y
  PROVE  Cardinality(S) = IF S = {} THEN 0 ELSE 1
<1>1. CASE S = {}
  BY <1>1, FS_EmptySet
<1>2. CASE S # {}
  <2>1. PICK x : x \in S
    BY <1>2
  <2>2. S = {x}
    BY <2>1
  <2> QED
    BY <1>2, <2>2, FS_Singleton
<1> QED
  BY <1>1, <1>2

LEMMA PoolOwns == PoolInv => SocketsOwned
<1> SUFFICES ASSUME PoolInv, ~ overrun, NEW f \in 1 .. MaxFd
             PROVE  Holders(f) = IF f \in open THEN 1 ELSE 0
  BY DEF SocketsOwned
<1>1. PoolShape /\ Owned(connections, connection_count, pool, pool_size, open)
  BY DEF PoolInv
<1> DEFINE C == {i \in 1 .. connection_count : connections[i].fd = f}
           P == {i \in 1 .. pool_size : i <= MaxPool /\ pool[i].fd = f}
<1>2. f # 0
  BY PoolAssumption
<1>3. \A x, y \in C : x = y
  BY <1>1, <1>2 DEF Owned
<1>4. \A x, y \in P : x = y
  BY <1>1, <1>2 DEF Owned
<1>5. C = {} \/ P = {}
  BY <1>1, <1>2 DEF Owned
<1>6. C # {} \/ P # {} => f \in open
  BY <1>1, <1>2 DEF Owned
<1>7. f \in open => C # {} \/ P # {}
  <2>1. \A i \in 1 .. pool_size : i <= MaxPool
    BY <1>1, PoolAssumption DEF PoolShape
  <2> QED
    BY <1>1, <2>1 DEF Owned
<1>8. Cardinality(C) = (IF C = {} THEN 0 ELSE 1) /\ Cardinality(P) = (IF P = {} THEN 0 ELSE 1)
  BY <1>3, <1>4, AtMostOne
<1>9. Holders(f) = Cardinality(C) + Cardinality(P)
  BY DEF Holders
<1> HIDE DEF C, P
<1> QED
  BY <1>5, <1>6, <1>7, <1>8, <1>9

-----------------------------------------------------------------------------
(***************************************************************************)
(* The chain of interceptors and the token bucket: the chain is sorted by    *)
(* priority, then by age, after any insertions and removals, so that a call  *)
(* runs along it in that order; and a bucket never holds more than its size, *)
(* which bounds what it lets through.                                        *)
(***************************************************************************)

Item == {[name |-> n, enabled |-> e, serial |-> k, context |-> c] :
           n \in Names, e \in BOOLEAN, k \in Nat, c \in Nat}

Sorted(c) == \A i, j \in 1 .. Len(c) : i < j => Earlier(c[i], c[j])

Limiter == [tokens : Nat, last_refill : Nat, passed : Nat]

Holding(l) ==
  /\ l.tokens <= MaxPerSecond /\ l.last_refill <= now
  /\ IF l.last_refill = now THEN l.tokens + l.passed <= MaxPerSecond ELSE l.passed = 0

LimitersWithin ==
  /\ limiters \in Seq(Limiter) /\ now \in Nat
  /\ \A c \in 1 .. Len(limiters) : Holding(limiters[c])

ChainInv ==
  /\ chain \in Seq(Item) /\ serial \in Nat
  /\ Sorted(chain)
  /\ \A i \in 1 .. Len(chain) : chain[i].serial < serial
  /\ ChainOrderly
  /\ LimitersWithin

LEMMA Priorities ==
  ASSUME NEW n \in Names PROVE interceptor_make[n].priority \in Nat
BY ChainAssumption DEF interceptor_make

LEMMA Items ==
  ASSUME NEW x \in Item
  PROVE  x.name \in Names /\ x.serial \in Nat /\ Priority(x) \in Nat
<1>1. PICK n \in Names, e \in BOOLEAN, k \in Nat, c \in Nat :
        x = [name |-> n, enabled |-> e, serial |-> k, context |-> c]
  BY DEF Item
<1>2. x.name = n /\ x.serial = k
  BY <1>1
<1> QED
  BY <1>2, Priorities DEF Priority

LEMMA EarlierTransitive ==
  ASSUME NEW x \in Item, NEW y \in Item, NEW z \in Item, Earlier(x, y), Earlier(y, z)
  PROVE  Earlier(x, z)
BY Items DEF Earlier

LEMMA AddStep ==
  ASSUME ChainInv, NEW n \in Names, NEW e \in BOOLEAN, NEW c \in Contexts(n),
         interceptor_chain_add(n, e, c)
  PROVE  ChainInv'
<1> DEFINE x == [name |-> n, enabled |-> e, serial |-> serial, context |-> c]
           p == InsertPos(n)
           S == {i \in 1 .. Len(chain) : interceptor_make[n].priority < Priority(chain[i])}
<1>0. chain \in Seq(Item) /\ serial \in Nat /\ Len(chain) \in Nat
  BY DEF ChainInv
<1>1. x \in Item /\ x.serial = serial /\ Priority(x) = interceptor_make[n].priority
  <2>1. DOMAIN limiters \subseteq Nat
    BY DEF ChainInv, LimitersWithin
  <2>2. c \in DOMAIN limiters \/ c \in {0}
    BY DEF Contexts
  <2>3. c \in Nat
    BY <2>1, <2>2
  <2> QED
    BY <1>0, <2>3 DEF Item, Priority
<1>2. \A i \in 1 .. Len(chain) : chain[i] \in Item /\ Priority(chain[i]) \in Nat /\ chain[i].serial \in Nat
  BY <1>0, Items
<1>3. Priority(x) \in Nat
  BY <1>1, Items
<1>4. PICK k : First(k, chain, S) /\ p = IF k = 0 THEN Len(chain) + 1 ELSE k
  <2>1. S \subseteq 1 .. Len(chain)
    OBVIOUS
  <2>2. PICK k : k = IF S # {} THEN Min(S) ELSE 0
    OBVIOUS
  <2>3. p = IF k = 0 THEN Len(chain) + 1 ELSE k
    BY <2>2 DEF InsertPos, SelectInSeq
  <2> QED
    BY <1>0, <2>1, <2>2, <2>3, MinIs
<1>5. /\ p \in 1 .. Len(chain) + 1
      /\ \A i \in 1 .. p - 1 : Priority(chain[i]) <= Priority(x)
      /\ p <= Len(chain) => Priority(x) < Priority(chain[p])
  <2> HIDE DEF p
  <2>1. CASE k = 0
    <3>1. S = {} /\ p = Len(chain) + 1
      BY <1>0, <1>4, <2>1 DEF First
    <3> QED
      BY <1>0, <1>1, <1>2, <1>3, <3>1
  <2>2. CASE k # 0
    <3>1. k \in S /\ k \in 1 .. Len(chain) /\ p = k /\ \A i \in 1 .. k - 1 : i \notin S
      BY <1>4, <2>2 DEF First
    <3>2. \A i \in 1 .. k - 1 : i \in 1 .. Len(chain)
      BY <1>0, <3>1
    <3> QED
      BY <1>0, <1>1, <1>2, <1>3, <3>1, <3>2
  <2> QED
    BY <2>1, <2>2
<1>6. chain' \in Seq(Item) /\ Inserted(chain', chain, p, x)
  BY <1>0, <1>1, <1>5, InsertIs DEF interceptor_chain_add
<1> HIDE DEF x, p, S
<1>7. Len(chain') = Len(chain) + 1 /\ chain'[p] = x
      /\ \A i \in 1 .. Len(chain') : (i < p => chain'[i] = chain[i]) /\ (i > p => chain'[i] = chain[i - 1])
  BY <1>6 DEF Inserted
<1>8. \A i \in 1 .. Len(chain) : chain[i].serial < serial
  BY DEF ChainInv
<1>9. \A i \in 1 .. p - 1 : Earlier(chain[i], x)
  BY <1>0, <1>1, <1>2, <1>3, <1>5, <1>8 DEF Earlier
<1>10. \A i \in p .. Len(chain) : Earlier(x, chain[i])
  <2> TAKE i \in p .. Len(chain)
  <2>1. Earlier(x, chain[p]) /\ p \in 1 .. Len(chain) /\ i \in 1 .. Len(chain)
    BY <1>0, <1>5 DEF Earlier
  <2>2. CASE i = p
    BY <2>1, <2>2
  <2>3. CASE i > p
    <3>1. Earlier(chain[p], chain[i])
      BY <2>1, <2>3 DEF ChainInv, Sorted
    <3> QED
      BY <1>1, <1>2, <2>1, <3>1, EarlierTransitive
  <2> QED
    BY <1>0, <1>5, <2>2, <2>3
<1>11. Sorted(chain')
  <2> SUFFICES ASSUME NEW i \in 1 .. Len(chain'), NEW j \in 1 .. Len(chain'), i < j
               PROVE  Earlier(chain'[i], chain'[j])
    BY DEF Sorted
  <2>1. CASE j < p
    BY <1>0, <1>5, <1>7, <2>1 DEF ChainInv, Sorted
  <2>2. CASE j = p
    BY <1>0, <1>5, <1>7, <1>9, <2>2
  <2>3. CASE i < p /\ p < j
    BY <1>0, <1>5, <1>7, <2>3 DEF ChainInv, Sorted
  <2>4. CASE i = p
    BY <1>0, <1>5, <1>7, <1>10, <2>4
  <2>5. CASE p < i
    BY <1>0, <1>5, <1>7, <2>5 DEF ChainInv, Sorted
  <2> QED
    BY <1>0, <1>5, <1>7, <2>1, <2>2, <2>3, <2>4, <2>5
<1>12. serial' = serial + 1 /\ \A i \in 1 .. Len(chain') : chain'[i].serial < serial'
  <2>1. serial' = serial + 1
    BY DEF interceptor_chain_add
  <2> SUFFICES ASSUME NEW i \in 1 .. Len(chain') PROVE chain'[i].serial < serial'
    BY <2>1
  <2>2. \/ i = p \/ (i < p /\ i \in 1 .. Len(chain)) \/ (i > p /\ i - 1 \in 1 .. Len(chain))
    BY <1>0, <1>5, <1>7
  <2> QED
    BY <1>0, <1>1, <1>2, <1>7, <1>8, <2>1, <2>2
<1>13. ChainOrderly' /\ LimitersWithin'
  BY DEF ChainInv, interceptor_chain_add, ChainOrderly, LimitersWithin, Holding
<1> QED
  BY <1>0, <1>6, <1>11, <1>12, <1>13 DEF ChainInv

LEMMA RemoveStep ==
  ASSUME ChainInv, NEW n \in Names, interceptor_chain_remove(n)
  PROVE  ChainInv'
<1> DEFINE S == {i \in 1 .. Len(chain) : chain[i].name = n}
<1>0. chain \in Seq(Item) /\ serial \in Nat /\ Len(chain) \in Nat
  BY DEF ChainInv
<1>1. PICK k : k = IF S # {} THEN Min(S) ELSE 0
  OBVIOUS
<1>2. k > 0 /\ chain' = RemoveAt(chain, k)
  BY <1>1 DEF interceptor_chain_remove, SelectInSeq
<1>3. k \in 1 .. Len(chain)
  <2>1. S \subseteq 1 .. Len(chain)
    OBVIOUS
  <2>2. First(k, chain, S)
    BY <1>0, <1>1, <2>1, MinIs
  <2>3. k # 0
    BY <1>2
  <2> QED
    BY <2>2, <2>3 DEF First
<1> HIDE DEF S
<1>4. chain' \in Seq(Item) /\ Removed(chain', chain, k)
  BY <1>0, <1>2, <1>3, RemoveIs
<1>5. Len(chain') = Len(chain) - 1
      /\ \A i \in 1 .. Len(chain') : chain'[i] = IF i < k THEN chain[i] ELSE chain[i + 1]
  BY <1>4 DEF Removed
<1>6. Sorted(chain')
  <2> SUFFICES ASSUME NEW i \in 1 .. Len(chain'), NEW j \in 1 .. Len(chain'), i < j
               PROVE  Earlier(chain'[i], chain'[j])
    BY DEF Sorted
  <2>1. PICK a \in 1 .. Len(chain), b \in 1 .. Len(chain) :
          a < b /\ chain'[i] = chain[a] /\ chain'[j] = chain[b]
    <3>1. CASE j < k
      <4>1. i < k /\ i \in 1 .. Len(chain) /\ j \in 1 .. Len(chain)
        BY <1>0, <1>3, <1>5, <3>1
      <4> QED
        BY <1>5, <3>1, <4>1
    <3>2. CASE i < k /\ ~ (j < k)
      BY <1>0, <1>5, <3>2
    <3>3. CASE ~ (i < k)
      BY <1>0, <1>3, <1>5, <3>3
    <3> QED
      BY <3>1, <3>2, <3>3
  <2> QED
    BY <2>1 DEF ChainInv, Sorted
<1>7. \A i \in 1 .. Len(chain') : chain'[i].serial < serial
  BY <1>0, <1>5 DEF ChainInv
<1>8. ChainOrderly' /\ LimitersWithin' /\ serial' = serial
  BY DEF ChainInv, interceptor_chain_remove, ChainOrderly, LimitersWithin, Holding
<1> QED
  BY <1>0, <1>4, <1>6, <1>7, <1>8 DEF ChainInv

LEMMA RunsOrdered ==
  ASSUME NEW T, chain \in Seq(T), Sorted(chain), NEW which, NEW upto \in 0 .. Len(chain)
  PROVE  /\ Runs(which, upto) = [w \in 1 .. Cardinality(Running(which, upto)) |-> Runs(which, upto)[w]]
         /\ Cardinality(Running(which, upto)) \in Nat
         /\ \A v, w \in 1 .. Cardinality(Running(which, upto)) :
              v < w => Earlier(Runs(which, upto)[v], Runs(which, upto)[w])
<1> DEFINE R == Running(which, upto)
           n == Cardinality(R)
           q == Runs(which, upto)
<1>0. Len(chain) \in Nat /\ upto \in Nat /\ upto <= Len(chain)
  OBVIOUS
<1>1. R \subseteq 1 .. upto
  BY DEF Running
<1>2. Places(R) /\ n \in Nat
  BY <1>0, <1>1, PlacesOf
<1>3. q = [w \in 1 .. n |-> chain[Nth(R, w)]]
  BY DEF Runs, Nth
<1> HIDE DEF R, n, q
<1>4. \A w \in 1 .. n : Nth(R, w) \in 1 .. Len(chain)
  <2>1. \A w \in 1 .. n : Nth(R, w) \in R
    BY <1>2, NthIs DEF n
  <2>2. \A i \in R : i \in 1 .. Len(chain)
    BY <1>0, <1>1
  <2> QED
    BY <2>1, <2>2
<1>5. ASSUME NEW v \in 1 .. n, NEW w \in 1 .. n, v < w PROVE Earlier(q[v], q[w])
  <2>1. Nth(R, v) < Nth(R, w)
    BY <1>2, <1>5, NthGrows DEF n
  <2>2. Earlier(chain[Nth(R, v)], chain[Nth(R, w)])
    BY <1>4, <2>1 DEF Sorted
  <2> QED
    BY <1>3, <2>2
<1>6. q = [w \in 1 .. n |-> q[w]]
  BY <1>3
<1> QED
  BY <1>2, <1>5, <1>6 DEF R, n, q

LEMMA RefuserIs ==
  ASSUME ChainInv
  PROVE  /\ Limiters \subseteq 1 .. Len(chain)
         /\ Refuser \in 0 .. Len(chain)
         /\ Refuser = 0 => Dry = {}
         /\ \A i \in Dry : Refuser <= i
<1>1. Len(chain) \in Nat /\ Limiters \subseteq 1 .. Len(chain)
  BY DEF ChainInv, Limiters
<1>2. Dry \subseteq 1 .. Len(chain)
  BY <1>1 DEF Dry
<1>3. CASE Dry = {}
  BY <1>1, <1>3 DEF Refuser
<1>4. CASE Dry # {}
  <2>1. Dry \subseteq Nat
    BY <1>2
  <2>2. PICK i \in Dry : \A j \in Dry : i <= j
    BY <1>4, <2>1, LeastNumber
  <2>3. Refuser = CHOOSE k \in Dry : \A j \in Dry : k <= j
    BY <1>4 DEF Refuser
  <2>4. Refuser \in Dry /\ \A j \in Dry : Refuser <= j
    BY <2>2, <2>3
  <2>5. Refuser \in 1 .. Len(chain)
    BY <1>2, <2>4
  <2> QED
    BY <1>1, <2>4, <2>5
<1> QED
  BY <1>3, <1>4

(* No limiter holds more than it may after a refill, or had before.          *)
LEMMA RefilledIs ==
  ASSUME NEW l \in Limiter, Holding(l), now \in Nat
  PROVE  /\ Refilled(l) \in Nat /\ Refilled(l) <= MaxPerSecond
         /\ Refilled(l) + l.passed <= MaxPerSecond
<1>0. l.tokens \in Nat /\ l.last_refill \in Nat /\ l.passed \in Nat /\ MaxPerSecond \in Nat
  BY ChainAssumption DEF Limiter
<1>1. CASE ~ (now > l.last_refill)
  BY <1>0, <1>1 DEF Refilled, Holding
<1>2. CASE now > l.last_refill
  <2> DEFINE t == l.tokens + (now - l.last_refill) * MaxPerSecond
  <2>1. now - l.last_refill \in Nat
    BY <1>0, <1>2
  <2>2. t \in Nat
    <3>1. \A x, y \in Nat : x * y \in Nat
      OBVIOUS
    <3>2. (now - l.last_refill) * MaxPerSecond \in Nat
      BY <1>0, <2>1, <3>1
    <3> QED
      BY <1>0, <3>2
  <2>3. Refilled(l) = IF t > MaxPerSecond THEN MaxPerSecond ELSE t
    BY <1>2 DEF Refilled
  <2>4. l.passed = 0
    BY <1>0, <1>2 DEF Holding
  <2> HIDE DEF t
  <2> QED
    BY <1>0, <2>2, <2>3, <2>4
<1> QED
  BY <1>1, <1>2

(* A context has a token for each place where it lets the request by: the     *)
(* last of them would otherwise have found it dry.                           *)
LEMMA PassingIs ==
  ASSUME ChainInv, NEW c \in 1 .. Len(limiters)
  PROVE  /\ Cardinality(Passing(c)) \in Nat
         /\ Cardinality(Passing(c)) <= Refilled(limiters[c])
<1> DEFINE P == Passing(c)
           r == Refilled(limiters[c])
<1>0. Len(chain) \in Nat /\ Len(limiters) \in Nat
  BY DEF ChainInv, LimitersWithin
<1>1. P \subseteq Limiters /\ \A i \in P : chain[i].context = c /\ (Refuser = 0 \/ i < Refuser)
  BY DEF Passing
<1>2. /\ Limiters \subseteq 1 .. Len(chain) /\ Refuser \in 0 .. Len(chain)
      /\ Refuser = 0 => Dry = {}
      /\ \A i \in Dry : Refuser <= i
  BY RefuserIs
<1>3. P \subseteq 1 .. Len(chain)
  BY <1>1, <1>2
<1>4. Places(P) /\ Cardinality(P) \in Nat
  BY <1>0, <1>3, PlacesOf
<1>5. r \in Nat
  BY RefilledIs DEF ChainInv, LimitersWithin
<1>6. ASSUME Cardinality(P) > r PROVE FALSE
  <2>1. Cardinality(P) \in 1 .. Cardinality(P)
    BY <1>4, <1>5, <1>6
  <2>2. PICK i \in P : Rank(P, i) = Cardinality(P) - 1
    BY <1>4, <2>1, NthExists
  <2>3. i \in Limiters /\ chain[i].context = c
    BY <1>1
  <2>4. i \in 1 .. Len(chain)
    BY <1>3
  <2>5. \A j \in Limiters : j < i /\ chain[j].context = c => j \in P
    <3> SUFFICES ASSUME NEW j \in Limiters, j < i, chain[j].context = c PROVE j \in P
      OBVIOUS
    <3>1. Refuser = 0 \/ i < Refuser
      BY <1>1
    <3>2. j \in 1 .. Len(chain)
      BY <1>2
    <3>3. Refuser = 0 \/ j < Refuser
      BY <1>0, <1>2, <2>4, <3>1, <3>2
    <3> QED
      BY <3>3 DEF Passing
  <2>6. SameBefore(i) = {j \in P : j < i}
    BY <1>1, <2>3, <2>5 DEF SameBefore
  <2>7. Cardinality(SameBefore(i)) = Cardinality(P) - 1
    BY <2>2, <2>6 DEF Rank
  <2>8. Cardinality(SameBefore(i)) >= Refilled(limiters[chain[i].context])
    BY <1>4, <1>5, <1>6, <2>3, <2>7
  <2>9. i \in Dry
    BY <2>3, <2>8 DEF Dry
  <2>10. Refuser # 0 /\ Refuser <= i /\ i < Refuser
    BY <1>1, <1>2, <2>9
  <2> QED
    BY <1>0, <1>2, <2>4, <2>10
<1> QED
  BY <1>4, <1>5, <1>6

LEMMA TakenIs ==
  ASSUME ChainInv, NEW c \in 1 .. Len(limiters)
  PROVE  /\ interceptor_builtin_rate_limit_before(c) \in Limiter
         /\ Holding(interceptor_builtin_rate_limit_before(c))
<1> DEFINE l == limiters[c]
           r == Refilled(l)
           n == Cardinality(Passing(c))
<1>1. l \in Limiter /\ Holding(l) /\ now \in Nat
  BY DEF ChainInv, LimitersWithin
<1>2. l.passed \in Nat /\ MaxPerSecond \in Nat
  BY <1>1, ChainAssumption DEF Limiter
<1>3. r \in Nat /\ r <= MaxPerSecond /\ r + l.passed <= MaxPerSecond
  BY <1>1, RefilledIs
<1>4. n \in Nat /\ n <= r
  BY PassingIs
<1>5. interceptor_builtin_rate_limit_before(c) = [tokens |-> r - n, last_refill |-> now, passed |-> l.passed + n]
  BY DEF interceptor_builtin_rate_limit_before, RateLimitContext
<1> HIDE DEF l, r, n
<1>6. r - n \in Nat /\ l.passed + n \in Nat
  BY <1>2, <1>3, <1>4
<1> QED
  BY <1>1, <1>2, <1>3, <1>4, <1>5, <1>6 DEF Limiter, Holding

LEMMA InvokeStep ==
  ASSUME ChainInv, Invoke
  PROVE  ChainInv'
<1>0. chain \in Seq(Item) /\ Len(chain) \in Nat /\ Sorted(chain)
  BY DEF ChainInv
<1>1. Refuser \in 0 .. Len(chain)
  BY RefuserIs
<1>2. trace' = [down |-> interceptor_before_invoke, up |-> interceptor_after_invoke, refused |-> Refuser # 0]
  BY DEF Invoke
<1>3. trace'.down = interceptor_before_invoke /\ trace'.up = interceptor_after_invoke
  BY <1>2
<1>4. \A i, j \in DOMAIN interceptor_before_invoke :
        i < j => Earlier(interceptor_before_invoke[i], interceptor_before_invoke[j])
  <2>1. PICK upto \in 0 .. Len(chain) : interceptor_before_invoke = Runs("before", upto)
    BY <1>0, <1>1 DEF interceptor_before_invoke
  <2> QED
    BY <1>0, <2>1, RunsOrdered
<1>5. \A i, j \in DOMAIN interceptor_after_invoke :
        i < j => Earlier(interceptor_after_invoke[j], interceptor_after_invoke[i])
  <2>1. CASE Refuser = 0
    <3> DEFINE q == Runs("after", Len(chain))
               n == Cardinality(Running("after", Len(chain)))
    <3>1. /\ q = [w \in 1 .. n |-> q[w]] /\ n \in Nat
          /\ \A v, w \in 1 .. n : v < w => Earlier(q[v], q[w])
      BY <1>0, RunsOrdered
    <3>2. interceptor_after_invoke = Reverse(q)
      BY <2>1 DEF interceptor_after_invoke
    <3> HIDE DEF q, n
    <3>3. Len(q) = n
      BY <3>1
    <3>4. interceptor_after_invoke = [i \in 1 .. n |-> q[(n - i) + 1]]
      BY <3>2, <3>3 DEF Reverse
    <3> SUFFICES ASSUME NEW i \in 1 .. n, NEW j \in 1 .. n, i < j
                 PROVE  Earlier(interceptor_after_invoke[j], interceptor_after_invoke[i])
      BY <3>4
    <3>5. (n - j) + 1 \in 1 .. n /\ (n - i) + 1 \in 1 .. n /\ (n - j) + 1 < (n - i) + 1
      BY <3>1
    <3> QED
      BY <3>1, <3>4, <3>5
  <2>2. CASE Refuser # 0
    BY <2>2 DEF interceptor_after_invoke
  <2> QED
    BY <2>1, <2>2
<1>6. ChainOrderly'
  BY <1>3, <1>4, <1>5 DEF ChainOrderly
<1>7. LimitersWithin'
  <2>1. limiters \in Seq(Limiter) /\ Len(limiters) \in Nat /\ DOMAIN limiters = 1 .. Len(limiters)
    BY DEF ChainInv, LimitersWithin
  <2>2. \A c \in 1 .. Len(limiters) : limiters[c] \in Limiter /\ Holding(limiters[c])
    BY DEF ChainInv, LimitersWithin
  <2> DEFINE new(c) == IF c \in Asked THEN interceptor_builtin_rate_limit_before(c) ELSE limiters[c]
  <2>3. \A c \in 1 .. Len(limiters) : new(c) \in Limiter /\ Holding(new(c))
    BY <2>2, TakenIs
  <2>4. limiters' = [c \in 1 .. Len(limiters) |-> new(c)] /\ now' = now
    BY <2>1 DEF Invoke
  <2> HIDE DEF new
  <2>5. limiters' \in Seq(Limiter) /\ Len(limiters') = Len(limiters)
    BY <2>1, <2>3, <2>4
  <2>6. \A c \in 1 .. Len(limiters') : Holding(limiters'[c])
    BY <2>3, <2>4, <2>5
  <2> QED
    BY <2>4, <2>5, <2>6 DEF ChainInv, LimitersWithin, Holding
<1> QED
  BY <1>0, <1>6, <1>7 DEF ChainInv, Invoke

LEMMA ChainStarts == interceptor_chain_init => ChainInv
<1> SUFFICES ASSUME interceptor_chain_init PROVE ChainInv
  OBVIOUS
<1>1. chain \in Seq(Item) /\ Len(chain) = 0
  BY DEF interceptor_chain_init
<1>2. trace.down = <<>> /\ trace.up = <<>>
  BY DEF interceptor_chain_init
<1>3. ChainOrderly
  BY <1>2 DEF ChainOrderly
<1>4. LimitersWithin /\ serial \in Nat
  BY ChainAssumption DEF interceptor_chain_init, LimitersWithin
<1> QED
  BY <1>1, <1>3, <1>4 DEF ChainInv, Sorted

LEMMA TickKeeps ==
  ASSUME ChainInv, Tick
  PROVE  LimitersWithin'
<1>1. limiters \in Seq(Limiter) /\ Len(limiters) \in Nat /\ DOMAIN limiters = 1 .. Len(limiters)
      /\ now \in Nat
  BY DEF ChainInv, LimitersWithin
<1> DEFINE new(c) == [limiters[c] EXCEPT !.passed = 0]
<1>2. ASSUME NEW c \in 1 .. Len(limiters)
      PROVE  /\ new(c) \in Limiter /\ new(c).passed = 0
             /\ new(c).tokens <= MaxPerSecond /\ new(c).last_refill <= now
  <2>1. limiters[c] \in Limiter
    BY <1>1
  <2>2. limiters[c].tokens <= MaxPerSecond /\ limiters[c].last_refill <= now
    BY DEF ChainInv, LimitersWithin, Holding
  <2>3. new(c) = [tokens |-> limiters[c].tokens, last_refill |-> limiters[c].last_refill, passed |-> 0]
    BY <2>1 DEF Limiter
  <2>4. limiters[c].tokens \in Nat /\ limiters[c].last_refill \in Nat
    BY <2>1 DEF Limiter
  <2> QED
    BY <2>2, <2>3, <2>4 DEF Limiter
<1>3. limiters' = [c \in 1 .. Len(limiters) |-> new(c)] /\ now' = now + 1
  BY <1>1 DEF Tick
<1> HIDE DEF new
<1>4. limiters' \in Seq(Limiter) /\ Len(limiters') = Len(limiters)
  BY <1>1, <1>2, <1>3
<1>5. ASSUME NEW c \in 1 .. Len(limiters')
      PROVE  /\ limiters'[c].tokens <= MaxPerSecond /\ limiters'[c].last_refill <= now'
             /\ limiters'[c].passed = 0 /\ limiters'[c].last_refill # now'
  <2>1. limiters'[c] = new(c) /\ c \in 1 .. Len(limiters)
    BY <1>3, <1>4
  <2>2. new(c).last_refill \in Nat
    BY <1>2, <2>1 DEF Limiter
  <2> QED
    BY <1>1, <1>2, <1>3, <2>1, <2>2
<1> QED
  BY <1>1, <1>3, <1>4, <1>5 DEF LimitersWithin, Holding

LEMMA MakeStep ==
  ASSUME ChainInv, interceptor_make_rate_limit
  PROVE  ChainInv'
<1> DEFINE l == RateLimitContext(MaxPerSecond, now, 0)
<1>1. limiters \in Seq(Limiter) /\ now \in Nat /\ MaxPerSecond \in Nat
  BY ChainAssumption DEF ChainInv, LimitersWithin
<1>2. l \in Limiter /\ Holding(l)
  BY <1>1 DEF Limiter, Holding, RateLimitContext
<1>3. limiters' = Append(limiters, l) /\ now' = now /\ chain' = chain /\ serial' = serial /\ trace' = trace
  BY DEF interceptor_make_rate_limit
<1> HIDE DEF l
<1>4. limiters' \in Seq(Limiter) /\ Len(limiters') = Len(limiters) + 1
      /\ \A c \in 1 .. Len(limiters') : limiters'[c] = IF c <= Len(limiters) THEN limiters[c] ELSE l
  BY <1>1, <1>2, <1>3
<1>5. \A c \in 1 .. Len(limiters') : Holding(limiters'[c])
  BY <1>1, <1>2, <1>4 DEF ChainInv, LimitersWithin
<1>6. LimitersWithin'
  BY <1>1, <1>3, <1>4, <1>5 DEF LimitersWithin, Holding
<1> QED
  BY <1>3, <1>6 DEF ChainInv, Sorted, ChainOrderly

LEMMA ChainKeeps == ChainInv /\ [ChainNext]_chainVars => ChainInv'
<1> SUFFICES ASSUME ChainInv, [ChainNext]_chainVars PROVE ChainInv'
  OBVIOUS
<1>1. CASE UNCHANGED chainVars
  BY <1>1 DEF chainVars, ChainInv, Sorted, ChainOrderly, LimitersWithin, Holding
<1>2. ASSUME NEW n \in Names, interceptor_chain_remove(n) PROVE ChainInv'
  BY <1>2, RemoveStep
<1>3. ASSUME NEW n \in Names, NEW e \in BOOLEAN, NEW c \in Contexts(n), interceptor_chain_add(n, e, c)
      PROVE  ChainInv'
  BY <1>3, AddStep
<1>4. CASE Invoke
  BY <1>4, InvokeStep
<1>5. CASE Tick
  <2>1. chain' = chain /\ serial' = serial /\ trace' = trace
    BY <1>5 DEF Tick
  <2>2. LimitersWithin'
    BY <1>5, TickKeeps
  <2>3. ChainOrderly'
    BY <2>1 DEF ChainOrderly, ChainInv
  <2> QED
    BY <2>1, <2>2, <2>3 DEF ChainInv
<1>6. CASE interceptor_make_rate_limit
  BY <1>6, MakeStep
<1> QED
  BY <1>1, <1>2, <1>3, <1>4, <1>5, <1>6 DEF ChainNext

LEMMA ChainImplies == ChainInv => ChainOrderly /\ RateHolds
<1> SUFFICES ASSUME ChainInv, NEW c \in DOMAIN limiters PROVE limiters[c].passed <= MaxPerSecond
  BY DEF ChainInv, RateHolds
<1>1. limiters[c] \in Limiter /\ Holding(limiters[c])
  BY DEF ChainInv, LimitersWithin
<1> QED
  BY <1>1, ChainAssumption DEF Limiter, Holding

-----------------------------------------------------------------------------
(***************************************************************************)
(* The streams.  What a side has put together is the beginning of what the   *)
(* other has sent, because a frame under way carries the chunk of its own    *)
(* number, a stream takes the frame with the number it waits for and no other, *)
(* and a number of a stream is given out once.                               *)
(***************************************************************************)

StreamFields == {"stream_id", "active", "closed", "next_sequence", "expected_sequence", "reassembly_buffer"}

(* The shape of the sessions: two records with an array of streams each.     *)
Session(r) ==
  /\ {"version", "handshake_complete", "next_stream_id", "streams"} \subseteq DOMAIN r
  /\ DOMAIN r.streams = 1 .. MaxStreams
  /\ \A i \in 1 .. MaxStreams : StreamFields \subseteq DOMAIN r.streams[i]
Sessions(s) == DOMAIN s = Sides /\ \A x \in Sides : Session(s[x])

(* t is s but for stream i of x.                                             *)
OnlyStream(t, s, x, i) ==
  /\ Sessions(t)
  /\ \A y \in Sides, j \in 1 .. MaxStreams : ~ (y = x /\ j = i) => t[y].streams[j] = s[y].streams[j]

HasReceived(t, s, x, i, v) ==
  /\ OnlyStream(t, s, x, i)
  /\ \A y \in Sides : t[y].next_stream_id = s[y].next_stream_id
  /\ t[x].streams[i].expected_sequence = s[x].streams[i].expected_sequence + 1
  /\ t[x].streams[i].reassembly_buffer = Append(s[x].streams[i].reassembly_buffer, v)
  /\ t[x].streams[i].active = s[x].streams[i].active
  /\ t[x].streams[i].stream_id = s[x].streams[i].stream_id
  /\ t[x].streams[i].next_sequence = s[x].streams[i].next_sequence

LEMMA ReceivedIs ==
  ASSUME NEW s, Sessions(s), NEW x \in Sides, NEW i \in 1 .. MaxStreams, NEW v, NEW t,
         t = [s EXCEPT ![x].streams[i].expected_sequence = @ + 1,
                       ![x].streams[i].reassembly_buffer = Append(@, v)]
  PROVE  HasReceived(t, s, x, i, v)
BY DEF Sessions, Session, StreamFields, OnlyStream, HasReceived

HasSent(t, s, x, i) ==
  /\ OnlyStream(t, s, x, i)
  /\ \A y \in Sides : t[y].next_stream_id = s[y].next_stream_id
  /\ t[x].streams[i].expected_sequence = s[x].streams[i].expected_sequence
  /\ t[x].streams[i].reassembly_buffer = s[x].streams[i].reassembly_buffer
  /\ t[x].streams[i].active = s[x].streams[i].active
  /\ t[x].streams[i].stream_id = s[x].streams[i].stream_id
  /\ t[x].streams[i].next_sequence = s[x].streams[i].next_sequence + 1

LEMMA SentIs ==
  ASSUME NEW s, Sessions(s), NEW x \in Sides, NEW i \in 1 .. MaxStreams, NEW t,
         t = [s EXCEPT ![x].streams[i].next_sequence = @ + 1]
  PROVE  HasSent(t, s, x, i)
BY DEF Sessions, Session, StreamFields, OnlyStream, HasSent

HasClosed(t, s, x, i) ==
  /\ OnlyStream(t, s, x, i)
  /\ \A y \in Sides : t[y].next_stream_id = s[y].next_stream_id
  /\ ~ t[x].streams[i].active

LEMMA ClosedIs ==
  ASSUME NEW s, Sessions(s), NEW x \in Sides, NEW i \in 1 .. MaxStreams, NEW t,
         t = [s EXCEPT ![x].streams[i].active = FALSE, ![x].streams[i].closed = TRUE]
  PROVE  HasClosed(t, s, x, i)
BY DEF Sessions, Session, StreamFields, OnlyStream, HasClosed

HasOpened(t, s, x, i, id) ==
  /\ OnlyStream(t, s, x, i)
  /\ \A y \in Sides : y # x => t[y].next_stream_id = s[y].next_stream_id
  /\ t[x].next_stream_id = s[x].next_stream_id + 1
  /\ t[x].streams[i].expected_sequence = 0
  /\ t[x].streams[i].reassembly_buffer = <<>>
  /\ t[x].streams[i].stream_id = id
  /\ t[x].streams[i].next_sequence = 0

LEMMA OpenedIs ==
  ASSUME NEW s, Sessions(s), NEW x \in Sides, NEW i \in 1 .. MaxStreams, NEW id, NEW t,
         t = [s EXCEPT ![x].streams[i] = Opened(@, id), ![x].next_stream_id = @ + 1]
  PROVE  HasOpened(t, s, x, i, id)
BY DEF Sessions, Session, StreamFields, OnlyStream, Opened, HasOpened

HasShaken(t, s) ==
  /\ Sessions(t)
  /\ \A y \in Sides : /\ t[y].next_stream_id = s[y].next_stream_id
                      /\ \A j \in 1 .. MaxStreams : t[y].streams[j] = s[y].streams[j]

LEMMA ShookIs ==
  ASSUME NEW s, Sessions(s), NEW x \in Sides, NEW t,
         \/ t = [s EXCEPT ![x].handshake_complete = TRUE]
         \/ \E v : t = [s EXCEPT ![x].handshake_complete = TRUE, ![x].version = v]
  PROVE  HasShaken(t, s)
BY DEF Sessions, Session, HasShaken

(* b is the beginning of u.                                                  *)
Agrees(b, u) == Len(b) <= Len(u) /\ \A k \in 1 .. Len(b) : b[k] = u[k]

LEMMA AgreesOn ==
  ASSUME NEW b \in Seq(Nat), NEW u \in Seq(Nat), NEW v \in Seq(Nat), Agrees(b, u), Agrees(u, v)
  PROVE  Agrees(b, v)
<1>1. Len(b) \in Nat /\ Len(u) \in Nat /\ Len(v) \in Nat
  OBVIOUS
<1>2. Len(b) <= Len(u) /\ Len(u) <= Len(v)
  BY DEF Agrees
<1>3. ASSUME NEW k \in 1 .. Len(b) PROVE b[k] = v[k]
  <2>1. k \in 1 .. Len(u)
    BY <1>1, <1>2
  <2> QED
    BY <2>1 DEF Agrees
<1> QED
  BY <1>1, <1>2, <1>3 DEF Agrees

LEMMA AgreesAt ==
  ASSUME NEW u \in Seq(Nat), NEW v \in Seq(Nat), Agrees(u, v), NEW n \in Nat, n < Len(u)
  PROVE  n < Len(v) /\ u[n + 1] = v[n + 1] /\ u[n + 1] \in Nat
<1>1. Len(u) \in Nat /\ Len(v) \in Nat
  OBVIOUS
<1>2. n + 1 \in 1 .. Len(u) /\ Len(u) <= Len(v)
  BY <1>1 DEF Agrees
<1>3. u[n + 1] = v[n + 1]
  BY <1>2 DEF Agrees
<1>4. u[n + 1] \in Nat
  BY <1>2
<1> QED
  BY <1>1, <1>2, <1>3, <1>4

LEMMA AgreesSelf ==
  ASSUME NEW u \in Seq(Nat)
  PROVE  Agrees(u, u)
BY DEF Agrees

(* Stream s of x, with what both sides have sent on the stream of its number. *)
Tallies(s, mine, theirs) ==
  /\ s.next_sequence = Len(mine)
  /\ s.reassembly_buffer \in Seq(Nat)
  /\ s.expected_sequence = Len(s.reassembly_buffer)
  /\ Agrees(s.reassembly_buffer, theirs)

StreamsTally(ss, sn) ==
  \A x \in Sides, i \in 1 .. MaxStreams :
    ss[x].streams[i].active =>
      /\ ss[x].streams[i].stream_id \in 1 .. ss[x].next_stream_id - 1
      /\ Tallies(ss[x].streams[i], sn[x][ss[x].streams[i].stream_id],
                 sn[Peer(x)][ss[x].streams[i].stream_id])

(* A number is used by one stream, and not before it is given out.           *)
NumbersOnce(ss, sn) ==
  \A x \in Sides :
    /\ ss[x].next_stream_id \in 1 .. MaxOpens + 1
    /\ \A id \in 1 .. MaxOpens : id >= ss[x].next_stream_id => sn[x][id] = <<>>
    /\ \A i, j \in 1 .. MaxStreams :
         /\ ss[x].streams[i].active /\ ss[x].streams[j].active
         /\ ss[x].streams[i].stream_id = ss[x].streams[j].stream_id
         => i = j

(* A frame of data under way is the chunk of its number.                     *)
FrameTrue(f, sn) ==
  f.type = "STREAM_DATA" =>
    /\ f.from \in Sides /\ f.stream_id \in 1 .. MaxOpens
    /\ f.sequence \in Nat /\ f.sequence < Len(sn[f.from][f.stream_id])
    /\ f.payload = sn[f.from][f.stream_id][f.sequence + 1]

StreamInv ==
  /\ Sessions(sess)
  /\ sent \in [Sides -> [1 .. MaxOpens -> Seq(Nat)]]
  /\ chunks \in Nat
  /\ StreamsTally(sess, sent)
  /\ NumbersOnce(sess, sent)
  /\ \A f \in net : FrameTrue(f, sent)

LEMMA PeerIs ==
  ASSUME NEW x \in Sides
  PROVE  Peer(x) \in Sides /\ Peer(x) # x /\ \A y \in Sides : y # x => y = Peer(x)
<1>1. \E y \in Sides : y # x
  BY DEF Sides
<1>2. Peer(x) \in Sides /\ Peer(x) # x
  BY <1>1 DEF Peer
<1> QED
  BY <1>2 DEF Sides

LEMMA FindIs ==
  ASSUME NEW x \in Sides, NEW id, find_stream(x, id) > 0
  PROVE  /\ find_stream(x, id) \in 1 .. MaxStreams
         /\ sess[x].streams[find_stream(x, id)].active
         /\ sess[x].streams[find_stream(x, id)].stream_id = id
<1> DEFINE hits == {i \in 1 .. MaxStreams : sess[x].streams[i].active /\ sess[x].streams[i].stream_id = id}
<1>1. find_stream(x, id) = IF hits = {} THEN 0 ELSE CHOOSE i \in hits : \A j \in hits : i <= j
  BY DEF find_stream
<1>2. hits # {}
  BY <1>1
<1>3. hits \subseteq Nat
  BY StreamAssumption
<1>4. PICK i \in hits : \A j \in hits : i <= j
  BY <1>2, <1>3, LeastNumber
<1> QED
  BY <1>1, <1>2, <1>4

LEMMA SlotFree ==
  ASSUME NEW x \in Sides, NEW free, free = {i \in 1 .. MaxStreams : ~ sess[x].streams[i].active}, free # {}
  PROVE  LET i == CHOOSE k \in free : \A j \in free : k <= j
         IN  i \in 1 .. MaxStreams /\ ~ sess[x].streams[i].active
<1>1. free \subseteq Nat
  BY StreamAssumption
<1>2. PICK i \in free : \A j \in free : i <= j
  BY <1>1, LeastNumber
<1> QED
  BY <1>2

LEMMA OpenStep ==
  ASSUME StreamInv, NEW x \in Sides, rpc_proto_stream_open(x)
  PROVE  StreamInv'
<1>0. /\ Sessions(sess) /\ sent \in [Sides -> [1 .. MaxOpens -> Seq(Nat)]]
      /\ StreamsTally(sess, sent) /\ NumbersOnce(sess, sent)
  BY DEF StreamInv
<1>1. PICK i \in 1 .. MaxStreams :
        /\ ~ sess[x].streams[i].active
        /\ sess' = [sess EXCEPT ![x].streams[i] = Opened(@, sess[x].next_stream_id),
                                ![x].next_stream_id = @ + 1]
  <2> DEFINE free == {i \in 1 .. MaxStreams : ~ sess[x].streams[i].active}
             i == CHOOSE k \in free : \A j \in free : k <= j
  <2>1. free # {}
    BY DEF rpc_proto_stream_open
  <2>2. i \in 1 .. MaxStreams /\ ~ sess[x].streams[i].active
    BY <2>1, SlotFree
  <2>3. sess' = [sess EXCEPT ![x].streams[i] = Opened(@, sess[x].next_stream_id),
                             ![x].next_stream_id = @ + 1]
    BY DEF rpc_proto_stream_open
  <2> HIDE DEF free, i
  <2> QED
    BY <2>2, <2>3
<1> DEFINE id == sess[x].next_stream_id
<1>2. id \in 1 .. MaxOpens
  <2>1. sess[x].next_stream_id <= MaxOpens
    BY DEF rpc_proto_stream_open
  <2>2. sess[x].next_stream_id \in 1 .. MaxOpens + 1
    BY <1>0 DEF NumbersOnce
  <2> QED
    BY <2>1, <2>2, StreamAssumption
<1>3. /\ OnlyStream(sess', sess, x, i)
      /\ \A y \in Sides : y # x => sess'[y].next_stream_id = sess[y].next_stream_id
      /\ sess'[x].next_stream_id = sess[x].next_stream_id + 1
      /\ sess'[x].streams[i].expected_sequence = 0
      /\ sess'[x].streams[i].reassembly_buffer = <<>>
      /\ sess'[x].streams[i].stream_id = id
      /\ sess'[x].streams[i].next_sequence = 0
  <2>1. HasOpened(sess', sess, x, i, id)
    BY <1>0, <1>1, OpenedIs
  <2> QED
    BY <2>1 DEF HasOpened
<1>4. sent' = sent /\ net' = net /\ chunks' = chunks
  BY DEF rpc_proto_stream_open
<1> HIDE DEF id
<1>5. /\ Sessions(sess')
      /\ \A y \in Sides, j \in 1 .. MaxStreams : ~ (y = x /\ j = i) => sess'[y].streams[j] = sess[y].streams[j]
  BY <1>3 DEF OnlyStream
<1>6. sent[x][id] = <<>> /\ id = sess[x].next_stream_id
  BY <1>0, <1>2 DEF NumbersOnce, id
<1>7. StreamsTally(sess', sent)
  <2> SUFFICES ASSUME NEW y \in Sides, NEW j \in 1 .. MaxStreams, sess'[y].streams[j].active
               PROVE  /\ sess'[y].streams[j].stream_id \in 1 .. sess'[y].next_stream_id - 1
                      /\ Tallies(sess'[y].streams[j], sent[y][sess'[y].streams[j].stream_id],
                                 sent[Peer(y)][sess'[y].streams[j].stream_id])
    BY DEF StreamsTally
  <2>1. CASE y = x /\ j = i
    <3>1. sent[Peer(x)][id] \in Seq(Nat)
      BY <1>0, <1>2, PeerIs
    <3>2. id \in 1 .. sess'[x].next_stream_id - 1
      BY <1>2, <1>3, <1>6
    <3>3. Len(<<>>) = 0 /\ <<>> \in Seq(Nat) /\ Agrees(<<>>, sent[Peer(x)][id])
      BY <3>1 DEF Agrees
    <3>4. Tallies(sess'[x].streams[i], sent[x][id], sent[Peer(x)][id])
      BY <1>3, <1>6, <3>3 DEF Tallies
    <3> QED
      BY <1>3, <2>1, <3>2, <3>4
  <2>2. CASE ~ (y = x /\ j = i)
    <3>1. sess'[y].streams[j] = sess[y].streams[j] /\ sess[y].streams[j].active
      BY <1>5, <2>2
    <3>2. /\ sess[y].streams[j].stream_id \in 1 .. sess[y].next_stream_id - 1
          /\ Tallies(sess[y].streams[j], sent[y][sess[y].streams[j].stream_id],
                     sent[Peer(y)][sess[y].streams[j].stream_id])
      BY <1>0, <3>1 DEF StreamsTally
    <3>3. sess[y].next_stream_id \in Nat /\ sess'[y].next_stream_id \in {sess[y].next_stream_id, sess[y].next_stream_id + 1}
      <4>1. sess[y].next_stream_id \in 1 .. MaxOpens + 1
        BY <1>0 DEF NumbersOnce
      <4> QED
        BY <1>3, <4>1, StreamAssumption
    <3>4. sess'[y].streams[j].stream_id \in 1 .. sess'[y].next_stream_id - 1
      BY <3>1, <3>2, <3>3
    <3> QED
      BY <3>1, <3>2, <3>4
  <2> QED
    BY <2>1, <2>2
<1>8. NumbersOnce(sess', sent)
  <2> SUFFICES ASSUME NEW y \in Sides
               PROVE  /\ sess'[y].next_stream_id \in 1 .. MaxOpens + 1
                      /\ \A k \in 1 .. MaxOpens : k >= sess'[y].next_stream_id => sent[y][k] = <<>>
                      /\ \A j, k \in 1 .. MaxStreams :
                           /\ sess'[y].streams[j].active /\ sess'[y].streams[k].active
                           /\ sess'[y].streams[j].stream_id = sess'[y].streams[k].stream_id
                           => j = k
    BY DEF NumbersOnce
  <2>1. CASE y # x
    BY <1>0, <1>3, <1>5, <2>1 DEF NumbersOnce
  <2>2. CASE y = x
    <3>1. sess'[x].next_stream_id \in 1 .. MaxOpens + 1
      BY <1>2, <1>3, <1>6, StreamAssumption
    <3>2. \A k \in 1 .. MaxOpens : k >= sess'[x].next_stream_id => sent[x][k] = <<>>
      BY <1>0, <1>2, <1>3, <1>6, StreamAssumption DEF NumbersOnce
    <3>3. \A j \in 1 .. MaxStreams : j # i /\ sess'[x].streams[j].active => sess'[x].streams[j].stream_id # id
      <4> SUFFICES ASSUME NEW j \in 1 .. MaxStreams, j # i, sess'[x].streams[j].active
                   PROVE  sess'[x].streams[j].stream_id # id
        OBVIOUS
      <4>1. sess'[x].streams[j] = sess[x].streams[j]
        BY <1>5
      <4>2. sess[x].streams[j].stream_id \in 1 .. sess[x].next_stream_id - 1
        BY <1>0, <4>1 DEF StreamsTally
      <4> QED
        BY <1>2, <1>6, <4>1, <4>2
    <3>4. \A j, k \in 1 .. MaxStreams :
            /\ sess'[x].streams[j].active /\ sess'[x].streams[k].active
            /\ sess'[x].streams[j].stream_id = sess'[x].streams[k].stream_id
            => j = k
      BY <1>0, <1>3, <1>5, <3>3 DEF NumbersOnce
    <3> QED
      BY <2>2, <3>1, <3>2, <3>4
  <2> QED
    BY <2>1, <2>2
<1> QED
  BY <1>0, <1>4, <1>5, <1>7, <1>8 DEF StreamInv

LEMMA StreamSendStep ==
  ASSUME StreamInv, NEW x \in Sides, NEW id \in 1 .. MaxOpens, rpc_proto_stream_send(x, id)
  PROVE  StreamInv'
<1>0. /\ Sessions(sess) /\ sent \in [Sides -> [1 .. MaxOpens -> Seq(Nat)]] /\ chunks \in Nat
      /\ StreamsTally(sess, sent) /\ NumbersOnce(sess, sent)
  BY DEF StreamInv
<1>1. PICK i : i = find_stream(x, id)
  OBVIOUS
<1>2. /\ i > 0
      /\ net' = net \cup {rpc_proto_frame_build(x, i, "STREAM_DATA", chunks)}
      /\ sess' = [sess EXCEPT ![x].streams[i].next_sequence = @ + 1]
      /\ sent' = [sent EXCEPT ![x][id] = Append(@, chunks)]
      /\ chunks' = chunks + 1
  BY <1>1 DEF rpc_proto_stream_send
<1>3. i \in 1 .. MaxStreams /\ sess[x].streams[i].active /\ sess[x].streams[i].stream_id = id
  BY <1>1, <1>2, FindIs
<1>4. /\ OnlyStream(sess', sess, x, i)
      /\ \A y \in Sides : sess'[y].next_stream_id = sess[y].next_stream_id
      /\ sess'[x].streams[i].expected_sequence = sess[x].streams[i].expected_sequence
      /\ sess'[x].streams[i].reassembly_buffer = sess[x].streams[i].reassembly_buffer
      /\ sess'[x].streams[i].active = sess[x].streams[i].active
      /\ sess'[x].streams[i].stream_id = sess[x].streams[i].stream_id
      /\ sess'[x].streams[i].next_sequence = sess[x].streams[i].next_sequence + 1
  <2>1. HasSent(sess', sess, x, i)
    BY <1>0, <1>2, <1>3, SentIs
  <2> QED
    BY <2>1 DEF HasSent
<1>5. /\ Sessions(sess')
      /\ \A y \in Sides, j \in 1 .. MaxStreams : ~ (y = x /\ j = i) => sess'[y].streams[j] = sess[y].streams[j]
  BY <1>4 DEF OnlyStream
<1> DEFINE old == sent[x][id]
<1>6. old \in Seq(Nat) /\ Len(old) \in Nat
  <2>1. sent[x] \in [1 .. MaxOpens -> Seq(Nat)]
    BY <1>0
  <2>2. sent[x][id] \in Seq(Nat)
    BY <2>1
  <2> HIDE DEF old
  <2>3. old \in Seq(Nat)
    BY <2>2 DEF old
  <2> QED
    BY <2>3
<1>7. /\ Append(old, chunks) \in Seq(Nat) /\ Len(Append(old, chunks)) = Len(old) + 1
      /\ Append(old, chunks)[Len(old) + 1] = chunks
      /\ \A k \in 1 .. Len(old) : Append(old, chunks)[k] = old[k]
  BY <1>0, <1>6
<1>8. /\ sent' \in [Sides -> [1 .. MaxOpens -> Seq(Nat)]]
      /\ sent'[x][id] = Append(old, chunks)
      /\ \A y \in Sides, k \in 1 .. MaxOpens : ~ (y = x /\ k = id) => sent'[y][k] = sent[y][k]
  BY <1>0, <1>2, <1>7
<1> HIDE DEF old
<1>9. \A y \in Sides, k \in 1 .. MaxOpens :
        sent[y][k] \in Seq(Nat) /\ sent'[y][k] \in Seq(Nat) /\ Agrees(sent[y][k], sent'[y][k])
  <2> TAKE y \in Sides, k \in 1 .. MaxOpens
  <2>1. CASE y = x /\ k = id
    <3>1. Agrees(old, Append(old, chunks))
      BY <1>6, <1>7 DEF Agrees
    <3> QED
      BY <1>6, <1>7, <1>8, <2>1, <3>1 DEF old
  <2>2. CASE ~ (y = x /\ k = id)
    <3>1. sent[y] \in [1 .. MaxOpens -> Seq(Nat)]
      BY <1>0
    <3>2. sent[y][k] \in Seq(Nat)
      BY <3>1
    <3>3. Agrees(sent[y][k], sent[y][k])
      BY <3>2 DEF Agrees
    <3> QED
      BY <1>8, <2>2, <3>2, <3>3
  <2> QED
    BY <2>1, <2>2
<1>10. \A y \in Sides : sess[y].next_stream_id \in 1 .. MaxOpens + 1
  BY <1>0 DEF NumbersOnce
<1>11. StreamsTally(sess', sent')
  <2> SUFFICES ASSUME NEW y \in Sides, NEW j \in 1 .. MaxStreams, sess'[y].streams[j].active
               PROVE  /\ sess'[y].streams[j].stream_id \in 1 .. sess'[y].next_stream_id - 1
                      /\ Tallies(sess'[y].streams[j], sent'[y][sess'[y].streams[j].stream_id],
                                 sent'[Peer(y)][sess'[y].streams[j].stream_id])
    BY DEF StreamsTally
  <2> DEFINE r == sess[y].streams[j]
             n == sess[y].streams[j].stream_id
  <2>1. /\ sess[y].streams[j].active /\ sess'[y].streams[j].stream_id = n
        /\ sess'[y].streams[j].reassembly_buffer = r.reassembly_buffer
        /\ sess'[y].streams[j].expected_sequence = r.expected_sequence
    BY <1>3, <1>4, <1>5
  <2>2. n \in 1 .. sess[y].next_stream_id - 1 /\ Tallies(r, sent[y][n], sent[Peer(y)][n])
    BY <1>0, <2>1 DEF StreamsTally
  <2>3. n \in 1 .. MaxOpens
    BY <1>10, <2>2, StreamAssumption
  <2>4. Agrees(r.reassembly_buffer, sent'[Peer(y)][n])
    <3>1. Peer(y) \in Sides
      BY PeerIs
    <3>2. r.reassembly_buffer \in Seq(Nat) /\ Agrees(r.reassembly_buffer, sent[Peer(y)][n])
      BY <2>2 DEF Tallies
    <3> HIDE DEF r, n
    <3>3. /\ sent[Peer(y)][n] \in Seq(Nat) /\ sent'[Peer(y)][n] \in Seq(Nat)
          /\ Agrees(sent[Peer(y)][n], sent'[Peer(y)][n])
      BY <1>9, <2>3, <3>1
    <3> QED
      BY <3>2, <3>3, AgreesOn
  <2>5. sess'[y].streams[j].next_sequence = Len(sent'[y][n])
    <3>1. r.next_sequence = Len(sent[y][n])
      BY <2>2 DEF Tallies
    <3>2. CASE y = x /\ j = i
      <4>1. n = id
        BY <1>3, <3>2
      <4> QED
        BY <1>4, <1>7, <1>8, <3>1, <3>2, <4>1 DEF old
    <3>3. CASE ~ (y = x /\ j = i)
      <4>1. ~ (y = x /\ n = id)
        BY <1>0, <1>3, <2>1, <3>3 DEF NumbersOnce
      <4> QED
        BY <1>5, <1>8, <2>3, <3>1, <3>3, <4>1
    <3> QED
      BY <3>2, <3>3
  <2> HIDE DEF r, n
  <2>6. Tallies(sess'[y].streams[j], sent'[y][n], sent'[Peer(y)][n])
    BY <2>1, <2>2, <2>4, <2>5 DEF Tallies
  <2> QED
    BY <1>4, <2>1, <2>2, <2>6
<1>12. NumbersOnce(sess', sent')
  <2> SUFFICES ASSUME NEW y \in Sides
               PROVE  /\ sess'[y].next_stream_id \in 1 .. MaxOpens + 1
                      /\ \A k \in 1 .. MaxOpens : k >= sess'[y].next_stream_id => sent'[y][k] = <<>>
                      /\ \A j, k \in 1 .. MaxStreams :
                           /\ sess'[y].streams[j].active /\ sess'[y].streams[k].active
                           /\ sess'[y].streams[j].stream_id = sess'[y].streams[k].stream_id
                           => j = k
    BY DEF NumbersOnce
  <2>1. id \in 1 .. sess[x].next_stream_id - 1
    BY <1>0, <1>3 DEF StreamsTally
  <2>2. \A k \in 1 .. MaxOpens : k >= sess'[y].next_stream_id => sent'[y][k] = <<>>
    <3> SUFFICES ASSUME NEW k \in 1 .. MaxOpens, k >= sess'[y].next_stream_id PROVE sent'[y][k] = <<>>
      OBVIOUS
    <3>1. sent[y][k] = <<>>
      BY <1>0, <1>4 DEF NumbersOnce
    <3>2. ~ (y = x /\ k = id)
      BY <1>4, <1>10, <2>1
    <3> QED
      BY <1>8, <3>1, <3>2
  <2>3. \A j \in 1 .. MaxStreams : /\ sess'[y].streams[j].active = sess[y].streams[j].active
                                   /\ sess'[y].streams[j].stream_id = sess[y].streams[j].stream_id
    BY <1>4, <1>5
  <2>4. /\ sess[y].next_stream_id \in 1 .. MaxOpens + 1
        /\ \A j, k \in 1 .. MaxStreams :
             /\ sess[y].streams[j].active /\ sess[y].streams[k].active
             /\ sess[y].streams[j].stream_id = sess[y].streams[k].stream_id
             => j = k
    BY <1>0 DEF NumbersOnce
  <2>5. sess'[y].next_stream_id \in 1 .. MaxOpens + 1
    BY <1>4, <2>4
  <2> QED
    BY <2>2, <2>3, <2>4, <2>5
<1>13. ASSUME NEW f \in net' PROVE FrameTrue(f, sent')
  <2>1. CASE f \in net
    <3> SUFFICES ASSUME f.type = "STREAM_DATA"
                 PROVE  /\ f.from \in Sides /\ f.stream_id \in 1 .. MaxOpens
                        /\ f.sequence \in Nat /\ f.sequence < Len(sent'[f.from][f.stream_id])
                        /\ f.payload = sent'[f.from][f.stream_id][f.sequence + 1]
      BY DEF FrameTrue
    <3>1. /\ f.from \in Sides /\ f.stream_id \in 1 .. MaxOpens
          /\ f.sequence \in Nat /\ f.sequence < Len(sent[f.from][f.stream_id])
          /\ f.payload = sent[f.from][f.stream_id][f.sequence + 1]
      BY <2>1 DEF StreamInv, FrameTrue
    <3>2. PICK u, v, n : /\ u = sent[f.from][f.stream_id] /\ v = sent'[f.from][f.stream_id]
                         /\ n = f.sequence
      OBVIOUS
    <3>3. u \in Seq(Nat) /\ v \in Seq(Nat) /\ Agrees(u, v)
      BY <1>9, <3>1, <3>2
    <3>4. n \in Nat /\ n < Len(u)
      BY <3>1, <3>2
    <3>5. n < Len(v) /\ u[n + 1] = v[n + 1]
      BY <3>3, <3>4, AgreesAt
    <3> QED
      BY <3>1, <3>2, <3>5
  <2>2. CASE f \notin net
    <3>1. f = rpc_proto_frame_build(x, i, "STREAM_DATA", chunks)
      BY <1>2, <1>13, <2>2
    <3>2. /\ f.from = x /\ f.stream_id = id /\ f.payload = chunks
          /\ f.sequence = sess[x].streams[i].next_sequence
      BY <1>3, <3>1 DEF rpc_proto_frame_build
    <3>3. sess[x].streams[i].next_sequence = Len(old)
      BY <1>0, <1>3 DEF StreamsTally, Tallies, old
    <3> QED
      BY <1>6, <1>7, <1>8, <3>2, <3>3 DEF FrameTrue
  <2> QED
    BY <2>1, <2>2
<1>14. chunks' \in Nat
  BY <1>0, <1>2
<1> QED
  BY <1>5, <1>8, <1>11, <1>12, <1>13, <1>14 DEF StreamInv

LEMMA RecvStep ==
  ASSUME StreamInv, NEW x \in Sides, NEW f \in net, rpc_proto_stream_recv(x, f)
  PROVE  StreamInv'
<1>0. /\ Sessions(sess) /\ sent \in [Sides -> [1 .. MaxOpens -> Seq(Nat)]]
      /\ StreamsTally(sess, sent) /\ NumbersOnce(sess, sent)
  BY DEF StreamInv
<1>1. PICK i : i = find_stream(x, f.stream_id)
  OBVIOUS
<1>2. /\ i > 0 /\ f.from = Peer(x) /\ f.type = "STREAM_DATA"
      /\ f.sequence = sess[x].streams[i].expected_sequence
      /\ sess' = [sess EXCEPT ![x].streams[i].expected_sequence = @ + 1,
                              ![x].streams[i].reassembly_buffer = Append(@, f.payload)]
      /\ net' = net /\ sent' = sent /\ chunks' = chunks
  BY <1>1 DEF rpc_proto_stream_recv, rpc_proto_frame_parse
<1>3. i \in 1 .. MaxStreams /\ sess[x].streams[i].active /\ sess[x].streams[i].stream_id = f.stream_id
  BY <1>1, <1>2, FindIs
<1>4. HasReceived(sess', sess, x, i, f.payload)
  BY <1>0, <1>2, <1>3, ReceivedIs
<1>5. /\ Sessions(sess')
      /\ \A y \in Sides, j \in 1 .. MaxStreams : ~ (y = x /\ j = i) => sess'[y].streams[j] = sess[y].streams[j]
      /\ \A y \in Sides : sess'[y].next_stream_id = sess[y].next_stream_id
  BY <1>4 DEF HasReceived, OnlyStream
<1>6. /\ sess'[x].streams[i].expected_sequence = sess[x].streams[i].expected_sequence + 1
      /\ sess'[x].streams[i].reassembly_buffer = Append(sess[x].streams[i].reassembly_buffer, f.payload)
      /\ sess'[x].streams[i].active = sess[x].streams[i].active
      /\ sess'[x].streams[i].stream_id = sess[x].streams[i].stream_id
      /\ sess'[x].streams[i].next_sequence = sess[x].streams[i].next_sequence
  BY <1>4 DEF HasReceived
<1>7. /\ Peer(x) \in Sides /\ f.stream_id \in 1 .. MaxOpens
      /\ f.sequence \in Nat /\ f.sequence < Len(sent[Peer(x)][f.stream_id])
      /\ f.payload = sent[Peer(x)][f.stream_id][f.sequence + 1]
  BY <1>2, PeerIs DEF StreamInv, FrameTrue
<1>8. PICK b, u : /\ b = sess[x].streams[i].reassembly_buffer /\ u = sent[Peer(x)][f.stream_id]
                  /\ u \in Seq(Nat)
  <2>1. sent[Peer(x)] \in [1 .. MaxOpens -> Seq(Nat)]
    BY <1>0, <1>7
  <2>2. sent[Peer(x)][f.stream_id] \in Seq(Nat)
    BY <1>7, <2>1
  <2> QED
    BY <2>2
<1>9. /\ sess[x].streams[i].stream_id \in 1 .. sess[x].next_stream_id - 1
      /\ Tallies(sess[x].streams[i], sent[x][f.stream_id], sent[Peer(x)][f.stream_id])
  BY <1>0, <1>3 DEF StreamsTally
<1>10. /\ b \in Seq(Nat) /\ f.sequence = Len(b) /\ Agrees(b, u)
       /\ sess[x].streams[i].next_sequence = Len(sent[x][f.stream_id])
  BY <1>2, <1>8, <1>9 DEF Tallies
<1>11. /\ Append(b, f.payload) \in Seq(Nat) /\ Len(Append(b, f.payload)) = Len(b) + 1
       /\ Agrees(Append(b, f.payload), u)
  <2>1. Len(b) \in Nat /\ Len(b) < Len(u) /\ Len(u) \in Nat /\ f.payload = u[Len(b) + 1]
    BY <1>7, <1>8, <1>10
  <2>2. f.payload \in Nat
    <3>1. Agrees(u, u)
      BY <1>8, AgreesSelf
    <3>2. u[Len(b) + 1] \in Nat
      BY <1>8, <2>1, <3>1, AgreesAt
    <3> QED
      BY <2>1, <3>2
  <2>3. /\ Append(b, f.payload) \in Seq(Nat) /\ Len(Append(b, f.payload)) = Len(b) + 1
        /\ Append(b, f.payload)[Len(b) + 1] = f.payload
        /\ \A k \in 1 .. Len(b) : Append(b, f.payload)[k] = b[k]
    BY <1>10, <2>2
  <2>4. \A k \in 1 .. Len(b) + 1 : Append(b, f.payload)[k] = u[k]
    <3> TAKE k \in 1 .. Len(b) + 1
    <3>1. CASE k = Len(b) + 1
      BY <2>1, <2>3, <3>1
    <3>2. CASE k \in 1 .. Len(b)
      BY <1>10, <2>3, <3>2 DEF Agrees
    <3> QED
      BY <2>1, <3>1, <3>2
  <2> QED
    BY <2>1, <2>3, <2>4 DEF Agrees
<1>12. Tallies(sess'[x].streams[i], sent[x][f.stream_id], sent[Peer(x)][f.stream_id])
  BY <1>2, <1>6, <1>8, <1>10, <1>11 DEF Tallies
<1>13. StreamsTally(sess', sent)
  <2> SUFFICES ASSUME NEW y \in Sides, NEW j \in 1 .. MaxStreams, sess'[y].streams[j].active
               PROVE  /\ sess'[y].streams[j].stream_id \in 1 .. sess'[y].next_stream_id - 1
                      /\ Tallies(sess'[y].streams[j], sent[y][sess'[y].streams[j].stream_id],
                                 sent[Peer(y)][sess'[y].streams[j].stream_id])
    BY DEF StreamsTally
  <2>1. CASE y = x /\ j = i
    BY <1>3, <1>5, <1>6, <1>9, <1>12, <2>1
  <2>2. CASE ~ (y = x /\ j = i)
    BY <1>0, <1>5, <2>2 DEF StreamsTally
  <2> QED
    BY <2>1, <2>2
<1>14. NumbersOnce(sess', sent)
  <2> SUFFICES ASSUME NEW y \in Sides
               PROVE  /\ sess'[y].next_stream_id \in 1 .. MaxOpens + 1
                      /\ \A k \in 1 .. MaxOpens : k >= sess'[y].next_stream_id => sent[y][k] = <<>>
                      /\ \A j, k \in 1 .. MaxStreams :
                           /\ sess'[y].streams[j].active /\ sess'[y].streams[k].active
                           /\ sess'[y].streams[j].stream_id = sess'[y].streams[k].stream_id
                           => j = k
    BY DEF NumbersOnce
  <2>1. \A j \in 1 .. MaxStreams : /\ sess'[y].streams[j].active = sess[y].streams[j].active
                                   /\ sess'[y].streams[j].stream_id = sess[y].streams[j].stream_id
    BY <1>5, <1>6
  <2>2. sess'[y].next_stream_id = sess[y].next_stream_id
    BY <1>5
  <2>3. /\ sess[y].next_stream_id \in 1 .. MaxOpens + 1
        /\ \A k \in 1 .. MaxOpens : k >= sess[y].next_stream_id => sent[y][k] = <<>>
        /\ \A j, k \in 1 .. MaxStreams :
             /\ sess[y].streams[j].active /\ sess[y].streams[k].active
             /\ sess[y].streams[j].stream_id = sess[y].streams[k].stream_id
             => j = k
    BY <1>0 DEF NumbersOnce
  <2>4. \A j, k \in 1 .. MaxStreams :
             /\ sess'[y].streams[j].active /\ sess'[y].streams[k].active
             /\ sess'[y].streams[j].stream_id = sess'[y].streams[k].stream_id
             => j = k
    BY <2>1, <2>3
  <2> QED
    BY <2>2, <2>3, <2>4
<1> QED
  BY <1>2, <1>5, <1>13, <1>14 DEF StreamInv

LEMMA CloseStep ==
  ASSUME StreamInv, NEW x \in Sides, NEW id \in 1 .. MaxOpens, rpc_proto_stream_close(x, id)
  PROVE  StreamInv'
<1>0. Sessions(sess) /\ StreamsTally(sess, sent) /\ NumbersOnce(sess, sent)
  BY DEF StreamInv
<1>1. PICK i : i = find_stream(x, id)
  OBVIOUS
<1>2. /\ i > 0 /\ net' = net \cup {rpc_proto_frame_build(x, i, "STREAM_END", 0)}
      /\ sess' = [sess EXCEPT ![x].streams[i].active = FALSE, ![x].streams[i].closed = TRUE]
      /\ sent' = sent /\ chunks' = chunks
  BY <1>1 DEF rpc_proto_stream_close
<1>3. i \in 1 .. MaxStreams
  BY <1>1, <1>2, FindIs
<1>4. HasClosed(sess', sess, x, i)
  BY <1>0, <1>2, <1>3, ClosedIs
<1>5. /\ Sessions(sess') /\ ~ sess'[x].streams[i].active
      /\ \A y \in Sides, j \in 1 .. MaxStreams : ~ (y = x /\ j = i) => sess'[y].streams[j] = sess[y].streams[j]
      /\ \A y \in Sides : sess'[y].next_stream_id = sess[y].next_stream_id
  BY <1>4 DEF HasClosed, OnlyStream
<1>6. StreamsTally(sess', sent)
  BY <1>0, <1>5 DEF StreamsTally
<1>7. NumbersOnce(sess', sent)
  BY <1>0, <1>5 DEF NumbersOnce
<1>8. FrameTrue(rpc_proto_frame_build(x, i, "STREAM_END", 0), sent)
  BY DEF FrameTrue, rpc_proto_frame_build
<1> QED
  BY <1>2, <1>5, <1>6, <1>7, <1>8 DEF StreamInv

LEMMA ShakeStep ==
  ASSUME StreamInv, NEW x \in Sides,
         rpc_proto_build_handshake(x) \/ \E f \in net : rpc_proto_parse_handshake(x, f)
  PROVE  StreamInv'
<1>0. Sessions(sess) /\ StreamsTally(sess, sent) /\ NumbersOnce(sess, sent)
  BY DEF StreamInv
<1>1. HasShaken(sess', sess)
  <2>1. \/ sess' = [sess EXCEPT ![x].handshake_complete = TRUE]
        \/ \E v : sess' = [sess EXCEPT ![x].handshake_complete = TRUE, ![x].version = v]
    BY DEF rpc_proto_build_handshake, rpc_proto_parse_handshake
  <2> QED
    BY <1>0, <2>1, ShookIs
<1>2. /\ Sessions(sess')
      /\ \A y \in Sides : /\ sess'[y].next_stream_id = sess[y].next_stream_id
                          /\ \A j \in 1 .. MaxStreams : sess'[y].streams[j] = sess[y].streams[j]
  BY <1>1 DEF HasShaken
<1>3. StreamsTally(sess', sent)
  BY <1>0, <1>2 DEF StreamsTally
<1>4. NumbersOnce(sess', sent)
  BY <1>0, <1>2 DEF NumbersOnce
<1>5. sent' = sent /\ chunks' = chunks
  BY DEF rpc_proto_build_handshake, rpc_proto_parse_handshake
<1>6. \A f \in net' : FrameTrue(f, sent)
  <2>1. CASE rpc_proto_build_handshake(x)
    <3> DEFINE g == [type |-> "HANDSHAKE", from |-> x, version |-> sess[x].version]
    <3>1. net' = net \cup {g}
      BY <2>1 DEF rpc_proto_build_handshake
    <3>2. FrameTrue(g, sent)
      BY DEF FrameTrue
    <3> HIDE DEF g
    <3> QED
      BY <3>1, <3>2 DEF StreamInv
  <2>2. CASE \E f \in net : rpc_proto_parse_handshake(x, f)
    BY <2>2 DEF StreamInv, rpc_proto_parse_handshake
  <2> QED
    BY <2>1, <2>2
<1> QED
  BY <1>2, <1>3, <1>4, <1>5, <1>6 DEF StreamInv

LEMMA StreamStarts == rpc_proto_session_init => StreamInv
<1> SUFFICES ASSUME rpc_proto_session_init PROVE StreamInv
  OBVIOUS
<1>1. /\ sess = [x \in Sides |-> [version |-> 1, handshake_complete |-> FALSE, next_stream_id |-> 1,
                                  streams |-> [i \in 1 .. MaxStreams |-> RPCStream]]]
      /\ net = {} /\ chunks = 0
      /\ sent = [x \in Sides |-> [id \in 1 .. MaxOpens |-> <<>>]]
  BY DEF rpc_proto_session_init
<1>2. Sessions(sess)
  BY <1>1 DEF Sessions, Session, StreamFields, RPCStream
<1>3. \A x \in Sides : /\ sess[x].next_stream_id = 1
                       /\ \A i \in 1 .. MaxStreams : ~ sess[x].streams[i].active
  BY <1>1 DEF RPCStream
<1>4. \A x \in Sides, id \in 1 .. MaxOpens : sent[x][id] = <<>>
  BY <1>1
<1>5. sent \in [Sides -> [1 .. MaxOpens -> Seq(Nat)]]
  BY <1>1
<1>6. StreamsTally(sess, sent)
  BY <1>3 DEF StreamsTally
<1>7. NumbersOnce(sess, sent)
  BY <1>3, <1>4, StreamAssumption DEF NumbersOnce
<1> QED
  BY <1>1, <1>2, <1>5, <1>6, <1>7 DEF StreamInv

LEMMA StreamKeeps == StreamInv /\ [StreamNext]_streamVars => StreamInv'
<1> SUFFICES ASSUME StreamInv, [StreamNext]_streamVars PROVE StreamInv'
  OBVIOUS
<1>1. CASE UNCHANGED streamVars
  BY <1>1 DEF streamVars, StreamInv
<1>2. ASSUME NEW x \in Sides, rpc_proto_build_handshake(x) PROVE StreamInv'
  BY <1>2, ShakeStep
<1>3. ASSUME NEW x \in Sides, rpc_proto_stream_open(x) PROVE StreamInv'
  BY <1>3, OpenStep
<1>4. ASSUME NEW x \in Sides, NEW id \in 1 .. MaxOpens, rpc_proto_stream_send(x, id) PROVE StreamInv'
  BY <1>4, StreamSendStep
<1>5. ASSUME NEW x \in Sides, NEW id \in 1 .. MaxOpens, rpc_proto_stream_close(x, id) PROVE StreamInv'
  BY <1>5, CloseStep
<1>6. ASSUME NEW x \in Sides, NEW f \in net, rpc_proto_parse_handshake(x, f) PROVE StreamInv'
  BY <1>6, ShakeStep
<1>7. ASSUME NEW x \in Sides, NEW f \in net, rpc_proto_stream_recv(x, f) PROVE StreamInv'
  BY <1>7, RecvStep
<1> QED
  BY <1>1, <1>2, <1>3, <1>4, <1>5, <1>6, <1>7 DEF StreamNext

LEMMA StreamImplies == StreamInv => StreamPrefix
<1> SUFFICES ASSUME StreamInv, NEW x \in Sides, NEW i \in 1 .. MaxStreams, sess[x].streams[i].active
             PROVE  IsPrefix(sess[x].streams[i].reassembly_buffer, sent[Peer(x)][sess[x].streams[i].stream_id])
  BY DEF StreamPrefix
<1>1. PICK b, id, u : /\ b = sess[x].streams[i].reassembly_buffer /\ id = sess[x].streams[i].stream_id
                      /\ u = sent[Peer(x)][id]
  OBVIOUS
<1>2. id \in 1 .. sess[x].next_stream_id - 1 /\ b \in Seq(Nat) /\ Agrees(b, u)
  BY <1>1 DEF StreamInv, StreamsTally, Tallies
<1>3. u \in Seq(Nat)
  <2>1. Peer(x) \in Sides
    BY PeerIs
  <2>2. sess[x].next_stream_id \in 1 .. MaxOpens + 1
    BY DEF StreamInv, NumbersOnce
  <2>3. id \in 1 .. MaxOpens
    BY <1>2, <2>2, StreamAssumption
  <2>4. sent[Peer(x)] \in [1 .. MaxOpens -> Seq(Nat)]
    BY <2>1 DEF StreamInv
  <2> QED
    BY <1>1, <2>3, <2>4
<1>4. SubSeq(b, 1, Len(b)) = SubSeq(u, 1, Len(b)) /\ Len(b) <= Len(u)
  <2>1. Len(b) \in Nat /\ Len(u) \in Nat /\ Len(b) <= Len(u)
    BY <1>2, <1>3 DEF Agrees
  <2>2. SubSeq(b, 1, Len(b)) = [k \in 1 .. Len(b) |-> b[k]]
    BY <1>2, <2>1
  <2>3. SubSeq(u, 1, Len(b)) = [k \in 1 .. Len(b) |-> u[k]]
    BY <1>3, <2>1
  <2>4. \A k \in 1 .. Len(b) : b[k] = u[k]
    BY <1>2 DEF Agrees
  <2> QED
    BY <2>1, <2>2, <2>3, <2>4
<1> QED
  BY <1>1, <1>4 DEF IsPrefix

(* rpc_transport.c, rpc_interceptor.c, rpc_protocol.c: sockets have one       *)
(* owner, interceptors run in order and within their rate, and a stream is   *)
(* received as it was sent, for any number of connections, interceptors and  *)
(* chunks.                                                                    *)
THEOREM TransportCorrect == PoolSpec /\ ChainSpec /\ StreamSpec => []TransportSound
<1>1. PoolSpec => []SocketsOwned
  BY PoolStarts, PoolKeeps, PoolOwns, PTL DEF PoolSpec
<1>2. ChainSpec => [](ChainOrderly /\ RateHolds)
  BY ChainStarts, ChainKeeps, ChainImplies, PTL DEF ChainSpec
<1>3. StreamSpec => []StreamPrefix
  BY StreamStarts, StreamKeeps, StreamImplies, PTL DEF StreamSpec
<1>4. SocketsOwned /\ (ChainOrderly /\ RateHolds) /\ StreamPrefix => TransportSound
  BY DEF TransportSound
<1> QED
  BY <1>1, <1>2, <1>3, <1>4, PTL

-----------------------------------------------------------------------------
(***************************************************************************)
(* The registry.  A name is looked up before it is added, so that it has one *)
(* entry; an instance is a SoundInstance whatever a heartbeat, a health check *)
(* or the passing of time makes of it.                                       *)
(***************************************************************************)

(* An instance in rotation, and one that is out of it for a reason.          *)
Live(a, n) == [addr |-> a, healthy |-> TRUE, age |-> n]
Dead(a, n) == [addr |-> a, healthy |-> FALSE, age |-> n]
SoundInstance ==
  {Live(a, n) : a \in Hosts, n \in Nat} \cup {Dead(a, n) : a \in Hosts, n \in {m \in Nat : m > StaleAfter}}
ServiceEntry == [name : Services, methods : Seq(Methods), instances : Seq(SoundInstance)]

NamesOnce(s) == \A j, k \in 1 .. Len(s) : s[j].name = s[k].name => j = k
Table(s) == s \in Seq(ServiceEntry) /\ NamesOnce(s)
RegistryInv == Table(services)

LEMMA NewInstance ==
  ASSUME NEW a \in Hosts
  PROVE  [addr |-> a, healthy |-> TRUE, age |-> 0] \in SoundInstance
<1>1. Live(a, 0) \in SoundInstance
  BY DEF SoundInstance
<1> QED
  BY <1>1 DEF Live

LEMMA InstanceKept ==
  ASSUME NEW i \in SoundInstance, NEW b,
         b = Checked(i) \/ b = Older(i) \/ b = [i EXCEPT !.age = 0, !.healthy = TRUE]
  PROVE  b \in SoundInstance
<1>0. StaleAfter \in Nat
  BY RegistryAssumption
<1>1. CASE \E a \in Hosts, n \in Nat : i = Live(a, n)
  <2>1. PICK a \in Hosts, n \in Nat : i = Live(a, n)
    BY <1>1
  <2>2. n + 1 \in Nat /\ 0 \in Nat
    OBVIOUS
  <2>3. b \in {Live(a, n), Live(a, n + 1), Live(a, 0)} \/ (n > StaleAfter /\ b = Dead(a, n))
    BY <2>1 DEF Live, Dead, Checked, Older
  <2> QED
    BY <2>2, <2>3 DEF SoundInstance
<1>2. CASE \E a \in Hosts, n \in {m \in Nat : m > StaleAfter} : i = Dead(a, n)
  <2>1. PICK a \in Hosts, n \in {m \in Nat : m > StaleAfter} : i = Dead(a, n)
    BY <1>2
  <2>2. b \in {Dead(a, n), Live(a, 0)}
    BY <2>1 DEF Live, Dead, Checked, Older
  <2> QED
    BY <2>2 DEF SoundInstance
<1> QED
  BY <1>1, <1>2 DEF SoundInstance

(* The table with one entry changed, under the same name.                    *)
LEMMA EntryChanged ==
  ASSUME NEW s, Table(s), NEW k \in 1 .. Len(s), NEW e \in ServiceEntry, e.name = s[k].name,
         NEW b, b = [s EXCEPT ![k] = e]
  PROVE  Table(b)
<1>1. b \in Seq(ServiceEntry) /\ Replaced(b, s, k, e)
  BY ReplaceIs DEF Table
<1>2. \A i \in 1 .. Len(s) : b[i].name = s[i].name
  BY <1>1 DEF Replaced
<1>3. NamesOnce(b)
  BY <1>1, <1>2 DEF Table, NamesOnce, Replaced
<1> QED
  BY <1>1, <1>3 DEF Table

LEMMA EntryRemoved ==
  ASSUME NEW s, Table(s), NEW k \in 1 .. Len(s)
  PROVE  Table(RemoveAt(s, k))
<1>0. s \in Seq(ServiceEntry) /\ Len(s) \in Nat
  BY DEF Table
<1>1. RemoveAt(s, k) \in Seq(ServiceEntry) /\ Removed(RemoveAt(s, k), s, k)
  BY <1>0, RemoveIs
<1>2. PICK b : b = RemoveAt(s, k)
  OBVIOUS
<1>3. NamesOnce(b)
  <2> SUFFICES ASSUME NEW i \in 1 .. Len(b), NEW j \in 1 .. Len(b), b[i].name = b[j].name PROVE i = j
    BY DEF NamesOnce
  <2>1. /\ Len(b) = Len(s) - 1
        /\ b[i] = s[IF i < k THEN i ELSE i + 1] /\ b[j] = s[IF j < k THEN j ELSE j + 1]
    BY <1>1, <1>2 DEF Removed
  <2>2. (IF i < k THEN i ELSE i + 1) \in 1 .. Len(s) /\ (IF j < k THEN j ELSE j + 1) \in 1 .. Len(s)
    BY <1>0, <2>1
  <2>3. (IF i < k THEN i ELSE i + 1) = (IF j < k THEN j ELSE j + 1)
    BY <2>1, <2>2 DEF Table, NamesOnce
  <2> QED
    BY <1>0, <2>1, <2>3
<1> QED
  BY <1>1, <1>2, <1>3 DEF Table

LEMMA EntryAppended ==
  ASSUME NEW s, Table(s), NEW e \in ServiceEntry, \A i \in 1 .. Len(s) : s[i].name # e.name
  PROVE  Table(Append(s, e))
<1>0. s \in Seq(ServiceEntry) /\ Len(s) \in Nat
  BY DEF Table
<1>1. /\ Append(s, e) \in Seq(ServiceEntry) /\ Len(Append(s, e)) = Len(s) + 1
      /\ Append(s, e)[Len(s) + 1] = e /\ \A i \in 1 .. Len(s) : Append(s, e)[i] = s[i]
  BY <1>0
<1>2. PICK b : b = Append(s, e)
  OBVIOUS
<1>3. \A i \in 1 .. Len(b) : i \in 1 .. Len(s) \/ i = Len(s) + 1
  BY <1>0, <1>1, <1>2
<1>4. NamesOnce(b)
  BY <1>1, <1>2, <1>3 DEF Table, NamesOnce
<1> QED
  BY <1>1, <1>2, <1>4 DEF Table

Named(s, name) == {i \in 1 .. Len(s) : s[i].name = name}

(* The place of a service: its entry's, or 0 when no entry has its name.     *)
LEMMA ServicePlace ==
  ASSUME NEW s, Table(s), NEW name, NEW k,
         k = IF Named(s, name) # {} THEN Min(Named(s, name)) ELSE 0
  PROVE  \/ k = 0 /\ \A i \in 1 .. Len(s) : s[i].name # name
         \/ k \in 1 .. Len(s) /\ s[k].name = name
<1> DEFINE S == Named(s, name)
<1>2. k = IF S # {} THEN Min(S) ELSE 0
  OBVIOUS
<1>3. s \in Seq(ServiceEntry) /\ S \subseteq 1 .. Len(s)
  BY DEF Table, Named
<1>4. First(k, s, S)
  BY <1>2, <1>3, MinIs
<1> QED
  BY <1>4 DEF First, Named

LEMMA EntryMethods ==
  ASSUME NEW e \in ServiceEntry, NEW m \in Seq(Methods), NEW b, b = [e EXCEPT !.methods = m]
  PROVE  b \in ServiceEntry /\ b.name = e.name
BY DEF ServiceEntry

LEMMA EntryInstances ==
  ASSUME NEW e \in ServiceEntry, NEW q \in Seq(SoundInstance), NEW b, b = [e EXCEPT !.instances = q]
  PROVE  b \in ServiceEntry /\ b.name = e.name
BY DEF ServiceEntry

LEMMA EntryHas ==
  ASSUME NEW e \in ServiceEntry
  PROVE  e.instances \in Seq(SoundInstance)
BY DEF ServiceEntry

LEMMA RegisteredTable ==
  ASSUME RegistryInv, NEW name \in Services, NEW methods \in Seq(Methods)
  PROVE  Table(Registered(name, methods))
<1>0. Table(services)
  BY DEF RegistryInv
<1>1. PICK k : k = find_service(name)
  OBVIOUS
<1>2. \/ k = 0 /\ \A i \in 1 .. Len(services) : services[i].name # name
      \/ k \in 1 .. Len(services) /\ services[k].name = name
  <2>1. k = IF Named(services, name) # {} THEN Min(Named(services, name)) ELSE 0
    BY <1>1 DEF find_service, SelectInSeq, Named
  <2> QED
    BY <1>0, <2>1, ServicePlace
<1>3. CASE Len(services) >= MaxServices
  <2>1. ~ (Len(services) < MaxServices)
    <3>1. Len(services) \in Nat
      BY <1>0 DEF Table
    <3> QED
      BY <1>3, <3>1, RegistryAssumption
  <2>2. Registered(name, methods) = services
    BY <1>3, <2>1 DEF Registered
  <2> QED
    BY <1>0, <2>2
<1>4. CASE ~ (Len(services) >= MaxServices) /\ k = 0
  <2> DEFINE e == [name |-> name, methods |-> methods, instances |-> <<>>]
  <2>1. e \in ServiceEntry /\ e.name = name
    BY DEF ServiceEntry
  <2>2. Registered(name, methods) = Append(services, e)
    BY <1>1, <1>4 DEF Registered
  <2> HIDE DEF e
  <2> QED
    BY <1>0, <1>2, <1>4, <2>1, <2>2, EntryAppended
<1>5. CASE ~ (Len(services) >= MaxServices) /\ k \in 1 .. Len(services) /\ services[k].name = name
  <2>0. Len(services) \in Nat /\ services[k] \in ServiceEntry /\ k > 0
    BY <1>0, <1>5 DEF Table
  <2>1. Len(services) < MaxServices
    BY <1>5, <2>0, RegistryAssumption
  <2>2. Registered(name, methods) = [services EXCEPT ![k].methods = methods]
    BY <1>1, <2>0, <2>1, <1>5 DEF Registered
  <2>3. PICK e : e = [services[k] EXCEPT !.methods = methods]
    OBVIOUS
  <2>4. Registered(name, methods) = [services EXCEPT ![k] = e]
    BY <2>2, <2>3
  <2>5. e \in ServiceEntry /\ e.name = services[k].name
    BY <2>0, <2>3, EntryMethods
  <2> QED
    BY <1>0, <1>5, <2>4, <2>5, EntryChanged
<1> QED
  BY <1>2, <1>3, <1>4, <1>5

LEMMA UnregisteredTable ==
  ASSUME RegistryInv, NEW name \in Services
  PROVE  Table(Unregistered(name))
<1>0. Table(services)
  BY DEF RegistryInv
<1>1. PICK k : k = find_service(name)
  OBVIOUS
<1>2. \/ k = 0 /\ \A i \in 1 .. Len(services) : services[i].name # name
      \/ k \in 1 .. Len(services) /\ services[k].name = name
  <2>1. k = IF Named(services, name) # {} THEN Min(Named(services, name)) ELSE 0
    BY <1>1 DEF find_service, SelectInSeq, Named
  <2> QED
    BY <1>0, <2>1, ServicePlace
<1>3. CASE k = 0
  BY <1>0, <1>1, <1>3 DEF Unregistered
<1>4. CASE k \in 1 .. Len(services)
  <2>1. k # 0
    BY <1>4
  <2> QED
    BY <1>0, <1>1, <1>4, <2>1, EntryRemoved DEF Unregistered
<1> QED
  BY <1>2, <1>3, <1>4

LEMMA AddInstanceStep ==
  ASSUME RegistryInv, NEW name \in Services, NEW addr \in Hosts, registry_add_instance(name, addr)
  PROVE  Table(services')
<1>1. PICK table : table = IF find_service(name) = 0 THEN Registered(name, <<>>) ELSE services
  OBVIOUS
<1>2. PICK k : k = SelectInSeq(table, LAMBDA s : s.name = name)
  OBVIOUS
<1>3. PICK inst : inst = [addr |-> addr, healthy |-> TRUE, age |-> 0]
  OBVIOUS
<1>4. services' = IF k = 0 \/ Len(table[k].instances) >= MaxInstances THEN table
                  ELSE [table EXCEPT ![k].instances = Append(@, inst)]
  BY <1>1, <1>2, <1>3 DEF registry_add_instance
<1>5. Table(table)
  <2>1. <<>> \in Seq(Methods)
    OBVIOUS
  <2> QED
    BY <1>1, <2>1, RegisteredTable DEF RegistryInv
<1>6. \/ k = 0
      \/ k \in 1 .. Len(table) /\ table[k].name = name
  <2>1. k = IF Named(table, name) # {} THEN Min(Named(table, name)) ELSE 0
    BY <1>2 DEF SelectInSeq, Named
  <2> QED
    BY <1>5, <2>1, ServicePlace
<1>7. CASE k \in 1 .. Len(table) /\ services' = [table EXCEPT ![k].instances = Append(@, inst)]
  <2>1. table[k] \in ServiceEntry
    BY <1>5, <1>7 DEF Table
  <2>2. table[k].instances \in Seq(SoundInstance) /\ inst \in SoundInstance
    BY <1>3, <2>1, EntryHas, NewInstance
  <2>3. PICK q : q = Append(table[k].instances, inst)
    OBVIOUS
  <2>4. q \in Seq(SoundInstance)
    BY <2>2, <2>3
  <2>5. PICK e : e = [table[k] EXCEPT !.instances = q]
    OBVIOUS
  <2>6. e \in ServiceEntry /\ e.name = table[k].name
    BY <2>1, <2>4, <2>5, EntryInstances
  <2>7. services' = [table EXCEPT ![k] = e]
    BY <1>7, <2>3, <2>5
  <2> QED
    BY <1>5, <1>7, <2>6, <2>7, EntryChanged
<1> QED
  BY <1>4, <1>5, <1>6, <1>7

(* The place of an instance among those of a service that has an entry.      *)
LEMMA InstancePlace ==
  ASSUME RegistryInv, NEW name, NEW addr, find_instance(name, addr) > 0
  PROVE  /\ find_service(name) \in 1 .. Len(services)
         /\ services[find_service(name)].instances \in Seq(SoundInstance)
         /\ find_instance(name, addr) \in 1 .. Len(services[find_service(name)].instances)
<1>0. Table(services)
  BY DEF RegistryInv
<1>1. PICK k : k = find_service(name)
  OBVIOUS
<1>2. PICK q : q = InstancesOf(name)
  OBVIOUS
<1>3. PICK w : w = find_instance(name, addr)
  OBVIOUS
<1> DEFINE S == {i \in 1 .. Len(q) : q[i].addr = addr}
<1>4. w = IF S # {} THEN Min(S) ELSE 0
  BY <1>2, <1>3 DEF find_instance, SelectInSeq
<1>5. k = 0 \/ k \in 1 .. Len(services)
  <2>1. k = IF Named(services, name) # {} THEN Min(Named(services, name)) ELSE 0
    BY <1>1 DEF find_service, SelectInSeq, Named
  <2> QED
    BY <1>0, <2>1, ServicePlace
<1>6. q \in Seq(SoundInstance)
  <2>1. CASE k = 0
    BY <1>1, <1>2, <2>1 DEF InstancesOf
  <2>2. CASE k \in 1 .. Len(services)
    <3>1. services[k] \in ServiceEntry /\ k # 0
      BY <1>0, <2>2 DEF Table
    <3> QED
      BY <1>1, <1>2, <3>1, EntryHas DEF InstancesOf
  <2> QED
    BY <1>5, <2>1, <2>2
<1>7. First(w, q, S)
  <2>1. S \subseteq 1 .. Len(q)
    OBVIOUS
  <2> HIDE DEF S
  <2> QED
    BY <1>4, <1>6, <2>1, MinIs
<1>8. w \in 1 .. Len(q)
  BY <1>3, <1>7 DEF First
<1>9. k # 0
  <2> SUFFICES ASSUME k = 0 PROVE FALSE
    OBVIOUS
  <2>1. q = <<>>
    BY <1>1, <1>2 DEF InstancesOf
  <2> QED
    BY <1>8, <2>1
<1>10. q = services[k].instances
  BY <1>1, <1>2, <1>9 DEF InstancesOf
<1> QED
  BY <1>1, <1>3, <1>5, <1>6, <1>8, <1>9, <1>10

LEMMA InstancesChanged ==
  ASSUME NEW s, Table(s), NEW k \in 1 .. Len(s), NEW q \in Seq(SoundInstance), NEW b,
         b = [s EXCEPT ![k].instances = q]
  PROVE  Table(b)
<1>1. s[k] \in ServiceEntry
  BY DEF Table
<1>2. PICK e : e = [s[k] EXCEPT !.instances = q]
  OBVIOUS
<1>3. e \in ServiceEntry /\ e.name = s[k].name
  BY <1>1, <1>2, EntryInstances
<1>4. b = [s EXCEPT ![k] = e]
  BY <1>2
<1> QED
  BY <1>3, <1>4, EntryChanged

LEMMA RemoveInstanceStep ==
  ASSUME RegistryInv, NEW name, NEW addr, registry_remove_instance(name, addr)
  PROVE  Table(services')
<1>1. PICK k, w : k = find_service(name) /\ w = find_instance(name, addr)
  OBVIOUS
<1>2. /\ k \in 1 .. Len(services) /\ services[k].instances \in Seq(SoundInstance)
      /\ w \in 1 .. Len(services[k].instances)
  BY <1>1, InstancePlace DEF registry_remove_instance
<1>3. PICK q : q = RemoveAt(services[k].instances, w)
  OBVIOUS
<1>4. services' = [services EXCEPT ![k].instances = q]
  BY <1>1, <1>3 DEF registry_remove_instance
<1>5. q \in Seq(SoundInstance)
  BY <1>2, <1>3, RemoveIs
<1> QED
  BY <1>2, <1>4, <1>5, InstancesChanged DEF RegistryInv

LEMMA HeartbeatStep ==
  ASSUME RegistryInv, NEW name, NEW addr, registry_heartbeat(name, addr)
  PROVE  Table(services')
<1>1. PICK k, w : k = find_service(name) /\ w = find_instance(name, addr)
  OBVIOUS
<1>2. /\ k \in 1 .. Len(services) /\ services[k].instances \in Seq(SoundInstance)
      /\ w \in 1 .. Len(services[k].instances)
  BY <1>1, InstancePlace DEF registry_heartbeat
<1>3. PICK q : q = services[k].instances
  OBVIOUS
<1>4. PICK i : i = [q[w] EXCEPT !.age = 0, !.healthy = TRUE]
  OBVIOUS
<1>5. services' = [services EXCEPT ![k].instances = [q EXCEPT ![w] = i]]
  BY <1>1, <1>3, <1>4 DEF registry_heartbeat
<1>6. q \in Seq(SoundInstance) /\ w \in 1 .. Len(q)
  BY <1>2, <1>3
<1>7. i \in SoundInstance
  <2>1. q[w] \in SoundInstance
    BY <1>6
  <2> QED
    BY <1>4, <2>1, InstanceKept
<1>8. [q EXCEPT ![w] = i] \in Seq(SoundInstance)
  BY <1>6, <1>7, ReplaceIs
<1> QED
  BY <1>2, <1>5, <1>8, InstancesChanged DEF RegistryInv

(* The table with the instances of every entry replaced one by one.          *)
LEMMA EveryInstance ==
  ASSUME NEW s, Table(s), NEW f, NEW b,
         b = [k \in DOMAIN s |-> [s[k] EXCEPT !.instances = f[k]]],
         \A k \in DOMAIN s : f[k] \in Seq(SoundInstance)
  PROVE  Table(b)
<1>0. s \in Seq(ServiceEntry) /\ Len(s) \in Nat /\ DOMAIN s = 1 .. Len(s)
  BY DEF Table
<1>1. \A k \in 1 .. Len(s) : b[k] = [s[k] EXCEPT !.instances = f[k]]
  BY <1>0
<1>2. \A k \in 1 .. Len(s) : b[k] \in ServiceEntry /\ b[k].name = s[k].name
  <2> SUFFICES ASSUME NEW k \in 1 .. Len(s) PROVE b[k] \in ServiceEntry /\ b[k].name = s[k].name
    OBVIOUS
  <2>1. s[k] \in ServiceEntry /\ f[k] \in Seq(SoundInstance) /\ b[k] = [s[k] EXCEPT !.instances = f[k]]
    BY <1>0, <1>1
  <2> QED
    BY <2>1, EntryInstances
<1>3. b \in [1 .. Len(s) -> ServiceEntry]
  BY <1>0, <1>2
<1>4. b \in Seq(ServiceEntry) /\ Len(b) = Len(s)
  BY <1>0, <1>3
<1>5. NamesOnce(b)
  BY <1>2, <1>4 DEF Table, NamesOnce
<1> QED
  BY <1>4, <1>5 DEF Table

LEMMA InstancesMapped ==
  ASSUME NEW q \in Seq(SoundInstance), NEW g, DOMAIN g = DOMAIN q, g = [i \in DOMAIN q |-> g[i]],
         \A i \in DOMAIN q : g[i] \in SoundInstance
  PROVE  g \in Seq(SoundInstance)
<1>1. Len(q) \in Nat /\ DOMAIN q = 1 .. Len(q)
  OBVIOUS
<1>2. g \in [1 .. Len(q) -> SoundInstance]
  BY <1>1
<1> QED
  BY <1>1, <1>2

LEMMA HealthStep ==
  ASSUME RegistryInv, registry_health_check \/ TimePasses
  PROVE  Table(services')
<1>0. Table(services)
  BY DEF RegistryInv
<1>1. \A k \in DOMAIN services : services[k] \in ServiceEntry /\ services[k].instances \in Seq(SoundInstance)
  BY <1>0, EntryHas DEF Table
<1>2. CASE registry_health_check
  <2> DEFINE f == [k \in DOMAIN services |-> [i \in DOMAIN services[k].instances |-> Checked(services[k].instances[i])]]
  <2>1. services' = [k \in DOMAIN services |-> [services[k] EXCEPT !.instances = f[k]]]
    BY <1>2 DEF registry_health_check, OnInstances
  <2>2. \A k \in DOMAIN services : f[k] \in Seq(SoundInstance)
    <3> SUFFICES ASSUME NEW k \in DOMAIN services PROVE f[k] \in Seq(SoundInstance)
      OBVIOUS
    <3>1. PICK q : q = services[k].instances
      OBVIOUS
    <3>2. f[k] = [i \in DOMAIN q |-> Checked(q[i])]
      BY <3>1
    <3>3. q \in Seq(SoundInstance)
      BY <1>1, <3>1
    <3>4. \A i \in DOMAIN q : Checked(q[i]) \in SoundInstance
      <4> TAKE i \in DOMAIN q
      <4>1. q[i] \in SoundInstance
        BY <3>3
      <4> QED
        BY <4>1, InstanceKept
    <3> HIDE DEF f
    <3>5. DOMAIN f[k] = DOMAIN q /\ f[k] = [i \in DOMAIN q |-> f[k][i]] /\ \A i \in DOMAIN q : f[k][i] \in SoundInstance
      BY <3>2, <3>4
    <3> QED
      BY <3>3, <3>5, InstancesMapped
  <2> HIDE DEF f
  <2> QED
    BY <1>0, <2>1, <2>2, EveryInstance
<1>3. CASE TimePasses
  <2> DEFINE f == [k \in DOMAIN services |-> [i \in DOMAIN services[k].instances |-> Older(services[k].instances[i])]]
  <2>1. services' = [k \in DOMAIN services |-> [services[k] EXCEPT !.instances = f[k]]]
    BY <1>3 DEF TimePasses, OnInstances
  <2>2. \A k \in DOMAIN services : f[k] \in Seq(SoundInstance)
    <3> SUFFICES ASSUME NEW k \in DOMAIN services PROVE f[k] \in Seq(SoundInstance)
      OBVIOUS
    <3>1. PICK q : q = services[k].instances
      OBVIOUS
    <3>2. f[k] = [i \in DOMAIN q |-> Older(q[i])]
      BY <3>1
    <3>3. q \in Seq(SoundInstance)
      BY <1>1, <3>1
    <3>4. \A i \in DOMAIN q : Older(q[i]) \in SoundInstance
      <4> TAKE i \in DOMAIN q
      <4>1. q[i] \in SoundInstance
        BY <3>3
      <4> QED
        BY <4>1, InstanceKept
    <3> HIDE DEF f
    <3>5. DOMAIN f[k] = DOMAIN q /\ f[k] = [i \in DOMAIN q |-> f[k][i]] /\ \A i \in DOMAIN q : f[k][i] \in SoundInstance
      BY <3>2, <3>4
    <3> QED
      BY <3>3, <3>5, InstancesMapped
  <2> HIDE DEF f
  <2> QED
    BY <1>0, <2>1, <2>2, EveryInstance
<1> QED
  BY <1>2, <1>3

LEMMA RegistryStarts == registry_init => RegistryInv
BY DEF registry_init, RegistryInv, Table, NamesOnce

LEMMA RegistryStep ==
  ASSUME RegistryInv, Registry
  PROVE  RegistryInv'
<1>1. ASSUME NEW s \in Services, registry_register(s, <<>>) PROVE Table(services')
  <2>1. <<>> \in Seq(Methods)
    OBVIOUS
  <2> QED
    BY <1>1, <2>1, RegisteredTable DEF registry_register
<1>2. ASSUME NEW s \in Services, registry_unregister(s) PROVE Table(services')
  BY <1>2, UnregisteredTable DEF registry_unregister
<1>3. ASSUME NEW s \in Services, registry_lb_round_robin(s) PROVE Table(services')
  BY <1>3 DEF registry_lb_round_robin, RegistryInv
<1>4. ASSUME NEW s \in Services, NEW m \in Methods, rpc_server_register_service(s, m) PROVE Table(services')
  <2>1. <<m>> \in Seq(Methods)
    OBVIOUS
  <2> QED
    BY <1>4, <2>1, RegisteredTable DEF rpc_server_register_service
<1>5. ASSUME NEW s \in Services, NEW m \in Methods, rpc_server_unregister_service(s, m) PROVE Table(services')
  BY <1>5, UnregisteredTable DEF rpc_server_unregister_service
<1>6. Table(services')
  BY <1>1, <1>2, <1>3, <1>4, <1>5, AddInstanceStep, RemoveInstanceStep, HeartbeatStep, HealthStep DEF Registry
<1> QED
  BY <1>6 DEF RegistryInv

LEMMA RegistryImplies == RegistryInv => RegistrySound
<1> SUFFICES ASSUME RegistryInv PROVE RegistrySound
  OBVIOUS
<1>0. services \in Seq(ServiceEntry) /\ NamesOnce(services) /\ DOMAIN services = 1 .. Len(services)
  BY DEF RegistryInv, Table
<1>1. \A k \in DOMAIN services : \A i \in DOMAIN services[k].instances :
        ~ services[k].instances[i].healthy => services[k].instances[i].age > StaleAfter
  <2> TAKE k \in DOMAIN services
  <2>1. services[k].instances \in Seq(SoundInstance)
    BY <1>0, EntryHas
  <2> TAKE i \in DOMAIN services[k].instances
  <2>2. services[k].instances[i] \in SoundInstance
    BY <2>1
  <2> QED
    BY <2>2 DEF SoundInstance, Live, Dead
<1> QED
  BY <1>0, <1>1 DEF RegistrySound, NamesOnce

-----------------------------------------------------------------------------
(***************************************************************************)
(* Compact: the open contexts beyond their number fill the gaps before it, the *)
(* last of them the first gap.  There are as many of the one as of the other, *)
(* so every gap finds a context and every context a gap.                     *)
(***************************************************************************)

Above(S, m) == Cardinality({k \in S : k > m})

(* The positions beyond one are what those up to it leave over.              *)
LEMMA AboveIs ==
  ASSUME NEW S, Places(S), NEW m \in S
  PROVE  /\ Above(S, m) = Cardinality(S) - Rank(S, m) - 1
         /\ Cardinality(S) \in Nat /\ Rank(S, m) \in Nat /\ Rank(S, m) < Cardinality(S)
<1> DEFINE A == {k \in S : k < m}
           B == {k \in S : k > m}
<1>0. (\A k \in S : k \in Nat) /\ IsFiniteSet(S) /\ m \in Nat
  BY DEF Places
<1>1. IsFiniteSet(A) /\ IsFiniteSet(B) /\ Cardinality(A) \in Nat /\ Cardinality(B) \in Nat
  <2>1. A \subseteq S /\ B \subseteq S
    OBVIOUS
  <2> QED
    BY <1>0, <2>1, FS_Subset, FS_CardinalityType
<1>2. S = (A \cup {m}) \cup B /\ m \notin A /\ (A \cup {m}) \cap B = {}
  <2>1. ASSUME NEW k \in S PROVE k \in (A \cup {m}) \cup B
    BY <1>0
  <2>2. ASSUME NEW k \in (A \cup {m}) \cap B PROVE FALSE
    BY <1>0, <2>2
  <2>3. m \notin A
    BY <1>0
  <2> QED
    BY <2>1, <2>2, <2>3
<1>3. IsFiniteSet(A \cup {m}) /\ Cardinality(A \cup {m}) = Cardinality(A) + 1
  BY <1>1, <1>2, FS_AddElement
<1>4. Cardinality(S) = Cardinality(A) + 1 + Cardinality(B)
  <2>1. Cardinality((A \cup {m}) \cup B) = Cardinality(A \cup {m}) + Cardinality(B) - Cardinality((A \cup {m}) \cap B)
    BY <1>1, <1>3, FS_Union
  <2>2. Cardinality((A \cup {m}) \cap B) = 0
    BY <1>2, FS_EmptySet
  <2> HIDE DEF A, B
  <2> QED
    BY <1>1, <1>2, <1>3, <2>1, <2>2
<1> HIDE DEF A, B
<1>5. Above(S, m) = Cardinality(B) /\ Rank(S, m) = Cardinality(A)
  BY DEF Above, Rank, A, B
<1> QED
  BY <1>1, <1>4, <1>5

(* As many open entries lie beyond their number as there are gaps before it. *)
LEMMA GapsAreMoved ==
  ASSUME NEW n \in Nat, NEW L, L \subseteq 1 .. n, NEW c, c = Cardinality(L)
  PROVE  /\ c \in Nat /\ c <= n
         /\ Places((1 .. c) \ L) /\ Places(L \ (1 .. c))
         /\ Cardinality((1 .. c) \ L) = Cardinality(L \ (1 .. c))
         /\ Cardinality((1 .. c) \ L) \in Nat
<1>1. Places(L) /\ c \in Nat /\ c <= n
  BY PlacesOf
<1>2. IsFiniteSet(1 .. c) /\ Cardinality(1 .. c) = c
  BY <1>1, FS_Interval
<1>3. IsFiniteSet(L)
  BY <1>1 DEF Places
<1>4. /\ IsFiniteSet((1 .. c) \ L) /\ IsFiniteSet(L \ (1 .. c))
      /\ Cardinality((1 .. c) \ L) = c - Cardinality((1 .. c) \cap L)
      /\ Cardinality(L \ (1 .. c)) = c - Cardinality(L \cap (1 .. c))
  BY <1>2, <1>3, FS_Difference
<1>5. (1 .. c) \cap L = L \cap (1 .. c)
  OBVIOUS
<1>6. Places((1 .. c) \ L) /\ Places(L \ (1 .. c))
  <2>1. (\A i \in (1 .. c) \ L : i \in Nat) /\ (\A i \in L \ (1 .. c) : i \in Nat)
    BY <1>1 DEF Places
  <2> QED
    BY <1>4, <2>1 DEF Places
<1>7. Cardinality((1 .. c) \ L) = Cardinality(L \ (1 .. c))
  BY <1>4, <1>5
<1> QED
  BY <1>1, <1>4, <1>6, <1>7, FS_CardinalityType

(* Every gap takes one of those beyond, and every one of them finds a gap.   *)
Fills(m, g, gaps, moved) == Above(moved, m) = Rank(gaps, g)

LEMMA GapFilled ==
  ASSUME NEW gaps, NEW moved, Places(gaps), Places(moved), Cardinality(gaps) = Cardinality(moved), NEW g \in gaps
  PROVE  \E m \in moved : Fills(m, g, gaps, moved)
<1>0. g \in Nat
  BY DEF Places
<1>1. PICK c, r : c = Cardinality(moved) /\ r = Rank(gaps, g)
  OBVIOUS
<1>2. c \in Nat /\ r \in Nat /\ r < c
  BY <1>0, <1>1, RankBelow
<1>3. c - r \in 1 .. c
  BY <1>2
<1>4. PICK m \in moved : Rank(moved, m) = (c - r) - 1
  BY <1>1, <1>3, NthExists
<1>5. Above(moved, m) = c - ((c - r) - 1) - 1
  BY <1>1, <1>4, AboveIs
<1>6. Above(moved, m) = r
  BY <1>2, <1>5
<1> QED
  BY <1>1, <1>6 DEF Fills

LEMMA MoverFound ==
  ASSUME NEW gaps, NEW moved, Places(gaps), Places(moved), Cardinality(gaps) = Cardinality(moved), NEW m \in moved
  PROVE  \E g \in gaps : Fills(m, g, gaps, moved)
<1>1. PICK c, a : c = Cardinality(moved) /\ a = Above(moved, m)
  OBVIOUS
<1>2. PICK r : r = Rank(moved, m)
  OBVIOUS
<1>3. a = c - r - 1 /\ c \in Nat /\ r \in Nat /\ r < c
  BY <1>1, <1>2, AboveIs
<1>4. a + 1 \in 1 .. c /\ (a + 1) - 1 = a
  BY <1>3
<1>5. PICK g \in gaps : Rank(gaps, g) = (a + 1) - 1
  BY <1>1, <1>4, NthExists
<1> QED
  BY <1>1, <1>4, <1>5 DEF Fills

LEMMA FillsOnce ==
  ASSUME NEW gaps, NEW moved, Places(gaps), Places(moved),
         NEW g \in gaps, NEW h \in gaps, NEW m \in moved, NEW k \in moved,
         Fills(m, g, gaps, moved), Fills(k, h, gaps, moved)
  PROVE  m = k <=> g = h
<1>0. g \in Nat /\ h \in Nat /\ m \in Nat /\ k \in Nat
  BY DEF Places
<1>1. PICK r, s, a, b, c : /\ r = Rank(gaps, g) /\ s = Rank(gaps, h)
                           /\ a = Rank(moved, m) /\ b = Rank(moved, k) /\ c = Cardinality(moved)
  OBVIOUS
<1>2. r \in Nat /\ s \in Nat
  BY <1>0, <1>1, RankBelow
<1>3. /\ c \in Nat /\ a \in Nat /\ b \in Nat
      /\ Above(moved, m) = c - a - 1 /\ Above(moved, k) = c - b - 1
  BY <1>1, AboveIs
<1>4. c - a - 1 = r /\ c - b - 1 = s
  BY <1>1, <1>3 DEF Fills
<1>5. g < h => r < s
  BY <1>1, RankNext
<1>6. h < g => s < r
  BY <1>1, RankNext
<1>7. m < k => a < b
  BY <1>1, RankNext
<1>8. k < m => b < a
  BY <1>1, RankNext
<1>9. ASSUME m = k PROVE g = h
  <2>1. a = b
    BY <1>1, <1>9
  <2>2. r = s
    BY <1>4, <2>1
  <2> QED
    BY <1>0, <1>2, <1>5, <1>6, <2>2
<1>10. ASSUME g = h PROVE m = k
  <2>1. r = s
    BY <1>1, <1>10
  <2>2. a = b
    BY <1>2, <1>3, <1>4, <2>1
  <2> QED
    BY <1>0, <1>3, <1>7, <1>8, <2>2
<1> QED
  BY <1>9, <1>10

(* What Compact leaves of an array: the open entries, every one once.        *)
Left(s) == {i \in DOMAIN s : ~ s[i].completed}
Survive(b, s, src) ==
  /\ DOMAIN src = 1 .. Len(b)
  /\ \A j \in 1 .. Len(b) : src[j] \in Left(s) /\ b[j] = s[src[j]]
  /\ \A i, j \in 1 .. Len(b) : src[i] = src[j] => i = j
  /\ \A i \in Left(s) : \E j \in 1 .. Len(b) : src[j] = i

LEMMA CompactIs ==
  ASSUME NEW T, NEW s \in Seq(T)
  PROVE  Compact(s) \in Seq(T) /\ Len(Compact(s)) <= Len(s) /\ \E src : Survive(Compact(s), s, src)
<1>1. PICK L : L = Left(s)
  OBVIOUS
<1>2. PICK c : c = Cardinality(L)
  OBVIOUS
<1>3. PICK gaps : gaps = (1 .. c) \ L
  OBVIOUS
<1>4. PICK moved : moved = L \ (1 .. c)
  OBVIOUS
<1> DEFINE Mover(g) == CHOOSE m \in moved :
                         Cardinality({k \in moved : k > m}) = Cardinality({h \in gaps : h < g})
           src == [i \in 1 .. c |-> IF i \in L THEN i ELSE Mover(i)]
<1>5. Len(s) \in Nat /\ DOMAIN s = 1 .. Len(s) /\ L \subseteq 1 .. Len(s)
  BY <1>1 DEF Left
<1>6. /\ c \in Nat /\ c <= Len(s) /\ Places(gaps) /\ Places(moved)
      /\ Cardinality(gaps) = Cardinality(moved) /\ Cardinality(gaps) \in Nat
  BY <1>2, <1>3, <1>4, <1>5, GapsAreMoved
<1>7. \A g \in gaps : Mover(g) \in moved /\ Fills(Mover(g), g, gaps, moved)
  <2> TAKE g \in gaps
  <2>1. \E m \in moved : Cardinality({k \in moved : k > m}) = Cardinality({h \in gaps : h < g})
    BY <1>6, GapFilled DEF Fills, Above, Rank
  <2> QED
    BY <2>1 DEF Fills, Above, Rank
<1>8. Compact(s) = [i \in 1 .. c |-> IF i \in L THEN s[i] ELSE s[Mover(i)]]
  BY <1>1, <1>2, <1>3, <1>4 DEF Compact, Left
<1> HIDE DEF Mover
<1>9. \A i \in 1 .. c : /\ src[i] \in L
                        /\ i \in L => src[i] = i
                        /\ i \notin L => i \in gaps /\ src[i] \in moved /\ Fills(src[i], i, gaps, moved)
  BY <1>3, <1>4, <1>7
<1>10. PICK b : b = Compact(s)
  OBVIOUS
<1>11. DOMAIN src = 1 .. c /\ DOMAIN b = 1 .. c /\ \A i \in 1 .. c : b[i] = s[src[i]]
  BY <1>8, <1>10
<1> HIDE DEF src
<1>12. b \in Seq(T) /\ Len(b) = c
  <2>1. \A i \in 1 .. c : b[i] \in T
    <3> TAKE i \in 1 .. c
    <3>1. src[i] \in 1 .. Len(s) /\ b[i] = s[src[i]]
      BY <1>5, <1>9, <1>11
    <3> QED
      BY <3>1
  <2>2. b = [i \in 1 .. c |-> b[i]]
    BY <1>8, <1>10
  <2>3. b \in [1 .. c -> T]
    BY <2>1, <2>2
  <2> QED
    BY <1>6, <2>3
<1>13. ASSUME NEW i \in 1 .. c, NEW j \in 1 .. c, src[i] = src[j] PROVE i = j
  <2>1. CASE i \in L /\ j \in L
    BY <1>9, <1>13, <2>1
  <2>2. CASE i \notin L /\ j \notin L
    BY <1>6, <1>9, <1>13, <2>2, FillsOnce
  <2>3. CASE (i \in L) # (j \in L)
    BY <1>4, <1>9, <1>13, <2>3
  <2> QED
    BY <2>1, <2>2, <2>3
<1>14. ASSUME NEW i \in L PROVE \E j \in 1 .. c : src[j] = i
  <2>1. CASE i \in 1 .. c
    BY <1>9, <2>1
  <2>2. CASE i \notin 1 .. c
    <3>1. i \in moved
      BY <1>4, <2>2
    <3>2. PICK g \in gaps : Fills(i, g, gaps, moved)
      BY <1>6, <3>1, MoverFound
    <3>3. g \in 1 .. c /\ g \notin L
      BY <1>3, <3>2
    <3>4. src[g] \in moved /\ Fills(src[g], g, gaps, moved)
      BY <1>9, <3>3
    <3>5. src[g] = i
      BY <1>6, <3>1, <3>2, <3>4, FillsOnce
    <3> QED
      BY <3>3, <3>5
  <2> QED
    BY <2>1, <2>2
<1>15. Survive(b, s, src)
  BY <1>1, <1>9, <1>11, <1>12, <1>13, <1>14 DEF Survive
<1> QED
  BY <1>6, <1>10, <1>12, <1>15

-----------------------------------------------------------------------------
(***************************************************************************)
(* The calls.  CallbackOnce needs the ids of the contexts to be distinct, and *)
(* an open context to be one whose call has had no answer: then a timeout    *)
(* answers it once, and clearing the contexts away loses none that is open.  *)
(* While callbacks run that is so of a view s of the contexts in use, in     *)
(* which the one whose timeout is being answered is complete already; and a  *)
(* call whose callback runs has its context just beyond them.                *)
(***************************************************************************)

CallOf(n, d, h) == [id |-> n, deadline |-> d, completed |-> h]
Context == {CallOf(n, d, h) : n \in Nat, d \in Int, h \in BOOLEAN}

(* The contexts s beside the answers d of the calls.                         *)
Accounts(s, d) ==
  /\ \A i \in 1 .. Len(s) : s[i].id \in 1 .. Len(d)
  /\ \A i, j \in 1 .. Len(s) : s[i].id = s[j].id => i = j
  /\ \A i \in 1 .. Len(s) : ~ s[i].completed => d[s[i].id] = 0
  /\ \A c \in 1 .. Len(d) : /\ d[c] <= 1
                            /\ d[c] = 0 => \E i \in 1 .. Len(s) : s[i].id = c /\ ~ s[i].completed

(* The first n contexts of the table, that at m taken for complete.          *)
View(s, tab, n, m) ==
  /\ s \in Seq(Context) /\ Len(s) = n
  /\ \A i \in 1 .. n : s[i].id = tab[i].id /\ (~ s[i].completed <=> ~ tab[i].completed /\ i # m)

(* A call that has its answer and is not among the contexts.                 *)
Waits(id, s, d) == id \in 1 .. Len(d) /\ d[id] = 1 /\ \A i \in 1 .. Len(s) : s[i].id # id

IsCall(f)  == f.type = "call"
IsSweep(f) == f.type = "sweep"

(* Callbacks that do no harm: of a sweep at m, of a call at c inside or alone. *)
Stack(fs, m, c) ==
  \/ fs = <<>> /\ m = 0 /\ c = 0
  \/ \E f : fs = <<f>> /\ IsCall(f) /\ f.slot = c /\ c # 0 /\ m = 0
  \/ \E f : fs = <<f>> /\ IsSweep(f) /\ f.slot = m /\ m # 0 /\ c = 0
  \/ \E f, g : fs = <<f, g>> /\ IsSweep(f) /\ f.slot = m /\ m # 0 /\ IsCall(g) /\ g.slot = c /\ c # 0

Within(tab, n) == tab \in Seq(Context) /\ Len(tab) = MaxContexts /\ n \in Nat /\ n <= MaxContexts

Books(tab, n, d, m, c, s) ==
  /\ Within(tab, n) /\ d \in Seq(Nat) /\ m \in Nat /\ m <= n
  /\ View(s, tab, n, m) /\ Accounts(s, d)
  /\ c = 0 \/ (c = n + 1 /\ c <= MaxContexts /\ Waits(tab[c].id, s, d))

CallsInv ==
  /\ calls \in Nat /\ clock \in Nat /\ disturbed \in BOOLEAN
  /\ ~ disturbed => /\ Len(called) = calls
                    /\ \E m, c, s : /\ Stack(frames, m, c)
                                    /\ Books(contexts, async_count, called, m, c, s)

LEMMA ContextIs ==
  ASSUME NEW n \in Nat, NEW d \in Int, NEW h \in BOOLEAN
  PROVE  /\ CallOf(n, d, h) \in Context
         /\ CallOf(n, d, h).id = n /\ CallOf(n, d, h).completed = h
BY DEF Context, CallOf

LEMMA ContextDone ==
  ASSUME NEW e \in Context, NEW b, b = [e EXCEPT !.completed = TRUE]
  PROVE  b \in Context /\ b.id = e.id /\ b.completed
<1>1. PICK n \in Nat, d \in Int, h \in BOOLEAN : e = CallOf(n, d, h)
  BY DEF Context
<1>2. b = CallOf(n, d, TRUE)
  BY <1>1 DEF CallOf
<1>3. CallOf(n, d, TRUE) \in Context
  BY <1>1, ContextIs, Zenon
<1> QED
  BY <1>1, <1>2, <1>3 DEF CallOf

LEMMA SignedType ==
  ASSUME NEW n \in Nat
  PROVE  Signed(n) \in Int
<1>1. Period \in Nat /\ Period > 0
  BY StubAssumption
<1>2. n % Period \in Nat
  BY <1>1
<1> QED
  BY <1>1, <1>2 DEF Signed

(* A slot of the table is written.                                           *)
Written(tab, k, e) == [tab EXCEPT ![k] = e]

LEMMA SlotWritten ==
  ASSUME NEW tab \in Seq(Context), NEW k \in 1 .. Len(tab), NEW e \in Context
  PROVE  /\ Written(tab, k, e) \in Seq(Context) /\ Len(Written(tab, k, e)) = Len(tab)
         /\ Written(tab, k, e)[k] = e
         /\ \A i \in 1 .. Len(tab) : i # k => Written(tab, k, e)[i] = tab[i]
BY DEF Written

LEMMA SlotDone ==
  ASSUME NEW tab \in Seq(Context), NEW k \in 1 .. Len(tab)
  PROVE  /\ Done(tab, k) \in Seq(Context) /\ Len(Done(tab, k)) = Len(tab)
         /\ Done(tab, k)[k].completed /\ Done(tab, k)[k].id = tab[k].id
         /\ \A i \in 1 .. Len(tab) : i # k => Done(tab, k)[i] = tab[i]
<1>1. PICK e : e = [tab[k] EXCEPT !.completed = TRUE]
  OBVIOUS
<1>2. tab[k] \in Context
  OBVIOUS
<1>3. e \in Context /\ e.id = tab[k].id /\ e.completed
  BY <1>1, <1>2, ContextDone
<1>4. Done(tab, k) = Written(tab, k, e)
  BY <1>1 DEF Done, Written
<1>5. /\ Written(tab, k, e) \in Seq(Context) /\ Len(Written(tab, k, e)) = Len(tab)
      /\ Written(tab, k, e)[k] = e
      /\ \A i \in 1 .. Len(tab) : i # k => Written(tab, k, e)[i] = tab[i]
  BY <1>3, SlotWritten
<1> QED
  BY <1>3, <1>4, <1>5

(* A call that is answered at once joins the calls and not the contexts.     *)
LEMMA AnsweredCall ==
  ASSUME NEW s \in Seq(Context), NEW d \in Seq(Nat), Accounts(s, d), NEW b, b = Append(d, 1)
  PROVE  /\ b \in Seq(Nat) /\ Len(b) = Len(d) + 1 /\ Accounts(s, b)
         /\ Waits(Len(d) + 1, s, b)
         /\ \A id : Waits(id, s, d) => Waits(id, s, b)
<1>0. Len(d) \in Nat
  OBVIOUS
<1>3. /\ b \in Seq(Nat) /\ Len(b) = Len(d) + 1 /\ b[Len(d) + 1] = 1 /\ \A c \in 1 .. Len(d) : b[c] = d[c]
  OBVIOUS
<1>1. \A i \in 1 .. Len(s) : s[i].id \in 1 .. Len(d)
  BY DEF Accounts
<1>2. \A i \in 1 .. Len(s) : s[i].id \in 1 .. Len(b) /\ b[s[i].id] = d[s[i].id] /\ s[i].id # Len(d) + 1
  BY <1>0, <1>1, <1>3
<1>4. \A c \in 1 .. Len(b) : c = Len(d) + 1 \/ c \in 1 .. Len(d)
  BY <1>0, <1>3
<1>5. \A c \in 1 .. Len(b) : /\ b[c] <= 1
                             /\ b[c] = 0 => \E i \in 1 .. Len(s) : s[i].id = c /\ ~ s[i].completed
  <2> TAKE c \in 1 .. Len(b)
  <2>1. CASE c = Len(d) + 1
    BY <1>3, <2>1
  <2>2. CASE c \in 1 .. Len(d)
    BY <1>3, <2>2 DEF Accounts
  <2> QED
    BY <1>4, <2>1, <2>2
<1>6. Accounts(s, b)
  BY <1>2, <1>5 DEF Accounts
<1>7. Waits(Len(d) + 1, s, b)
  BY <1>0, <1>2, <1>3 DEF Waits
<1>8. ASSUME NEW id, Waits(id, s, d) PROVE Waits(id, s, b)
  BY <1>0, <1>3, <1>8 DEF Waits
<1> QED
  BY <1>3, <1>6, <1>7, <1>8

(* A context joins the contexts: an open one with a call that has no answer   *)
(* yet, or a complete one whose call has had it.                             *)
LEMMA ContextJoins ==
  ASSUME NEW s \in Seq(Context), NEW d, NEW e \in Context,
         \A i \in 1 .. Len(s) : s[i].id \in 1 .. Len(d) /\ s[i].id # e.id,
         \A i, j \in 1 .. Len(s) : s[i].id = s[j].id => i = j,
         \A i \in 1 .. Len(s) : ~ s[i].completed => d[s[i].id] = 0,
         e.id \in 1 .. Len(d), e.completed \/ d[e.id] = 0,
         \A c \in 1 .. Len(d) :
           /\ d[c] <= 1
           /\ d[c] = 0 => \/ c = e.id /\ ~ e.completed
                          \/ \E i \in 1 .. Len(s) : s[i].id = c /\ ~ s[i].completed
  PROVE  Append(s, e) \in Seq(Context) /\ Len(Append(s, e)) = Len(s) + 1 /\ Accounts(Append(s, e), d)
<1>0. Len(s) \in Nat
  OBVIOUS
<1>1. PICK n, b : n = Len(s) /\ b = Append(s, e)
  OBVIOUS
<1>2. /\ b \in Seq(Context) /\ Len(b) = n + 1 /\ b[n + 1] = e /\ \A i \in 1 .. n : b[i] = s[i]
  BY <1>0, <1>1
<1>3. /\ \A i \in 1 .. Len(b) : i = n + 1 \/ i \in 1 .. n
      /\ n + 1 \in 1 .. Len(b) /\ \A i \in 1 .. n : i \in 1 .. Len(b)
  BY <1>0, <1>1, <1>2
<1>4. \A i, j \in 1 .. Len(b) : b[i].id = b[j].id => i = j
  <2> SUFFICES ASSUME NEW i \in 1 .. Len(b), NEW j \in 1 .. Len(b), b[i].id = b[j].id PROVE i = j
    OBVIOUS
  <2>1. CASE i \in 1 .. n /\ j \in 1 .. n
    BY <1>1, <1>2, <2>1
  <2>2. CASE i = n + 1 \/ j = n + 1
    BY <1>1, <1>2, <1>3, <2>2
  <2> QED
    BY <1>3, <2>1, <2>2
<1>5. \A i \in 1 .. Len(b) : b[i].id \in 1 .. Len(d) /\ (~ b[i].completed => d[b[i].id] = 0)
  <2> TAKE i \in 1 .. Len(b)
  <2>1. CASE i = n + 1
    BY <1>2, <2>1
  <2>2. CASE i \in 1 .. n
    BY <1>1, <1>2, <2>2
  <2> QED
    BY <1>3, <2>1, <2>2
<1>6. \A c \in 1 .. Len(d) : /\ d[c] <= 1
                             /\ d[c] = 0 => \E i \in 1 .. Len(b) : b[i].id = c /\ ~ b[i].completed
  <2> TAKE c \in 1 .. Len(d)
  <2>1. ASSUME d[c] = 0 PROVE \E i \in 1 .. Len(b) : b[i].id = c /\ ~ b[i].completed
    <3>1. CASE c = e.id /\ ~ e.completed
      BY <1>2, <1>3, <3>1
    <3>2. CASE \E i \in 1 .. Len(s) : s[i].id = c /\ ~ s[i].completed
      BY <1>1, <1>2, <1>3, <3>2
    <3> QED
      BY <2>1, <3>1, <3>2
  <2> QED
    BY <2>1
<1>7. Accounts(b, d)
  BY <1>4, <1>5, <1>6 DEF Accounts
<1> QED
  BY <1>1, <1>2, <1>7

(* A call that leaves its context open.                                      *)
LEMMA OpenCall ==
  ASSUME NEW s \in Seq(Context), NEW d \in Seq(Nat), Accounts(s, d),
         NEW e \in Context, e.id = Len(d) + 1, ~ e.completed
  PROVE  /\ Append(d, 0) \in Seq(Nat) /\ Len(Append(d, 0)) = Len(d) + 1
         /\ Append(s, e) \in Seq(Context) /\ Len(Append(s, e)) = Len(s) + 1
         /\ Accounts(Append(s, e), Append(d, 0))
<1>0. Len(d) \in Nat
  OBVIOUS
<1>9. PICK b : b = Append(d, 0)
  OBVIOUS
<1>1. /\ b \in Seq(Nat) /\ Len(b) = Len(d) + 1 /\ b[Len(d) + 1] = 0 /\ \A c \in 1 .. Len(d) : b[c] = d[c]
  BY <1>9
<1>2. \A i \in 1 .. Len(s) : s[i].id \in 1 .. Len(d)
  BY DEF Accounts
<1>3. \A i \in 1 .. Len(s) : s[i].id \in 1 .. Len(b) /\ b[s[i].id] = d[s[i].id] /\ s[i].id # e.id
  BY <1>0, <1>1, <1>2
<1>4. \A i, j \in 1 .. Len(s) : s[i].id = s[j].id => i = j
  BY DEF Accounts
<1>5. \A i \in 1 .. Len(s) : ~ s[i].completed => b[s[i].id] = 0
  BY <1>3 DEF Accounts
<1>6. \A c \in 1 .. Len(b) : c = Len(d) + 1 \/ c \in 1 .. Len(d)
  BY <1>0, <1>1
<1>7. \A c \in 1 .. Len(b) :
           /\ b[c] <= 1
           /\ b[c] = 0 => \/ c = e.id /\ ~ e.completed
                          \/ \E i \in 1 .. Len(s) : s[i].id = c /\ ~ s[i].completed
  <2> TAKE c \in 1 .. Len(b)
  <2>1. CASE c = Len(d) + 1
    BY <1>1, <2>1
  <2>2. CASE c \in 1 .. Len(d)
    BY <1>1, <2>2 DEF Accounts
  <2> QED
    BY <1>6, <2>1, <2>2
<1>8. e.id \in 1 .. Len(b) /\ b[e.id] = 0
  BY <1>0, <1>1
<1>10. /\ Append(s, e) \in Seq(Context) /\ Len(Append(s, e)) = Len(s) + 1
       /\ Accounts(Append(s, e), b)
  <2>1. \A i \in 1 .. Len(s) : s[i].id \in 1 .. Len(b) /\ s[i].id # e.id
    BY <1>3
  <2>2. e.completed \/ b[e.id] = 0
    BY <1>8
  <2> QED
    BY <1>4, <1>5, <1>7, <1>8, <2>1, <2>2, ContextJoins
<1> QED
  BY <1>1, <1>9, <1>10

(* A call whose callback has returned.                                       *)
LEMMA CompleteCall ==
  ASSUME NEW s \in Seq(Context), NEW d \in Seq(Nat), Accounts(s, d),
         NEW e \in Context, e.completed, Waits(e.id, s, d)
  PROVE  Append(s, e) \in Seq(Context) /\ Len(Append(s, e)) = Len(s) + 1 /\ Accounts(Append(s, e), d)
<1>1. /\ \A i \in 1 .. Len(s) : s[i].id \in 1 .. Len(d) /\ s[i].id # e.id
      /\ \A i, j \in 1 .. Len(s) : s[i].id = s[j].id => i = j
      /\ \A i \in 1 .. Len(s) : ~ s[i].completed => d[s[i].id] = 0
      /\ e.id \in 1 .. Len(d)
  BY DEF Accounts, Waits
<1>2. \A c \in 1 .. Len(d) :
           /\ d[c] <= 1
           /\ d[c] = 0 => \/ c = e.id /\ ~ e.completed
                          \/ \E i \in 1 .. Len(s) : s[i].id = c /\ ~ s[i].completed
  BY DEF Accounts
<1> QED
  BY <1>1, <1>2, ContextJoins

(* The same contexts under another view.                                     *)
LEMMA SameAccounts ==
  ASSUME NEW s \in Seq(Context), NEW d, Accounts(s, d), NEW t \in Seq(Context), Len(t) = Len(s),
         \A i \in 1 .. Len(s) : t[i].id = s[i].id /\ (~ t[i].completed <=> ~ s[i].completed)
  PROVE  Accounts(t, d)
<1>1. \A c \in 1 .. Len(d) : /\ d[c] <= 1
                             /\ d[c] = 0 => \E i \in 1 .. Len(t) : t[i].id = c /\ ~ t[i].completed
  BY DEF Accounts
<1>2. \A i, j \in 1 .. Len(t) : t[i].id = t[j].id => i = j
  BY DEF Accounts
<1> QED
  BY <1>1, <1>2 DEF Accounts

(* Clearing away what is complete.                                           *)
LEMMA Surviving ==
  ASSUME NEW s \in Seq(Context), NEW d, Accounts(s, d), NEW t \in Seq(Context), NEW src, Survive(t, s, src)
  PROVE  Accounts(t, d)
<1>1. ASSUME NEW j \in 1 .. Len(t)
      PROVE  src[j] \in 1 .. Len(s) /\ ~ s[src[j]].completed /\ t[j] = s[src[j]]
  BY DEF Survive, Left
<1>2. \A j \in 1 .. Len(t) : t[j].id \in 1 .. Len(d) /\ d[t[j].id] = 0
  BY <1>1 DEF Accounts
<1>3. \A i, j \in 1 .. Len(t) : t[i].id = t[j].id => i = j
  <2> SUFFICES ASSUME NEW i \in 1 .. Len(t), NEW j \in 1 .. Len(t), t[i].id = t[j].id PROVE i = j
    OBVIOUS
  <2>1. src[i] \in 1 .. Len(s) /\ src[j] \in 1 .. Len(s) /\ s[src[i]].id = s[src[j]].id
    BY <1>1
  <2>2. src[i] = src[j]
    BY <2>1 DEF Accounts
  <2> QED
    BY <2>2 DEF Survive
<1>4. \A c \in 1 .. Len(d) : /\ d[c] <= 1
                             /\ d[c] = 0 => \E j \in 1 .. Len(t) : t[j].id = c /\ ~ t[j].completed
  <2> TAKE c \in 1 .. Len(d)
  <2>1. ASSUME d[c] = 0 PROVE \E j \in 1 .. Len(t) : t[j].id = c /\ ~ t[j].completed
    <3>1. PICK i \in 1 .. Len(s) : s[i].id = c /\ ~ s[i].completed
      BY <2>1 DEF Accounts
    <3>2. i \in Left(s)
      BY <3>1 DEF Left
    <3>3. PICK j \in 1 .. Len(t) : src[j] = i
      BY <3>2 DEF Survive
    <3> QED
      BY <1>1, <3>1, <3>3
  <2> QED
    BY <2>1 DEF Accounts
<1> QED
  BY <1>2, <1>3, <1>4 DEF Accounts

(* One open context times out.                                               *)
Counted(d, c) == [d EXCEPT ![c] = @ + 1]

LEMMA OneTimedOut ==
  ASSUME NEW s \in Seq(Context), NEW d \in Seq(Nat), Accounts(s, d),
         NEW k \in 1 .. Len(s), ~ s[k].completed
  PROVE  /\ Counted(d, s[k].id) \in Seq(Nat) /\ Len(Counted(d, s[k].id)) = Len(d)
         /\ Accounts(Done(s, k), Counted(d, s[k].id))
<1>0. PICK b, e : b = Done(s, k) /\ e = Counted(d, s[k].id)
  OBVIOUS
<1>1. /\ b \in Seq(Context) /\ Len(b) = Len(s) /\ b[k].completed /\ b[k].id = s[k].id
      /\ \A i \in 1 .. Len(s) : i # k => b[i] = s[i]
  BY <1>0, SlotDone
<1>2. PICK c : c = s[k].id
  OBVIOUS
<1>3. c \in 1 .. Len(d) /\ d[c] = 0
  BY <1>2 DEF Accounts
<1>4. e \in Seq(Nat) /\ Len(e) = Len(d) /\ e[c] = 1 /\ \A a \in 1 .. Len(d) : a # c => e[a] = d[a]
  BY <1>0, <1>2, <1>3 DEF Counted
<1>5. \A i \in 1 .. Len(s) : b[i].id = s[i].id /\ b[i].id \in 1 .. Len(d) /\ (s[i].id = c => i = k)
  BY <1>1, <1>2 DEF Accounts
<1>6. \A i \in 1 .. Len(b) : ~ b[i].completed => e[b[i].id] = 0
  <2> SUFFICES ASSUME NEW i \in 1 .. Len(s), ~ b[i].completed PROVE e[b[i].id] = 0
    BY <1>1
  <2>1. i # k /\ b[i] = s[i] /\ b[i].id # c
    BY <1>1, <1>5
  <2>2. d[s[i].id] = 0
    BY <2>1 DEF Accounts
  <2> QED
    BY <1>4, <1>5, <2>1, <2>2
<1>7. \A a \in 1 .. Len(e) : /\ e[a] <= 1
                             /\ e[a] = 0 => \E i \in 1 .. Len(b) : b[i].id = a /\ ~ b[i].completed
  <2> TAKE a \in 1 .. Len(e)
  <2>1. CASE a = c
    BY <1>4, <2>1
  <2>2. CASE a # c
    <3>1. a \in 1 .. Len(d) /\ e[a] = d[a] /\ d[a] <= 1
      BY <1>4, <2>2 DEF Accounts
    <3>2. ASSUME d[a] = 0 PROVE \E i \in 1 .. Len(b) : b[i].id = a /\ ~ b[i].completed
      <4>1. PICK i \in 1 .. Len(s) : s[i].id = a /\ ~ s[i].completed
        BY <3>1, <3>2 DEF Accounts
      <4>2. i # k
        BY <1>2, <2>2, <4>1
      <4> QED
        BY <1>1, <4>1, <4>2
    <3> QED
      BY <3>1, <3>2
  <2> QED
    BY <2>1, <2>2
<1>8. \A i, j \in 1 .. Len(s) : s[i].id = s[j].id => i = j
  BY DEF Accounts
<1>9. \A i, j \in 1 .. Len(b) : b[i].id = b[j].id => i = j
  BY <1>1, <1>5, <1>8
<1>10. Accounts(b, e)
  BY <1>1, <1>4, <1>5, <1>6, <1>7, <1>9 DEF Accounts
<1> QED
  BY <1>0, <1>4, <1>10

LEMMA Prefix ==
  ASSUME NEW tab \in Seq(Context), NEW n \in Nat, n <= Len(tab), NEW b, b = SubSeq(tab, 1, n)
  PROVE  b \in Seq(Context) /\ Len(b) = n /\ \A i \in 1 .. n : b[i] = tab[i]
OBVIOUS

(* What is kept goes to the front of the table.                              *)
LEMMA FrontFilled ==
  ASSUME NEW tab \in Seq(Context), Len(tab) = MaxContexts, NEW t \in Seq(Context), Len(t) <= MaxContexts
  PROVE  Within(Refill(tab, t), Len(t)) /\ View(t, Refill(tab, t), Len(t), 0)
<1>0. MaxContexts \in Nat /\ Len(t) \in Nat
  BY StubAssumption
<1>8. PICK b : b = Refill(tab, t)
  OBVIOUS
<1>5. b = [i \in 1 .. MaxContexts |-> IF i <= Len(t) THEN t[i] ELSE tab[i]]
  BY <1>8 DEF Refill
<1>1. \A i \in 1 .. MaxContexts : b[i] \in Context
  <2> TAKE i \in 1 .. MaxContexts
  <2>1. CASE i <= Len(t)
    <3>1. i \in 1 .. Len(t) /\ b[i] = t[i]
      BY <1>0, <1>5, <2>1
    <3> QED
      BY <3>1
  <2>2. CASE ~ (i <= Len(t))
    <3>1. b[i] = tab[i] /\ i \in 1 .. Len(tab)
      BY <1>0, <1>5, <2>2
    <3> QED
      BY <3>1
  <2> QED
    BY <2>1, <2>2
<1>2. b \in [1 .. MaxContexts -> Context]
  BY <1>1, <1>5
<1>3. b \in Seq(Context) /\ Len(b) = MaxContexts
  BY <1>0, <1>2
<1>4. \A i \in 1 .. Len(t) : b[i] = t[i] /\ i # 0
  BY <1>0, <1>5
<1>6. Within(b, Len(t))
  BY <1>0, <1>3 DEF Within
<1>7. View(t, b, Len(t), 0)
  BY <1>4 DEF View
<1> QED
  BY <1>6, <1>7, <1>8

LEMMA SweepStack ==
  ASSUME NEW fs, NEW m, m # 0, NEW ms, fs = Append(<<>>, [type |-> "sweep", slot |-> m, now |-> ms])
  PROVE  Stack(fs, m, 0)
<1>1. PICK f : f = [type |-> "sweep", slot |-> m, now |-> ms]
  OBVIOUS
<1>2. IsSweep(f) /\ f.slot = m
  BY <1>1 DEF IsSweep
<1>3. fs = <<f>>
  BY <1>1
<1> QED
  BY <1>2, <1>3 DEF Stack

LEMMA ClearStep ==
  ASSUME NEW tab, Within(tab, async_count), called \in Seq(Nat), NEW s, View(s, tab, async_count, 0),
         Accounts(s, called), Cleared(tab)
  PROVE  \E t : Books(contexts', async_count', called, 0, 0, t)
<1>0. tab \in Seq(Context) /\ Len(tab) = MaxContexts /\ async_count \in Nat /\ async_count <= MaxContexts
  BY DEF Within
<1>1. PICK sub : sub = SubSeq(tab, 1, async_count)
  OBVIOUS
<1>2. sub \in Seq(Context) /\ Len(sub) = async_count /\ \A i \in 1 .. async_count : sub[i] = tab[i]
  BY <1>0, <1>1, Prefix
<1>3. s \in Seq(Context) /\ Len(s) = async_count
  BY DEF View
<1>4. \A i \in 1 .. async_count : sub[i].id = s[i].id /\ (~ sub[i].completed <=> ~ s[i].completed)
  BY <1>2 DEF View
<1>5. Accounts(sub, called)
  BY <1>2, <1>3, <1>4, SameAccounts
<1>6. PICK t, src : t = Compact(sub) /\ t \in Seq(Context) /\ Survive(t, sub, src) /\ Len(t) <= Len(sub)
  BY <1>2, CompactIs
<1>7. Accounts(t, called)
  BY <1>2, <1>5, <1>6, Surviving
<1>8. /\ contexts' = Refill(tab, t)
      /\ async_count' = Len(t)
  BY <1>1, <1>6 DEF Cleared
<1>9. Len(t) <= MaxContexts /\ Len(t) \in Nat
  BY <1>0, <1>2, <1>6, StubAssumption
<1>10. Within(contexts', async_count') /\ View(t, contexts', async_count', 0)
  BY <1>0, <1>6, <1>8, <1>9, FrontFilled
<1>11. 0 <= async_count' /\ 0 \in Nat
  BY <1>8, <1>9
<1> QED
  BY <1>7, <1>10, <1>11 DEF Books

LEMMA SweepStep ==
  ASSUME NEW tab, Within(tab, async_count), called \in Seq(Nat), NEW s, View(s, tab, async_count, 0),
         Accounts(s, called), NEW from \in Nat, from # 0, NEW ms, Sweeps(tab, from, ms, <<>>)
  PROVE  /\ Len(called') = Len(called)
         /\ \E m, t : Stack(frames', m, 0) /\ Books(contexts', async_count', called', m, 0, t)
<1>0. tab \in Seq(Context) /\ Len(tab) = MaxContexts /\ async_count \in Nat /\ async_count <= MaxContexts
  BY DEF Within
<1>1. CASE Cleared(tab) /\ frames' = <<>> /\ called' = called
  <2>1. Stack(frames', 0, 0)
    BY <1>1 DEF Stack
  <2> QED
    BY <1>1, <2>1, ClearStep
<1>2. ASSUME NEW i \in from .. async_count, ~ tab[i].completed, called' = Counted(called, tab[i].id),
             contexts' = tab, async_count' = async_count,
             frames' = Append(<<>>, [type |-> "sweep", slot |-> i, now |-> ms])
      PROVE  /\ Len(called') = Len(called)
             /\ \E m, t : Stack(frames', m, 0) /\ Books(contexts', async_count', called', m, 0, t)
  <2>1. i \in 1 .. async_count /\ i # 0 /\ i \in Nat /\ i <= async_count
    BY <1>0
  <2>2. s \in Seq(Context) /\ Len(s) = async_count
    BY DEF View
  <2>3. ~ s[i].completed /\ s[i].id = tab[i].id /\ i \in 1 .. Len(s)
    BY <1>2, <2>1, <2>2 DEF View
  <2>4. PICK t : t = Done(s, i)
    OBVIOUS
  <2>5. called' \in Seq(Nat) /\ Len(called') = Len(called) /\ Accounts(t, called')
    BY <1>2, <2>2, <2>3, <2>4, OneTimedOut
  <2>6. /\ t \in Seq(Context) /\ Len(t) = Len(s) /\ t[i].completed /\ t[i].id = s[i].id
        /\ \A j \in 1 .. Len(s) : j # i => t[j] = s[j]
    BY <2>2, <2>3, <2>4, SlotDone
  <2>7. View(t, tab, async_count, i)
    <3>1. ASSUME NEW j \in 1 .. async_count
          PROVE  t[j].id = tab[j].id /\ (~ t[j].completed <=> ~ tab[j].completed /\ j # i)
      <4>1. s[j].id = tab[j].id /\ (~ s[j].completed <=> ~ tab[j].completed /\ j # 0)
        BY DEF View
      <4>2. CASE j = i
        BY <2>6, <4>1, <4>2
      <4>3. CASE j # i
        <5>1. t[j] = s[j] /\ j # 0
          BY <1>0, <2>2, <2>6, <4>3
        <5> QED
          BY <4>1, <4>3, <5>1
      <4> QED
        BY <4>2, <4>3
    <3> QED
      BY <2>2, <2>6, <3>1 DEF View
  <2>8. Stack(frames', i, 0)
    BY <1>2, <2>1, SweepStack
  <2>9. Books(contexts', async_count', called', i, 0, t)
    BY <1>2, <2>1, <2>5, <2>7 DEF Books
  <2> QED
    BY <2>5, <2>8, <2>9
<1> QED
  BY <1>1, <1>2 DEF Sweeps, Counted

LEMMA CallStep ==
  ASSUME CallsInv, stub_call
  PROVE  CallsInv'
<1>1. /\ calls' = calls + 1 /\ clock' = clock /\ called' = Append(called, 1) /\ disturbed' = disturbed
      /\ contexts' = contexts /\ async_count' = async_count /\ frames' = frames
  BY DEF stub_call, callVars
<1>2. calls' \in Nat /\ clock' \in Nat /\ disturbed' \in BOOLEAN
  BY <1>1 DEF CallsInv
<1>3. ASSUME ~ disturbed
      PROVE  /\ Len(called') = calls'
             /\ \E m, c, s : Stack(frames', m, c) /\ Books(contexts', async_count', called', m, c, s)
  <2>1. PICK m, c, s : Stack(frames, m, c) /\ Books(contexts, async_count, called, m, c, s)
    BY <1>3 DEF CallsInv
  <2>2. s \in Seq(Context) /\ called \in Seq(Nat) /\ Accounts(s, called)
    BY <2>1 DEF Books, View
  <2>3. /\ called' \in Seq(Nat) /\ Len(called') = Len(called) + 1 /\ Accounts(s, called')
        /\ \A id : Waits(id, s, called) => Waits(id, s, called')
    BY <1>1, <2>2, AnsweredCall
  <2>4. Books(contexts, async_count, called', m, c, s)
    BY <2>1, <2>3 DEF Books
  <2>5. Len(called') = calls'
    BY <1>1, <1>3, <2>3 DEF CallsInv
  <2> QED
    BY <1>1, <2>1, <2>4, <2>5
<1> QED
  BY <1>1, <1>2, <1>3 DEF CallsInv

(* Without a call among the callbacks, there is none or that of a sweep.     *)
LEMMA NoCall ==
  ASSUME NEW fs, NEW m, NEW c, Stack(fs, m, c), ~ \E k \in DOMAIN fs : fs[k].type = "call"
  PROVE  c = 0 /\ (fs = <<>> \/ \E f : fs = <<f>> /\ IsSweep(f))
<1>1. ASSUME NEW f, fs = <<f>>, IsCall(f) PROVE FALSE
  <2>1. 1 \in DOMAIN fs /\ fs[1] = f
    BY <1>1
  <2> QED
    BY <1>1, <2>1 DEF IsCall
<1>2. ASSUME NEW f, NEW g, fs = <<f, g>>, IsCall(g) PROVE FALSE
  <2>1. 2 \in DOMAIN fs /\ fs[2] = g
    BY <1>2
  <2> QED
    BY <1>2, <2>1 DEF IsCall
<1> QED
  BY <1>1, <1>2 DEF Stack

LEMMA Pairs ==
  ASSUME NEW f, NEW g
  PROVE  Append(<<f>>, g) = <<f, g>> /\ Front(<<f, g>>) = <<f>> /\ Last(<<f, g>>) = g
<1>1. PICK S : S = {f, g}
  OBVIOUS
<1>2. /\ <<f, g>> \in Seq(S) /\ Len(<<f, g>>) = 2 /\ <<f, g>>[1] = f /\ <<f, g>>[2] = g
      /\ <<f>> \in Seq(S) /\ Len(<<f>>) = 1 /\ <<f>>[1] = f
  BY <1>1
<1>3. Append(<<f>>, g) = <<f, g>>
  <2>1. PICK a, p : a = Append(<<f>>, g) /\ p = <<f, g>>
    OBVIOUS
  <2>2. a \in Seq(S) /\ Len(a) = 2 /\ a[1] = f /\ a[2] = g
    BY <1>1, <1>2, <2>1
  <2>3. p \in Seq(S) /\ Len(p) = 2 /\ p[1] = f /\ p[2] = g
    BY <1>2, <2>1
  <2>4. Len(a) = Len(p) /\ \A i \in 1 .. Len(a) : a[i] = p[i]
    BY <2>2, <2>3
  <2>5. a = p
    BY <2>2, <2>3, <2>4, SeqEqual
  <2> QED
    BY <2>1, <2>5
<1>4. Front(<<f, g>>) = <<f>>
  <2>1. PICK s, a : s = <<f, g>> /\ a = Front(<<f, g>>)
    OBVIOUS
  <2>2. s \in Seq(S) /\ Len(s) = 2 /\ s[1] = f /\ a = SubSeq(s, 1, 1)
    BY <1>2, <2>1 DEF Front
  <2>3. a \in Seq(S) /\ Len(a) = 1 /\ a[1] = f
    BY <2>2
  <2> QED
    BY <1>2, <2>1, <2>3, SeqEqual
<1>5. Last(<<f, g>>) = g
  BY <1>2 DEF Last
<1> QED
  BY <1>3, <1>4, <1>5

CallFrame(c) == [type |-> "call", slot |-> c, now |-> 0]

LEMMA CallStack ==
  ASSUME NEW fs, NEW m, Stack(fs, m, 0), fs = <<>> \/ \E f : fs = <<f>> /\ IsSweep(f),
         NEW c, c # 0
  PROVE  Stack(Append(fs, CallFrame(c)), m, c)
<1>1. PICK g, b : g = CallFrame(c) /\ b = Append(fs, CallFrame(c))
  OBVIOUS
<1>2. IsCall(g) /\ g.slot = c
  BY <1>1 DEF IsCall, CallFrame
<1>3. ASSUME fs = <<>> PROVE Stack(b, m, c)
  <2>1. m = 0
    BY <1>3 DEF Stack
  <2>2. b = <<g>>
    BY <1>1, <1>3
  <2> QED
    BY <1>2, <2>1, <2>2 DEF Stack
<1>4. ASSUME NEW f, fs = <<f>>, IsSweep(f) PROVE Stack(b, m, c)
  <2>1. b = <<f, g>>
    <3>1. b = Append(<<f>>, g)
      BY <1>1, <1>4
    <3> QED
      BY <3>1, Pairs
  <2>2. \A h : IsCall(h) => ~ IsSweep(h)
    BY DEF IsCall, IsSweep
  <2>3. \A h : fs = <<h>> => h = f
    BY <1>4
  <2>4. fs # <<>> /\ \A h, k : fs # <<h, k>>
    BY <1>4
  <2>5. f.slot = m /\ m # 0
    BY <1>4, <2>2, <2>3, <2>4 DEF Stack
  <2> QED
    BY <1>2, <1>4, <2>1, <2>5 DEF Stack
<1> QED
  BY <1>1, <1>3, <1>4

LEMMA AsyncStep ==
  ASSUME CallsInv, NEW answered \in BOOLEAN, stub_async_call(answered)
  PROVE  CallsInv'
<1>0. PICK e : e = CallOf(calls + 1, Signed(clock + Timeout), FALSE)
  OBVIOUS
<1>1. PICK n : n = async_count + 1
  OBVIOUS
<1>2. /\ calls' = calls + 1 /\ clock' = clock /\ async_count < MaxContexts
      /\ disturbed' = (disturbed \/ \E k \in DOMAIN frames : frames[k].type = "call")
  BY DEF stub_async_call
<1>6. contexts' = Written(contexts, n, e)
  BY <1>0, <1>1 DEF stub_async_call, CallOf, Written
<1>3. calls' \in Nat /\ clock' \in Nat /\ disturbed' \in BOOLEAN
  BY <1>2 DEF CallsInv
<1>4. e \in Context /\ e.id = calls + 1 /\ ~ e.completed
  <2>1. clock + Timeout \in Nat /\ calls + 1 \in Nat
    BY StubAssumption DEF CallsInv
  <2>2. Signed(clock + Timeout) \in Int
    BY <2>1, SignedType
  <2> QED
    BY <1>0, <2>1, <2>2, ContextIs
<1>5. ASSUME ~ disturbed'
      PROVE  /\ Len(called') = calls'
             /\ \E m, c, s : Stack(frames', m, c) /\ Books(contexts', async_count', called', m, c, s)
  <2>0. ~ disturbed /\ ~ \E k \in DOMAIN frames : frames[k].type = "call"
    BY <1>2, <1>5
  <2>1. PICK m, c, s : Stack(frames, m, c) /\ Books(contexts, async_count, called, m, c, s)
    BY <2>0 DEF CallsInv
  <2>2. /\ s \in Seq(Context) /\ Len(s) = async_count /\ called \in Seq(Nat) /\ Accounts(s, called)
        /\ View(s, contexts, async_count, m) /\ m \in Nat /\ m <= async_count
        /\ contexts \in Seq(Context) /\ Len(contexts) = MaxContexts /\ async_count \in Nat
    BY <2>1 DEF Books, View, Within
  <2>3. Len(called) = calls
    BY <2>0 DEF CallsInv
  <2>4. c = 0 /\ (frames = <<>> \/ \E f : frames = <<f>> /\ IsSweep(f))
    BY <2>0, <2>1, NoCall
  <2>5. n # 0 /\ n \in 1 .. MaxContexts /\ n <= MaxContexts /\ n \in Nat /\ MaxContexts \in Nat
    BY <1>1, <1>2, <2>2, StubAssumption
  <2>6. /\ contexts' \in Seq(Context) /\ Len(contexts') = MaxContexts /\ contexts'[n] = e
        /\ \A i \in 1 .. MaxContexts : i # n => contexts'[i] = contexts[i]
    <3>1. contexts \in Seq(Context) /\ n \in 1 .. Len(contexts) /\ e \in Context
      BY <1>4, <2>2, <2>5
    <3>2. /\ Written(contexts, n, e) \in Seq(Context) /\ Len(Written(contexts, n, e)) = Len(contexts)
          /\ Written(contexts, n, e)[n] = e
          /\ \A i \in 1 .. Len(contexts) : i # n => Written(contexts, n, e)[i] = contexts[i]
      BY <3>1, SlotWritten
    <3>3. Len(contexts) = MaxContexts
      BY <2>2
    <3> QED
      BY <1>6, <3>2, <3>3
  <2>7. \A i \in 1 .. async_count : i # n /\ i \in 1 .. MaxContexts
    BY <1>1, <2>2, <2>5
  <2>8. View(s, contexts', async_count, m)
    BY <2>2, <2>6, <2>7 DEF View
  <2>9. CASE answered
    <3>1. /\ called' = Append(called, 1) /\ async_count' = async_count
          /\ frames' = Append(frames, CallFrame(n))
      BY <1>1, <2>9 DEF stub_async_call, CallFrame
    <3>2. /\ called' \in Seq(Nat) /\ Len(called') = Len(called) + 1 /\ Accounts(s, called')
          /\ Waits(e.id, s, called')
      BY <1>4, <2>2, <2>3, <3>1, AnsweredCall
    <3>3. Stack(frames', m, n)
      BY <2>1, <2>4, <2>5, <3>1, CallStack
    <3>4. Within(contexts', async_count)
      BY <1>2, <2>2, <2>5, <2>6 DEF Within
    <3>5. Books(contexts', async_count, called', m, n, s)
      BY <1>1, <2>2, <2>5, <2>6, <2>8, <3>2, <3>4 DEF Books
    <3> QED
      BY <1>2, <2>3, <3>1, <3>2, <3>3, <3>5
  <2>10. CASE ~ answered
    <3>1. called' = Append(called, 0) /\ async_count' = n /\ frames' = frames
      BY <1>1, <2>10 DEF stub_async_call
    <3>2. PICK t : t = Append(s, e)
      OBVIOUS
    <3>3. /\ called' \in Seq(Nat) /\ Len(called') = Len(called) + 1
          /\ t \in Seq(Context) /\ Len(t) = Len(s) + 1 /\ Accounts(t, called')
      BY <1>4, <2>2, <2>3, <3>1, <3>2, OpenCall
    <3>4. t[n] = e /\ \A i \in 1 .. async_count : t[i] = s[i]
      <4>1. s \in Seq(Context) /\ e \in Context /\ Len(s) = async_count /\ n = Len(s) + 1
        BY <1>1, <1>4, <2>2
      <4> QED
        BY <3>2, <4>1, AppendProperties
    <3>5. View(t, contexts', n, m)
      <4>1. m # n
        BY <1>1, <2>2
      <4>2. \A i \in 1 .. n : i = n \/ i \in 1 .. async_count
        BY <1>1, <2>2
      <4>3. ASSUME NEW i \in 1 .. n
            PROVE  t[i].id = contexts'[i].id /\ (~ t[i].completed <=> ~ contexts'[i].completed /\ i # m)
        BY <1>4, <2>6, <2>8, <3>4, <4>1, <4>2 DEF View
      <4> QED
        BY <1>1, <2>2, <3>3, <4>3 DEF View
    <3>6. Books(contexts', n, called', m, 0, t)
      <4>1. Within(contexts', n) /\ m <= n
        BY <1>1, <2>2, <2>5, <2>6 DEF Within
      <4> QED
        BY <2>2, <3>3, <3>5, <4>1 DEF Books
    <3>7. Stack(frames', m, 0)
      BY <2>1, <2>4, <3>1
    <3> QED
      BY <1>2, <2>3, <3>1, <3>3, <3>6, <3>7
  <2> QED
    BY <2>9, <2>10
<1> QED
  BY <1>3, <1>5 DEF CallsInv

LEMMA TimeoutStep ==
  ASSUME CallsInv, stub_timeout_handle
  PROVE  CallsInv'
<1>1. /\ calls' = calls /\ clock' = clock /\ disturbed' = (disturbed \/ frames # <<>>)
  BY DEF stub_timeout_handle
<1>2. calls' \in Nat /\ clock' \in Nat /\ disturbed' \in BOOLEAN
  BY <1>1 DEF CallsInv
<1>3. ASSUME ~ disturbed'
      PROVE  /\ Len(called') = calls'
             /\ \E m, c, s : Stack(frames', m, c) /\ Books(contexts', async_count', called', m, c, s)
  <2>0. ~ disturbed /\ frames = <<>>
    BY <1>1, <1>3
  <2>1. PICK m, c, s : Stack(frames, m, c) /\ Books(contexts, async_count, called, m, c, s)
    BY <2>0 DEF CallsInv
  <2>2. m = 0
    BY <2>0, <2>1 DEF Stack
  <2>3. /\ Within(contexts, async_count) /\ called \in Seq(Nat) /\ View(s, contexts, async_count, 0)
        /\ Accounts(s, called)
    BY <2>1, <2>2 DEF Books
  <2>4. Sweeps(contexts, 1, Signed(clock), <<>>)
    BY <2>0 DEF stub_timeout_handle
  <2>5. Len(called') = Len(called) /\ \E k, t : Stack(frames', k, 0) /\ Books(contexts', async_count', called', k, 0, t)
    BY <2>3, <2>4, SweepStep
  <2>6. Len(called) = calls
    BY <2>0 DEF CallsInv
  <2> QED
    BY <1>1, <2>5, <2>6
<1> QED
  BY <1>2, <1>3 DEF CallsInv

(* The innermost callback, and what is left without it.                      *)
LEMMA TopCall ==
  ASSUME NEW fs, NEW m, NEW c, Stack(fs, m, c), fs # <<>>, IsCall(Last(fs))
  PROVE  Last(fs).slot = c /\ c # 0 /\ Stack(Front(fs), m, 0)
<1>1. ASSUME NEW f, fs = <<f>> PROVE Last(fs) = f /\ Front(fs) = <<>>
  BY <1>1 DEF Last, Front
<1>2. ASSUME NEW f, NEW g, fs = <<f, g>> PROVE Last(fs) = g /\ Front(fs) = <<f>>
  BY <1>2, Pairs
<1>3. \A h : IsCall(h) => ~ IsSweep(h)
  BY DEF IsCall, IsSweep
<1>4. CASE \E f : fs = <<f>> /\ IsCall(f) /\ f.slot = c /\ c # 0 /\ m = 0
  BY <1>1, <1>4 DEF Stack
<1>5. CASE \E f : fs = <<f>> /\ IsSweep(f)
  BY <1>1, <1>3, <1>5
<1>6. CASE \E f, g : fs = <<f, g>> /\ IsSweep(f) /\ f.slot = m /\ m # 0 /\ IsCall(g) /\ g.slot = c /\ c # 0
  BY <1>2, <1>6 DEF Stack
<1> QED
  BY <1>4, <1>5, <1>6 DEF Stack

LEMMA TopSweep ==
  ASSUME NEW fs, NEW m, NEW c, Stack(fs, m, c), fs # <<>>, IsSweep(Last(fs))
  PROVE  Last(fs).slot = m /\ m # 0 /\ c = 0 /\ Front(fs) = <<>>
<1>1. ASSUME NEW f, fs = <<f>> PROVE Last(fs) = f /\ Front(fs) = <<>>
  BY <1>1 DEF Last, Front
<1>2. ASSUME NEW f, NEW g, fs = <<f, g>> PROVE Last(fs) = g
  BY <1>2, Pairs
<1>3. \A h : IsCall(h) => ~ IsSweep(h)
  BY DEF IsCall, IsSweep
<1>4. CASE \E f : fs = <<f>> /\ IsCall(f)
  BY <1>1, <1>3, <1>4
<1>5. CASE \E f : fs = <<f>> /\ IsSweep(f) /\ f.slot = m /\ m # 0 /\ c = 0
  BY <1>1, <1>5
<1>6. CASE \E f, g : fs = <<f, g>> /\ IsCall(g)
  BY <1>2, <1>3, <1>6
<1> QED
  BY <1>4, <1>5, <1>6 DEF Stack

LEMMA ReturnStep ==
  ASSUME CallsInv, CallbackReturns
  PROVE  CallsInv'
<1>1. calls' = calls /\ clock' = clock /\ disturbed' = disturbed /\ frames # <<>>
  BY DEF CallbackReturns
<1>2. calls' \in Nat /\ clock' \in Nat /\ disturbed' \in BOOLEAN
  BY <1>1 DEF CallsInv
<1>3. ASSUME ~ disturbed
      PROVE  /\ Len(called') = calls'
             /\ \E m, c, s : Stack(frames', m, c) /\ Books(contexts', async_count', called', m, c, s)
  <2>1. PICK m, c, s : Stack(frames, m, c) /\ Books(contexts, async_count, called, m, c, s)
    BY <1>3 DEF CallsInv
  <2>2. /\ s \in Seq(Context) /\ Len(s) = async_count /\ called \in Seq(Nat) /\ Accounts(s, called)
        /\ View(s, contexts, async_count, m) /\ m \in Nat /\ m <= async_count
        /\ contexts \in Seq(Context) /\ Len(contexts) = MaxContexts /\ async_count \in Nat
        /\ async_count <= MaxContexts
        /\ c = 0 \/ (c = async_count + 1 /\ c <= MaxContexts /\ Waits(contexts[c].id, s, called))
    BY <2>1 DEF Books, View, Within
  <2>3. Len(called) = calls /\ MaxContexts \in Nat
    BY <1>3, StubAssumption DEF CallsInv
  <2>4. PICK f : f = Last(frames)
    OBVIOUS
  <2>5. \/ /\ IsCall(f) /\ contexts' = Done(contexts, f.slot)
           /\ async_count' = async_count + 1 /\ frames' = Front(frames) /\ called' = called
        \/ IsSweep(f) /\ Sweeps(Done(contexts, f.slot), f.slot + 1, f.now, Front(frames))
    BY <2>4 DEF CallbackReturns, IsCall, IsSweep
  <2>6. CASE /\ IsCall(f) /\ contexts' = Done(contexts, f.slot)
             /\ async_count' = async_count + 1 /\ frames' = Front(frames) /\ called' = called
    <3>1. f.slot = c /\ c # 0 /\ Stack(Front(frames), m, 0)
      BY <1>1, <2>1, <2>4, <2>6, TopCall
    <3>2. c = async_count + 1 /\ c \in 1 .. Len(contexts) /\ c <= MaxContexts /\ Waits(contexts[c].id, s, called)
      BY <2>2, <2>3, <3>1
    <3>3. /\ contexts' \in Seq(Context) /\ Len(contexts') = MaxContexts
          /\ contexts'[c].completed /\ contexts'[c].id = contexts[c].id
          /\ \A i \in 1 .. MaxContexts : i # c => contexts'[i] = contexts[i]
      BY <2>2, <2>6, <3>1, <3>2, SlotDone
    <3>4. PICK e, t : e = contexts'[c] /\ t = Append(s, e)
      OBVIOUS
    <3>5. e \in Context /\ e.completed /\ Waits(e.id, s, called)
      BY <2>2, <3>2, <3>3, <3>4
    <3>6. t \in Seq(Context) /\ Len(t) = Len(s) + 1 /\ Accounts(t, called)
      BY <2>2, <3>4, <3>5, CompleteCall
    <3>7. t[c] = e /\ \A i \in 1 .. async_count : t[i] = s[i]
      BY <2>2, <3>2, <3>4, <3>5
    <3>8. View(t, contexts', c, m)
      <4>1. /\ m # c /\ \A i \in 1 .. c : i = c \/ (i \in 1 .. async_count /\ i \in 1 .. MaxContexts /\ i # c)
        BY <2>2, <2>3, <3>2
      <4>2. ASSUME NEW i \in 1 .. c
            PROVE  t[i].id = contexts'[i].id /\ (~ t[i].completed <=> ~ contexts'[i].completed /\ i # m)
        BY <2>2, <3>3, <3>4, <3>7, <4>1 DEF View
      <4> QED
        BY <2>2, <3>2, <3>6, <4>2 DEF View
    <3>9. Within(contexts', c) /\ m <= c
      BY <2>2, <3>2, <3>3 DEF Within
    <3>10. Books(contexts', c, called, m, 0, t)
      BY <2>2, <3>6, <3>8, <3>9 DEF Books
    <3> QED
      BY <1>1, <2>3, <2>6, <3>1, <3>2, <3>10
  <2>7. CASE IsSweep(f) /\ Sweeps(Done(contexts, f.slot), f.slot + 1, f.now, Front(frames))
    <3>1. f.slot = m /\ m # 0 /\ c = 0 /\ Front(frames) = <<>>
      BY <1>1, <2>1, <2>4, <2>7, TopSweep
    <3>2. PICK tab : tab = Done(contexts, m)
      OBVIOUS
    <3>3. m \in 1 .. Len(contexts) /\ m + 1 \in Nat /\ m + 1 # 0
      BY <2>2, <2>3, <3>1
    <3>4. /\ tab \in Seq(Context) /\ Len(tab) = MaxContexts /\ tab[m].completed /\ tab[m].id = contexts[m].id
          /\ \A i \in 1 .. MaxContexts : i # m => tab[i] = contexts[i]
      BY <2>2, <3>2, <3>3, SlotDone
    <3>5. Within(tab, async_count)
      BY <2>2, <3>4 DEF Within
    <3>6. View(s, tab, async_count, 0)
      <4>1. ASSUME NEW i \in 1 .. async_count
            PROVE  s[i].id = tab[i].id /\ (~ s[i].completed <=> ~ tab[i].completed /\ i # 0)
        <5>1. s[i].id = contexts[i].id /\ (~ s[i].completed <=> ~ contexts[i].completed /\ i # m)
          BY <2>2 DEF View
        <5>2. i \in 1 .. MaxContexts /\ i # 0
          BY <2>2, <2>3
        <5> QED
          BY <3>4, <5>1, <5>2
      <4> QED
        BY <2>2, <4>1 DEF View
    <3>7. Sweeps(tab, m + 1, f.now, <<>>)
      BY <2>7, <3>1, <3>2
    <3>8. Len(called') = Len(called) /\ \E k, t : Stack(frames', k, 0) /\ Books(contexts', async_count', called', k, 0, t)
      BY <2>2, <3>3, <3>5, <3>6, <3>7, SweepStep
    <3> QED
      BY <1>1, <2>3, <3>8
  <2> QED
    BY <2>5, <2>6, <2>7
<1> QED
  BY <1>1, <1>2, <1>3 DEF CallsInv

LEMMA CallsStart == rpc_stub_init => CallsInv
<1> SUFFICES ASSUME rpc_stub_init PROVE CallsInv
  OBVIOUS
<1>1. MaxContexts \in Nat
  BY StubAssumption
<1>2. PICK e : e = CallOf(0, 0, FALSE)
  OBVIOUS
<1>3. e \in Context
  <2>1. 0 \in Nat /\ 0 \in Int /\ FALSE \in BOOLEAN
    OBVIOUS
  <2>2. CallOf(0, 0, FALSE) \in Context
    BY <2>1, ContextIs, Zenon
  <2> QED
    BY <1>2, <2>2
<1>4. contexts = [i \in 1 .. MaxContexts |-> e]
  BY <1>2 DEF rpc_stub_init, CallOf
<1>5. contexts \in Seq(Context) /\ Len(contexts) = MaxContexts
  BY <1>1, <1>3, <1>4
<1>6. /\ async_count = 0 /\ frames = <<>> /\ disturbed = FALSE /\ calls = 0 /\ called = <<>> /\ clock = 0
  BY DEF rpc_stub_init
<1>7. Stack(frames, 0, 0)
  BY <1>6 DEF Stack
<1>8. <<>> \in Seq(Context) /\ Len(<<>>) = 0 /\ called \in Seq(Nat) /\ Len(called) = 0
  BY <1>6
<1>9. Accounts(<<>>, called) /\ View(<<>>, contexts, async_count, 0)
  BY <1>6, <1>8 DEF Accounts, View
<1>10. Books(contexts, async_count, called, 0, 0, <<>>)
  BY <1>1, <1>5, <1>6, <1>8, <1>9 DEF Books, Within
<1> QED
  BY <1>6, <1>7, <1>8, <1>10 DEF CallsInv

LEMMA ClientStarts == StubInit => RegistryInv /\ CallsInv
BY RegistryStarts, CallsStart DEF StubInit

LEMMA ClientKeeps == RegistryInv /\ CallsInv /\ [StubNext]_clientVars => RegistryInv' /\ CallsInv'
<1> SUFFICES ASSUME RegistryInv, CallsInv, [StubNext]_clientVars PROVE RegistryInv' /\ CallsInv'
  OBVIOUS
<1>1. ASSUME services' = services PROVE RegistryInv'
  BY <1>1 DEF RegistryInv
<1>2. ASSUME UNCHANGED stubVars PROVE CallsInv'
  BY <1>2 DEF CallsInv, stubVars, callVars
<1>3. CASE UNCHANGED clientVars
  BY <1>1, <1>2, <1>3 DEF clientVars, regVars
<1>4. CASE Registry /\ UNCHANGED stubVars
  BY <1>2, <1>4, RegistryStep
<1>5. CASE stub_call
  BY <1>1, <1>5, CallStep DEF stub_call, regVars
<1>6. CASE \E d \in BOOLEAN : stub_async_call(d)
  BY <1>1, <1>6, AsyncStep DEF stub_async_call, regVars
<1>7. CASE stub_timeout_handle
  <2>1. services' = services
    BY <1>7 DEF stub_timeout_handle, regVars
  <2> QED
    BY <1>1, <1>7, <2>1, TimeoutStep
<1>8. CASE CallbackReturns
  <2>1. services' = services
    BY <1>8 DEF CallbackReturns, regVars
  <2> QED
    BY <1>1, <1>8, <2>1, ReturnStep
<1>9. CASE ClockTicks
  <2>1. clock' \in Nat
    <3>1. clock + TickLength \in Nat /\ Period \in Nat /\ Period > 0
      BY StubAssumption DEF CallsInv
    <3> QED
      BY <1>9, <3>1 DEF ClockTicks
  <2>2. CallsInv'
    BY <1>9, <2>1 DEF ClockTicks, CallsInv, callVars
  <2> QED
    BY <1>1, <1>9, <2>2 DEF ClockTicks, regVars
<1> QED
  BY <1>3, <1>4, <1>5, <1>6, <1>7, <1>8, <1>9 DEF StubNext, Stub

LEMMA CallsImply == CallsInv => CallbackOnce
<1> SUFFICES ASSUME CallsInv, ~ disturbed, NEW c \in DOMAIN called
             PROVE  /\ called[c] <= 1
                    /\ called[c] = 0 => \E i \in 1 .. async_count : contexts[i].id = c /\ ~ contexts[i].completed
  BY DEF CallbackOnce
<1>1. PICK m, w, s : Stack(frames, m, w) /\ Books(contexts, async_count, called, m, w, s)
  BY DEF CallsInv
<1>2. called \in Seq(Nat) /\ Accounts(s, called) /\ View(s, contexts, async_count, m)
  BY <1>1 DEF Books
<1>3. c \in 1 .. Len(called)
  BY <1>2
<1>4. /\ called[c] <= 1
      /\ called[c] = 0 => \E i \in 1 .. Len(s) : s[i].id = c /\ ~ s[i].completed
  BY <1>2, <1>3 DEF Accounts
<1> QED
  BY <1>2, <1>4 DEF View

LEMMA ClientImplies == RegistryInv /\ CallsInv => StubSound
BY CallsImply, RegistryImplies DEF StubSound

(* rpc_registry.c and rpc_stub.c: a service has one entry and an instance is  *)
(* out of rotation for a reason, and every asynchronous call is answered or   *)
(* timed out once or still waits, for any number of services, instances and   *)
(* calls, although contexts are moved about while callbacks run and call the  *)
(* stub again; but no callback of a call makes an asynchronous call or times  *)
(* out others, and no callback of a timeout does the latter.                  *)
THEOREM StubCorrect == StubSpec => []StubSound
BY ClientStarts, ClientKeeps, ClientImplies, PTL DEF StubSpec

-----------------------------------------------------------------------------
(***************************************************************************)
(* The delivery of messages.  An id the publisher counts as complete has had  *)
(* a message passed on, since an answer on the way vouches for it: PUBACK    *)
(* and PUBCOMP for one passed on, PUBREC and PUBREL for one the receiver     *)
(* knows of.  Passed on once is a matter of the first tracker of an id, the  *)
(* only one that is ever found: it is complete from then on.                 *)
(***************************************************************************)

States == {"AWAITING_PUBACK", "AWAITING_PUBREC", "AWAITING_PUBREL", "AWAITING_PUBCOMP", "COMPLETE"}
Tracker == {t \in [packet_id : PacketIds, message : Messages, state : States] : t.packet_id = IdOf[t.message]}
Has(mgr, id) == \E i \in 1 .. Len(mgr) : mgr[i].packet_id = id

(* A message of the id has been passed on, or dropped; or else the receiver  *)
(* knows of one.                                                             *)
Given(d, dr, id) == id \in dr \/ \E k \in Messages : IdOf[k] = id /\ d[k] > 0
Reached(rcv, d, dr, id) == Given(d, dr, id) \/ Has(rcv, id)

Receives(rcv, d, dr) ==
  \A i \in 1 .. Len(rcv) :
    /\ rcv[i].state \in {"COMPLETE", "AWAITING_PUBREL"}
    /\ rcv[i].state = "COMPLETE" => Given(d, dr, rcv[i].packet_id)
Sends(snd, rcv, d, dr) ==
  \A i \in 1 .. Len(snd) :
    /\ snd[i].state = "COMPLETE" => Given(d, dr, snd[i].packet_id)
    /\ snd[i].state = "AWAITING_PUBCOMP" => Reached(rcv, d, dr, snd[i].packet_id)
Answering(pk, rcv, d, dr, id) ==
  /\ <<"PUBACK", id>> \in pk \/ <<"PUBCOMP", id>> \in pk => Given(d, dr, id)
  /\ <<"PUBREC", id>> \in pk \/ <<"PUBREL", id>> \in pk => Reached(rcv, d, dr, id)
Once(rcv, d, m) == d[m] <= 1 /\ (d[m] = 1 => StateOf(rcv, IdOf[m]) = "COMPLETE")

QosInv ==
  /\ sender \in Seq(Tracker) /\ receiver \in Seq(Tracker) /\ delivered \in [Messages -> Nat]
  /\ Receives(receiver, delivered, forgotten) /\ Sends(sender, receiver, delivered, forgotten)
  /\ \A id \in PacketIds : Answering(packets, receiver, delivered, forgotten, id)
  /\ \A m \in Messages : Qos[m] = 2 /\ IdOf[m] \notin shifted => Once(receiver, delivered, m)

(***************************************************************************)
(* The managers.                                                             *)
(***************************************************************************)
Finds(f, mgr, id) ==
  \/ f = 0 /\ ~ Has(mgr, id)
  \/ /\ f \in 1 .. Len(mgr) /\ mgr[f].packet_id = id
     /\ \A i \in 1 .. Len(mgr) : i < f => mgr[i].packet_id # id

LEMMA FindTracker ==
  ASSUME NEW mgr \in Seq(Tracker), NEW id
  PROVE  Finds(mqtt_qos_find(mgr, id), mgr, id)
<1> DEFINE S == {i \in 1 .. Len(mgr) : mgr[i].packet_id = id}
<1>0. DOMAIN mgr = 1 .. Len(mgr) /\ Len(mgr) \in Nat
  OBVIOUS
<1>1. PICK f : f = IF S # {} THEN Min(S) ELSE 0
  OBVIOUS
<1>2. f = mqtt_qos_find(mgr, id)
  BY <1>0, <1>1 DEF mqtt_qos_find
<1>3. S \subseteq 1 .. Len(mgr)
  OBVIOUS
<1> HIDE DEF S
<1>4. First(f, mgr, S)
  BY <1>1, <1>3, MinIs
<1>5. CASE f = 0 /\ S = {}
  BY <1>2, <1>5 DEF Finds, Has, S
<1>6. CASE f \in S /\ f \in 1 .. Len(mgr) /\ \A i \in 1 .. f - 1 : i \notin S
  <2>1. \A i \in 1 .. Len(mgr) : i < f => i \in 1 .. f - 1
    BY <1>0, <1>6
  <2> QED
    BY <1>2, <1>6, <2>1 DEF Finds, S
<1> QED
  BY <1>4, <1>5, <1>6 DEF First

LEMMA FindOne ==
  ASSUME NEW mgr \in Seq(Tracker), NEW id, NEW f, NEW g, Finds(f, mgr, id), Finds(g, mgr, id)
  PROVE  f = g
<1>0. Len(mgr) \in Nat
  OBVIOUS
<1>1. CASE Has(mgr, id)
  <2>1. f \in 1 .. Len(mgr) /\ g \in 1 .. Len(mgr)
    BY <1>1 DEF Finds
  <2>2. ~ (f < g) /\ ~ (g < f)
    BY <1>1, <2>1 DEF Finds
  <2> QED
    BY <1>0, <2>1, <2>2
<1>2. CASE ~ Has(mgr, id)
  BY <1>2 DEF Finds, Has
<1> QED
  BY <1>1, <1>2

(* b is mgr with a tracker put in or changed.                                *)
With(b, mgr, id, state) ==
  /\ b \in Seq(Tracker)
  /\ \A i \in 1 .. Len(b) : \/ b[i].packet_id = id /\ b[i].state = state
                            \/ \E k \in 1 .. Len(mgr) : b[i] = mgr[k]
  /\ \A x \in PacketIds : Has(mgr, x) => Has(b, x)
  /\ Has(b, id)

LEMMA MovedIs ==
  ASSUME NEW mgr \in Seq(Tracker), NEW id \in PacketIds, NEW state \in States, mqtt_qos_find(mgr, id) # 0
  PROVE  /\ With(Moved(mgr, id, state), mgr, id, state)
         /\ StateOf(Moved(mgr, id, state), id) = state
         /\ \A x \in PacketIds : x # id => StateOf(Moved(mgr, id, state), x) = StateOf(mgr, x)
<1>0. Len(mgr) \in Nat /\ DOMAIN mgr = 1 .. Len(mgr)
  OBVIOUS
<1>1. PICK f : f = mqtt_qos_find(mgr, id)
  OBVIOUS
<1>2. Finds(f, mgr, id)
  BY <1>1, FindTracker
<1>3. f \in 1 .. Len(mgr) /\ mgr[f].packet_id = id
  BY <1>1, <1>2 DEF Finds
<1>4. PICK e : e = [mgr[f] EXCEPT !.state = state]
  OBVIOUS
<1>5. e \in Tracker /\ e.packet_id = id /\ e.state = state
  <2>1. mgr[f] \in Tracker
    BY <1>3
  <2> QED
    BY <1>3, <1>4, <2>1 DEF Tracker
<1>6. PICK b : b = [mgr EXCEPT ![f] = e]
  OBVIOUS
<1>7. b \in Seq(Tracker) /\ Replaced(b, mgr, f, e)
  BY <1>3, <1>5, <1>6, ReplaceIs
<1>8. Moved(mgr, id, state) = b
  BY <1>1, <1>4, <1>6 DEF Moved
<1>9. Len(b) = Len(mgr) /\ b[f] = e /\ \A i \in 1 .. Len(mgr) : b[i].packet_id = mgr[i].packet_id /\ (i # f => b[i] = mgr[i])
  BY <1>3, <1>5, <1>7 DEF Replaced
<1>10. With(b, mgr, id, state)
  BY <1>3, <1>5, <1>7, <1>9 DEF With, Has
<1>11. ASSUME NEW x \in PacketIds PROVE mqtt_qos_find(b, x) = mqtt_qos_find(mgr, x)
  <2>1. PICK g : g = mqtt_qos_find(mgr, x)
    OBVIOUS
  <2>2. Finds(g, mgr, x)
    BY <2>1, FindTracker
  <2>3. Finds(g, b, x)
    BY <1>9, <2>2 DEF Finds, Has
  <2> QED
    BY <1>7, <2>1, <2>3, FindOne, FindTracker
<1>12. StateOf(b, id) = state
  BY <1>1, <1>5, <1>9, <1>11 DEF StateOf
<1>13. ASSUME NEW x \in PacketIds, x # id PROVE StateOf(b, x) = StateOf(mgr, x)
  <2>1. PICK g : g = mqtt_qos_find(mgr, x) /\ g = mqtt_qos_find(b, x)
    BY <1>11
  <2>2. Finds(g, mgr, x)
    BY <2>1, FindTracker
  <2>3. g = 0 \/ b[g] = mgr[g]
    BY <1>3, <1>9, <1>13, <2>2 DEF Finds
  <2> QED
    BY <2>1, <2>3 DEF StateOf
<1> QED
  BY <1>8, <1>10, <1>12, <1>13

LEMMA TrackedIs ==
  ASSUME NEW mgr \in Seq(Tracker), NEW m \in Messages, NEW state \in States
  PROVE  /\ With(Tracked(mgr, m, state), mgr, IdOf[m], state)
         /\ \A x \in PacketIds : Has(mgr, x) => StateOf(Tracked(mgr, m, state), x) = StateOf(mgr, x)
<1>0. Len(mgr) \in Nat /\ DOMAIN mgr = 1 .. Len(mgr)
  OBVIOUS
<1>1. PICK n : n = Len(mgr)
  OBVIOUS
<1>2. PICK e, id : e = [packet_id |-> IdOf[m], message |-> m, state |-> state] /\ id = IdOf[m]
  OBVIOUS
<1>3. e \in Tracker /\ e.packet_id = id /\ e.state = state
  BY <1>2, MqttAssumption DEF Tracker
<1>4. PICK b : b = Append(mgr, e)
  OBVIOUS
<1>5. /\ b \in Seq(Tracker) /\ Len(b) = n + 1 /\ b[n + 1] = e /\ \A i \in 1 .. n : b[i] = mgr[i]
  BY <1>0, <1>1, <1>3, <1>4
<1>6. Tracked(mgr, m, state) = b
  BY <1>2, <1>4 DEF Tracked
<1>7. /\ \A i \in 1 .. Len(b) : i \in 1 .. n \/ i = n + 1
      /\ \A i \in 1 .. n : i \in 1 .. Len(b)
      /\ n + 1 \in 1 .. Len(b) /\ \A i \in 1 .. n : ~ (n + 1 < i)
  BY <1>0, <1>1, <1>5
<1>8. With(b, mgr, id, state)
  <2>1. \A x \in PacketIds : Has(mgr, x) => Has(b, x)
    BY <1>1, <1>5, <1>7 DEF Has
  <2>2. Has(b, id)
    BY <1>3, <1>5, <1>7 DEF Has
  <2>3. \A i \in 1 .. Len(b) : \/ b[i].packet_id = id /\ b[i].state = state
                               \/ \E k \in 1 .. Len(mgr) : b[i] = mgr[k]
    BY <1>1, <1>3, <1>5, <1>7
  <2> QED
    BY <1>5, <2>1, <2>2, <2>3 DEF With
<1>9. ASSUME NEW x \in PacketIds, Has(mgr, x) PROVE StateOf(b, x) = StateOf(mgr, x)
  <2>1. PICK g : g = mqtt_qos_find(mgr, x)
    OBVIOUS
  <2>2. Finds(g, mgr, x)
    BY <2>1, FindTracker
  <2>3. g \in 1 .. n /\ mgr[g].packet_id = x /\ \A i \in 1 .. n : i < g => mgr[i].packet_id # x
    BY <1>1, <1>9, <2>2 DEF Finds
  <2>4. Finds(g, b, x)
    BY <1>5, <1>7, <2>3 DEF Finds
  <2>5. g = mqtt_qos_find(b, x)
    BY <1>5, <2>4, FindOne, FindTracker
  <2>6. b[g] = mgr[g] /\ g # 0
    BY <1>5, <2>3
  <2> QED
    BY <2>1, <2>5, <2>6 DEF StateOf
<1> QED
  BY <1>2, <1>6, <1>8, <1>9

(* b is mgr less one tracker for id in some state.                           *)
Less(b, mgr, f) ==
  /\ b \in Seq(Tracker)
  /\ \A i \in 1 .. Len(b) : \E k \in 1 .. Len(mgr) : b[i] = mgr[k]
  /\ \A k \in 1 .. Len(mgr) : k # f => \E i \in 1 .. Len(b) : b[i] = mgr[k]

(* And the last one has taken its place.                                     *)
Shift(b, mgr, f) ==
  /\ Len(b) = Len(mgr) - 1
  /\ \A i \in 1 .. Len(mgr) - 1 : b[i] = IF i = f THEN mgr[Len(mgr)] ELSE mgr[i]

LEMMA WithoutIs ==
  ASSUME NEW mgr \in Seq(Tracker), NEW id \in PacketIds, mqtt_qos_find(mgr, id) # 0
  PROVE  /\ Less(Without(mgr, id), mgr, mqtt_qos_find(mgr, id))
         /\ Shift(Without(mgr, id), mgr, mqtt_qos_find(mgr, id))
<1>0. Len(mgr) \in Nat /\ DOMAIN mgr = 1 .. Len(mgr)
  OBVIOUS
<1>1. PICK f : f = mqtt_qos_find(mgr, id)
  OBVIOUS
<1>2. f \in 1 .. Len(mgr) /\ mgr[f].packet_id = id
  <2>1. Finds(f, mgr, id)
    BY <1>1, FindTracker
  <2> QED
    BY <1>1, <2>1 DEF Finds
<1>3. PICK n : n = Len(mgr)
  OBVIOUS
<1>4. n \in Nat /\ n > 0 /\ n \in 1 .. n /\ f \in 1 .. n
  BY <1>0, <1>2, <1>3
<1>5. PICK e : e = mgr[n]
  OBVIOUS
<1>6. e \in Tracker
  BY <1>3, <1>4, <1>5
<1>7. PICK c : c = [mgr EXCEPT ![f] = e]
  OBVIOUS
<1>8. c \in Seq(Tracker) /\ Len(c) = n /\ \A i \in 1 .. n : c[i] = IF i = f THEN e ELSE mgr[i]
  <2>1. c \in Seq(Tracker) /\ Replaced(c, mgr, f, e)
    BY <1>2, <1>6, <1>7, ReplaceIs
  <2> QED
    BY <1>3, <2>1 DEF Replaced
<1>9. PICK b : b = SubSeq(c, 1, n - 1)
  OBVIOUS
<1>10. b \in Seq(Tracker) /\ Len(b) = n - 1 /\ \A i \in 1 .. n - 1 : b[i] = c[i]
  BY <1>4, <1>8, <1>9
<1>11. Without(mgr, id) = b
  BY <1>1, <1>3, <1>5, <1>7, <1>8, <1>9 DEF Without, Front, Last
<1>12. \A i \in 1 .. n - 1 : i \in 1 .. n /\ i # n
  BY <1>4
<1>13. \A i \in 1 .. n : i # n => i \in 1 .. n - 1
  BY <1>4
<1>14. \A i \in 1 .. Len(b) : \E k \in 1 .. Len(mgr) : b[i] = mgr[k]
  BY <1>3, <1>4, <1>5, <1>8, <1>10, <1>12
<1>15. ASSUME NEW k \in 1 .. Len(mgr), k # f PROVE \E i \in 1 .. Len(b) : b[i] = mgr[k]
  <2>1. CASE k = n
    <3>1. f \in 1 .. n - 1
      BY <1>4, <1>13, <1>15, <2>1
    <3> QED
      BY <1>4, <1>5, <1>8, <1>10, <2>1, <3>1
  <2>2. CASE k # n
    <3>1. k \in 1 .. n - 1 /\ k \in 1 .. n
      BY <1>3, <1>13, <2>2
    <3> QED
      BY <1>8, <1>10, <1>15, <3>1
  <2> QED
    BY <2>1, <2>2
<1>16. Shift(b, mgr, f)
  BY <1>3, <1>5, <1>8, <1>10, <1>12 DEF Shift
<1> QED
  BY <1>1, <1>10, <1>11, <1>14, <1>15, <1>16 DEF Less

(* An id that is neither the removed one's nor the last one's is found where  *)
(* it was.                                                                   *)
LEMMA WithoutKeeps ==
  ASSUME NEW mgr \in Seq(Tracker), NEW id \in PacketIds, mqtt_qos_find(mgr, id) # 0,
         NEW x, x # id, x # Last(mgr).packet_id
  PROVE  StateOf(Without(mgr, id), x) = StateOf(mgr, x)
<1>0. Len(mgr) \in Nat
  OBVIOUS
<1>1. PICK f, b, n : f = mqtt_qos_find(mgr, id) /\ b = Without(mgr, id) /\ n = Len(mgr)
  OBVIOUS
<1>2. Finds(f, mgr, id)
  BY <1>1, FindTracker
<1>3. f \in 1 .. n /\ mgr[f].packet_id = id
  BY <1>1, <1>2 DEF Finds
<1>4. Less(b, mgr, f) /\ Shift(b, mgr, f)
  BY <1>1, WithoutIs
<1>5. b \in Seq(Tracker) /\ Len(b) = n - 1 /\ \A i \in 1 .. n - 1 : b[i] = IF i = f THEN mgr[n] ELSE mgr[i]
  BY <1>1, <1>4 DEF Less, Shift
<1>6. mgr[n].packet_id # x
  BY <1>1 DEF Last
<1>7. PICK g : g = mqtt_qos_find(mgr, x)
  OBVIOUS
<1>8. Finds(g, mgr, x)
  BY <1>7, FindTracker
<1>9. CASE g = 0
  <2>1. ~ Has(mgr, x)
    BY <1>8, <1>9 DEF Finds
  <2>2. ~ Has(b, x)
    BY <1>4, <2>1 DEF Has, Less
  <2>3. Finds(0, b, x)
    BY <2>2 DEF Finds
  <2>4. mqtt_qos_find(b, x) = 0
    BY <1>5, <2>3, FindOne, FindTracker
  <2> QED
    BY <1>1, <1>7, <1>9, <2>4 DEF StateOf
<1>10. CASE g # 0
  <2>1. g \in 1 .. n /\ mgr[g].packet_id = x /\ \A i \in 1 .. n : i < g => mgr[i].packet_id # x
    BY <1>1, <1>8, <1>10 DEF Finds
  <2>2. g # f /\ g # n
    BY <1>3, <1>6, <2>1
  <2>3. g \in 1 .. n - 1
    BY <1>0, <1>1, <2>1, <2>2
  <2>4. b[g] = mgr[g]
    BY <1>5, <2>2, <2>3
  <2>5. \A i \in 1 .. n - 1 : i \in 1 .. n
    BY <1>0, <1>1
  <2>6. \A i \in 1 .. Len(b) : i < g => b[i].packet_id # x
    BY <1>5, <1>6, <2>1, <2>5
  <2>7. Finds(g, b, x)
    BY <1>5, <2>1, <2>3, <2>4, <2>6 DEF Finds
  <2>8. mqtt_qos_find(b, x) = g
    BY <1>5, <2>7, FindOne, FindTracker
  <2> QED
    BY <1>1, <1>7, <1>10, <2>4, <2>8 DEF StateOf
<1> QED
  BY <1>9, <1>10

(***************************************************************************)
(* The steps.  What one leaves alone stays right when nothing is taken back  *)
(* that was passed on or known.                                              *)
(***************************************************************************)
Forward(rcv, d, dr, r2, d2, dr2) ==
  \A id \in PacketIds : /\ Given(d, dr, id) => Given(d2, dr2, id)
                        /\ Reached(rcv, d, dr, id) => Reached(r2, d2, dr2, id)

LEMMA TrackerIs ==
  ASSUME NEW mgr \in Seq(Tracker), NEW i \in 1 .. Len(mgr)
  PROVE  mgr[i].packet_id \in PacketIds /\ mgr[i].message \in Messages /\ mgr[i].packet_id = IdOf[mgr[i].message]
<1>1. mgr[i] \in Tracker
  OBVIOUS
<1> QED
  BY <1>1 DEF Tracker

LEMMA SendsKept ==
  ASSUME NEW snd \in Seq(Tracker), NEW rcv, NEW d, NEW dr, NEW r2, NEW d2, NEW dr2,
         Sends(snd, rcv, d, dr), Forward(rcv, d, dr, r2, d2, dr2)
  PROVE  Sends(snd, r2, d2, dr2)
<1>1. \A i \in 1 .. Len(snd) : snd[i].packet_id \in PacketIds
  BY TrackerIs
<1> QED
  BY <1>1 DEF Sends, Forward

LEMMA AnsweringKept ==
  ASSUME NEW pk, NEW rcv, NEW d, NEW dr, NEW r2, NEW d2, NEW dr2, NEW id \in PacketIds,
         Answering(pk, rcv, d, dr, id), Forward(rcv, d, dr, r2, d2, dr2)
  PROVE  Answering(pk, r2, d2, dr2, id)
BY DEF Answering, Forward

LEMMA StateFound ==
  ASSUME NEW mgr \in Seq(Tracker), NEW id, StateOf(mgr, id) # "IDLE"
  PROVE  /\ mqtt_qos_find(mgr, id) # 0 /\ Has(mgr, id)
         /\ \E i \in 1 .. Len(mgr) : mgr[i].packet_id = id /\ mgr[i].state = StateOf(mgr, id)
<1>1. PICK f : f = mqtt_qos_find(mgr, id)
  OBVIOUS
<1>2. Finds(f, mgr, id)
  BY <1>1, FindTracker
<1>3. f # 0
  BY <1>1 DEF StateOf
<1>4. f \in 1 .. Len(mgr) /\ mgr[f].packet_id = id
  BY <1>2, <1>3 DEF Finds
<1>5. mgr[f].state = StateOf(mgr, id)
  BY <1>1, <1>3 DEF StateOf
<1> QED
  BY <1>1, <1>3, <1>4, <1>5 DEF Has

LEMMA QosUse ==
  ASSUME QosInv
  PROVE  /\ sender \in Seq(Tracker) /\ receiver \in Seq(Tracker) /\ delivered \in [Messages -> Nat]
         /\ Receives(receiver, delivered, forgotten) /\ Sends(sender, receiver, delivered, forgotten)
         /\ \A id \in PacketIds : Answering(packets, receiver, delivered, forgotten, id)
         /\ \A m \in Messages : Qos[m] = 2 /\ IdOf[m] \notin shifted => Once(receiver, delivered, m)
BY DEF QosInv

(* A step of the publisher: its trackers change, and a packet goes out.      *)
LEMMA PublisherStep ==
  ASSUME QosInv, UNCHANGED <<receiver, delivered, shifted, forgotten>>,
         sender' \in Seq(Tracker), Sends(sender', receiver, delivered, forgotten),
         NEW kind, NEW at, packets' = packets \/ packets' = packets \cup {<<kind, at>>},
         kind \in {"PUBLISH", "PUBREL"}, kind = "PUBREL" => Reached(receiver, delivered, forgotten, at)
  PROVE  QosInv'
<1>1. ASSUME NEW id \in PacketIds PROVE Answering(packets', receiver, delivered, forgotten, id)
  <2>1. Answering(packets, receiver, delivered, forgotten, id)
    BY QosUse
  <2>2. /\ <<"PUBACK", id>> \in packets' => <<"PUBACK", id>> \in packets
        /\ <<"PUBCOMP", id>> \in packets' => <<"PUBCOMP", id>> \in packets
        /\ <<"PUBREC", id>> \in packets' => <<"PUBREC", id>> \in packets
        /\ <<"PUBREL", id>> \in packets' => <<"PUBREL", id>> \in packets \/ (kind = "PUBREL" /\ at = id)
    OBVIOUS
  <2> QED
    BY <2>1, <2>2 DEF Answering
<1> QED
  BY <1>1, QosUse DEF QosInv

LEMMA OutgoingStep ==
  ASSUME QosInv, NEW m \in Messages, mqtt_qos_track_outgoing(m)
  PROVE  QosInv'
<1>1. PICK state : state = IF Qos[m] = 1 THEN "AWAITING_PUBACK" ELSE "AWAITING_PUBREC"
  OBVIOUS
<1>2. state \in States /\ state # "COMPLETE" /\ state # "AWAITING_PUBCOMP"
  BY <1>1 DEF States
<1>3. /\ sender' = Tracked(sender, m, state) /\ packets' = packets \cup {<<"PUBLISH", m>>}
      /\ UNCHANGED <<receiver, delivered, shifted, forgotten>>
  BY <1>1 DEF mqtt_qos_track_outgoing
<1>4. With(sender', sender, IdOf[m], state)
  BY <1>2, <1>3, TrackedIs, QosUse
<1>5. sender' \in Seq(Tracker) /\ Sends(sender', receiver, delivered, forgotten)
  BY <1>2, <1>4, QosUse DEF With, Sends
<1>6. PICK kind : kind = "PUBLISH"
  OBVIOUS
<1>7. packets' = packets \cup {<<kind, m>>} /\ kind \in {"PUBLISH", "PUBREL"} /\ kind # "PUBREL"
  BY <1>3, <1>6
<1> QED
  BY <1>3, <1>5, <1>7, PublisherStep

LEMMA NextActionStep ==
  ASSUME QosInv, mqtt_qos_get_next_action
  PROVE  QosInv'
<1>0. sender \in Seq(Tracker) /\ Len(sender) \in Nat /\ DOMAIN sender = 1 .. Len(sender)
  BY QosUse
<1>1. PICK pend : pend = {i \in DOMAIN sender : sender[i].state # "COMPLETE"}
  OBVIOUS
<1>2. PICK i : i = Min(pend)
  OBVIOUS
<1>3. PICK kind, at : /\ kind = IF sender[i].state = "AWAITING_PUBCOMP" THEN "PUBREL" ELSE "PUBLISH"
                      /\ at = IF sender[i].state = "AWAITING_PUBCOMP" THEN sender[i].packet_id ELSE sender[i].message
  OBVIOUS
<1>4. /\ pend # {} /\ packets' = packets \cup {<<kind, at>>}
      /\ sender' = sender /\ UNCHANGED <<receiver, delivered, shifted, forgotten>>
  BY <1>1, <1>2, <1>3 DEF mqtt_qos_get_next_action
<1>5. i \in 1 .. Len(sender)
  <2>1. pend \subseteq 1 .. Len(sender)
    BY <1>0, <1>1
  <2>2. First(i, sender, pend)
    BY <1>0, <1>2, <1>4, <2>1, MinIs
  <2> QED
    BY <1>4, <2>2 DEF First
<1>6. /\ kind \in {"PUBLISH", "PUBREL"}
      /\ kind = "PUBREL" => sender[i].state = "AWAITING_PUBCOMP" /\ at = sender[i].packet_id
  BY <1>3
<1>7. Sends(sender, receiver, delivered, forgotten)
  BY QosUse
<1>8. kind = "PUBREL" => Reached(receiver, delivered, forgotten, at)
  BY <1>5, <1>6, <1>7 DEF Sends
<1> QED
  BY <1>0, <1>4, <1>6, <1>7, <1>8, PublisherStep

LEMMA PubackStep ==
  ASSUME QosInv, NEW id \in PacketIds, mqtt_qos_handle_puback(id) \/ mqtt_qos_handle_pubcomp(id)
  PROVE  QosInv'
<1>1. /\ <<"PUBACK", id>> \in packets \/ <<"PUBCOMP", id>> \in packets
      /\ StateOf(sender, id) # "IDLE" /\ sender' = Moved(sender, id, "COMPLETE")
      /\ UNCHANGED <<receiver, delivered, shifted, forgotten, packets>>
  BY DEF mqtt_qos_handle_puback, mqtt_qos_handle_pubcomp
<1>2. Given(delivered, forgotten, id)
  <2>1. Answering(packets, receiver, delivered, forgotten, id)
    BY QosUse
  <2> QED
    BY <1>1, <2>1 DEF Answering
<1>3. With(sender', sender, id, "COMPLETE")
  <2>1. "COMPLETE" \in States
    BY DEF States
  <2>2. sender \in Seq(Tracker)
    BY QosUse
  <2>3. mqtt_qos_find(sender, id) # 0
    BY <1>1, <2>2, StateFound
  <2> QED
    BY <1>1, <2>1, <2>2, <2>3, MovedIs
<1>4. sender' \in Seq(Tracker) /\ Sends(sender', receiver, delivered, forgotten)
  BY <1>2, <1>3, QosUse DEF With, Sends
<1>5. PICK kind : kind = "PUBLISH"
  OBVIOUS
<1>6. kind \in {"PUBLISH", "PUBREL"} /\ kind # "PUBREL"
  BY <1>5
<1> QED
  BY <1>1, <1>4, <1>6, PublisherStep

LEMMA PubrecStep ==
  ASSUME QosInv, NEW id \in PacketIds, mqtt_qos_handle_pubrec(id)
  PROVE  QosInv'
<1>1. /\ <<"PUBREC", id>> \in packets
      /\ StateOf(sender, id) # "IDLE" /\ sender' = Moved(sender, id, "AWAITING_PUBCOMP")
      /\ UNCHANGED <<receiver, delivered, shifted, forgotten>>
      /\ packets' = packets \cup {<<"PUBREL", id>>}
  BY DEF mqtt_qos_handle_pubrec
<1>2. Reached(receiver, delivered, forgotten, id)
  <2>1. Answering(packets, receiver, delivered, forgotten, id)
    BY QosUse
  <2> QED
    BY <1>1, <2>1 DEF Answering
<1>3. With(sender', sender, id, "AWAITING_PUBCOMP")
  <2>1. "AWAITING_PUBCOMP" \in States
    BY DEF States
  <2>2. sender \in Seq(Tracker)
    BY QosUse
  <2>3. mqtt_qos_find(sender, id) # 0
    BY <1>1, <2>2, StateFound
  <2> QED
    BY <1>1, <2>1, <2>2, <2>3, MovedIs
<1>4. sender' \in Seq(Tracker) /\ Sends(sender', receiver, delivered, forgotten)
  BY <1>2, <1>3, QosUse DEF With, Sends
<1> QED
  BY <1>1, <1>2, <1>4, PublisherStep

(* A step of the receiver: nothing it has passed on or heard of is lost.     *)
LEMMA ReceiverStep ==
  ASSUME QosInv, sender' = sender,
         receiver' \in Seq(Tracker), delivered' \in [Messages -> Nat],
         Forward(receiver, delivered, forgotten, receiver', delivered', forgotten'),
         Receives(receiver', delivered', forgotten'),
         \A m \in Messages : Qos[m] = 2 /\ IdOf[m] \notin shifted' => Once(receiver', delivered', m),
         NEW kind, NEW at, packets' = packets \/ packets' = packets \cup {<<kind, at>>},
         kind \in {"PUBACK", "PUBREC", "PUBCOMP"},
         packets' = packets \/ kind = "PUBREC" \/ Given(delivered', forgotten', at),
         packets' = packets \/ kind # "PUBREC" \/ Reached(receiver', delivered', forgotten', at)
  PROVE  QosInv'
<1>1. ASSUME NEW id \in PacketIds PROVE Answering(packets', receiver', delivered', forgotten', id)
  <2>1. Answering(packets, receiver', delivered', forgotten', id)
    BY AnsweringKept, QosUse
  <2>2. CASE packets' = packets
    BY <2>1, <2>2
  <2>3. CASE packets' # packets
    <3>1. /\ <<"PUBACK", id>> \in packets' => <<"PUBACK", id>> \in packets \/ (kind = "PUBACK" /\ at = id)
          /\ <<"PUBCOMP", id>> \in packets' => <<"PUBCOMP", id>> \in packets \/ (kind = "PUBCOMP" /\ at = id)
          /\ <<"PUBREC", id>> \in packets' => <<"PUBREC", id>> \in packets \/ (kind = "PUBREC" /\ at = id)
          /\ <<"PUBREL", id>> \in packets' => <<"PUBREL", id>> \in packets
      OBVIOUS
    <3>2. /\ kind = "PUBREC" \/ Given(delivered', forgotten', at)
          /\ kind # "PUBREC" \/ Reached(receiver', delivered', forgotten', at)
      BY <2>3
    <3> QED
      BY <2>1, <3>1, <3>2 DEF Answering
  <2> QED
    BY <2>2, <2>3
<1>2. Sends(sender', receiver', delivered', forgotten')
  BY SendsKept, QosUse
<1> QED
  BY <1>1, <1>2, QosUse DEF QosInv

(* One more message passed on, or none: what was given stays given.          *)
LEMMA GivenGrows ==
  ASSUME NEW d \in [Messages -> Nat], NEW e \in [Messages -> Nat], NEW dr, NEW id,
         \A m \in Messages : d[m] > 0 => e[m] > 0, Given(d, dr, id)
  PROVE  Given(e, dr, id)
BY DEF Given

LEMMA IncomingStep ==
  ASSUME QosInv, NEW m \in Messages, mqtt_qos_track_incoming(m)
  PROVE  QosInv'
<1>0. receiver \in Seq(Tracker) /\ delivered \in [Messages -> Nat] /\ Receives(receiver, delivered, forgotten)
  BY QosUse
<1>1. /\ receiver' = Tracked(receiver, m, IF Qos[m] = 1 THEN "COMPLETE" ELSE "AWAITING_PUBREL")
      /\ delivered' = IF Qos[m] = 1 THEN [delivered EXCEPT ![m] = @ + 1] ELSE delivered
      /\ packets' = packets \cup {<<IF Qos[m] = 1 THEN "PUBACK" ELSE "PUBREC", IdOf[m]>>}
      /\ sender' = sender /\ shifted' = shifted /\ forgotten' = forgotten
  BY DEF mqtt_qos_track_incoming
<1>2. PICK state, kind, id : /\ state = IF Qos[m] = 1 THEN "COMPLETE" ELSE "AWAITING_PUBREL"
                             /\ kind = IF Qos[m] = 1 THEN "PUBACK" ELSE "PUBREC"
                             /\ id = IdOf[m]
  OBVIOUS
<1>3. /\ state \in States /\ state \in {"COMPLETE", "AWAITING_PUBREL"}
      /\ state = "COMPLETE" <=> Qos[m] = 1
      /\ kind \in {"PUBACK", "PUBREC", "PUBCOMP"} /\ (kind = "PUBREC" <=> Qos[m] # 1)
  BY <1>2 DEF States
<1>4. /\ delivered' \in [Messages -> Nat] /\ (Qos[m] = 1 => delivered'[m] > 0)
      /\ \A x \in Messages : /\ delivered[x] > 0 => delivered'[x] > 0
                             /\ Qos[x] # 1 => delivered'[x] = delivered[x]
  BY <1>0, <1>1
<1>5. /\ With(receiver', receiver, id, state)
      /\ \A x \in PacketIds : Has(receiver, x) => StateOf(receiver', x) = StateOf(receiver, x)
  <2>1. receiver' = Tracked(receiver, m, state)
    BY <1>1, <1>2
  <2> QED
    BY <1>0, <1>2, <1>3, <2>1, TrackedIs
<1>6. /\ \A x \in PacketIds : Given(delivered, forgotten, x) => Given(delivered', forgotten', x)
      /\ Qos[m] = 1 => Given(delivered', forgotten', id)
  <2>1. \A x \in PacketIds : Given(delivered, forgotten, x) => Given(delivered', forgotten, x)
    BY <1>0, <1>4, GivenGrows
  <2> QED
    BY <1>1, <1>2, <1>4, <2>1 DEF Given
<1>7. Forward(receiver, delivered, forgotten, receiver', delivered', forgotten')
  BY <1>5, <1>6 DEF Forward, Reached, With
<1>8. Receives(receiver', delivered', forgotten')
  <2> SUFFICES ASSUME NEW i \in 1 .. Len(receiver')
               PROVE  /\ receiver'[i].state \in {"COMPLETE", "AWAITING_PUBREL"}
                      /\ receiver'[i].state = "COMPLETE" => Given(delivered', forgotten', receiver'[i].packet_id)
    BY DEF Receives
  <2>1. CASE receiver'[i].packet_id = id /\ receiver'[i].state = state
    BY <1>3, <1>6, <2>1
  <2>2. CASE \E k \in 1 .. Len(receiver) : receiver'[i] = receiver[k]
    <3>1. PICK k \in 1 .. Len(receiver) : receiver'[i] = receiver[k]
      BY <2>2
    <3>2. receiver[k].packet_id \in PacketIds
      BY <1>0, TrackerIs
    <3> QED
      BY <1>0, <1>6, <3>1, <3>2 DEF Receives
  <2> QED
    BY <1>5, <2>1, <2>2 DEF With
<1>9. ASSUME NEW x \in Messages, Qos[x] = 2, IdOf[x] \notin shifted' PROVE Once(receiver', delivered', x)
  <2>1. Once(receiver, delivered, x)
    BY <1>1, <1>9, QosUse
  <2>2. delivered'[x] = delivered[x] /\ IdOf[x] \in PacketIds
    BY <1>4, <1>9, MqttAssumption
  <2>3. ASSUME delivered[x] = 1 PROVE StateOf(receiver', IdOf[x]) = "COMPLETE"
    <3>1. StateOf(receiver, IdOf[x]) = "COMPLETE"
      BY <2>1, <2>3 DEF Once
    <3>2. Has(receiver, IdOf[x])
      BY <1>0, <3>1, StateFound
    <3> QED
      BY <1>5, <2>2, <3>1, <3>2
  <2> QED
    BY <2>1, <2>2, <2>3 DEF Once
<1>10. packets' = packets \cup {<<kind, id>>} /\ sender' = sender
  BY <1>1, <1>2
<1>11. (kind = "PUBREC" \/ Given(delivered', forgotten', id)) /\ Reached(receiver', delivered', forgotten', id)
  BY <1>3, <1>5, <1>6 DEF Reached, With
<1>12. receiver' \in Seq(Tracker)
  BY <1>5 DEF With
<1> QED
  BY <1>3, <1>4, <1>7, <1>8, <1>9, <1>10, <1>11, <1>12, ReceiverStep

LEMMA PubrelStep ==
  ASSUME QosInv, NEW id \in PacketIds, mqtt_qos_handle_pubrel(id)
  PROVE  QosInv'
<1>0. receiver \in Seq(Tracker) /\ delivered \in [Messages -> Nat] /\ Receives(receiver, delivered, forgotten)
  BY QosUse
<1>1. /\ <<"PUBREL", id>> \in packets /\ packets' = packets \cup {<<"PUBCOMP", id>>}
      /\ sender' = sender /\ shifted' = shifted /\ forgotten' = forgotten
  BY DEF mqtt_qos_handle_pubrel
<1>2. Reached(receiver, delivered, forgotten, id)
  <2>1. Answering(packets, receiver, delivered, forgotten, id)
    BY QosUse
  <2> QED
    BY <1>1, <2>1 DEF Answering
<1>3. CASE StateOf(receiver, id) = "AWAITING_PUBREL"
  <2>0. PICK m : m = MessageOf(receiver, id)
    OBVIOUS
  <2>1. receiver' = Moved(receiver, id, "COMPLETE") /\ delivered' = [delivered EXCEPT ![m] = @ + 1]
    BY <1>3, <2>0 DEF mqtt_qos_handle_pubrel
  <2>2. mqtt_qos_find(receiver, id) # 0
    BY <1>0, <1>3, StateFound
  <2>3. m \in Messages /\ IdOf[m] = id
    <3>1. PICK f : f = mqtt_qos_find(receiver, id)
      OBVIOUS
    <3>2. Finds(f, receiver, id)
      BY <1>0, <3>1, FindTracker
    <3>3. f \in 1 .. Len(receiver) /\ receiver[f].packet_id = id
      BY <2>2, <3>1, <3>2 DEF Finds
    <3>4. m = receiver[f].message
      BY <2>0, <3>1 DEF MessageOf
    <3> QED
      BY <1>0, <3>3, <3>4, TrackerIs
  <2>4. /\ With(receiver', receiver, id, "COMPLETE") /\ StateOf(receiver', id) = "COMPLETE"
        /\ \A x \in PacketIds : x # id => StateOf(receiver', x) = StateOf(receiver, x)
    <3>1. "COMPLETE" \in States
      BY DEF States
    <3> QED
      BY <1>0, <2>1, <2>2, <3>1, MovedIs
  <2>5. /\ delivered' \in [Messages -> Nat] /\ delivered'[m] = delivered[m] + 1 /\ delivered'[m] > 0
        /\ \A x \in Messages : /\ delivered[x] > 0 => delivered'[x] > 0
                               /\ x # m => delivered'[x] = delivered[x]
    BY <1>0, <2>1, <2>3
  <2>6. /\ \A x \in PacketIds : Given(delivered, forgotten, x) => Given(delivered', forgotten', x)
        /\ Given(delivered', forgotten', id)
    <3>1. \A x \in PacketIds : Given(delivered, forgotten, x) => Given(delivered', forgotten, x)
      BY <1>0, <2>5, GivenGrows
    <3> QED
      BY <1>1, <2>3, <2>5, <3>1 DEF Given
  <2>7. Forward(receiver, delivered, forgotten, receiver', delivered', forgotten')
    BY <2>4, <2>6 DEF Forward, Reached, With
  <2>8. Receives(receiver', delivered', forgotten')
    <3> SUFFICES ASSUME NEW i \in 1 .. Len(receiver')
                 PROVE  /\ receiver'[i].state \in {"COMPLETE", "AWAITING_PUBREL"}
                        /\ receiver'[i].state = "COMPLETE" => Given(delivered', forgotten', receiver'[i].packet_id)
      BY DEF Receives
    <3>1. CASE receiver'[i].packet_id = id /\ receiver'[i].state = "COMPLETE"
      BY <2>6, <3>1
    <3>2. CASE \E k \in 1 .. Len(receiver) : receiver'[i] = receiver[k]
      <4>1. PICK k \in 1 .. Len(receiver) : receiver'[i] = receiver[k]
        BY <3>2
      <4>2. receiver[k].packet_id \in PacketIds
        BY <1>0, TrackerIs
      <4> QED
        BY <1>0, <2>6, <4>1, <4>2 DEF Receives
    <3> QED
      BY <2>4, <3>1, <3>2 DEF With
  <2>9. ASSUME NEW x \in Messages, Qos[x] = 2, IdOf[x] \notin shifted' PROVE Once(receiver', delivered', x)
    <3>1. Once(receiver, delivered, x) /\ IdOf[x] \in PacketIds
      BY <1>1, <2>9, QosUse, MqttAssumption
    <3>2. CASE IdOf[x] # id
      <4>1. x # m
        BY <2>3, <3>2
      <4> QED
        BY <2>4, <2>5, <3>1, <3>2, <4>1 DEF Once
    <3>3. CASE IdOf[x] = id
      <4>1. delivered[x] \in Nat /\ delivered[x] <= 1 /\ delivered[x] # 1
        BY <1>0, <1>3, <3>1, <3>3 DEF Once
      <4>2. delivered'[x] <= 1
        BY <2>5, <4>1
      <4> QED
        BY <2>4, <3>3, <4>2 DEF Once
    <3> QED
      BY <3>2, <3>3
  <2>10. receiver' \in Seq(Tracker)
    BY <2>4 DEF With
  <2> QED
    BY <1>1, <2>5, <2>6, <2>7, <2>8, <2>9, <2>10, ReceiverStep
<1>4. CASE StateOf(receiver, id) # "AWAITING_PUBREL"
  <2>1. receiver' = receiver /\ delivered' = delivered
    BY <1>4 DEF mqtt_qos_handle_pubrel
  <2>2. Given(delivered, forgotten, id)
    <3>1. CASE Has(receiver, id)
      <4>1. PICK f : f = mqtt_qos_find(receiver, id)
        OBVIOUS
      <4>2. f \in 1 .. Len(receiver) /\ receiver[f].packet_id = id
        BY <1>0, <3>1, <4>1, FindTracker DEF Finds
      <4>3. StateOf(receiver, id) = receiver[f].state
        BY <4>1, <4>2 DEF StateOf
      <4>4. receiver[f].state = "COMPLETE"
        BY <1>0, <1>4, <4>2, <4>3 DEF Receives
      <4> QED
        BY <1>0, <4>2, <4>4 DEF Receives
    <3>2. CASE ~ Has(receiver, id)
      BY <1>2, <3>2 DEF Reached
    <3> QED
      BY <3>1, <3>2
  <2>3. Forward(receiver, delivered, forgotten, receiver', delivered', forgotten')
    BY <1>1, <2>1 DEF Forward
  <2>4. \A m \in Messages : Qos[m] = 2 /\ IdOf[m] \notin shifted' => Once(receiver', delivered', m)
    BY <1>1, <2>1, QosUse
  <2> QED
    BY <1>0, <1>1, <2>1, <2>2, <2>3, <2>4, ReceiverStep
<1> QED
  BY <1>3, <1>4

LEMMA RemoveTrackerStep ==
  ASSUME QosInv, NEW id \in PacketIds, mqtt_qos_remove(id)
  PROVE  QosInv'
<1>0. /\ receiver \in Seq(Tracker) /\ delivered \in [Messages -> Nat] /\ Receives(receiver, delivered, forgotten)
      /\ sender \in Seq(Tracker) /\ Sends(sender, receiver, delivered, forgotten)
  BY QosUse
<1>1. packets' = packets /\ delivered' = delivered
  BY DEF mqtt_qos_remove
<1>2. CASE /\ mqtt_qos_find(sender, id) # 0 /\ sender' = Without(sender, id)
           /\ UNCHANGED <<receiver, shifted, forgotten>>
  <2>1. PICK f : Less(sender', sender, f)
    BY <1>0, <1>2, WithoutIs
  <2>2. sender' \in Seq(Tracker) /\ Sends(sender', receiver, delivered, forgotten)
    BY <1>0, <2>1 DEF Less, Sends
  <2>3. PICK kind : kind = "PUBLISH"
    OBVIOUS
  <2>4. kind \in {"PUBLISH", "PUBREL"} /\ kind # "PUBREL"
    BY <2>3
  <2> QED
    BY <1>1, <1>2, <2>2, <2>4, PublisherStep
<1>3. CASE /\ mqtt_qos_find(receiver, id) # 0 /\ receiver' = Without(receiver, id)
           /\ shifted' = shifted \cup {id, Last(receiver).packet_id}
           /\ forgotten' = IF mqtt_qos_is_complete(receiver, id) THEN forgotten ELSE forgotten \cup {id}
           /\ sender' = sender
  <2>1. PICK f : f = mqtt_qos_find(receiver, id)
    OBVIOUS
  <2>2. Less(receiver', receiver, f)
    BY <1>0, <1>3, <2>1, WithoutIs
  <2>3. f \in 1 .. Len(receiver) /\ receiver[f].packet_id = id /\ StateOf(receiver, id) = receiver[f].state
    <3>1. Finds(f, receiver, id)
      BY <1>0, <2>1, FindTracker
    <3> QED
      BY <1>3, <2>1, <3>1 DEF Finds, StateOf
  <2>4. \A x \in PacketIds : Given(delivered, forgotten, x) => Given(delivered', forgotten', x)
    BY <1>1, <1>3 DEF Given
  <2>5. Given(delivered', forgotten', id)
    <3>1. CASE mqtt_qos_is_complete(receiver, id)
      <4>1. receiver[f].state = "COMPLETE"
        BY <2>3, <3>1 DEF mqtt_qos_is_complete
      <4>2. Given(delivered, forgotten, id)
        BY <1>0, <2>3, <4>1 DEF Receives
      <4> QED
        BY <2>4, <4>2
    <3>2. CASE ~ mqtt_qos_is_complete(receiver, id)
      BY <1>3, <3>2 DEF Given
    <3> QED
      BY <3>1, <3>2
  <2>6. Forward(receiver, delivered, forgotten, receiver', delivered', forgotten')
    <3> SUFFICES ASSUME NEW x \in PacketIds, Reached(receiver, delivered, forgotten, x)
                 PROVE  Reached(receiver', delivered', forgotten', x)
      BY <2>4 DEF Forward
    <3>1. CASE Given(delivered', forgotten', x)
      BY <3>1 DEF Reached
    <3>2. CASE ~ Given(delivered', forgotten', x)
      <4>1. x # id
        BY <2>5, <3>2
      <4>2. PICK k \in 1 .. Len(receiver) : receiver[k].packet_id = x
        BY <2>4, <3>2 DEF Reached, Has
      <4>3. k # f
        BY <2>3, <4>1, <4>2
      <4>4. \E i \in 1 .. Len(receiver') : receiver'[i] = receiver[k]
        BY <2>2, <4>3 DEF Less
      <4> QED
        BY <4>2, <4>4 DEF Reached, Has
    <3> QED
      BY <3>1, <3>2
  <2>7. receiver' \in Seq(Tracker) /\ Receives(receiver', delivered', forgotten')
    <3>1. receiver' \in Seq(Tracker) /\ \A i \in 1 .. Len(receiver') : \E k \in 1 .. Len(receiver) : receiver'[i] = receiver[k]
      BY <2>2 DEF Less
    <3>2. \A k \in 1 .. Len(receiver) : receiver[k].packet_id \in PacketIds
      BY <1>0, TrackerIs
    <3> QED
      BY <1>0, <2>4, <3>1, <3>2 DEF Receives
  <2>8. ASSUME NEW m \in Messages, Qos[m] = 2, IdOf[m] \notin shifted' PROVE Once(receiver', delivered', m)
    <3>1. IdOf[m] \notin shifted /\ IdOf[m] # id /\ IdOf[m] # Last(receiver).packet_id
      BY <1>3, <2>8
    <3>2. StateOf(receiver', IdOf[m]) = StateOf(receiver, IdOf[m])
      BY <1>0, <1>3, <3>1, WithoutKeeps
    <3>3. Once(receiver, delivered, m)
      BY <2>8, <3>1, QosUse
    <3> QED
      BY <1>1, <3>2, <3>3 DEF Once
  <2>9. PICK kind : kind = "PUBREC"
    OBVIOUS
  <2>10. kind \in {"PUBACK", "PUBREC", "PUBCOMP"}
    BY <2>9
  <2>11. delivered' \in [Messages -> Nat] /\ sender' = sender
    BY <1>0, <1>1, <1>3
  <2> QED
    BY <1>1, <2>6, <2>7, <2>8, <2>10, <2>11, ReceiverStep
<1> QED
  BY <1>2, <1>3 DEF mqtt_qos_remove

LEMMA QosStarts == mqtt_qos_manager_init => QosInv
BY DEF mqtt_qos_manager_init, QosInv, Receives, Sends, Answering, Once

LEMMA QosStep == ASSUME QosInv, QosNext PROVE QosInv'
BY OutgoingStep, NextActionStep, PubackStep, PubrecStep, IncomingStep, PubrelStep, RemoveTrackerStep DEF QosNext

LEMMA QosImplies == QosInv => CompleteIsDelivered
<1> SUFFICES ASSUME QosInv, NEW m \in Messages
             PROVE  /\ mqtt_qos_is_complete(sender, IdOf[m]) /\ IdOf[m] \notin forgotten =>
                         \E k \in Messages : IdOf[k] = IdOf[m] /\ delivered[k] > 0
                    /\ Qos[m] = 2 /\ IdOf[m] \notin shifted => delivered[m] <= 1
  BY DEF CompleteIsDelivered
<1>1. sender \in Seq(Tracker) /\ Sends(sender, receiver, delivered, forgotten)
  BY QosUse
<1>2. ASSUME mqtt_qos_is_complete(sender, IdOf[m]) PROVE Given(delivered, forgotten, IdOf[m])
  <2>1. StateOf(sender, IdOf[m]) = "COMPLETE"
    BY <1>2 DEF mqtt_qos_is_complete
  <2>2. PICK i \in 1 .. Len(sender) : sender[i].packet_id = IdOf[m] /\ sender[i].state = "COMPLETE"
    BY <1>1, <2>1, StateFound
  <2> QED
    BY <1>1, <2>2 DEF Sends
<1>3. Qos[m] = 2 /\ IdOf[m] \notin shifted => delivered[m] <= 1
  BY QosUse DEF Once
<1> QED
  BY <1>2, <1>3 DEF Given

-----------------------------------------------------------------------------
(***************************************************************************)
(* The broker.  A client that connects again has a second slot, which is never *)
(* found: only the first one has subscriptions, and these were asked for.    *)
(***************************************************************************)

SlotOf(id, h, q) == [client_id |-> id, connected |-> h, subscriptions |-> q]
SlotSet == {SlotOf(id, h, q) : id \in ClientIds, h \in BOOLEAN, q \in Seq(Filters)}

(* Only the first slot of a client is ever found again: the others have no   *)
(* subscriptions, and what the first has was asked for, and is all that was   *)
(* asked for unless it is full.                                              *)
Leads(s, i) == \A j \in 1 .. Len(s) : j < i => s[j].client_id # s[i].client_id
Suits(e, sn, dp, as) ==
  /\ e.connected => e.client_id \in sn
  /\ e.client_id \in dp \/ e.connected
  /\ \A k \in DOMAIN e.subscriptions : e.subscriptions[k] \in as[e.client_id]
  /\ \A x \in as[e.client_id] : \/ ~ (Len(e.subscriptions) < MaxSubs)
                                \/ \E k \in DOMAIN e.subscriptions : e.subscriptions[k] = x
SlotSound(s, i, sn, dp, as) ==
  /\ Leads(s, i) => Suits(s[i], sn, dp, as)
  /\ ~ Leads(s, i) => DOMAIN s[i].subscriptions = {}
Known(s, c) == \E i \in 1 .. Len(s) : s[i].client_id = c

BrokerInv ==
  /\ clients \in Seq(SlotSet) /\ Len(clients) <= MaxClients
  /\ asked = [c \in ClientIds |-> asked[c]]
  /\ \A c \in ClientIds : c \in since \/ asked[c] # {} => Known(clients, c)
  /\ \A i \in 1 .. Len(clients) : SlotSound(clients, i, since, departed, asked)

LEMMA SlotIs ==
  ASSUME NEW id \in ClientIds, NEW h \in BOOLEAN, NEW q \in Seq(Filters)
  PROVE  SlotOf(id, h, q) \in SlotSet
BY DEF SlotSet

LEMMA NewSlot ==
  ASSUME NEW id \in ClientIds, NEW e, e = [client_id |-> id, connected |-> TRUE, subscriptions |-> <<>>]
  PROVE  e \in SlotSet /\ e.client_id = id /\ DOMAIN e.subscriptions = {} /\ e.connected
<1>1. <<>> \in Seq(Filters) /\ DOMAIN <<>> = {}
  OBVIOUS
<1>2. SlotOf(id, TRUE, <<>>) \in SlotSet
  BY <1>1, SlotIs, Zenon
<1>3. e = SlotOf(id, TRUE, <<>>)
  BY DEF SlotOf
<1>4. SlotOf(id, TRUE, <<>>).client_id = id /\ SlotOf(id, TRUE, <<>>).subscriptions = <<>>
  BY DEF SlotOf
<1> QED
  BY <1>1, <1>2, <1>3, <1>4 DEF SlotOf

LEMMA SlotHas ==
  ASSUME NEW e \in SlotSet
  PROVE  e.client_id \in ClientIds /\ e.subscriptions \in Seq(Filters)
BY DEF SlotSet, SlotOf

LEMMA SlotLeft ==
  ASSUME NEW e \in SlotSet, NEW b, b = [e EXCEPT !.connected = FALSE]
  PROVE  b \in SlotSet /\ b.client_id = e.client_id /\ b.subscriptions = e.subscriptions /\ ~ b.connected
<1>1. PICK id \in ClientIds, h \in BOOLEAN, q \in Seq(Filters) : e = SlotOf(id, h, q)
  BY DEF SlotSet
<1>2. b = SlotOf(id, FALSE, q)
  BY <1>1 DEF SlotOf
<1>3. SlotOf(id, FALSE, q) \in SlotSet
  BY <1>1, SlotIs, Zenon
<1> QED
  BY <1>1, <1>2, <1>3 DEF SlotOf

LEMMA SlotAsked ==
  ASSUME NEW e \in SlotSet, NEW filter \in Filters, NEW b, b = Subscribed(e, filter)
  PROVE  /\ b \in SlotSet /\ b.client_id = e.client_id /\ b.connected = e.connected
         /\ \A k \in DOMAIN b.subscriptions :
              b.subscriptions[k] = filter \/ \E j \in DOMAIN e.subscriptions : b.subscriptions[k] = e.subscriptions[j]
         /\ ~ (Len(e.subscriptions) < MaxSubs) => b = e
         /\ Len(e.subscriptions) < MaxSubs =>
              /\ \E k \in DOMAIN b.subscriptions : b.subscriptions[k] = filter
              /\ \A j \in DOMAIN e.subscriptions : \E k \in DOMAIN b.subscriptions : b.subscriptions[k] = e.subscriptions[j]
<1>1. PICK id \in ClientIds, h \in BOOLEAN, q \in Seq(Filters) : e = SlotOf(id, h, q)
  BY DEF SlotSet
<1>2. e.subscriptions = q /\ e.client_id = id
  BY <1>1 DEF SlotOf
<1>3. CASE Len(q) < MaxSubs
  <2>1. PICK p : p = Append(q, filter)
    OBVIOUS
  <2>2. Len(q) \in Nat /\ DOMAIN q = 1 .. Len(q)
    BY <1>1
  <2>3. /\ p \in Seq(Filters) /\ DOMAIN p = 1 .. Len(q) + 1 /\ p[Len(q) + 1] = filter
        /\ \A k \in 1 .. Len(q) : p[k] = q[k]
    BY <1>1, <2>1
  <2>4. b = SlotOf(id, h, p)
    BY <1>1, <1>2, <1>3, <2>1 DEF Subscribed, SlotOf
  <2>5. b \in SlotSet
    BY <1>1, <2>3, <2>4, SlotIs
  <2>6. b.subscriptions = p /\ b.client_id = e.client_id /\ b.connected = e.connected
    BY <1>1, <2>4 DEF SlotOf
  <2>7. \A k \in DOMAIN p : p[k] = filter \/ \E j \in DOMAIN q : p[k] = q[j]
    <3> TAKE k \in DOMAIN p
    <3>1. k = Len(q) + 1 \/ k \in 1 .. Len(q)
      BY <2>2, <2>3
    <3> QED
      BY <2>2, <2>3, <3>1
  <2>8. /\ \E k \in DOMAIN p : p[k] = filter
        /\ \A j \in DOMAIN q : \E k \in DOMAIN p : p[k] = q[j]
    <3>1. Len(q) + 1 \in DOMAIN p /\ \A j \in 1 .. Len(q) : j \in DOMAIN p
      BY <2>2, <2>3
    <3> QED
      BY <2>2, <2>3, <3>1
  <2> QED
    BY <1>2, <1>3, <2>5, <2>6, <2>7, <2>8
<1>4. CASE ~ (Len(q) < MaxSubs)
  <2>1. b = e
    BY <1>2, <1>4 DEF Subscribed
  <2> QED
    BY <1>2, <1>4, <2>1
<1> QED
  BY <1>3, <1>4

(* The place of a client: its first slot.                                    *)
LEMMA FirstSlot ==
  ASSUME BrokerInv, NEW id \in ClientIds, SlotsOf(id) # {}
  PROVE  /\ Min(SlotsOf(id)) \in 1 .. Len(clients)
         /\ clients[Min(SlotsOf(id))].client_id = id
         /\ \A j \in 1 .. Len(clients) : j < Min(SlotsOf(id)) => clients[j].client_id # id
<1>0. clients \in Seq(SlotSet) /\ DOMAIN clients = 1 .. Len(clients) /\ Len(clients) \in Nat
  BY DEF BrokerInv
<1>1. PICK S : S = SlotsOf(id)
  OBVIOUS
<1>2. PICK f : f = Min(S)
  OBVIOUS
<1>3. S \subseteq 1 .. Len(clients) /\ \A j \in 1 .. Len(clients) : j \in S <=> clients[j].client_id = id
  BY <1>0, <1>1 DEF SlotsOf
<1>4. First(f, clients, S)
  BY <1>0, <1>1, <1>2, <1>3, MinIs
<1>5. f \in S /\ f \in 1 .. Len(clients) /\ \A i \in 1 .. f - 1 : i \notin S
  BY <1>1, <1>4 DEF First
<1>6. \A j \in 1 .. Len(clients) : j < f => j \in 1 .. f - 1
  BY <1>0, <1>5
<1> QED
  BY <1>1, <1>2, <1>3, <1>5, <1>6

LEMMA ConnectSlotStep ==
  ASSUME BrokerInv, NEW id \in ClientIds, mqtt_broker_connect(id)
  PROVE  BrokerInv'
<1>0. /\ clients \in Seq(SlotSet) /\ Len(clients) \in Nat /\ Len(clients) <= MaxClients
      /\ asked = [c \in ClientIds |-> asked[c]]
      /\ \A c \in ClientIds : c \in since \/ asked[c] # {} => Known(clients, c)
      /\ \A i \in 1 .. Len(clients) : SlotSound(clients, i, since, departed, asked)
  BY DEF BrokerInv
<1>1. PICK e : e = [client_id |-> id, connected |-> TRUE, subscriptions |-> <<>>]
  OBVIOUS
<1>2. /\ clients' = Append(clients, e) /\ since' = since \cup {id} /\ departed' = departed /\ asked' = asked
      /\ Len(clients) < MaxClients
  BY <1>1 DEF mqtt_broker_connect
<1>3. e \in SlotSet /\ e.client_id = id /\ DOMAIN e.subscriptions = {} /\ e.connected
  BY <1>1, NewSlot
<1>4. PICK n, s : n = Len(clients) /\ s = Append(clients, e)
  OBVIOUS
<1>5. n \in Nat /\ s \in Seq(SlotSet) /\ Len(s) = n + 1 /\ s[n + 1] = e /\ \A i \in 1 .. n : s[i] = clients[i]
  BY <1>0, <1>3, <1>4
<1>6. /\ \A i \in 1 .. Len(s) : i \in 1 .. n \/ i = n + 1
      /\ \A i \in 1 .. n : i \in 1 .. Len(s) /\ i < n + 1
      /\ n + 1 \in 1 .. Len(s)
  BY <1>5
<1>7. ASSUME NEW i \in 1 .. n PROVE SlotSound(s, i, since', departed', asked')
  <2>1. SlotSound(clients, i, since, departed, asked) /\ s[i] = clients[i]
    BY <1>0, <1>4, <1>5
  <2>2. \A j \in 1 .. Len(s) : j < i => j \in 1 .. n
    BY <1>5
  <2>3. Leads(s, i) <=> Leads(clients, i)
    BY <1>4, <1>5, <1>6, <2>2 DEF Leads
  <2>4. ASSUME Suits(clients[i], since, departed, asked) PROVE Suits(s[i], since', departed', asked')
    BY <1>2, <2>1, <2>4 DEF Suits
  <2> QED
    BY <2>1, <2>3, <2>4 DEF SlotSound
<1>8. SlotSound(s, n + 1, since', departed', asked')
  <2>1. ASSUME Leads(s, n + 1) PROVE asked[id] = {}
    <3>1. \A j \in 1 .. n : clients[j].client_id # id
      BY <1>3, <1>5, <1>6, <2>1 DEF Leads
    <3>2. ~ Known(clients, id)
      BY <1>4, <3>1 DEF Known
    <3> QED
      BY <1>0, <3>2
  <2> QED
    BY <1>2, <1>3, <1>5, <2>1 DEF SlotSound, Suits
<1>9. \A c \in ClientIds : c \in since' \/ asked'[c] # {} => Known(s, c)
  <2>1. Known(s, id)
    BY <1>3, <1>5, <1>6 DEF Known
  <2>2. \A c \in ClientIds : Known(clients, c) => Known(s, c)
    BY <1>4, <1>5, <1>6 DEF Known
  <2> QED
    BY <1>0, <1>2, <2>1, <2>2
<1>10. Len(s) <= MaxClients
  BY <1>2, <1>4, <1>5, MqttAssumption
<1> QED
  BY <1>0, <1>2, <1>4, <1>5, <1>6, <1>7, <1>8, <1>9, <1>10 DEF BrokerInv

Elsewhere(id, sn, dp, as, sn2, dp2, as2) ==
  \A c \in ClientIds : c # id => (c \in sn => c \in sn2) /\ (c \in dp => c \in dp2) /\ as2[c] = as[c]

AllSound(s, sn, dp, as) == \A i \in 1 .. Len(s) : SlotSound(s, i, sn, dp, as)
Keeps(s, b, sn, dp, as) ==
  /\ b \in Seq(SlotSet) /\ Len(b) = Len(s)
  /\ \A i \in 1 .. Len(b) : SlotSound(b, i, sn, dp, as)
  /\ \A c : Known(s, c) => Known(b, c)

(* The first slot of a client is changed, and with it what is said of it.    *)
LEMMA SlotChanged ==
  ASSUME NEW s \in Seq(SlotSet), NEW f \in 1 .. Len(s), NEW e \in SlotSet, e.client_id = s[f].client_id,
         Leads(s, f), NEW b, b = [s EXCEPT ![f] = e],
         NEW sn, NEW dp, NEW as, AllSound(s, sn, dp, as),
         NEW sn2, NEW dp2, NEW as2,
         Elsewhere(s[f].client_id, sn, dp, as, sn2, dp2, as2), Suits(e, sn2, dp2, as2)
  PROVE  Keeps(s, b, sn2, dp2, as2)
<1>0. Len(s) \in Nat /\ \A i \in 1 .. Len(s) : SlotSound(s, i, sn, dp, as)
  <2>1. Len(s) \in Nat
    OBVIOUS
  <2>2. \A i \in 1 .. Len(s) : SlotSound(s, i, sn, dp, as)
    BY Zenon DEF AllSound
  <2> QED
    BY <2>1, <2>2, Zenon
<1>1. b \in Seq(SlotSet) /\ Replaced(b, s, f, e)
  BY ReplaceIs
<1>2. Len(b) = Len(s) /\ b[f] = e /\ \A i \in 1 .. Len(s) : b[i].client_id = s[i].client_id /\ (i # f => b[i] = s[i])
  BY <1>1 DEF Replaced
<1>3. \A i \in 1 .. Len(s) : Leads(b, i) <=> Leads(s, i)
  BY <1>2 DEF Leads
<1>4. ASSUME NEW i \in 1 .. Len(s) PROVE SlotSound(b, i, sn2, dp2, as2)
  <2>1. CASE i = f
    BY <1>2, <1>3, <2>1 DEF SlotSound
  <2>2. CASE i # f
    <3>1. b[i] = s[i] /\ SlotSound(s, i, sn, dp, as)
      BY <1>0, <1>2, <2>2
    <3>2. ASSUME Leads(s, i) PROVE s[i].client_id # s[f].client_id
      BY <1>0, <2>2, <3>2 DEF Leads
    <3>3. s[i].client_id \in ClientIds
      <4>1. s[i] \in SlotSet
        OBVIOUS
      <4> QED
        BY <4>1, SlotHas
    <3>4. ASSUME Leads(s, i) PROVE Suits(s[i], sn2, dp2, as2)
      BY <3>1, <3>2, <3>3, <3>4 DEF SlotSound, Suits, Elsewhere
    <3>5. ASSUME ~ Leads(s, i) PROVE DOMAIN s[i].subscriptions = {}
      BY <3>1, <3>5 DEF SlotSound
    <3> QED
      BY <1>3, <3>1, <3>4, <3>5 DEF SlotSound
  <2> QED
    BY <2>1, <2>2
<1>5. \A c : Known(s, c) => Known(b, c)
  BY <1>2 DEF Known
<1> QED
  BY <1>1, <1>2, <1>4, <1>5 DEF Keeps

LEMMA DisconnectSlotStep ==
  ASSUME BrokerInv, NEW id \in ClientIds, mqtt_broker_disconnect(id)
  PROVE  BrokerInv'
<1>0. /\ clients \in Seq(SlotSet) /\ Len(clients) \in Nat /\ Len(clients) <= MaxClients
      /\ asked = [c \in ClientIds |-> asked[c]]
      /\ \A c \in ClientIds : c \in since \/ asked[c] # {} => Known(clients, c)
      /\ \A i \in 1 .. Len(clients) : SlotSound(clients, i, since, departed, asked)
  BY DEF BrokerInv
<1>1. PICK f : f = Min(SlotsOf(id))
  OBVIOUS
<1>2. /\ f \in 1 .. Len(clients) /\ clients[f].client_id = id
      /\ \A j \in 1 .. Len(clients) : j < f => clients[j].client_id # id
  BY <1>1, FirstSlot DEF mqtt_broker_disconnect
<1>3. PICK e : e = [clients[f] EXCEPT !.connected = FALSE]
  OBVIOUS
<1>4. /\ clients' = [clients EXCEPT ![f] = e] /\ since' = since \ {id} /\ departed' = departed \cup {id}
      /\ asked' = asked
  BY <1>1, <1>3 DEF mqtt_broker_disconnect
<1>5. /\ e \in SlotSet /\ e.client_id = clients[f].client_id /\ e.subscriptions = clients[f].subscriptions
      /\ ~ e.connected
  <2>1. clients[f] \in SlotSet
    BY <1>0, <1>2
  <2> QED
    BY <1>3, <2>1, SlotLeft
<1>6. Leads(clients, f) /\ SlotSound(clients, f, since, departed, asked)
  BY <1>0, <1>2 DEF Leads
<1>7. Elsewhere(clients[f].client_id, since, departed, asked, since', departed', asked')
  BY <1>2, <1>4 DEF Elsewhere
<1>8. Suits(e, since', departed', asked')
  BY <1>2, <1>4, <1>5, <1>6 DEF SlotSound, Suits
<1>9. /\ clients' \in Seq(SlotSet) /\ Len(clients') = Len(clients)
      /\ \A i \in 1 .. Len(clients') : SlotSound(clients', i, since', departed', asked')
      /\ \A c : Known(clients, c) => Known(clients', c)
  <2>1. AllSound(clients, since, departed, asked)
    BY <1>0 DEF AllSound
  <2>2. Keeps(clients, clients', since', departed', asked')
    <3>1. PICK b, sn2, dp2, as2 : b = clients' /\ sn2 = since' /\ dp2 = departed' /\ as2 = asked'
      OBVIOUS
    <3>2. clients \in Seq(SlotSet) /\ f \in 1 .. Len(clients) /\ e \in SlotSet
      BY <1>0, <1>2, <1>5
    <3>3. e.client_id = clients[f].client_id /\ Leads(clients, f) /\ b = [clients EXCEPT ![f] = e]
      BY <1>4, <1>5, <1>6, <3>1
    <3>4. Elsewhere(clients[f].client_id, since, departed, asked, sn2, dp2, as2) /\ Suits(e, sn2, dp2, as2)
      BY <1>7, <1>8, <3>1
    <3>5. Keeps(clients, b, sn2, dp2, as2)
      BY <2>1, <3>2, <3>3, <3>4, SlotChanged
    <3> QED
      BY <3>1, <3>5
  <2> QED
    BY <2>2 DEF Keeps
<1> QED
  BY <1>0, <1>4, <1>7, <1>9 DEF BrokerInv

LEMMA SubscribeSlotStep ==
  ASSUME BrokerInv, NEW id \in ClientIds, NEW filter \in Filters, mqtt_broker_subscribe(id, filter)
  PROVE  BrokerInv'
<1>0. /\ clients \in Seq(SlotSet) /\ Len(clients) \in Nat /\ Len(clients) <= MaxClients
      /\ asked = [c \in ClientIds |-> asked[c]]
      /\ \A c \in ClientIds : c \in since \/ asked[c] # {} => Known(clients, c)
      /\ \A i \in 1 .. Len(clients) : SlotSound(clients, i, since, departed, asked)
  BY DEF BrokerInv
<1>1. PICK f : f = Min(SlotsOf(id))
  OBVIOUS
<1>2. /\ f \in 1 .. Len(clients) /\ clients[f].client_id = id
      /\ \A j \in 1 .. Len(clients) : j < f => clients[j].client_id # id
  BY <1>1, FirstSlot DEF mqtt_broker_subscribe
<1>3. PICK e : e = Subscribed(clients[f], filter)
  OBVIOUS
<1>4. /\ clients' = [clients EXCEPT ![f] = e] /\ since' = since /\ departed' = departed
      /\ asked' = [asked EXCEPT ![id] = @ \cup {filter}]
  BY <1>1, <1>3 DEF mqtt_broker_subscribe
<1>5. /\ e \in SlotSet /\ e.client_id = clients[f].client_id /\ e.connected = clients[f].connected
      /\ \A k \in DOMAIN e.subscriptions :
           \/ e.subscriptions[k] = filter
           \/ \E j \in DOMAIN clients[f].subscriptions : e.subscriptions[k] = clients[f].subscriptions[j]
      /\ ~ (Len(clients[f].subscriptions) < MaxSubs) => e = clients[f]
      /\ Len(clients[f].subscriptions) < MaxSubs =>
           /\ \E k \in DOMAIN e.subscriptions : e.subscriptions[k] = filter
           /\ \A j \in DOMAIN clients[f].subscriptions :
                \E k \in DOMAIN e.subscriptions : e.subscriptions[k] = clients[f].subscriptions[j]
  <2>1. clients[f] \in SlotSet
    BY <1>0, <1>2
  <2> QED
    BY <1>3, <2>1, SlotAsked
<1>6. Leads(clients, f) /\ SlotSound(clients, f, since, departed, asked)
  BY <1>0, <1>2 DEF Leads
<1>7. /\ asked' = [c \in ClientIds |-> asked'[c]] /\ asked'[id] = asked[id] \cup {filter}
      /\ Elsewhere(clients[f].client_id, since, departed, asked, since', departed', asked')
  BY <1>0, <1>2, <1>4 DEF Elsewhere
<1>8. Suits(e, since', departed', asked')
  <2>1. Suits(clients[f], since, departed, asked)
    BY <1>6 DEF SlotSound
  <2>2. \A x \in asked'[id] : \/ ~ (Len(e.subscriptions) < MaxSubs)
                             \/ \E k \in DOMAIN e.subscriptions : e.subscriptions[k] = x
    <3>1. CASE Len(clients[f].subscriptions) < MaxSubs
      BY <1>2, <1>5, <1>7, <2>1, <3>1 DEF Suits
    <3>2. CASE ~ (Len(clients[f].subscriptions) < MaxSubs)
      BY <1>5, <3>2
    <3> QED
      BY <3>1, <3>2
  <2>3. \A k \in DOMAIN e.subscriptions : e.subscriptions[k] \in asked'[id]
    BY <1>2, <1>5, <1>7, <2>1 DEF Suits
  <2> QED
    BY <1>2, <1>4, <1>5, <2>1, <2>2, <2>3 DEF Suits
<1>10. /\ clients' \in Seq(SlotSet) /\ Len(clients') = Len(clients)
       /\ \A i \in 1 .. Len(clients') : SlotSound(clients', i, since', departed', asked')
       /\ \A c : Known(clients, c) => Known(clients', c)
  <2>1. AllSound(clients, since, departed, asked)
    BY <1>0 DEF AllSound
  <2>2. Keeps(clients, clients', since', departed', asked')
    <3>1. PICK b, sn2, dp2, as2 : b = clients' /\ sn2 = since' /\ dp2 = departed' /\ as2 = asked'
      OBVIOUS
    <3>2. clients \in Seq(SlotSet) /\ f \in 1 .. Len(clients) /\ e \in SlotSet
      BY <1>0, <1>2, <1>5
    <3>3. e.client_id = clients[f].client_id /\ Leads(clients, f) /\ b = [clients EXCEPT ![f] = e]
      BY <1>4, <1>5, <1>6, <3>1
    <3>4. Elsewhere(clients[f].client_id, since, departed, asked, sn2, dp2, as2) /\ Suits(e, sn2, dp2, as2)
      BY <1>7, <1>8, <3>1
    <3>5. Keeps(clients, b, sn2, dp2, as2)
      BY <2>1, <3>2, <3>3, <3>4, SlotChanged
    <3> QED
      BY <3>1, <3>5
  <2> QED
    BY <2>2 DEF Keeps
<1>11. \A c \in ClientIds : c \in since' \/ asked'[c] # {} => Known(clients', c)
  <2>1. Known(clients, id)
    BY <1>2 DEF Known
  <2>2. \A c \in ClientIds : c # id => asked'[c] = asked[c]
    BY <1>0, <1>4
  <2> QED
    BY <1>0, <1>4, <1>10, <2>1, <2>2
<1> QED
  BY <1>0, <1>4, <1>7, <1>10, <1>11 DEF BrokerInv

LEMMA BrokerStarts == mqtt_broker_init => BrokerInv
BY MqttAssumption DEF mqtt_broker_init, BrokerInv

LEMMA BrokerStep == ASSUME BrokerInv, BrokerNext PROVE BrokerInv'
BY ConnectSlotStep, DisconnectSlotStep, SubscribeSlotStep DEF BrokerNext

(* The slots that take a publication are the first of their clients.         *)
LEMMA TakersLead ==
  ASSUME BrokerInv, NEW topic, NEW i \in 1 .. Len(clients), Takes(clients[i], topic)
  PROVE  /\ Leads(clients, i) /\ clients[i].client_id \in since
         /\ \E filter \in asked[clients[i].client_id] : mqtt_topic_match(filter, topic)
<1>1. SlotSound(clients, i, since, departed, asked)
  BY DEF BrokerInv
<1>2. PICK j \in DOMAIN clients[i].subscriptions : mqtt_topic_match(clients[i].subscriptions[j], topic)
  BY DEF Takes
<1>3. Leads(clients, i)
  BY <1>1, <1>2 DEF SlotSound
<1> QED
  BY <1>1, <1>2, <1>3 DEF SlotSound, Suits, Takes

(* And the first slot of a client that has not left takes what it asked for.  *)
LEMMA LeadersTake ==
  ASSUME BrokerInv, NEW topic, NEW c \in ClientIds \ departed, c \in since, Room(c),
         NEW filter \in asked[c], mqtt_topic_match(filter, topic)
  PROVE  \E f \in 1 .. Len(clients) : clients[f].client_id = c /\ Takes(clients[f], topic)
<1>1. SlotsOf(c) # {} /\ DOMAIN clients = 1 .. Len(clients)
  <2>1. Known(clients, c) /\ DOMAIN clients = 1 .. Len(clients)
    BY DEF BrokerInv
  <2> QED
    BY <2>1 DEF Known, SlotsOf
<1>2. PICK f : f = Min(SlotsOf(c))
  OBVIOUS
<1>3. /\ f \in 1 .. Len(clients) /\ clients[f].client_id = c
      /\ \A j \in 1 .. Len(clients) : j < f => clients[j].client_id # c
  BY <1>1, <1>2, FirstSlot
<1>4. Suits(clients[f], since, departed, asked)
  <2>1. Leads(clients, f)
    BY <1>3 DEF Leads
  <2>2. SlotSound(clients, f, since, departed, asked)
    BY <1>3 DEF BrokerInv
  <2> QED
    BY <2>1, <2>2 DEF SlotSound
<1>5. Len(clients[f].subscriptions) < MaxSubs
  BY <1>1, <1>3 DEF Room, SlotsOf
<1>6. clients[f].connected /\ \E k \in DOMAIN clients[f].subscriptions : clients[f].subscriptions[k] = filter
  BY <1>3, <1>4, <1>5 DEF Suits
<1>7. Takes(clients[f], topic)
  BY <1>6 DEF Takes
<1> QED
  BY <1>3, <1>7

LEMMA BrokerImplies == BrokerInv => TargetsRight
<1> SUFFICES ASSUME BrokerInv, NEW topic \in Topics
             PROVE  LET targets == mqtt_broker_handle_publish(topic, MaxClients)
                        Wants(c) == c \in since /\ \E filter \in asked[c] : mqtt_topic_match(filter, topic)
                    IN  /\ IsInjective(targets)
                        /\ \A k \in DOMAIN targets : Wants(targets[k])
                        /\ \A c \in ClientIds \ departed :
                             Wants(c) /\ Room(c) => \E k \in DOMAIN targets : targets[k] = c
  BY DEF TargetsRight
<1>0. clients \in Seq(SlotSet) /\ DOMAIN clients = 1 .. Len(clients) /\ Len(clients) \in Nat
  BY DEF BrokerInv
<1>1. PICK T : T = {i \in DOMAIN clients : Takes(clients[i], topic)}
  OBVIOUS
<1>2. PICK n : n = Min({Cardinality(T), MaxClients})
  OBVIOUS
<1>3. PICK targets : targets = mqtt_broker_handle_publish(topic, MaxClients)
  OBVIOUS
<1>4. targets = [k \in 1 .. n |-> clients[Nth(T, k)].client_id]
  BY <1>1, <1>2, <1>3 DEF mqtt_broker_handle_publish, Nth
<1>5. Places(T) /\ Cardinality(T) \in Nat /\ \A i \in T : i \in 1 .. Len(clients) /\ Takes(clients[i], topic)
  <2>1. T \subseteq 1 .. Len(clients)
    BY <1>0, <1>1
  <2> QED
    BY <1>0, <1>1, <2>1, PlacesOf
<1>6. n \in Nat /\ n = Cardinality(T)
  <2>1. PICK c : c = Cardinality(T)
    OBVIOUS
  <2>2. c \in Nat /\ MaxClients \in Nat /\ n = Min({c, MaxClients})
    BY <1>2, <1>5, <2>1, MqttAssumption
  <2>3. \E x \in {c, MaxClients} : \A y \in {c, MaxClients} : x <= y
    BY <2>2
  <2>4. n \in {c, MaxClients} /\ \A y \in {c, MaxClients} : n <= y
    BY <2>2, <2>3 DEF Min
  <2>5. c <= MaxClients
    <3>1. T \subseteq 1 .. Len(clients)
      BY <1>0, <1>1
    <3>2. c <= Len(clients)
      BY <1>0, <2>1, <3>1, PlacesOf
    <3>3. Len(clients) <= MaxClients
      BY DEF BrokerInv
    <3> QED
      BY <1>0, <2>2, <3>2, <3>3
  <2> QED
    BY <2>1, <2>2, <2>4, <2>5
<1>7. \A k \in 1 .. n : k \in 1 .. Cardinality(T)
  BY <1>5, <1>6
<1>8. \A k \in 1 .. n : Nth(T, k) \in T
  BY <1>5, <1>7, NthIs
<1>9. ASSUME NEW j \in 1 .. n, NEW k \in 1 .. n, targets[j] = targets[k] PROVE j = k
  <2>1. PICK p, q : p = Nth(T, j) /\ q = Nth(T, k)
    OBVIOUS
  <2>2. /\ p \in 1 .. Len(clients) /\ q \in 1 .. Len(clients)
        /\ Leads(clients, p) /\ Leads(clients, q) /\ clients[p].client_id = clients[q].client_id
    BY <1>4, <1>5, <1>8, <1>9, <2>1, TakersLead
  <2>3. ~ (p < q) /\ ~ (q < p)
    BY <2>2 DEF Leads
  <2>4. p = q
    BY <1>0, <2>2, <2>3
  <2>5. (j < k => p < q) /\ (k < j => q < p)
    BY <1>5, <1>7, <2>1, NthGrows
  <2> QED
    BY <1>6, <2>3, <2>5
<1>10. ASSUME NEW k \in 1 .. n
       PROVE  targets[k] \in since /\ \E filter \in asked[targets[k]] : mqtt_topic_match(filter, topic)
  BY <1>4, <1>5, <1>8, TakersLead
<1>11. DOMAIN targets = 1 .. n
  BY <1>4
<1>12. ASSUME NEW c \in ClientIds \ departed, c \in since, Room(c),
              NEW filter \in asked[c], mqtt_topic_match(filter, topic)
       PROVE  \E k \in DOMAIN targets : targets[k] = c
  <2>1. PICK f \in 1 .. Len(clients) : clients[f].client_id = c /\ Takes(clients[f], topic)
    BY <1>12, LeadersTake
  <2>2. f \in T
    BY <1>0, <1>1, <2>1
  <2>3. PICK k : k = Rank(T, f) + 1
    OBVIOUS
  <2>4. k \in 1 .. Cardinality(T) /\ Nth(T, k) = f
    BY <1>5, <2>2, <2>3, NthOfRank
  <2>5. k \in DOMAIN targets /\ targets[k] = c
    BY <1>4, <1>6, <2>1, <2>4
  <2> QED
    BY <2>5
<1> QED
  BY <1>3, <1>9, <1>10, <1>11, <1>12 DEF IsInjective

LEMMA MqttKeeps == QosInv /\ BrokerInv /\ [MqttNext]_mqttVars => QosInv' /\ BrokerInv'
<1> SUFFICES ASSUME QosInv, BrokerInv, [MqttNext]_mqttVars PROVE QosInv' /\ BrokerInv'
  OBVIOUS
<1>1. ASSUME UNCHANGED qosVars PROVE QosInv'
  BY <1>1 DEF qosVars, QosInv
<1>2. ASSUME UNCHANGED brokerVars PROVE BrokerInv'
  BY <1>2 DEF brokerVars, BrokerInv
<1>3. CASE QosNext
  <2>1. UNCHANGED brokerVars
    BY <1>3 DEF QosNext, mqtt_qos_get_next_action, mqtt_qos_track_outgoing, mqtt_qos_track_incoming,
        mqtt_qos_handle_puback, mqtt_qos_handle_pubrec, mqtt_qos_handle_pubrel, mqtt_qos_handle_pubcomp, mqtt_qos_remove
  <2> QED
    BY <1>2, <1>3, <2>1, QosStep
<1>4. CASE BrokerNext
  <2>1. UNCHANGED qosVars
    BY <1>4 DEF BrokerNext, mqtt_broker_connect, mqtt_broker_disconnect, mqtt_broker_subscribe
  <2> QED
    BY <1>1, <1>4, <2>1, BrokerStep
<1>5. CASE UNCHANGED mqttVars
  BY <1>1, <1>2, <1>5 DEF mqttVars
<1> QED
  BY <1>3, <1>4, <1>5 DEF MqttNext

(* mqtt.c: an id the publisher counts as complete has had a message passed on, *)
(* one of quality 2 once, and a publication goes once to each client that     *)
(* stayed connected and asked for it, for any number of messages, of ids they *)
(* share, of clients and of slots, whatever the network loses, repeats and    *)
(* reorders.  The exceptions are those of CompleteIsDelivered (what the       *)
(* receiver removed) and TargetsRight (a client that left, a full table).     *)
THEOREM MqttCorrect == MqttSpec => []MqttDelivers
<1>1. MqttInit => QosInv /\ BrokerInv
  BY QosStarts, BrokerStarts DEF MqttInit
<1>2. QosInv /\ BrokerInv => MqttDelivers
  BY QosImplies, BrokerImplies DEF MqttDelivers
<1> QED
  BY <1>1, <1>2, MqttKeeps, PTL DEF MqttSpec
=============================================================================
