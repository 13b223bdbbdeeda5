------------------------------ MODULE RpcStub -------------------------------
(***************************************************************************)
(* The registry of services of mini-rpc-framework, and the client stub     *)
(* that routes its calls through it.                                       *)
(***************************************************************************)
EXTENDS Sequences, SequencesExt, FiniteSets, Integers

-----------------------------------------------------------------------------
(***************************************************************************)
(* rpc_registry.c, the table of services and their instances, and the        *)
(* dispatch table that rpc_server.c keeps beside it.  Both are arrays that   *)
(* are searched from the front and closed up when an entry goes.  An         *)
(* instance's last_heartbeat is kept as its age in ticks, up to the first    *)
(* age that counts as stale.                                                 *)
(***************************************************************************)

CONSTANTS
  Services, Methods, Hosts,
  MaxServices,     \* RPC_MAX_SERVICES
  MaxInstances,    \* RPC_MAX_INSTANCES
  MaxDispatch,     \* the size of dispatch_table
  StaleAfter       \* RPC_HEALTH_INTERVAL_S * 3, in ticks

ASSUME RegistryAssumption ==
  /\ MaxServices \in Nat /\ MaxInstances \in Nat /\ MaxDispatch \in Nat /\ StaleAfter \in Nat

VARIABLES
  services,        \* reg->services with instances and instance_counts
  dispatch_table,  \* the method names of srv->dispatch_table
  cursor           \* the cursor of registry_lb_round_robin

regVars == <<services, dispatch_table, cursor>>

registry_init ==
  /\ services = <<>>
  /\ dispatch_table = <<>>
  /\ cursor = 0

find_service(name) == SelectInSeq(services, LAMBDA s : s.name = name)
InstancesOf(name) ==
  IF find_service(name) = 0 THEN <<>> ELSE services[find_service(name)].instances
find_instance(name, addr) == SelectInSeq(InstancesOf(name), LAMBDA i : i.addr = addr)
Healthy(name) == {i \in DOMAIN InstancesOf(name) : InstancesOf(name)[i].healthy}

(* The table after registry_register; a full table refuses known names too.  *)
Registered(name, methods) ==
  LET k == find_service(name) IN
  CASE Len(services) >= MaxServices -> services
    [] Len(services) < MaxServices /\ k > 0 -> [services EXCEPT ![k].methods = methods]
    [] OTHER -> Append(services, [name |-> name, methods |-> methods, instances |-> <<>>])

registry_register(name, methods) ==
  /\ services' = Registered(name, methods)
  /\ UNCHANGED <<dispatch_table, cursor>>

Unregistered(name) ==
  IF find_service(name) = 0 THEN services ELSE RemoveAt(services, find_service(name))

registry_unregister(name) ==
  /\ services' = Unregistered(name)
  /\ UNCHANGED <<dispatch_table, cursor>>

(* An unknown service is registered first; the same address may come twice.  *)
registry_add_instance(name, addr) ==
  LET table == IF find_service(name) = 0 THEN Registered(name, <<>>) ELSE services
      k     == SelectInSeq(table, LAMBDA s : s.name = name)
      full  == Len(table[k].instances) >= MaxInstances
      inst  == [addr |-> addr, healthy |-> TRUE, age |-> 0]
  IN  /\ services' = IF k = 0 \/ full THEN table
                     ELSE [table EXCEPT ![k].instances = Append(@, inst)]
      /\ UNCHANGED <<dispatch_table, cursor>>

registry_remove_instance(name, addr) ==
  /\ find_instance(name, addr) > 0
  /\ services' = [services EXCEPT ![find_service(name)].instances = RemoveAt(@, find_instance(name, addr))]
  /\ UNCHANGED <<dispatch_table, cursor>>

(* Only healthy instances, in order, out of the first max_out.               *)
registry_discover(name, max_out) ==
  LET all == InstancesOf(name) IN
  SelectSeq(SubSeq(all, 1, IF Len(all) < max_out THEN Len(all) ELSE max_out), LAMBDA i : i.healthy)

OnInstances(Op(_)) ==
  [k \in DOMAIN services |-> [services[k] EXCEPT !.instances = [i \in DOMAIN @ |-> Op(@[i])]]]

Checked(inst) == IF inst.age > StaleAfter THEN [inst EXCEPT !.healthy = FALSE] ELSE inst

registry_health_check ==
  /\ services' = OnInstances(Checked)
  /\ UNCHANGED <<dispatch_table, cursor>>

registry_heartbeat(name, addr) ==
  /\ find_instance(name, addr) > 0
  /\ services' = [services EXCEPT ![find_service(name)].instances[find_instance(name, addr)] =
                    [@ EXCEPT !.age = 0, !.healthy = TRUE]]
  /\ UNCHANGED <<dispatch_table, cursor>>

Older(inst) == [inst EXCEPT !.age = IF @ > StaleAfter THEN @ ELSE @ + 1]
TimePasses == services' = OnInstances(Older) /\ UNCHANGED <<dispatch_table, cursor>>

(* Positions count from 0 here, as the code's do.                            *)
registry_lb_round_robin(name) ==
  LET n    == Len(InstancesOf(name))
      turn == [a \in 0 .. n - 1 |-> ((cursor % n) + a) % n]
      hits == {a \in 0 .. n - 1 : turn[a] + 1 \in Healthy(name)}
  IN  /\ hits # {}
      /\ LET first == CHOOSE a \in hits : \A b \in hits : a <= b
         IN  cursor' = (turn[first] + 1) % n
      /\ UNCHANGED <<services, dispatch_table>>

(* The answers of registry_lb_weighted and registry_lb_select: any healthy    *)
(* instance, as rand() has it, or -1 for none; positions count from 1.       *)
registry_lb_weighted(name) == Healthy(name)
registry_lb_select(name) ==
  IF Cardinality(Healthy(name)) = 1 THEN Healthy(name) ELSE registry_lb_weighted(name)

(***************************************************************************)
(* The server's dispatch table.                                              *)
(***************************************************************************)
rpc_server_lookup_method(m) == SelectInSeq(dispatch_table, LAMBDA e : e = m)

rpc_server_register_service(name, m) ==
  /\ Len(dispatch_table) < MaxDispatch
  /\ services' = Registered(name, <<m>>)
  /\ dispatch_table' = Append(dispatch_table, m)
  /\ UNCHANGED cursor

rpc_server_unregister_service(name, m) ==
  /\ rpc_server_lookup_method(m) > 0
  /\ dispatch_table' = RemoveAt(dispatch_table, rpc_server_lookup_method(m))
  /\ services' = Unregistered(name)
  /\ UNCHANGED cursor

Registry ==
  \/ \E s \in Services : \/ registry_register(s, <<>>) \/ registry_unregister(s)
                         \/ registry_lb_round_robin(s)
                         \/ \E a \in Hosts : \/ registry_add_instance(s, a)
                                                 \/ registry_remove_instance(s, a)
                                                 \/ registry_heartbeat(s, a)
                         \/ \E m \in Methods : \/ rpc_server_register_service(s, m)
                                               \/ rpc_server_unregister_service(s, m)
  \/ registry_health_check
  \/ TimePasses

-----------------------------------------------------------------------------
(* registry_register and registry_health_check: a service has one entry, so   *)
(* that its instances are found together, and an instance is out of rotation *)
(* only after a whole silent interval, however the entries have shifted.     *)
RegistrySound ==
  /\ \A j, k \in DOMAIN services : services[j].name = services[k].name => j = k
  /\ \A k \in DOMAIN services : \A i \in DOMAIN services[k].instances :
       ~ services[k].instances[i].healthy => services[k].instances[i].age > StaleAfter

-----------------------------------------------------------------------------
(***************************************************************************)
(* rpc_stub.c over the registry and the client side of rpc_transport.c: a    *)
(* stub finds an instance, connects, sends a request and waits for the       *)
(* response; an asynchronous call also leaves a context behind, which        *)
(* stub_timeout_handle times out and clears away.                            *)
(*                                                                           *)
(* The clock of the contexts is time(NULL) * 1000 in 32 bits: it counts      *)
(* Period milliseconds and its upper half is negative.  A send, a receive    *)
(* and the decoding of a response succeed or fail as the peer has it.        *)
(*                                                                           *)
(* Callbacks run inside stub_async_call and stub_timeout_handle and may call *)
(* the stub again.  frames is the stack of those that are running: a call    *)
(* waits with its context in slot, a sweep with the loop at slot.            *)
(***************************************************************************)

CONSTANTS
  Service,         \* the stub's service
  StubConnections,  \* RPC_MAX_CONNECTIONS
  MaxContexts,     \* the size of g_async_contexts
  Timeout,         \* stub->timeout_ms
  Period,          \* 2^32 milliseconds
  TickLength,      \* the milliseconds of one tick
  MaxCalls,        \* a bound on the calls of a behaviour
  MaxDepth         \* a bound on the callbacks that run inside each other

ASSUME StubAssumption ==
  /\ StubConnections \in Nat /\ MaxContexts \in Nat /\ Timeout \in Nat
  /\ Period \in Nat \ {0} /\ TickLength \in Nat /\ MaxCalls \in Nat /\ MaxDepth \in Nat

VARIABLES
  transport,       \* transport->connections, and the stub's active_conn, 0 for none
  contexts,        \* g_async_contexts: all of the array
  async_count,     \* g_async_count: those in use
  frames,          \* the callbacks that are running, the innermost last
  disturbed,       \* history: a callback called the stub where that does harm
  calls,           \* stub->call_id_counter
  called,          \* for each call, the answers or callbacks it has had
  clock

callVars == <<contexts, async_count, frames, disturbed>>
stubVars == <<transport, callVars, calls, called, clock>>
clientVars == <<regVars, stubVars>>

rpc_stub_init ==
  /\ transport = [conns |-> <<>>, active |-> 0]
  /\ contexts = [i \in 1 .. MaxContexts |-> [id |-> 0, deadline |-> 0, completed |-> FALSE]]
  /\ async_count = 0 /\ frames = <<>> /\ disturbed = FALSE
  /\ calls = 0 /\ called = <<>> /\ clock = 0

(***************************************************************************)
(* Connecting, as what may become of a transport.  The position chosen among *)
(* all instances is used as a position in the list of the healthy ones.  A   *)
(* connection that was closed is never used again, so that a transport       *)
(* makes MaxConnections of them and then no more.                            *)
(***************************************************************************)
Connecting(t, addr) ==
  [conns |-> Append(t.conns, [addr |-> addr, connected |-> TRUE]), active |-> Len(t.conns) + 1]

resolve_connection(t) ==
  LET found == registry_discover(Service, MaxInstances) IN
  {Connecting(t, found[i].addr) :
     i \in {j \in registry_lb_select(Service) : j <= Len(found) /\ Len(t.conns) < StubConnections}}

Connected(t) == t.active # 0 /\ t.conns[t.active].connected
Ready(t) == IF Connected(t) THEN {t} ELSE resolve_connection(t)

(* Close, and try for another connection, which may be refused.              *)
stub_reconnect(t) ==
  LET c == [conns |-> [t.conns EXCEPT ![t.active].connected = FALSE], active |-> 0]
  IN  {c} \cup resolve_connection(c)

(* A send or a receive that fails costs the connection; a response that does *)
(* not decode does not.                                                      *)
stub_call ==
  /\ calls < MaxCalls
  /\ \E t \in Ready(transport) : transport' \in {t} \cup stub_reconnect(t)
  /\ calls' = calls + 1
  /\ called' = Append(called, 1)
  /\ UNCHANGED <<regVars, callVars, clock>>

(***************************************************************************)
(* Asynchronous calls.                                                       *)
(***************************************************************************)
Signed(ms) == LET m == ms % Period IN IF m >= Period \div 2 THEN m - Period ELSE m

(* The response is awaited here.  A failed receive is an answer too, and the  *)
(* callback runs before the slot is counted; only a response that does not   *)
(* decode leaves the context open.  A call out of the callback of another    *)
(* call takes the same slot.                                                 *)
stub_async_call(answered) ==
  /\ calls < MaxCalls /\ async_count < MaxContexts
  /\ transport' \in Ready(transport)
  /\ calls' = calls + 1
  /\ contexts' = [contexts EXCEPT ![async_count + 1] =
                    [id |-> calls + 1, deadline |-> Signed(clock + Timeout), completed |-> FALSE]]
  /\ IF answered
       THEN /\ Len(frames) < MaxDepth
            /\ called' = Append(called, 1)
            /\ frames' = Append(frames, [type |-> "call", slot |-> async_count + 1, now |-> 0])
            /\ UNCHANGED async_count
       ELSE /\ called' = Append(called, 0)
            /\ async_count' = async_count + 1
            /\ UNCHANGED frames
  /\ disturbed' = (disturbed \/ \E k \in DOMAIN frames : frames[k].type = "call")
  /\ UNCHANGED <<regVars, clock>>

(* A completed one gives its place to the last context, and the place is      *)
(* looked at again: the open ones beyond the new count fill the gaps, the    *)
(* last of them the first gap.                                               *)
Compact(s) ==
  LET left  == {i \in DOMAIN s : ~ s[i].completed}
      count == Cardinality(left)
      gaps  == (1 .. count) \ left
      moved == left \ (1 .. count)
      Mover(g) == CHOOSE m \in moved :
                    Cardinality({k \in moved : k > m}) = Cardinality({h \in gaps : h < g})
  IN  [i \in 1 .. count |-> IF i \in left THEN s[i] ELSE s[Mover(i)]]

(* What is left beyond the count is only counted again after a disturbance.  *)
Refill(tab, kept) == [i \in 1 .. MaxContexts |-> IF i <= Len(kept) THEN kept[i] ELSE tab[i]]
Cleared(tab) ==
  LET kept == Compact(SubSeq(tab, 1, async_count))
  IN  contexts' = Refill(tab, kept) /\ async_count' = Len(kept)

Done(tab, k) == [tab EXCEPT ![k].completed = TRUE]

SweepsAnswered(tab, from, now, rest) == \* mutant: the callback of a completed call is called again
  LET due == {i \in from .. async_count : now > tab[i].deadline} IN
  \/ /\ due = {}
     /\ Cleared(tab)
     /\ frames' = rest
     /\ UNCHANGED called
  \/ \E i \in due :
       /\ \A j \in due : i <= j
       /\ tab[i].id # 0
       /\ called' = [called EXCEPT ![tab[i].id] = @ + 1]
       /\ contexts' = tab
       /\ frames' = Append(rest, [type |-> "sweep", slot |-> i, now |-> now])
       /\ UNCHANGED async_count

(* The loop of stub_timeout_handle over the table from a slot on: it calls    *)
(* the next callback that is due, or clears the contexts away and returns.   *)
(* The count is within the array unless it was disturbed, and so is the slot *)
(* that was never used, whose callback ends the program.                     *)
Sweeps(tab, from, now, rest) ==
  LET due == {i \in from .. async_count : ~ tab[i].completed /\ now > tab[i].deadline} IN
  \/ /\ due = {}
     /\ Cleared(tab)
     /\ frames' = rest
     /\ UNCHANGED called
  \/ \E i \in due :
       /\ \A j \in due : i <= j
       /\ tab[i].id # 0
       /\ called' = [called EXCEPT ![tab[i].id] = @ + 1]
       /\ contexts' = tab
       /\ frames' = Append(rest, [type |-> "sweep", slot |-> i, now |-> now])
       /\ UNCHANGED async_count

stub_timeout_handle ==
  /\ Len(frames) < MaxDepth /\ async_count <= MaxContexts
  /\ Sweeps(contexts, 1, Signed(clock), frames)
  /\ disturbed' = (disturbed \/ frames # <<>>)
  /\ UNCHANGED <<regVars, transport, calls, clock>>

(* The innermost callback returns to the call or to the loop that made it.   *)
CallbackReturns ==
  /\ frames # <<>> /\ async_count <= MaxContexts
  /\ LET f == Last(frames) IN
     \/ /\ f.type = "call"
        /\ contexts' = Done(contexts, f.slot)
        /\ async_count' = async_count + 1
        /\ frames' = Front(frames)
        /\ UNCHANGED called
     \/ f.type = "sweep" /\ Sweeps(Done(contexts, f.slot), f.slot + 1, f.now, Front(frames))
  /\ UNCHANGED <<regVars, transport, calls, clock, disturbed>>

ClockTicks ==
  /\ clock' = (clock + TickLength) % Period
  /\ UNCHANGED <<regVars, transport, callVars, calls, called>>

Stub ==
  \/ stub_call \/ (\E d \in BOOLEAN : stub_async_call(d))
  \/ stub_timeout_handle \/ CallbackReturns \/ ClockTicks
StubInit == registry_init /\ rpc_stub_init
StubNext == (Registry /\ UNCHANGED stubVars) \/ Stub

StubSpec == StubInit /\ [][StubNext]_clientVars

-----------------------------------------------------------------------------
(* stub_async_call and stub_timeout_handle: no callback is called twice, and  *)
(* a call that has had none is still among the contexts, however they have    *)
(* been moved about, while callbacks run and call the stub again.  Excepted   *)
(* are an asynchronous call or a sweep out of the callback of an asynchronous *)
(* call, whose slot is not counted yet, and a sweep out of that of a sweep.   *)
CallbackOnce ==
  ~ disturbed =>
    \A c \in DOMAIN called :
      /\ called[c] <= 1
      /\ called[c] = 0 => \E i \in 1 .. async_count : contexts[i].id = c /\ ~ contexts[i].completed

(* Registry and stub: one entry for every service, instances out of rotation  *)
(* for a reason, and one callback for every asynchronous call.               *)
StubSound == RegistrySound /\ CallbackOnce
=============================================================================
