-------------------------------- MODULE MCRpc --------------------------------
(***************************************************************************)
(* The parts of mini-rpc-framework, and MQTT delivery of mini-app-protocol,  *)
(* for TLC.  The stub runs over the registry; the other parts                *)
(* share no state, so a behaviour exercises one of them, named by part.      *)
(***************************************************************************)
EXTENDS RpcServer, RpcTransport, RpcStub, Mqtt

VARIABLE part

allVars == <<part, vars, clientVars, poolVars, chainVars, streamVars, mqttVars>>

(* The constants of the configuration: no worker or one, three connections   *)
(* through a small ring; here two workers, and one connection for both.      *)
WORKERS == INSTANCE RpcServer WITH WorkerCounts <- {2}, MaxConnections <- 1

(* The stub of the configuration has two instances of one service, for two   *)
(* calls; here the registry has two services, and the calls, from an instance *)
(* that stays, have callbacks inside callbacks and a clock that wraps.       *)
REGISTRY == INSTANCE RpcStub WITH Services <- {"s", "t"}, Hosts <- {"a"}, MaxCalls <- 0
CALLS    == INSTANCE RpcStub WITH
              MaxInstances <- 1, StubConnections <- 1, MaxContexts <- 3, Timeout <- 1,
              Period <- 4, TickLength <- 1, MaxCalls <- 3, MaxDepth <- 2
CallsInit ==
  /\ CALLS!rpc_stub_init
  /\ services = <<[name |-> "s", methods |-> <<>>,
                   instances |-> <<[addr |-> "a", healthy |-> TRUE, age |-> 0]>>]>>
  /\ dispatch_table = <<>> /\ cursor = 0

(* MQTT: two messages of quality 2 under one id, and one of quality 1, in     *)
(* managers of two trackers; here two messages, each with its own id, in     *)
(* managers of three.  Filters and topics, by their characters.              *)
QOS == INSTANCE Mqtt WITH Messages <- {1, 2}, MaxTrackers <- 3
MCIdOf    == <<1, 2, 2>>
MCQos     == <<1, 2, 2>>
MCFilters == {<<"a", "/", "+">>, <<"#">>}
MCTopics  == {<<"a", "/", "b">>, <<"a">>}

MCInit ==
  /\ part \in {"server", "workers", "routing", "registry", "calls", "pool", "chain", "stream",
               "mqtt", "reuse", "broker"}
  /\ IF part = "workers" THEN WORKERS!Init ELSE Init
  /\ part \notin {"server", "workers"} => slots = <<>>
  /\ IF part = "calls" THEN CallsInit ELSE StubInit
  /\ rpc_transport_init /\ interceptor_chain_init
  /\ rpc_proto_session_init /\ MqttInit

MCNext ==
  \/ /\ \/ part = "server" /\ Next
        \/ part = "workers" /\ WORKERS!Next
     /\ UNCHANGED <<part, clientVars, poolVars, chainVars, streamVars, mqttVars>>
  \/ /\ \/ part = "routing" /\ StubNext
        \/ part = "registry" /\ REGISTRY!StubNext
        \/ part = "calls" /\ CALLS!Stub
     /\ UNCHANGED <<part, vars, poolVars, chainVars, streamVars, mqttVars>>
  \/ /\ part = "pool" /\ PoolNext
     /\ UNCHANGED <<part, vars, clientVars, chainVars, streamVars, mqttVars>>
  \/ /\ part = "chain" /\ ChainNext
     /\ UNCHANGED <<part, vars, clientVars, poolVars, streamVars, mqttVars>>
  \/ /\ part = "stream" /\ StreamNext
     /\ UNCHANGED <<part, vars, clientVars, poolVars, chainVars, mqttVars>>
  \/ /\ \/ part = "mqtt" /\ QOS!QosNext
        \/ part = "reuse" /\ QosNext
        \/ part = "broker" /\ BrokerNext
     /\ UNCHANGED <<part, vars, clientVars, poolVars, chainVars, streamVars>>

(* The fairness of RpcServer: threads run; of clients nothing is assumed.    *)
ServerRuns == part \in {"server", "workers"} /\ Alive
ThreadsRun ==
  /\ WF_vars(ServerRuns /\ Loop)
  /\ WF_vars(ServerRuns /\ Shutdown)
  /\ \A t \in 1 .. 2 : WF_vars(ServerRuns /\ t \in DOMAIN wk /\ Worker(t))

MCSpec == MCInit /\ [][MCNext]_allVars /\ ThreadsRun

-----------------------------------------------------------------------------
(* Server: what is queued is dispatched, and a shutdown comes to its end, as  *)
(* long as no worker waits for ever for a silent client.                     *)
ServerProgress == RequestsServed /\ ShutdownEnds
==============================================================================
