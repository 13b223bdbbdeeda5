-------------------------------- MODULE Mqtt ---------------------------------
(***************************************************************************)
(* mini-app-protocol/src/mqtt.c: the delivery state machine, one manager at *)
(* a publisher and one at the receiver, and the broker's table of clients.  *)
(* The program around the managers is external: it sends what               *)
(* mqtt_qos_get_next_action asks for, tracks what arrives and answers it,   *)
(* over a network that loses, repeats and reorders packets, removes         *)
(* trackers when it likes, and gives an id to one message after another.  A *)
(* name (topic or filter) is a sequence of characters.                      *)
(***************************************************************************)
EXTENDS Integers, Sequences, SequencesExt, FiniteSets, FiniteSetsExt

CONSTANTS
  Messages,     \* each is published once
  PacketIds,
  IdOf,         \* the id a message is published under; several may have the same
  Qos,          \* their quality of service, 1 or 2
  MaxTrackers,  \* 64, the size of a manager
  MaxDelivered, \* bound on how often a message is passed on
  ClientIds,
  Filters,
  Topics,
  MaxClients,   \* MQTT_MAX_CLIENTS
  MaxSubs       \* MQTT_MAX_SUBS_PER_CLIENT

ASSUME MqttAssumption ==
  /\ \A m \in Messages : IdOf[m] \in PacketIds /\ Qos[m] \in {1, 2}
  /\ MaxTrackers \in Nat /\ MaxDelivered \in Nat /\ MaxClients \in Nat /\ MaxSubs \in Nat

VARIABLES
  sender, receiver, \* the trackers of the two managers
  packets,          \* every packet that was sent: any of them may arrive, never or often
  delivered,        \* how often the receiver has passed a message on
  shifted,          \* the ids of the trackers it has removed, or moved to do so
  forgotten,        \* the ids of those removed with their message not passed on
  clients,          \* the broker's slots
  since,            \* the clients that have connected and not disconnected
  departed,         \* the clients that have ever disconnected
  asked             \* what each has subscribed to

qosVars == <<sender, receiver, packets, delivered, shifted, forgotten>>
brokerVars == <<clients, since, departed, asked>>
mqttVars == <<qosVars, brokerVars>>

mqtt_qos_manager_init ==
  /\ sender = <<>> /\ receiver = <<>>
  /\ packets = {}
  /\ delivered = [m \in Messages |-> 0]
  /\ shifted = {} /\ forgotten = {}

(* The first tracker with the id, or 0.                                      *)
mqtt_qos_find(mgr, id) ==
  LET at == {i \in DOMAIN mgr : mgr[i].packet_id = id} IN IF at = {} THEN 0 ELSE Min(at)

StateOf(mgr, id) == IF mqtt_qos_find(mgr, id) = 0 THEN "IDLE" ELSE mgr[mqtt_qos_find(mgr, id)].state

mqtt_qos_is_complete(mgr, id) == StateOf(mgr, id) = "COMPLETE"

Moved(mgr, id, state) == [mgr EXCEPT ![mqtt_qos_find(mgr, id)].state = state]

(* A second tracker for an id that has one is not refused.                   *)
Tracked(mgr, m, state) == Append(mgr, [packet_id |-> IdOf[m], message |-> m, state |-> state])

(* A message is tracked and sent, under any id.                              *)
mqtt_qos_track_outgoing(m) ==
  /\ <<"PUBLISH", m>> \notin packets /\ Len(sender) < MaxTrackers
  /\ sender' = Tracked(sender, m, IF Qos[m] = 1 THEN "AWAITING_PUBACK" ELSE "AWAITING_PUBREC")
  /\ packets' = packets \cup {<<"PUBLISH", m>>}
  /\ UNCHANGED <<receiver, delivered, shifted, forgotten, brokerVars>>

(* The first tracker that is not complete asks for a packet.                 *)
mqtt_qos_get_next_action ==
  LET open == {i \in DOMAIN sender : sender[i].state # "COMPLETE"}
      t == sender[Min(open)]
  IN  /\ open # {}
      /\ packets' = packets \cup {IF t.state = "AWAITING_PUBCOMP" THEN <<"PUBREL", t.packet_id>>
                                  ELSE <<"PUBLISH", t.message>>}
      /\ UNCHANGED <<sender, receiver, delivered, shifted, forgotten, brokerVars>>

(* A PUBLISH arrives: a message of quality 1 is passed on and acknowledged,  *)
(* one of quality 2 waits for its PUBREL.  A full manager does not answer.   *)
mqtt_qos_track_incoming(m) ==
  /\ <<"PUBLISH", m>> \in packets /\ Len(receiver) < MaxTrackers
  /\ delivered[m] < MaxDelivered
  /\ receiver' = Tracked(receiver, m, IF Qos[m] = 1 THEN "COMPLETE" ELSE "AWAITING_PUBREL")
  /\ delivered' = IF Qos[m] = 1 THEN [delivered EXCEPT ![m] = @ + 1] ELSE delivered
  /\ packets' = packets \cup {<<IF Qos[m] = 1 THEN "PUBACK" ELSE "PUBREC", IdOf[m]>>}
  /\ UNCHANGED <<sender, shifted, forgotten, brokerVars>>

mqtt_qos_handle_puback(id) ==
  /\ <<"PUBACK", id>> \in packets /\ StateOf(sender, id) = "AWAITING_PUBACK"
  /\ sender' = Moved(sender, id, "COMPLETE")
  /\ UNCHANGED <<receiver, packets, delivered, shifted, forgotten, brokerVars>>

mqtt_qos_handle_pubrec(id) ==
  /\ <<"PUBREC", id>> \in packets /\ StateOf(sender, id) = "AWAITING_PUBREC"
  /\ sender' = Moved(sender, id, "AWAITING_PUBCOMP")
  /\ packets' = packets \cup {<<"PUBREL", id>>}
  /\ UNCHANGED <<receiver, delivered, shifted, forgotten, brokerVars>>

(* The message of the tracker that is found for the id.                      *)
MessageOf(mgr, id) == mgr[mqtt_qos_find(mgr, id)].message

(* Mutant: a repeated PUBREL releases the message again.                     *)
ReleasesAgain(id) ==
  /\ <<"PUBREL", id>> \in packets /\ mqtt_qos_find(receiver, id) # 0
  /\ receiver' = Moved(receiver, id, "COMPLETE")
  /\ delivered' = [delivered EXCEPT ![MessageOf(receiver, id)] = IF @ < 2 THEN @ + 1 ELSE @]
  /\ packets' = packets \cup {<<"PUBCOMP", id>>}
  /\ UNCHANGED <<sender, shifted, forgotten, brokerVars>>

(* The message is passed on when the handler returns 0; PUBREL is answered   *)
(* in any case.                                                              *)
mqtt_qos_handle_pubrel(id) ==
  /\ <<"PUBREL", id>> \in packets
  /\ IF StateOf(receiver, id) = "AWAITING_PUBREL"
     THEN /\ receiver' = Moved(receiver, id, "COMPLETE")
          /\ delivered' = [delivered EXCEPT ![MessageOf(receiver, id)] = @ + 1]
     ELSE UNCHANGED <<receiver, delivered>>
  /\ packets' = packets \cup {<<"PUBCOMP", id>>}
  /\ UNCHANGED <<sender, shifted, forgotten, brokerVars>>

mqtt_qos_handle_pubcomp(id) ==
  /\ <<"PUBCOMP", id>> \in packets /\ StateOf(sender, id) = "AWAITING_PUBCOMP"
  /\ sender' = Moved(sender, id, "COMPLETE")
  /\ UNCHANGED <<receiver, packets, delivered, shifted, forgotten, brokerVars>>

(* The last tracker takes the place of the removed one.                      *)
Without(mgr, id) == Front([mgr EXCEPT ![mqtt_qos_find(mgr, id)] = Last(mgr)])

(* A program may remove a tracker at either end, in any state.              *)
mqtt_qos_remove(id) ==
  /\ \/ /\ mqtt_qos_find(sender, id) # 0
        /\ sender' = Without(sender, id)
        /\ UNCHANGED <<receiver, shifted, forgotten>>
     \/ /\ mqtt_qos_find(receiver, id) # 0
        /\ receiver' = Without(receiver, id)
        /\ shifted' = shifted \cup {id, Last(receiver).packet_id}
        /\ forgotten' = IF mqtt_qos_is_complete(receiver, id) THEN forgotten ELSE forgotten \cup {id}
        /\ UNCHANGED sender
  /\ UNCHANGED <<packets, delivered, brokerVars>>

QosNext ==
  \/ mqtt_qos_get_next_action
  \/ \E m \in Messages : mqtt_qos_track_outgoing(m) \/ mqtt_qos_track_incoming(m)
  \/ \E id \in PacketIds :
       \/ mqtt_qos_handle_puback(id) \/ mqtt_qos_handle_pubrec(id)
       \/ mqtt_qos_handle_pubrel(id) \/ mqtt_qos_handle_pubcomp(id) \/ mqtt_qos_remove(id)

-----------------------------------------------------------------------------
(* A plus stands for the characters up to the next slash, a hash for the     *)
(* rest; what is left of the filter must be nothing or a hash.               *)
mqtt_topic_match(filter, topic) ==
  LET m == Len(filter)
      n == Len(topic)
      Rest(j) == Min({k \in j .. n : topic[k] = "/"} \cup {n + 1})
      from[i \in 1 .. m + 1, j \in 1 .. n + 1] ==
        CASE i <= m /\ filter[i] = "#" -> TRUE
          [] i > m -> j > n
          [] i <= m /\ filter[i] # "#" /\ j > n -> FALSE
          [] i <= m /\ filter[i] = "+" /\ j <= n -> from[i + 1, Rest(j)]
          [] OTHER -> filter[i] = topic[j] /\ from[i + 1, j + 1]
  IN  from[1, 1]

mqtt_broker_init ==
  /\ clients = <<>>
  /\ since = {} /\ departed = {}
  /\ asked = [c \in ClientIds |-> {}]

SlotsOf(id) == {i \in DOMAIN clients : clients[i].client_id = id}

(* Every connection takes a new slot, also that of a client known before.    *)
mqtt_broker_connect(id) ==
  /\ Len(clients) < MaxClients
  /\ clients' = Append(clients, [client_id |-> id, connected |-> TRUE, subscriptions |-> <<>>])
  /\ since' = since \cup {id}
  /\ UNCHANGED <<departed, asked, qosVars>>

(* The first slot with the name is the one that disconnects.                 *)
mqtt_broker_disconnect(id) ==
  /\ SlotsOf(id) # {}
  /\ clients' = [clients EXCEPT ![Min(SlotsOf(id))].connected = FALSE]
  /\ since' = since \ {id} /\ departed' = departed \cup {id}
  /\ UNCHANGED <<asked, qosVars>>

Subscribed(c, filter) ==
  IF Len(c.subscriptions) < MaxSubs THEN [c EXCEPT !.subscriptions = Append(@, filter)] ELSE c

mqtt_broker_subscribe(id, filter) ==
  /\ SlotsOf(id) # {}
  /\ clients' = [clients EXCEPT ![Min(SlotsOf(id))] = Subscribed(@, filter)]
  /\ asked' = [asked EXCEPT ![id] = @ \cup {filter}]
  /\ UNCHANGED <<since, departed, qosVars>>

(* The clients a publication goes to, in the order of their slots.           *)
Takes(c, topic) == c.connected /\ \E j \in DOMAIN c.subscriptions : mqtt_topic_match(c.subscriptions[j], topic)
mqtt_broker_handle_publish(topic, max_targets) ==
  LET T == {i \in DOMAIN clients : Takes(clients[i], topic)} IN
  [k \in 1 .. Min({Cardinality(T), max_targets}) |->
     clients[CHOOSE i \in T : Cardinality({j \in T : j < i}) = k - 1].client_id]

BrokerNext ==
  \E id \in ClientIds :
    \/ mqtt_broker_connect(id) \/ mqtt_broker_disconnect(id)
    \/ \E filter \in Filters : mqtt_broker_subscribe(id, filter)

MqttInit == mqtt_qos_manager_init /\ mqtt_broker_init
MqttNext == QosNext \/ BrokerNext
MqttSpec == MqttInit /\ [][MqttNext]_mqttVars

-----------------------------------------------------------------------------
(* mqtt_qos_handle_puback, mqtt_qos_handle_pubrel: when the publisher counts *)
(* an id as complete, the receiver has passed on a message of that id, the   *)
(* only one if the id was used once, unless it dropped one of that id that   *)
(* waited for its PUBREL; and a message of quality 2 is passed on once only, *)
(* however often packets are lost, repeated or overtaken, unless the         *)
(* receiver has removed a tracker of its id or moved one: that may bring a   *)
(* second copy to the front.                                                 *)
CompleteIsDelivered ==
  \A m \in Messages :
    /\ mqtt_qos_is_complete(sender, IdOf[m]) /\ IdOf[m] \notin forgotten =>
         \E k \in Messages : IdOf[k] = IdOf[m] /\ delivered[k] > 0
    /\ Qos[m] = 2 /\ IdOf[m] \notin shifted => delivered[m] <= 1

(* mqtt_broker_handle_publish: a publication goes at most once to a client,  *)
(* only to one that is connected and asked for it, and to every one of those *)
(* that has never disconnected and whose table of subscriptions is not full. *)
(* One that disconnects and connects again is found by its first slot, which *)
(* stays disconnected: it need not get anything.                             *)
Room(c) == \A i \in SlotsOf(c) : Len(clients[i].subscriptions) < MaxSubs
TargetsRight ==
  \A topic \in Topics :
    LET targets == mqtt_broker_handle_publish(topic, MaxClients)
        Wants(c) == c \in since /\ \E filter \in asked[c] : mqtt_topic_match(filter, topic)
    IN  /\ IsInjective(targets)
        /\ \A k \in DOMAIN targets : Wants(targets[k])
        /\ \A c \in ClientIds \ departed : Wants(c) /\ Room(c) => \E k \in DOMAIN targets : targets[k] = c

(* MQTT: what counts as complete has been passed on, and a publication goes  *)
(* once to those who stay connected and asked for it, and to nobody else.    *)
MqttDelivers == CompleteIsDelivered /\ TargetsRight
==============================================================================
