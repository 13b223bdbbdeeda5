----------------------------- MODULE Membership -----------------------------
(***************************************************************************)
(* Who is there and what they know in mini-dist-protocol: gossip over a    *)
(* topology, the SWIM failure detector, and the eventually consistent      *)
(* store.  They share no state.                                            *)
(***************************************************************************)
EXTENDS Integers, SequencesExt, Sequences, FiniteSetsExt

-----------------------------------------------------------------------------
(***************************************************************************)
(* mini-dist-protocol/src/gossip.c: epidemic replication of versioned       *)
(* entries.  gossip_spread lets every node, in index order, exchange data   *)
(* with Fanout randomly chosen neighbours; at counts the exchanges of the   *)
(* running call, one step each, and the caller writes between two calls.    *)
(* gossip_converge is a sequence of calls with PUSH_PULL.                   *)
(***************************************************************************)

CONSTANTS
  Peers,       \* node_count
  GossipKeys, GossipValues,
  Topologies,  \* the topology types given to gossip_init
  Degree,      \* the degree given to gossip_init_random
  MaxDataKeys, \* GOSSIP_MAX_DATA_KEYS
  Fanout,      \* GOSSIP_FANOUT
  MaxDown,     \* bound of the model: how many nodes stop
  MaxVersion   \* bound of the model: nobody writes beyond it

ASSUME GossipAssumption == Peers \in Nat /\ Fanout \in Nat \ {0}

VARIABLES gnodes, neighbors, strategy, at

gossipVars == <<gnodes, neighbors, strategy, at>>

Peer == 0 .. Peers - 1

GossipDataEntry == [key : GossipKeys, value : GossipValues, version : Nat]

GossipNode == [data : Seq(GossipDataEntry), version_clock : Nat, active : BOOLEAN]

Idle == Peers * Fanout

(* gossip_init_ring, gossip_init_full and gossip_init_random.                *)
gossip_init(topology) ==
  CASE topology = "ring"   -> {[i \in Peer |-> {(i + 1) % Peers, (i - 1 + Peers) % Peers}]}
    [] topology = "full"   -> {[i \in Peer |-> Peer \ {i}]}
    [] topology = "random" ->
         {ns \in [Peer -> SUBSET Peer] :
            \A i \in Peer : i \notin ns[i] /\ Cardinality(ns[i]) <= Degree}

GossipInit ==
  /\ gnodes = [i \in Peer |-> [data |-> <<>>, version_clock |-> 0, active |-> TRUE]]
  /\ \E t \in Topologies : neighbors \in gossip_init(t)
  /\ strategy = "PUSH"
  /\ at = Idle

-----------------------------------------------------------------------------
Positions(data, key) == {k \in DOMAIN data : data[k].key = key}

Has(data, key) == Positions(data, key) # {}

(* gossip_get_data: the first entry with the key.                            *)
gossip_get_data(data, key) == data[Min(Positions(data, key))]

(* One incoming entry: the higher version wins, a new key is added.          *)
MergeEntry(data, e) ==
  LET k == Min(Positions(data, e.key))
  IN  CASE Has(data, e.key) /\ e.version > data[k].version -> [data EXCEPT ![k] = e]
        [] ~Has(data, e.key) /\ Len(data) < MaxDataKeys    -> Append(data, e)
        [] OTHER                                           -> data

(* All entries of a message, one after the other.                            *)
MergeEntries(data, entries) ==
  LET merged[k \in 0 .. Len(entries)] ==
        IF k = 0 THEN data ELSE MergeEntry(merged[k - 1], entries[k])
  IN  merged[Len(entries)]

(* The clock follows the first entry of the message only.                    *)
gossip_on_receive(nd, entries) ==
  [nd EXCEPT !.data = MergeEntries(@, entries),
             !.version_clock = IF entries # <<>> /\ entries[1].version > @
                               THEN entries[1].version ELSE @]

(* A local write takes the next value of the node's clock.                   *)
gossip_set_data(i, key, v) ==
  LET nd    == gnodes[i]
      entry == [key |-> key, value |-> v, version |-> nd.version_clock + 1]
      data  == IF Has(nd.data, key)
               THEN [nd.data EXCEPT ![Min(Positions(nd.data, key))] = entry]
               ELSE Append(nd.data, entry)
  IN  /\ at = Idle /\ nd.version_clock < MaxVersion
      /\ Has(nd.data, key) \/ Len(nd.data) < MaxDataKeys
      /\ gnodes' = [gnodes EXCEPT ![i] =
                      [nd EXCEPT !.data = data, !.version_clock = entry.version]]
      /\ UNCHANGED <<neighbors, strategy, at>>

-----------------------------------------------------------------------------
(* gossip_spread.                                                            *)
Spread(s) ==
  /\ at = Idle
  /\ strategy' = s /\ at' = 0
  /\ UNCHANGED <<gnodes, neighbors>>

Sender == at \div Fanout

(* An inactive node, and one that has nothing, does not even pull.           *)
Skips(i) == ~gnodes[i].active \/ gnodes[i].data = <<>>

SkipNode ==
  /\ at < Idle /\ Skips(Sender)
  /\ at' = (Sender + 1) * Fanout
  /\ UNCHANGED <<gnodes, neighbors, strategy>>

SkipExchange ==
  /\ at < Idle /\ ~Skips(Sender) /\ neighbors[Sender] = {}
  /\ at' = at + 1
  /\ UNCHANGED <<gnodes, neighbors, strategy>>

(* Mutant: a push-pull does not deliver the push.                            *)
ExchangedPullOnly(i, t) ==
  IF strategy = "PUSH"
  THEN [gnodes EXCEPT ![t] = gossip_on_receive(@, gnodes[i].data)]
  ELSE [gnodes EXCEPT ![i] = gossip_on_receive(@, gnodes[t].data)]

(* What an exchange between i and t leaves behind.                           *)
Exchanged(i, t) ==
  LET pushed == [gnodes EXCEPT ![t] = gossip_on_receive(@, gnodes[i].data)]
  IN  CASE strategy = "PUSH" -> pushed
        [] strategy = "PULL" -> [gnodes EXCEPT ![i] = gossip_on_receive(@, gnodes[t].data)]
        [] strategy = "PUSH_PULL" -> [pushed EXCEPT ![i] = gossip_on_receive(@, pushed[t].data)]

Exchange(t) ==
  /\ at < Idle /\ ~Skips(Sender) /\ t \in neighbors[Sender]
  /\ gnodes' = Exchanged(Sender, t)
  /\ at' = at + 1
  /\ UNCHANGED <<neighbors, strategy>>

(* A node stops; only the embedding program assigns active.                  *)
Stop(i) ==
  /\ at = Idle /\ gnodes[i].active
  /\ Cardinality({j \in Peer : ~gnodes[j].active}) < MaxDown
  /\ gnodes' = [gnodes EXCEPT ![i].active = FALSE]
  /\ UNCHANGED <<neighbors, strategy, at>>

Round ==
  \/ \E s \in {"PUSH", "PULL", "PUSH_PULL"} : Spread(s)
  \/ SkipNode
  \/ SkipExchange
  \/ \E t \in Peer : Exchange(t)

GossipNext ==
  \/ Round
  \/ \E i \in Peer : Stop(i) \/ \E key \in GossipKeys, v \in GossipValues : gossip_set_data(i, key, v)

GossipSpec == GossipInit /\ [][GossipNext]_gossipVars

(* gossip_converge: calls keep being made with PUSH_PULL, every call ends,   *)
(* and every pair of neighbours is chosen again and again, as far as chance  *)
(* decides it.                                                               *)
Fairness ==
  /\ WF_gossipVars(SkipNode \/ SkipExchange \/ \E t \in Peer : Exchange(t))
  /\ SF_gossipVars(Spread("PUSH_PULL"))
  /\ \A i, t \in Peer :
       SF_gossipVars(strategy = "PUSH_PULL" /\ Sender = i /\ Exchange(t))

-----------------------------------------------------------------------------
Active == {i \in Peer : gnodes[i].active}

(* The comparison of gossip_converge: all active nodes with the first.       *)
gossip_all_synced ==
  \A i \in Active : LET ref == Min(Active) IN
    /\ Len(gnodes[i].data) = Len(gnodes[ref].data)
    /\ \A k \in DOMAIN gnodes[ref].data :
         LET e == gnodes[ref].data[k]
         IN  /\ Has(gnodes[i].data, e.key)
             /\ gossip_get_data(gnodes[i].data, e.key).version = e.version

(* Properties.                                                               *)

(* Every field keeps its type, and no array outgrows its capacity.           *)
GossipTypeOK ==
  /\ gnodes \in [Peer -> GossipNode]
  /\ \A i \in Peer : Len(gnodes[i].data) <= MaxDataKeys
  /\ neighbors \in [Peer -> SUBSET Peer]
  /\ strategy \in {"PUSH", "PULL", "PUSH_PULL"}
  /\ at \in 0 .. Idle

(* When gossip_converge reports success, any two active nodes hold the same  *)
(* keys and versions, each once, although it compares every node with the    *)
(* first only, and only the keys that one has.                               *)
SyncedMeansEqual ==
  gossip_all_synced =>
    \A i, j \in Active :
      /\ {<<e.key, e.version>> : e \in ToSet(gnodes[i].data)}
           = {<<e.key, e.version>> : e \in ToSet(gnodes[j].data)}
      /\ \A key \in GossipKeys : Cardinality(Positions(gnodes[i].data, key)) <= 1

(* Repeated push-pull rounds make the nodes that still run agree for good,   *)
(* once the writes have ended: gossip_converge returns true.  Every node is  *)
(* a neighbour of every other.                                               *)
RoundsConverge ==
  (\A i \in Peer : neighbors[i] = Peer \ {i}) => <>[](at = Idle => gossip_all_synced)

(* "Versions increase with every write": an entry is never replaced by one   *)
(* with a lower version.  It does not hold: version_clock follows only the   *)
(* first entry of a message.                                                 *)
VersionsIncrease ==
  [][\A i \in Peer : \A k \in DOMAIN gnodes[i].data :
       gnodes'[i].data[k].version >= gnodes[i].data[k].version]_gossipVars

-----------------------------------------------------------------------------
(***************************************************************************)
(* mini-dist-protocol/src/swim.c: SWIM membership on one shared table.      *)
(* Calls run to completion.  members is the array of SWIMMember in use,     *)
(* position k standing for index k - 1; the fields that nothing reads       *)
(* (address, ping_target, last_heard_ms) are left out.  Random choices are  *)
(* nondeterministic.                                                        *)
(*                                                                          *)
(* sent is the network, outside the library: the membership changes that    *)
(* swim_disseminate has put into messages.  swim_on_receive is exported, so *)
(* a copy of such a message can arrive again at any later time.             *)
(*                                                                          *)
(* since is a history variable: when the suspicion began under which each   *)
(* member is without interruption, 0 if it is not.                          *)
(***************************************************************************)

CONSTANTS
  Members,     \* members at swim_init
  JoinIds,     \* the ids that may join: old ones, or ones beyond the table
  MaxMembers,  \* SWIM_MAX_MEMBERS
  Period,      \* SWIM_PROTOCOL_PERIOD_MS
  DeadTimeout, \* SWIM_DEAD_TIMEOUT_MS
  Deltas,      \* the delta_ms that swim_tick is called with
  MaxInc,      \* bound of the model: calls stop raising incarnations there
  MaxProtocolTime  \* bound of the model: protocol_time_ms stops there

ASSUME SwimAssumption ==
  /\ Members \in Nat /\ JoinIds \subseteq Nat
  /\ DeadTimeout \in Nat /\ Deltas \subseteq Nat
  /\ MaxInc \in Nat

VARIABLES members, time, ping_sequence_index, sent, since

swimVars == <<members, time, ping_sequence_index, sent, since>>

SWIMMember ==
  [ id               : Nat,
    state            : {"ALIVE", "SUSPECTED", "DEAD"},
    incarnation      : Nat,
    suspect_since_ms : Nat,
    active           : BOOLEAN ]

Fresh(id) ==
  [id |-> id, state |-> "ALIVE", incarnation |-> 0, suspect_since_ms |-> 0, active |-> TRUE]

(* swim_init.                                                                *)
SwimInit ==
  /\ members = [k \in 1 .. Members |-> Fresh(k - 1)]
  /\ time = 0
  /\ ping_sequence_index = 0
  /\ sent = {}
  /\ since = [k \in 1 .. Members |-> 0]

-----------------------------------------------------------------------------
(* Every lookup is a search for the first entry with the id.                 *)
HasId(ms, id) == \E k \in DOMAIN ms : ms[k].id = id

Find(ms, id) == Min({k \in DOMAIN ms : ms[k].id = id})

(* members[id] used as an index: the member, an entry never assigned or      *)
(* memory beyond the array.                                                  *)
ReadsActive(ms, id) ==
  IF id + 1 \in DOMAIN ms THEN {ms[id + 1].active} ELSE BOOLEAN

Changed(m, state) == [m EXCEPT !.state = state, !.incarnation = @ + 1]

Suspected(ms, id, now) ==
  LET k == Find(ms, id)
  IN  IF HasId(ms, id) /\ ms[k].state = "ALIVE"
      THEN [ms EXCEPT ![k] = [Changed(@, "SUSPECTED") EXCEPT !.suspect_since_ms = now]]
      ELSE ms

(* swim_ping_success: a suspect that answers is alive again.                 *)
Answered(ms, id, inc) ==
  LET k == Find(ms, id)
      m == [ms[k] EXCEPT !.incarnation = Max({@, inc})]
  IN  IF ~HasId(ms, id) THEN ms
      ELSE [ms EXCEPT ![k] = IF m.state = "SUSPECTED" THEN Changed(m, "ALIVE") ELSE m]

(* Mutant: a membership change is believed whatever its incarnation.         *)
MergeAlways(ms, c, now) ==
  LET k == Find(ms, c.id)
  IN  IF HasId(ms, c.id)
      THEN [ms EXCEPT ![k].incarnation = c.incarnation, ![k].state = c.state]
      ELSE ms

(* Mutant: a membership change of the same incarnation is believed too.       *)
MergeSame(ms, c, now) ==
  LET k == Find(ms, c.id)
  IN  IF HasId(ms, c.id) /\ c.incarnation >= ms[k].incarnation
      THEN [ms EXCEPT ![k].incarnation = c.incarnation,
                      ![k].state = c.state,
                      ![k].suspect_since_ms = IF c.state = "SUSPECTED" THEN now ELSE @]
      ELSE ms

(* swim_on_receive, the loop over membership_changes for one of them.        *)
Merge(ms, c, now) ==
  LET k == Find(ms, c.id)
  IN  IF HasId(ms, c.id) /\ c.incarnation > ms[k].incarnation
      THEN [ms EXCEPT ![k].incarnation = c.incarnation,
                      ![k].state = c.state,
                      ![k].suspect_since_ms = IF c.state = "SUSPECTED" THEN now ELSE @]
      ELSE ms

-----------------------------------------------------------------------------
(* The JOIN message that follows finds the new entry already in the table,   *)
(* and its incarnation 0 changes nothing.                                    *)
swim_join(id) ==
  /\ Len(members) < MaxMembers
  /\ members' = Append(members, Fresh(id))
  /\ UNCHANGED <<time, ping_sequence_index, sent>>

(* swim_leave and swim_confirm_dead do the same.                             *)
swim_leave(id) ==
  /\ HasId(members, id) /\ members[Find(members, id)].incarnation < MaxInc
  /\ members' = [members EXCEPT ![Find(members, id)] = Changed(@, "DEAD")]
  /\ UNCHANGED <<time, ping_sequence_index, sent>>

swim_suspect(id) ==
  /\ HasId(members, id) /\ members[Find(members, id)].incarnation < MaxInc
  /\ members' = Suspected(members, id, time)
  /\ UNCHANGED <<time, ping_sequence_index, sent>>

swim_ping_success(id, inc) ==
  /\ members' = Answered(members, id, inc)
  /\ UNCHANGED <<time, ping_sequence_index, sent>>

(* A copy of a message of swim_disseminate arrives late or again.            *)
swim_on_receive(c) ==
  /\ members' = Merge(members, c, time)
  /\ UNCHANGED <<time, ping_sequence_index, sent>>

(* A member's process stops; only the embedding program assigns active.      *)
Crash(k) ==
  /\ members' = [members EXCEPT ![k].active = FALSE]
  /\ UNCHANGED <<time, ping_sequence_index, sent>>

-----------------------------------------------------------------------------
(* swim_tick.                                                                *)

(* swim_random_member: who may be picked by someone with this id.            *)
swim_random_member(ms, exclude_id) ==
  {ms[k].id : k \in {j \in DOMAIN ms : /\ ms[j].id # exclude_id
                                       /\ ms[j].active
                                       /\ ms[j].state # "DEAD"}}

(* Active suspects whose time is over are dead.                              *)
Sweep(ms, now) ==
  [k \in DOMAIN ms |->
     IF ms[k].active /\ ms[k].state = "SUSPECTED" /\ now - ms[k].suspect_since_ms > DeadTimeout
     THEN Changed(ms[k], "DEAD") ELSE ms[k]]

(* swim_indirect_ping: a helper is active, so its answer is whether the      *)
(* target is.                                                                *)
swim_indirect_ping(ms, target) == ReadsActive(ms, target)

(* The ping of one period: no target, an answer, or the indirect ping whose  *)
(* failure makes the target a suspect; without a helper nothing happens.     *)
Pinged(ms, now) ==
  LET from    == ping_sequence_index
      targets == swim_random_member(ms, from)
      helpers(t) == {k \in DOMAIN ms : ms[k].id \notin {from, t} /\ ms[k].active}
      after(t) == {Answered(ms, t, 0)} \cup
                  (IF helpers(t) = {} THEN {ms}
                   ELSE {IF ok THEN ms ELSE Suspected(ms, t, now) :
                           ok \in swim_indirect_ping(ms, t)})
  IN  IF targets = {} THEN {ms} ELSE UNION {after(t) : t \in targets}

(* swim_disseminate: every active member with somebody to send to sends the  *)
(* entries that are not alive, and they are merged into the table they are   *)
(* from; a second sender's copies find nothing left to do.                   *)
Changes(ms) == {k \in DOMAIN ms : ms[k].state # "ALIVE"}

MergeChanges(ms, now) ==
  LET merged[k \in 0 .. Len(ms)] ==
        IF k = 0 THEN ms
        ELSE IF k \in Changes(ms) THEN Merge(merged[k - 1], ms[k], now)
        ELSE merged[k - 1]
  IN  merged[Len(ms)]

(* Of a change that is sent, what the receiver reads.                        *)
News(m) == [id |-> m.id, state |-> m.state, incarnation |-> m.incarnation]

Sends(ms) ==
  \E k \in DOMAIN ms : ms[k].active /\ swim_random_member(ms, k - 1) # {}

swim_disseminate(ms) ==
  /\ members' = IF Sends(ms) THEN MergeChanges(ms, time') ELSE ms
  /\ sent' = IF Sends(ms) THEN sent \cup {News(ms[k]) : k \in Changes(ms)} ELSE sent

(* A period begins with this tick.                                           *)
NewPeriod(now, delta) == now % Period < delta \/ now < delta

swim_tick(delta) ==
  LET now   == time + delta
      swept == Sweep(members, now)
  IN  /\ now <= MaxProtocolTime
      /\ time' = now
      /\ IF NewPeriod(now, delta)
         THEN /\ \E ms \in Pinged(swept, now) : swim_disseminate(ms)
              /\ ping_sequence_index' = (ping_sequence_index + 1) % Len(members)
         ELSE members' = swept /\ UNCHANGED <<ping_sequence_index, sent>>

SwimCall ==
  \/ \E id \in JoinIds : swim_join(id)
  \/ \E k \in DOMAIN members :
       \/ swim_leave(members[k].id)
       \/ swim_suspect(members[k].id)
       \/ \E inc \in 0 .. MaxInc : swim_ping_success(members[k].id, inc)
       \/ Crash(k)
  \/ \E c \in sent : swim_on_receive(c)
  \/ \E delta \in Deltas : swim_tick(delta)

IsSuspect(ms, k) == k \in DOMAIN ms /\ ms[k].state = "SUSPECTED"

SwimNext ==
  /\ SwimCall
  /\ since' = [k \in DOMAIN members' |->
                 IF ~IsSuspect(members', k) THEN 0
                 ELSE IF IsSuspect(members, k) THEN since[k] ELSE time']

SwimSpec == SwimInit /\ [][SwimNext]_swimVars

-----------------------------------------------------------------------------
(* Properties.                                                               *)

(* Every field keeps its type and the table its capacity.                    *)
SwimTypeOK ==
  /\ members \in Seq(SWIMMember) /\ Len(members) \in Members .. MaxMembers
  /\ time \in 0 .. MaxProtocolTime
  /\ ping_sequence_index \in 0 .. Len(members) - 1

(* A step: a dead entry stays dead, whatever acknowledgements and old or     *)
(* repeated membership changes arrive, and an entry that changes its state   *)
(* gets a higher incarnation, so that no two states share one.               *)
DeadStayDead ==
  \A k \in DOMAIN members :
    /\ members[k].state = "DEAD" => members'[k].state = "DEAD"
    /\ members[k].state # members'[k].state =>
         members'[k].incarnation > members[k].incarnation

(* A running member is without interruption under suspicion for at most the  *)
(* dead timeout: it answers or is dead by then, although every round tells   *)
(* it around again and copies of such messages arrive late and repeatedly.   *)
SuspicionEnds ==
  \A k \in DOMAIN members :
    members[k].active /\ members[k].state = "SUSPECTED" =>
      time - since[k] <= DeadTimeout

(* A step: no tick suspects a running member, except one whose id is not its *)
(* index: swim_indirect_ping uses the id of the target as an index.          *)
OnlyCrashedSuspected ==
  time' > time =>
    \A k \in DOMAIN members :
      /\ members[k].state = "ALIVE" /\ members'[k].state = "SUSPECTED"
      /\ members[k].id = k - 1
      => ~members[k].active

-----------------------------------------------------------------------------
(***************************************************************************)
(* The eventually consistent store of mini-dist-protocol/src/               *)
(* advanced_topics.c: replicas that go off line and come back, writes that  *)
(* leave hints for the absent, and read repair.  A hint keeps the value and *)
(* the target only; handing it over files the value under the number of its *)
(* slot, as key and as version.  acked and puts are history: the greatest   *)
(* version acknowledged for each key, and the writes so far.                *)
(***************************************************************************)

CONSTANTS
  ReplicaCount,
  EcKeys,    \* the keys that clients write
  EcValues,
  Versions,  \* the versions they pass, above 0
  MaxData,   \* EC_MAX_DATA, for the entries and for the hints of a replica
  MaxWrites, \* bound on the number of writes
  MaxFaults  \* bound on the number of disconnections

ASSUME EcAssumption ==
  /\ ReplicaCount \in Nat
  /\ Versions \subseteq Nat
  /\ MaxData \in Nat

VARIABLES ecReplicas, acked, puts, faults

ecVars == <<ecReplicas, acked, puts, faults>>

EcReplica == 0 .. ReplicaCount - 1

(* The quorums that ec_init takes when it is given none.                     *)
EcQuorum == (ReplicaCount \div 2) + 1

ec_init ==
  /\ ecReplicas = [i \in EcReplica |-> [online |-> TRUE, data |-> <<>>, hints |-> <<>>]]
  /\ acked = [k \in EcKeys |-> 0]
  /\ puts = <<>>
  /\ faults = 0

ec_find_entry(r, key) ==
  LET found == {i \in DOMAIN r.data : r.data[i].key = key}
  IN  IF found = {} THEN 0 ELSE Min(found)

HasEntry(r, key) == ec_find_entry(r, key) # 0

EntryOf(r, key) == r.data[ec_find_entry(r, key)]

Online(rs) == {i \in EcReplica : rs[i].online}

Holders(rs, key) == {i \in Online(rs) : HasEntry(rs[i], key)}

(* A new entry is dropped when the array is full.                            *)
WithEntry(r, key, value, version) ==
  LET entry == [key |-> key, value |-> value, version |-> version]
  IN  IF HasEntry(r, key) THEN [r EXCEPT !.data[ec_find_entry(r, key)] = entry]
      ELSE IF Len(r.data) < MaxData THEN [r EXCEPT !.data = Append(@, entry)]
      ELSE r

(* The loop over the replicas keeps the first entry of the highest version;  *)
(* a version of 0 counts as none.                                            *)
Best(rs, key) ==
  LET version(i) == EntryOf(rs[i], key).version
      top == {i \in Holders(rs, key) :
                version(i) > 0 /\ \A j \in Holders(rs, key) : version(j) <= version(i)}
  IN  IF top = {} THEN [value |-> 0, version |-> 0]
      ELSE [value |-> EntryOf(rs[Min(top)], key).value, version |-> version(Min(top))]

ec_read(key) ==
  [ok |-> Cardinality(Holders(ecReplicas, key)) >= EcQuorum, best |-> Best(ecReplicas, key)]

ec_read_repair(rs, key) ==
  LET best == Best(rs, key)
      stale(i) == HasEntry(rs[i], key) => EntryOf(rs[i], key).version < best.version
  IN  IF best.version = 0 THEN rs
      ELSE [i \in EcReplica |-> IF rs[i].online /\ stale(i)
                              THEN WithEntry(rs[i], key, best.value, best.version)
                              ELSE rs[i]]

(* One turn of the loop that hands over: the first hint for the replica is   *)
(* appended, even if its key has an entry, and the last hint takes its slot. *)
HandOne(rs, from, to) ==
  LET mine == {i \in DOMAIN rs[from].hints : rs[from].hints[i].target = to}
      i == Min(mine)
      hints == rs[from].hints
      entry == [key |-> i - 1, value |-> hints[i].value, version |-> i - 1]
  IN  IF mine = {} THEN rs
      ELSE [rs EXCEPT ![to].data = IF Len(@) < MaxData THEN Append(@, entry) ELSE @,
                      ![from].hints = Front([@ EXCEPT ![i] = Last(hints)])]

ec_hinted_handoff(rs, from, to) ==
  LET turn[k \in 0 .. Len(rs[from].hints)] ==
        IF k = 0 THEN rs ELSE HandOne(turn[k - 1], from, to)
  IN  turn[Len(rs[from].hints)]

(* The hints that the others keep for a replica.                             *)
HandedOver(rs, id) ==
  LET handed[i \in 0 .. ReplicaCount] ==
        IF i = 0 THEN rs
        ELSE IF i - 1 # id /\ rs[i - 1].online THEN ec_hinted_handoff(handed[i - 1], i - 1, id)
        ELSE handed[i - 1]
  IN  handed[ReplicaCount]

(* The repair of the keys that a replica has.                                *)
Repaired(rs, id) ==
  LET repaired[j \in 0 .. Len(rs[id].data)] ==
        IF j = 0 THEN rs ELSE ec_read_repair(repaired[j - 1], rs[id].data[j].key)
  IN  repaired[Len(rs[id].data)]

ec_reconnect(id) ==
  /\ ecReplicas' = Repaired(HandedOver([ecReplicas EXCEPT ![id].online = TRUE], id), id)
  /\ UNCHANGED <<acked, puts, faults>>

ec_disconnect(id) ==
  /\ ecReplicas[id].online /\ faults < MaxFaults
  /\ ecReplicas' = [ecReplicas EXCEPT ![id].online = FALSE]
  /\ faults' = faults + 1
  /\ UNCHANGED <<acked, puts>>

(* Mutant: one acknowledgement short of the quorum is enough.                *)
EnoughButOne(written) == written >= EcQuorum - 1

Enough(written) == written >= EcQuorum

(* A hint for every replica that is away, in their order, while there is room. *)
Hinted(hints, value, absent) ==
  LET left[i \in 0 .. ReplicaCount] ==
        IF i = 0 THEN hints
        ELSE IF i - 1 \in absent /\ Len(left[i - 1]) < MaxData
        THEN Append(left[i - 1], [value |-> value, target |-> i - 1])
        ELSE left[i - 1]
  IN  left[ReplicaCount]

(* Every replica that is on line counts as written, also when its array is   *)
(* full or its entry is newer.                                               *)
ec_write(key, value, version) ==
  LET stored(r) == IF HasEntry(r, key) /\ EntryOf(r, key).version > version THEN r
                   ELSE WithEntry(r, key, value, version)
      hinted(r) == [r EXCEPT !.hints = Hinted(@, value, EcReplica \ Online(ecReplicas))]
      written == Cardinality(Online(ecReplicas))
  IN  /\ Len(puts) < MaxWrites
      /\ ecReplicas' = [i \in EcReplica |->
                        IF i \notin Online(ecReplicas) THEN ecReplicas[i]
                        ELSE IF i = Min(Online(ecReplicas)) THEN hinted(stored(ecReplicas[i]))
                        ELSE stored(ecReplicas[i])]
      /\ acked' = IF Enough(written) THEN [acked EXCEPT ![key] = Max({@, version})] ELSE acked
      /\ puts' = Append(puts, <<key, value>>)
      /\ UNCHANGED faults

(* ec_read_repair called by a client.                                        *)
Repair(key) ==
  /\ ecReplicas' = ec_read_repair(ecReplicas, key)
  /\ UNCHANGED <<acked, puts, faults>>

EcNext ==
  \/ \E key \in EcKeys, value \in EcValues, version \in Versions : ec_write(key, value, version)
  \/ \E id \in EcReplica : ec_disconnect(id) \/ ec_reconnect(id)
  \/ \E key \in EcKeys : Repair(key)

EcSpec == ec_init /\ [][EcNext]_ecVars

-----------------------------------------------------------------------------
(* ec_write, ec_read: a read that finds its quorum returns at least the      *)
(* version of every acknowledged write of the key, whichever replicas were   *)
(* away in between and whatever the hints have left in their arrays.         *)
AckedReadsFresh ==
  \A key \in EcKeys : ec_read(key).ok => ec_read(key).best.version >= acked[key]

(* ec_hinted_handoff: what a read returns has been written to that key.  It  *)
(* does not hold, since a hint is filed under the number of its slot.        *)
ReadsWhatWasWritten ==
  \A key \in EcKeys :
    ec_read(key).ok /\ ec_read(key).best.version > 0 => <<key, ec_read(key).best.value>> \in ToSet(puts)
=============================================================================
