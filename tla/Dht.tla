--------------------------------- MODULE Dht ---------------------------------
(***************************************************************************)
(* mini-dist-system-theory/src/dht.c: a Chord ring, whose nodes join, leave  *)
(* and store keys, and a ring of virtual nodes for consistent hashing.       *)
(***************************************************************************)
EXTENDS Integers, Sequences, FiniteSetsExt

CONSTANTS
  Ids,          \* node ids
  Keys,
  hash_space,   \* also total_slots: a power of two, at most 256
  FingerCount,  \* DHT_FINGER_TABLE_SIZE
  MaxNodes,     \* DHT_MAX_NODES, the slots of the ring
  MaxKeys,      \* DHT_MAX_NODES again, the keys of a node
  MaxSlots,     \* DHT_MAX_NODES * DHT_MAX_VNODES
  NumVnodes     \* virtual nodes asked for a physical node

VARIABLES
  dnodes,       \* the slots of the Chord ring, in the order of joining
  fingers,      \* of each slot: start and node id of every finger
  vnodes        \* the virtual nodes, in order

dhtVars == <<dnodes, fingers, vnodes>>

ASSUME DhtAssumption ==
  /\ hash_space \in Nat \ {0} /\ Ids \subseteq Nat /\ Keys \subseteq Nat
  /\ FingerCount \in Nat /\ MaxKeys \in Nat /\ MaxSlots \in Nat /\ NumVnodes \in Nat

(* key * 2654435761 mod 2^32 mod space: only the factor's last 8 bits, 177,  *)
(* matter to a power of two up to 256.                                       *)
dht_hash(key) == (key * 177) % hash_space

(* The distance forward from a position to another.                          *)
Ahead(from, to) == ((to - from) + hash_space) % hash_space

dht_in_range(key, start, end) ==
  IF start < end THEN key > start /\ key <= end ELSE key > start \/ key <= end

Members(ns) == {i \in DOMAIN ns : ns[i].active}

(* The first slot at the least distance; 0 if no node is active.             *)
dht_find_successor(ns, pos) ==
  LET d(i) == Ahead(pos, ns[i].id % hash_space)
      best == {i \in Members(ns) : \A j \in Members(ns) : d(i) <= d(j)}
  IN  IF best = {} THEN 0 ELSE Min(best)

chord_lookup(ns, key) ==
  LET i == dht_find_successor(ns, dht_hash(key)) IN IF i = 0 THEN -1 ELSE ns[i].id

(* A finger is looked up as if its start were a key: it is hashed again.     *)
chord_build_finger_tables(ns) ==
  [i \in DOMAIN ns |->
     IF ~ns[i].active THEN IF i \in DOMAIN fingers THEN fingers[i] ELSE <<>>
     ELSE [k \in 1 .. FingerCount |->
             LET start == (ns[i].id + 2 ^ (k - 1)) % hash_space
             IN  [start |-> start, node_id |-> chord_lookup(ns, start)]]]

SlotOf(id) == {i \in Members(dnodes) : dnodes[i].id = id}

chord_init == dnodes = <<>> /\ fingers = <<>>
ch_init == vnodes = <<>>

(* A slot is never used again.                                               *)
chord_join(id) ==
  /\ Len(dnodes) < MaxNodes
  /\ SlotOf(id) = {}
  /\ dnodes' = Append(dnodes, [id |-> id, active |-> TRUE, keys |-> <<>>])
  /\ fingers' = chord_build_finger_tables(dnodes')
  /\ UNCHANGED vnodes

(* The keys go to the first other active slot, not to the successor.         *)
LeavesWithItsKeys(id) ==
  /\ SlotOf(id) # {}
  /\ LET i == Min(SlotOf(id))
     IN  dnodes' = [dnodes EXCEPT ![i].active = FALSE, ![i].keys = <<>>]
  /\ fingers' = chord_build_finger_tables(dnodes')
  /\ UNCHANGED vnodes

chord_leave(id) ==
  /\ SlotOf(id) # {}
  /\ LET i == Min(SlotOf(id))
         others == Members(dnodes) \ {i}
         gone == [dnodes EXCEPT ![i].active = FALSE, ![i].keys = <<>>]
         moved(s) == SubSeq(s \o dnodes[i].keys, 1, Min({MaxKeys, Len(s) + Len(dnodes[i].keys)}))
     IN  dnodes' = IF others = {} THEN gone ELSE [gone EXCEPT ![Min(others)].keys = moved(@)]
  /\ fingers' = chord_build_finger_tables(dnodes')
  /\ UNCHANGED vnodes

(* The caller stores a key at the node that chord_lookup gives.              *)
chord_store(key) ==
  /\ Members(dnodes) # {}
  /\ LET i == Min(SlotOf(chord_lookup(dnodes, key)))
     IN  /\ Len(dnodes[i].keys) < MaxKeys
         /\ \A k \in DOMAIN dnodes[i].keys : dnodes[i].keys[k] # key
         /\ dnodes' = [dnodes EXCEPT ![i].keys = Append(@, key)]
  /\ UNCHANGED <<fingers, vnodes>>

(* The farthest finger whose start lies between the node and the finger,     *)
(* whatever the key; failing that, the lookup.                               *)
chord_finger_lookup(id, key) ==
  LET i == Min(SlotOf(id))
      fit == {k \in 1 .. FingerCount : fingers[i][k].node_id >= 0
                 /\ dht_in_range(fingers[i][k].start, id, fingers[i][k].node_id)}
  IN  IF fit = {} THEN chord_lookup(dnodes, key) ELSE fingers[i][Max(fit)].node_id

ch_add_node(p) ==
  /\ Len(vnodes) < MaxSlots
  /\ LET new == [v \in 1 .. NumVnodes |->
                   [physical_node |-> p, position |-> dht_hash(p * 1000 + (v - 1))]]
     IN  vnodes' = SubSeq(vnodes \o new, 1, Min({MaxSlots, Len(vnodes) + NumVnodes}))
  /\ UNCHANGED <<dnodes, fingers>>

(* The virtual nodes are closed up in one pass.                              *)
Without(vs, p) ==
  LET kept[i \in 0 .. Len(vs)] ==
        IF i = 0 THEN <<>>
        ELSE IF vs[i].physical_node # p THEN Append(kept[i - 1], vs[i])
        ELSE kept[i - 1]
  IN  kept[Len(vs)]

ch_remove_node(p) ==
  /\ vnodes' = Without(vnodes, p)
  /\ UNCHANGED <<dnodes, fingers>>

ch_lookup(vs, key) ==
  LET d(i) == Ahead(dht_hash(key), vs[i].position)
      best == {i \in DOMAIN vs : \A j \in DOMAIN vs : d(i) <= d(j)}
  IN  IF best = {} THEN -1 ELSE vs[Min(best)].physical_node

ChordNext == \E id \in Ids, key \in Keys : chord_join(id) \/ chord_leave(id) \/ chord_store(key)
HashNext == \E p \in Ids : ch_add_node(p) \/ ch_remove_node(p)
DhtNext == ChordNext \/ HashNext

DhtSpec == chord_init /\ ch_init /\ [][DhtNext]_dhtVars

------------------------------------------------------------------------------
Held(ns) == UNION {{ns[i].keys[k] : k \in DOMAIN ns[i].keys} : i \in Members(ns)}

Names(ns) == {ns[i].id : i \in Members(ns)}

(* chord_leave, chord_build_finger_tables: while a node stays active a key   *)
(* is lost only for want of room, and a finger lookup never names a node     *)
(* that has left.                                                            *)
KeysKept ==
  /\ Members(dnodes') # {} /\ ~(Held(dnodes) \subseteq Held(dnodes')) =>
       \E i \in Members(dnodes') : Len(dnodes'[i].keys) = MaxKeys
  /\ \A id \in Names(dnodes'), key \in Keys : chord_finger_lookup(id, key)' \in Names(dnodes')

(* ch_add_node, ch_remove_node, ch_lookup: a key changes its node only to    *)
(* one that is added or from one that is removed, whatever the collisions of *)
(* the virtual nodes' positions.                                             *)
OnlyTheirKeysMove ==
  \A key \in Keys :
    LET before == ch_lookup(vnodes, key)
        after == ch_lookup(vnodes', key)
    IN  after # before =>
          IF Len(vnodes') > Len(vnodes) THEN after = vnodes'[Len(vnodes')].physical_node
          ELSE \A v \in DOMAIN vnodes' : vnodes'[v].physical_node # before

(* chord_leave, ch_lookup: no key is lost while a node stays and has room,   *)
(* no finger names a node that left, and in the ring of virtual nodes a key  *)
(* moves only to the node that is added or from the one that is removed.     *)
KeysHandedOver == [][KeysKept /\ OnlyTheirKeysMove]_dhtVars
==============================================================================
