---------------------------- MODULE Convergence -----------------------------
(***************************************************************************)
(* Replicas of mini-dist-system-theory that converge: replicated data      *)
(* types and epidemic gossip.  They share no state.                        *)
(***************************************************************************)
EXTENDS Integers, Sequences, FiniteSets, FiniteSetsExt, SequencesExt

-----------------------------------------------------------------------------
(***************************************************************************)
(* mini-dist-system-theory/src/crdt.c: the six replicated data types, each   *)
(* with the operations of its header.  A replica's state may be sent at any  *)
(* time and be merged late, twice, out of order or never: net holds every    *)
(* state a replica has had.  An update records what its replica had seen;    *)
(* seen, and the update's place in it, are only there for the properties.    *)
(***************************************************************************)

CONSTANTS
  Kinds,      \* the types that are exercised
  Replica,    \* the replicas, numbers (node_id)
  Elements,   \* the elements of a set, the values of a register
  MaxCount,   \* CRDT_MAX_ELEMENTS
  MaxOps      \* bound: updates

VARIABLES
  kind,       \* which type this is
  rep,        \* the state of each replica
  seen,       \* the updates each replica's state includes
  net         \* every state there has been, with what it includes

crdtVars == <<kind, rep, seen, net>>

gc_init == [r \in Replica |-> 0]
gc_inc(gc, r) == [gc EXCEPT ![r] = @ + 1]
gc_value(gc) == FoldFunction(LAMBDA x, y : x + y, 0, gc)
gc_merge(gc, other) == [r \in Replica |-> Max({gc[r], other[r]})]

pn_init == [inc |-> gc_init, dec |-> gc_init]
pn_value(pn) == gc_value(pn.inc) - gc_value(pn.dec)
pn_merge(pn, other) == [inc |-> gc_merge(pn.inc, other.inc), dec |-> gc_merge(pn.dec, other.dec)]

twopset_init == [bits |-> {}, tombstones |-> {}]
twopset_contains(s, e) == e \in s.bits /\ e \notin s.tombstones
twopset_merge(s, other) ==
  [bits |-> s.bits \cup other.bits, tombstones |-> s.tombstones \cup other.tombstones]

(* An entry of an OR-set carries the replica and the number of its addition; *)
(* removing it writes over the element and over the tag's first character.   *)
orset_init == [entries |-> <<>>, seq_counter |-> 0]
ors_contains(s, e) == \E k \in DOMAIN s.entries : s.entries[k].element = e /\ ~s.entries[k].removed
ors_add(s, r, e) ==
  IF (\E k \in DOMAIN s.entries : s.entries[k].element = e) \/ Len(s.entries) >= MaxCount
    THEN s
    ELSE [entries |-> Append(s.entries, [element |-> e, removed |-> FALSE,
                                         tag |-> <<r, s.seq_counter>>]),
          seq_counter |-> s.seq_counter + 1]
ors_remove(s, e) ==
  LET ks == {k \in DOMAIN s.entries : s.entries[k].element = e /\ ~s.entries[k].removed}
  IN  IF Len(s.entries) >= MaxCount \/ ks = {} THEN s
      ELSE [s EXCEPT !.entries[Min(ks)].element = -1, !.entries[Min(ks)].removed = TRUE]

(* Entries whose tag is not there yet are added; a removed entry has another *)
(* tag than the addition it came from, so the second pass changes nothing.   *)
ors_merge(s, other) ==
  LET Known(es, e) == \E k \in DOMAIN es : es[k].tag = e.tag /\ es[k].removed = e.removed
      Add(es, e) == IF Known(es, e) \/ Len(es) >= MaxCount THEN es ELSE Append(es, e)
  IN  [s EXCEPT !.entries = FoldLeft(Add, @, other.entries)]

lww_init(r) == [value |-> -1, timestamp |-> 0, node_id |-> r]
lww_set(l, v) == [l EXCEPT !.timestamp = @ + 1, !.value = v]
lww_merge(l, other) ==
  IF \/ other.timestamp > l.timestamp
     \/ other.timestamp = l.timestamp /\ other.node_id > l.node_id
    THEN other ELSE l

InitialState(k, r) ==
  CASE k = "gcounter" -> gc_init
    [] k = "pncounter" -> pn_init
    [] k = "gset" -> {}
    [] k = "twopset" -> twopset_init
    [] k = "orset" -> orset_init
    [] k = "lww" -> lww_init(r)

MergesTheFirstOnly(s, other) ==
  IF kind = "pncounter" THEN [s EXCEPT !.inc = gc_merge(@, other.inc)] ELSE s

Merged(s, other) ==
  CASE kind = "gcounter" -> gc_merge(s, other)
    [] kind = "pncounter" -> pn_merge(s, other)
    [] kind = "gset" -> s \cup other
    [] kind = "twopset" -> twopset_merge(s, other)
    [] kind = "orset" -> ors_merge(s, other)
    [] kind = "lww" -> lww_merge(s, other)

CrdtInit ==
  /\ kind \in Kinds
  /\ rep = [r \in Replica |-> InitialState(kind, r)]
  /\ seen = [r \in Replica |-> {}]
  /\ net = {}

Updates == UNION {seen[r] : r \in Replica}

(* Replica r, now in state s, has seen us; its state may be on its way.      *)
Becomes(r, s, us) ==
  /\ rep' = [rep EXCEPT ![r] = s]
  /\ seen' = [seen EXCEPT ![r] = us]
  /\ net' = net \cup {[state |-> s, seen |-> us]}
  /\ UNCHANGED kind

Update(r, op, e, s) ==
  /\ Cardinality(Updates) < MaxOps
  /\ Becomes(r, s, seen[r] \cup
       {[op |-> op, element |-> e, no |-> Cardinality(Updates), after |-> {u.no : u \in seen[r]}]})

Count(r) ==
  \/ kind = "gcounter" /\ Update(r, "add", 0, gc_inc(rep[r], r))
  \/ kind = "pncounter" /\ Update(r, "add", 0, [rep[r] EXCEPT !.inc = gc_inc(@, r)])
  \/ kind = "pncounter" /\ Update(r, "remove", 0, [rep[r] EXCEPT !.dec = gc_inc(@, r)])

ChangeSet(r, e) ==
  \/ kind = "gset" /\ Update(r, "add", e, rep[r] \cup {e})
  \/ kind = "gset" /\ Update(r, "remove", e, rep[r] \ {e})
  \/ kind = "twopset" /\ Update(r, "add", e, [rep[r] EXCEPT !.bits = @ \cup {e}])
  \/ kind = "twopset" /\ Update(r, "remove", e, [rep[r] EXCEPT !.tombstones = @ \cup {e}])
  \/ kind = "orset" /\ Update(r, "add", e, ors_add(rep[r], r, e))
  \/ kind = "orset" /\ Update(r, "remove", e, ors_remove(rep[r], e))

Assign(r, v) == kind = "lww" /\ Update(r, "add", v, lww_set(rep[r], v))

Merge(r) == \E m \in net : Becomes(r, Merged(rep[r], m.state), seen[r] \cup m.seen)

CrdtNext ==
  \/ \E r \in Replica : Count(r) \/ Merge(r)
  \/ \E r \in Replica, e \in Elements : ChangeSet(r, e) \/ Assign(r, e)

CrdtSpec == CrdtInit /\ [][CrdtNext]_crdtVars

------------------------------------------------------------------------------
Of(r, op, e) == {u \in seen[r] : u.op = op /\ u.element = e}

(* gc_merge, pn_merge, gset_merge, twopset_merge, ors_merge, lww_merge, in    *)
(* whatever order and however often states were merged.  The updates a       *)
(* replica has seen decide its value for counters, which count each update   *)
(* once, and for two-phase sets, which hold what was added and not removed.  *)
(* They do not for the others, whose replicas may differ after the same      *)
(* updates: a grow-only or an OR-set holds at least the elements that nobody *)
(* removed and at most those that somebody added, and a register holds one   *)
(* of the writes that no other write it has seen was made after.             *)
SeenDecides ==
  \A r \in Replica :
    /\ kind = "gcounter" => gc_value(rep[r]) = Cardinality(Of(r, "add", 0))
    /\ kind = "pncounter" =>
         pn_value(rep[r]) = Cardinality(Of(r, "add", 0)) - Cardinality(Of(r, "remove", 0))
    /\ kind \in {"gset", "orset", "twopset"} => \A e \in Elements :
         LET holds == CASE kind = "gset" -> e \in rep[r]
                        [] kind = "orset" -> ors_contains(rep[r], e)
                        [] kind = "twopset" -> twopset_contains(rep[r], e)
             added == Of(r, "add", e) # {}
             removed == Of(r, "remove", e) # {}
         IN  /\ (added /\ ~removed) => holds
             /\ holds => added
             /\ (kind = "twopset" /\ removed) => ~holds
    /\ (kind = "lww" /\ seen[r] # {}) =>
         \E u \in seen[r] : /\ u.element = rep[r].value
                            /\ \A w \in seen[r] : u.no \notin w.after

(* The package's primer on a CRDT: its merge is commutative, associative and *)
(* idempotent, so replicas that have seen the same updates are equal.        *)
(* It does not hold of the register: lww_set and lww_merge keep the last     *)
(* writer's id and not the id of the value.                                  *)
SameSeenSameRegister ==
  kind = "lww" => \A r, q \in Replica : seen[r] = seen[q] => rep[r].value = rep[q].value

-----------------------------------------------------------------------------
(***************************************************************************)
(* mini-dist-system-theory/src/gossip.c: push, pull and push-pull gossip of  *)
(* versioned items in a simulated network.  The messages wait in a ring,     *)
(* which drops what does not fit, until gossip_process_round takes them all. *)
(* Either gossip_rounds_to_converge runs, in whose rounds the nodes send in  *)
(* their order to peers drawn at random before the messages are processed,   *)
(* or the program calls sending and processing as it likes.  A push does not *)
(* use the items it carries but those its sender has when it is processed.   *)
(* Version 0 is an item that a node does not have.                           *)
(***************************************************************************)

CONSTANTS
  N,          \* node_count
  Keys,
  Owner,      \* the node that updates a key: a key has one writer
  MaxItems,   \* GOSSIP_MAX_STATE_ITEMS
  QueueCap,   \* the messages the ring holds (255)
  MaxVersion  \* bound: updates of a key

VARIABLES
  mode, nodes, queue,
  sender      \* whose turn it is in a round, N when all have sent; -1: no rounds

epidemicVars == <<mode, nodes, queue, sender>>

Node == 0 .. (N - 1)
Have(n) == {k \in Keys : n.items[k].version > 0}

gossip_init_node == [items |-> [k \in Keys |-> [value |-> 0, version |-> 0]], infected |-> FALSE]

gossip_init_network ==
  /\ mode \in {"push", "pull", "push_pull"}
  /\ nodes = [i \in Node |-> gossip_init_node]
  /\ queue = <<>>
  /\ sender \in {0, -1}

(* Room for an item: it is there already, or the array is not full.          *)
Fits(n, k) == k \in Have(n) \/ Cardinality(Have(n)) < MaxItems

gossip_update_state(k, v) ==
  LET n == nodes[Owner[k]] IN
  /\ n.items[k].version < MaxVersion
  /\ nodes' = [nodes EXCEPT ![Owner[k]] =
       [items |-> IF Fits(n, k)
                    THEN [n.items EXCEPT ![k] = [value |-> v, version |-> @.version + 1]]
                    ELSE n.items,
        infected |-> TRUE]]
  /\ UNCHANGED <<mode, queue, sender>>

(* The other node's items that are new or newer.                             *)
gossip_merge_state(n, other) ==
  LET Take(items, k) ==
        IF other.items[k].version > items[k].version /\ Fits([items |-> items], k)
          THEN [items EXCEPT ![k] = other.items[k]] ELSE items
  IN  [items |-> FoldSet(LAMBDA k, items : Take(items, k), n.items, Have(other)),
       infected |-> n.infected \/ other.infected]

gossip_enqueue(q, ms) == LET all == q \o ms IN SubSeq(all, 1, Min({Len(all), QueueCap}))

(* The test before each round, by values and not by versions.                *)
gossip_converged ==
  \A i \in Node :
    /\ Cardinality(Have(nodes[i])) = Cardinality(Have(nodes[0]))
    /\ \A k \in Have(nodes[0]) :
         k \in Have(nodes[i]) /\ nodes[i].items[k].value = nodes[0].items[k].value

(* A node's message, for a fanout of one, to the peer the draw gives.        *)
gossip_send_round(i, peer) ==
  /\ sender \in {i, -1}
  /\ sender = 0 => ~gossip_converged
  /\ sender' = IF sender = -1 THEN -1 ELSE sender + 1
  /\ queue' = gossip_enqueue(queue,
       (IF mode \in {"push", "push_pull"}
          THEN <<[type |-> "push", from |-> i, to |-> peer]>> ELSE <<>>) \o
       (IF mode \in {"pull", "push_pull"}
          THEN <<[type |-> "pull", from |-> i, to |-> peer]>> ELSE <<>>))
  /\ UNCHANGED <<mode, nodes>>

(* Mutant: what was pulled stays in the copy.                                *)
PullForgotten(ns, m) ==
  IF m.type = "push" THEN [ns EXCEPT ![m.to] = gossip_merge_state(@, ns[m.from])] ELSE ns

(* A pull goes through a copy of the receiver's state.                       *)
Delivered(ns, m) ==
  IF m.type = "push"
    THEN [ns EXCEPT ![m.to] = gossip_merge_state(@, ns[m.from])]
    ELSE [ns EXCEPT ![m.from] =
            gossip_merge_state(@, gossip_merge_state(gossip_init_node, ns[m.to]))]

gossip_process_round ==
  /\ sender \in {N, -1} /\ queue # <<>>
  /\ sender' = IF sender = -1 THEN -1 ELSE 0
  /\ nodes' = FoldLeft(Delivered, nodes, queue)
  /\ queue' = <<>>
  /\ UNCHANGED mode

EpidemicNext ==
  \/ \E k \in Keys, v \in {0, 1} : gossip_update_state(k, v)
  \/ \E i \in Node : \E peer \in Node \ {i} : gossip_send_round(i, peer)
  \/ gossip_process_round

(* gossip_rounds_to_converge goes on, and a draw that comes up again and     *)
(* again gives every peer.                                                   *)
Fairness ==
  /\ WF_epidemicVars(sender # -1 /\ gossip_process_round)
  /\ \A i \in Node : \A peer \in Node \ {i} : SF_epidemicVars(sender = i /\ gossip_send_round(i, peer))

EpidemicSpec == gossip_init_network /\ [][EpidemicNext]_epidemicVars /\ Fairness

------------------------------------------------------------------------------
(* gossip_merge_state: a node that has the owner's version has the owner's   *)
(* value, none has a later one, and a node counts as infected when it has    *)
(* some item.                                                                *)
SameVersionSameValue ==
  \A i \in Node, k \in Keys :
    LET mine == nodes[i].items[k]
        owners == nodes[Owner[k]].items[k]
    IN  /\ mine.version <= owners.version
        /\ mine.version = owners.version => mine = owners
        /\ nodes[i].infected <=> Have(nodes[i]) # {}

(* gossip_rounds_to_converge: the rounds come to an end, in each of the      *)
(* three modes, while the ring holds the messages of the nodes that matter:  *)
(* all the pulls of a round, or the owners' pushes.                          *)
RoundsEnd == (sender # -1) ~> (sender = 0 /\ gossip_converged)
=============================================================================
