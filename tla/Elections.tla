----------------------------- MODULE Elections ------------------------------
(***************************************************************************)
(* The three elections of mini-dist-protocol/src/leader_election.c.  They  *)
(* share no state; each has its own variables and next-state relation.     *)
(***************************************************************************)
EXTENDS Integers, FiniteSetsExt

-----------------------------------------------------------------------------
(***************************************************************************)
(* The bully algorithm of mini-dist-protocol/src/leader_election.c.  Calls  *)
(* run to completion.  message_count, a statistic that nothing reads, is    *)
(* left out.                                                                *)
(*                                                                          *)
(* outage is a history variable: all nodes have been down, and the highest  *)
(* running one has not been the leader since.                               *)
(***************************************************************************)

CONSTANT N   \* node_count

VARIABLES bnodes, outage

bullyVars == <<bnodes, outage>>

Node == 0 .. N - 1

BullyNode ==
  [ leader_id : Node \cup {-1},
    state     : {"IDLE", "ELECTION", "LEADER"},
    active    : BOOLEAN ]

(* bully_init.                                                               *)
BullyInit ==
  /\ bnodes = [i \in Node |-> [leader_id |-> -1, state |-> "IDLE", active |-> TRUE]]
  /\ outage = FALSE

Active(ns) == {i \in Node : ns[i].active}

(* Crashed nodes are assigned as well, and everyone's state becomes LEADER.  *)
bully_declare_leader(ns, l) ==
  [i \in Node |-> [ns[i] EXCEPT !.leader_id = l, !.state = "LEADER"]]

(* Mutant: the first higher node that answers ends the election there.       *)
RECURSIVE StopsAtFirst(_, _, _, _)
StopsAtFirst(ns, x, i, highest) ==
  IF i < N
  THEN IF i > highest /\ ns[i].active
       THEN [nodes |-> bully_declare_leader(ns, i), winner |-> i]
       ELSE StopsAtFirst(ns, x, i + 1, highest)
  ELSE [nodes  |-> IF highest = x /\ ns[x].active THEN bully_declare_leader(ns, x) ELSE ns,
        winner |-> highest]

(* The loop of bully_election(cluster, x) from index i on: every active peer *)
(* is put in state ELECTION, one above the highest seen so far runs an       *)
(* election of its own, and a node that heard from none declares itself.     *)
RECURSIVE Asks(_, _, _, _)
Asks(ns, x, i, highest) ==
  IF i < N
  THEN IF i = x \/ ~ns[i].active THEN Asks(ns, x, i + 1, highest)
       ELSE LET asked == [ns EXCEPT ![i].state = "ELECTION"]
            IN  IF i > highest
                THEN LET sub == Asks(asked, i, 0, i)
                     IN  Asks(sub.nodes, x, i + 1, Max({i, sub.winner}))
                ELSE Asks(asked, x, i + 1, highest)
  ELSE [nodes  |-> IF highest = x /\ ns[x].active THEN bully_declare_leader(ns, x) ELSE ns,
        winner |-> highest]

BullyElected(ns, x) == Asks(ns, x, 0, x).nodes

Outage(ns) ==
  \/ Active(ns) = {}
  \/ outage /\ ns[0].leader_id # Max(Active(ns))

bully_election(x) ==
  /\ bnodes' = BullyElected(bnodes, x)
  /\ outage' = Outage(bnodes')

bully_node_crash(x) ==
  LET down == [bnodes EXCEPT ![x].active = FALSE, ![x].state = "IDLE"]
  IN  /\ bnodes' = IF bnodes[x].leader_id = x /\ Active(down) # {}
                  THEN BullyElected(down, Max(Active(down))) ELSE down
      /\ outage' = Outage(bnodes')

(* The comparison reads the leader that node 0 knows.                        *)
bully_node_recover(x) ==
  LET up == [bnodes EXCEPT ![x].active = TRUE, ![x].state = "IDLE"]
  IN  /\ bnodes' = IF x > bnodes[0].leader_id THEN BullyElected(up, x) ELSE up
      /\ outage' = Outage(bnodes')

BullyNext == \E x \in Node : bully_election(x) \/ bully_node_crash(x) \/ bully_node_recover(x)

BullySpec == BullyInit /\ [][BullyNext]_bullyVars

-----------------------------------------------------------------------------
(* Properties.                                                               *)

(* Every field keeps its type.                                               *)
BullyTypeOK == bnodes \in [Node -> BullyNode] /\ outage \in BOOLEAN

(* All nodes name the same leader, and once one is declared it is the        *)
(* highest running node after any sequence of crashes and recoveries in      *)
(* which not everybody was down at once (bully_node_recover compares with    *)
(* the old leader, so after a total outage a low node does not run).         *)
BullyHighestLeads ==
  \A i \in Node :
    /\ bnodes[i].leader_id = bnodes[0].leader_id
    /\ bnodes[i].leader_id # -1 /\ ~outage => bnodes[i].leader_id = Max(Active(bnodes))

-----------------------------------------------------------------------------
(***************************************************************************)
(* The ring election of mini-dist-protocol/src/leader_election.c.  Calls    *)
(* run to completion; a crashed node never returns to the ring.  Of the     *)
(* token a node keeps, only token_owner is read again.                      *)
(***************************************************************************)

CONSTANTS
  MaxHops  \* RING_MAX_NODES * 2

VARIABLES
  rnodes,
  hung     \* a call of ring_node_crash never returned

ringVars == <<rnodes, hung>>

RingNode ==
  [ leader_id   : Node \cup {-1},
    next_id     : Node,
    active      : BOOLEAN,
    token_owner : BOOLEAN ]

(* ring_init.                                                                *)
RingInit ==
  /\ rnodes = [i \in Node |-> [ leader_id |-> -1, next_id |-> (i + 1) % N,
                               active |-> TRUE, token_owner |-> FALSE ]]
  /\ hung = FALSE

(* The first of n, n + 1, ..., around the ring, that is active.              *)
FirstActive(ns, n) ==
  LET far == Min({d \in 0 .. N - 1 : ns[(n + d) % N].active})
  IN  (n + far) % N

(* Where the token goes from node at: its successor, or the next active node *)
(* beyond it.                                                                *)
Successor(ns, at) ==
  LET n == ns[at].next_id
  IN  IF ns[n].active THEN n ELSE FirstActive(ns, n + 1)

(* The token after h hops: where it is, the highest node it has seen, who    *)
(* has owned it.  It stops where it started.                                 *)
Token(ns, x) ==
  LET walk[h \in 0 .. MaxHops] ==
        IF h = 0 THEN [at |-> x, highest |-> x, owners |-> {x}, complete |-> FALSE]
        ELSE LET t == walk[h - 1]
                 n == Successor(ns, t.at)
             IN  IF t.complete THEN t
                 ELSE [ at       |-> n,
                        highest  |-> Max({n, t.highest}),
                        owners   |-> t.owners \cup {n},
                        complete |-> n = x ]
  IN  walk[MaxHops]

(* Without an active node the token stays; when it comes back everyone       *)
(* learns the highest node it saw; when it never does (the initiator is      *)
(* down) the owners are left as they are.                                    *)
RingElected(ns, x) ==
  LET t == Token(ns, x)
  IN  CASE Active(ns) = {} -> [ns EXCEPT ![x].token_owner = TRUE]
        [] Active(ns) # {} /\ t.complete ->
             [i \in Node |-> [ns[i] EXCEPT !.leader_id = t.highest, !.token_owner = FALSE]]
        [] OTHER ->
             [i \in Node |-> [ns[i] EXCEPT !.token_owner = @ \/ i \in t.owners]]

ring_election(x) == ~hung /\ rnodes' = RingElected(rnodes, x) /\ UNCHANGED hung

(* The token may be handed to a node that is down.                           *)
ring_pass_token(x) ==
  /\ ~hung
  /\ rnodes[x].token_owner
  /\ rnodes' = [[rnodes EXCEPT ![rnodes[x].next_id].token_owner = TRUE]
                 EXCEPT ![x].token_owner = FALSE]
  /\ UNCHANGED hung

(* The ring after a crash: the first node that pointed to x, running or not, *)
(* now points to the next active node, or to itself.                         *)
Relinked(ns, x) ==
  LET before == {i \in Node : ns[i].next_id = x}
      i      == Min(before)
      d      == Min({e \in 1 .. N : ns[(x + e) % N].active \/ (x + e) % N = i})
  IN  IF before = {} THEN ns ELSE [ns EXCEPT ![i].next_id = (x + d) % N]

(* A crashed leader is replaced by an election that its next active node     *)
(* starts; if it was the last one, the search for that node never ends.      *)
ring_node_crash(x) ==
  LET down == [rnodes EXCEPT ![x].active = FALSE]
      ring == Relinked(down, x)
      led  == rnodes[x].leader_id = x
  IN  /\ ~hung
      /\ hung' = (led /\ Active(ring) = {})
      /\ rnodes' = IF led /\ Active(ring) # {}
                  THEN RingElected(ring, FirstActive(ring, x + 1)) ELSE ring

RingNext == \E x \in Node : ring_election(x) \/ ring_pass_token(x) \/ ring_node_crash(x)

RingSpec == RingInit /\ [][RingNext]_ringVars

-----------------------------------------------------------------------------
(* Properties.                                                               *)

(* Every field keeps its type.                                               *)
RingTypeOK == rnodes \in [Node -> RingNode] /\ hung \in BOOLEAN

(* As long as some node runs, all nodes name the highest running node or     *)
(* nobody yet: the token reaches every running node although ring_node_crash *)
(* repairs only one of the pointers to a crashed node, sometimes that of     *)
(* another crashed node.                                                     *)
RingHighestLeads ==
  Active(rnodes) # {} =>
    \A i \in Node : rnodes[i].leader_id \in {-1, Max(Active(rnodes))}
                    /\ rnodes[i].leader_id = rnodes[0].leader_id

(* A running node that crashed pointers lead past is never skipped: between  *)
(* a running node and its next_id everybody is down.                         *)
NobodyBypassed ==
  \A i \in Active(rnodes) :
    LET d == Min({e \in 1 .. N : (i + e) % N = rnodes[i].next_id})
    IN  \A e \in 1 .. d - 1 : ~rnodes[(i + e) % N].active

-----------------------------------------------------------------------------
(***************************************************************************)
(* The election by sequence numbers of mini-dist-protocol/src/              *)
(* leader_election.c.  Calls run to completion; a crashed node does not     *)
(* come back.  zk_watch_leader only counts messages.                        *)
(***************************************************************************)

CONSTANTS
  SeqLimit, \* the 999999 that stands for "no sequence seen yet"
  MaxSeq    \* bound of the model: no sequence number is drawn beyond it

VARIABLES znodes, next_sequence

zkVars == <<znodes, next_sequence>>

ZKNode == [sequence : Int, leader_id : Node \cup {-1}, active : BOOLEAN]

(* zk_init.                                                                  *)
ZkInit ==
  /\ znodes = [i \in Node |-> [sequence |-> -1, leader_id |-> -1, active |-> TRUE]]
  /\ next_sequence = 0

(* Every active node draws a new number, in index order.                     *)
Redrawn(ns, seq) ==
  [i \in Node |-> IF ns[i].active
                  THEN [ns[i] EXCEPT !.sequence = seq + Cardinality({j \in Active(ns) : j < i})]
                  ELSE ns[i]]

(* The active node with the lowest number below the limit leads; without one *)
(* nothing changes.                                                          *)
LowestLeads(ns) ==
  LET able == {i \in Active(ns) : ns[i].sequence >= 0 /\ ns[i].sequence < SeqLimit}
  IN  IF able = {} THEN ns
      ELSE LET l == CHOOSE i \in able : \A j \in able : ns[i].sequence <= ns[j].sequence
           IN  [i \in Node |-> [ns[i] EXCEPT !.leader_id = l]]

Elect(ns) ==
  /\ znodes' = LowestLeads(Redrawn(ns, next_sequence))
  /\ next_sequence' = next_sequence + Cardinality(Active(ns))

zk_leader_election == next_sequence < MaxSeq /\ Elect(znodes)

(* Also for a node that is down.                                             *)
zk_create_ephemeral_sequential(x) ==
  /\ next_sequence < MaxSeq
  /\ znodes' = [znodes EXCEPT ![x].sequence = next_sequence]
  /\ next_sequence' = next_sequence + 1

zk_node_crash(x) ==
  LET down == [znodes EXCEPT ![x].active = FALSE, ![x].sequence = -1]
  IN  IF znodes[x].leader_id = x THEN next_sequence < MaxSeq /\ Elect(down)
      ELSE znodes' = down /\ UNCHANGED next_sequence

ZkNext ==
  \/ zk_leader_election
  \/ \E x \in Node : zk_create_ephemeral_sequential(x) \/ zk_node_crash(x)

ZkSpec == ZkInit /\ [][ZkNext]_zkVars

-----------------------------------------------------------------------------
(* Properties.                                                               *)

(* Every field keeps its type, and no two active nodes hold the same number. *)
ZkTypeOK ==
  /\ znodes \in [Node -> ZKNode]
  /\ next_sequence \in 0 .. MaxSeq + N
  /\ \A i, j \in Active(znodes) :
       i # j /\ znodes[i].sequence >= 0 => znodes[i].sequence # znodes[j].sequence

(* The elected leader is running for as long as anybody is, unless the       *)
(* numbers have reached the limit: from then on zk_node_crash finds no       *)
(* successor and leaves the crashed leader in place.                         *)
LeaderRuns ==
  \A i \in Node :
    \/ znodes[i].leader_id \in Active(znodes) \cup {-1}
    \/ Active(znodes) = {}
    \/ \A j \in Active(znodes) : znodes[j].sequence >= SeqLimit
=============================================================================
