------------------------------ MODULE Quorums -------------------------------
(***************************************************************************)
(* Majorities in mini-dist-system-theory: a store under partition and the  *)
(* Byzantine generals.  They share no state.                               *)
(***************************************************************************)
EXTENDS Integers, FiniteSets, FiniteSetsExt

-----------------------------------------------------------------------------
(***************************************************************************)
(* mini-dist-system-theory/src/cap_theorem.c: a replicated register under    *)
(* partitions, in three modes.  No function of the library takes a node      *)
(* offline, so every node is online.  A write is a number, so that a later   *)
(* one can be told from an earlier one; 0 is the empty value.                *)
(***************************************************************************)

CONSTANTS
  CapNodes,            \* CAP_MAX_NODES
  MaxWrites     \* bound: writes

ASSUME CapAssumption == CapNodes \in Nat \ {0} /\ MaxWrites \in Nat

VARIABLES
  cmode, values, partition_between,
  last,         \* the number of the last write that succeeded
  writes        \* writes tried
capVars == <<cmode, values, partition_between, last, writes>>

CapNode == 0 .. (CapNodes - 1)

cap_configure ==
  /\ cmode \in {"CP", "AP", "CA"}
  /\ values = [i \in CapNode |-> 0]
  /\ partition_between = {}
  /\ last = 0 /\ writes = 0

can_reach(i, j) == i = j \/ {i, j} \notin partition_between
quorum_size == (CapNodes \div 2) + 1
reachable_nodes(i) == {j \in CapNode : can_reach(i, j)}

WritesAnyway(i) == TRUE
EnoughReachable(i) == Cardinality(reachable_nodes(i)) >= quorum_size

(* CA writes everywhere, through partitions too; CP refuses without a quorum. *)
cap_write(i) ==
  /\ writes < MaxWrites
  /\ writes' = writes + 1
  /\ LET written == IF cmode = "CA" THEN CapNode ELSE reachable_nodes(i)
     IN  IF cmode = "CP" /\ ~EnoughReachable(i)
           THEN UNCHANGED <<values, last>>
           ELSE /\ values' = [j \in CapNode |-> IF j \in written THEN writes + 1 ELSE values[j]]
                /\ last' = writes + 1
  /\ UNCHANGED <<cmode, partition_between>>

(* What a read returns.  In CP the first reachable node that has any value.  *)
cap_read(i) ==
  LET having == {j \in reachable_nodes(i) : values[j] # 0}
  IN  IF cmode # "CP" THEN values[i] ELSE IF having = {} THEN 0 ELSE values[Min(having)]
Refused(i) == cmode = "CP" /\ ~EnoughReachable(i)

cap_create_partition(i, j) ==
  /\ i # j /\ {i, j} \notin partition_between
  /\ partition_between' = partition_between \cup {{i, j}}
  /\ UNCHANGED <<cmode, values, last, writes>>

cap_heal_partition(i, j) ==
  /\ {i, j} \in partition_between
  /\ partition_between' = partition_between \ {{i, j}}
  /\ UNCHANGED <<cmode, values, last, writes>>

CapNext ==
  \E i \in CapNode : cap_write(i) \/ \E j \in CapNode : cap_create_partition(i, j) \/ cap_heal_partition(i, j)

CapSpec == cap_configure /\ [][CapNext]_capVars

------------------------------------------------------------------------------
(* cap_write, cap_read: in CP, whatever partitions came and went, a node     *)
(* whose read is not refused reaches one that has the last successful write; *)
(* in CA every node has it; in AP its own writes are never refused.          *)
LastWriteInReach ==
  \A i \in CapNode :
    /\ (cmode = "CP" /\ ~Refused(i)) => \E j \in reachable_nodes(i) : values[j] = last
    /\ cmode = "CA" => cap_read(i) = last
    /\ cmode = "AP" => last = writes

(* cap_print_mode, cap_theorem.c: "CP (Consistent + Partition-tolerant,      *)
(* sacrifice A)": a read that CP does not refuse returns the last write.     *)
(* It does not hold: the first reachable node that has a value answers.      *)
ConsistentReads ==
  \A i \in CapNode : (cmode = "CP" /\ ~Refused(i)) => cap_read(i) = last

-----------------------------------------------------------------------------
(***************************************************************************)
(* mini-dist-system-theory/src/byzantine.c: the oral-messages algorithm, as  *)
(* byz_om_algorithm runs it.  In round 0 the lieutenants take what the       *)
(* commander sends; in every later round each of them, one after another,    *)
(* takes the majority of what the others send, which is what they hold by    *)
(* then.  Faulty generals lie in one of three ways; ties are drawn.          *)
(***************************************************************************)

CONSTANTS
  Generals,    \* general_count
  M,           \* rounds after the first, and faulty generals at most
  Commanders   \* who may command

ASSUME GeneralsAssumption ==
  Generals \in Nat \ {0} /\ M \in Nat /\ Commanders \subseteq 0 .. (Generals - 1)

VARIABLES
  value,       \* of each general
  behavior,    \* of each general; "honest" if it is not faulty
  commander, order,      \* who commands, and with which value
  round, turn,           \* the loops of byz_om_algorithm
  final_decision

byzVars == <<value, behavior, commander, order, round, turn, final_decision>>

General == 0 .. (Generals - 1)
Faulty == {i \in General : behavior[i] # "honest"}

byz_check_conditions == Generals > 3 * M

byz_init_network ==
  /\ value \in [General -> {0, 1}]
  /\ behavior \in [General -> {"honest", "silent", "random", "traitor"}]
  /\ byz_check_conditions /\ Cardinality(Faulty) <= M
  /\ commander \in Commanders
  /\ order = value[commander]
  /\ round = 0 /\ turn = 0
  /\ final_decision = -1

(* What a general may send: -1 is nothing.                                   *)
byz_send_value(i) ==
  CASE behavior[i] = "honest" -> {value[i]}
    [] behavior[i] = "silent" -> {-1}
    [] behavior[i] = "random" -> {0, 1}
    [] behavior[i] = "traitor" -> {1 - value[i]}

(* The messages that may reach receiver, one vector of them at a time.       *)
byz_collect_values(receiver) ==
  {f \in [General \ {receiver} -> {-1, 0, 1}] :
     \A i \in General \ {receiver} : f[i] \in byz_send_value(i)}

(* The values a majority may be taken as: any, when there is none.           *)
byz_majority(f) ==
  LET Number(v) == Cardinality({i \in DOMAIN f : f[i] = v})
  IN  {v \in {0, 1} : Number(v) >= Number(1 - v)}

Heard(f) == \E i \in DOMAIN f : f[i] >= 0

Takes(v, i) == value' = [value EXCEPT ![i] = v]

(* The turn of general turn in a round.                                      *)
TakesOrder ==
  /\ round = 0 /\ turn < Generals /\ turn # commander
  /\ \E v \in byz_send_value(commander) :
       IF v >= 0 THEN Takes(v, turn) ELSE UNCHANGED value
  /\ turn' = turn + 1
  /\ UNCHANGED <<behavior, commander, order, round, final_decision>>

TakesMajority ==
  /\ round \in 1 .. M /\ turn < Generals /\ turn # commander
  /\ \E f \in byz_collect_values(turn) :
       IF Heard(f) THEN \E v \in byz_majority(f) : Takes(v, turn) ELSE UNCHANGED value
  /\ turn' = turn + 1
  /\ UNCHANGED <<behavior, commander, order, round, final_decision>>

NextTurn ==
  /\ round <= M
  /\ \/ turn = commander /\ turn' = turn + 1 /\ UNCHANGED round
     \/ turn = Generals /\ turn' = 0 /\ round' = round + 1
  /\ UNCHANGED <<value, behavior, commander, order, final_decision>>

(* The decision is the majority of what general 0 hears.                     *)
Decides ==
  /\ round = M + 1 /\ final_decision = -1
  /\ \E f \in byz_collect_values(0) :
       IF Heard(f) THEN final_decision' \in byz_majority(f)
       ELSE final_decision' = value[commander]
  /\ UNCHANGED <<value, behavior, commander, order, round, turn>>

byz_om_algorithm == TakesOrder \/ TakesMajority \/ NextTurn \/ Decides

ByzNext == byz_om_algorithm
ByzSpec == byz_init_network /\ [][ByzNext]_byzVars

------------------------------------------------------------------------------
(* byz_om_algorithm, byz_majority: under a loyal commander, whoever else is  *)
(* faulty and however it lies, the decision is the commander's order, and    *)
(* every loyal general holds it.                                             *)
LoyalOrderObeyed ==
  (final_decision # -1 /\ commander \notin Faulty) =>
    /\ final_decision = order
    /\ \A i \in General \ Faulty : value[i] = order

(* byz_check_conditions: "n > 3*m -> consensus possible".  It does not hold  *)
(* when the commander is the faulty one.                                     *)
LoyalAgree ==
  final_decision # -1 =>
    \A i, j \in General \ (Faulty \cup {commander}) : value[i] = value[j]

(* cap_write, byz_om_algorithm: in CP a node whose read is not refused       *)
(* reaches the last write, in CA every node has it, and AP refuses nobody;   *)
(* a loyal commander's order is decided and held by every loyal general.     *)
QuorumsPrevail == LastWriteInReach /\ LoyalOrderObeyed
=============================================================================
