---------------------------- MODULE MCConsensus -----------------------------
(***************************************************************************)
(* mini-dist-protocol other than Raft for TLC: Paxos, the log on top of it, *)
(* three elections, gossip, SWIM membership, and the stores and locks built *)
(* as applications.  They share no state, so a behaviour exercises one of   *)
(* them, named by part, and leaves the others as they were initialised.     *)
(***************************************************************************)
EXTENDS Paxos, DistributedApps

VARIABLES
  part,
  bnodes, outage, rnodes, hung,               \* Elections
  znodes, next_sequence

varsBully == <<bnodes, outage>>
varsRing  == <<rnodes, hung>>
varsZk    == <<znodes, next_sequence>>
allVars   == <<part, vars, multiVars, varsBully, varsRing, varsZk, gossipVars, swimVars,
               dlmVars, ecVars, dtxVars, replicas>>

(* Four nodes, and numbers that pass the limit.                              *)
ELECT == INSTANCE Elections WITH N <- 4, MaxHops <- 20, SeqLimit <- 5, MaxSeq <- 6

MCInit ==
  /\ part \in {"paxos", "multi", "bully", "ring", "zk", "gossip", "swim",
               "leases", "ec", "kv", "dtx"}
  /\ Init /\ MultiInit /\ ELECT!BullyInit /\ ELECT!RingInit /\ ELECT!ZkInit
  /\ GossipInit /\ (part # "gossip" => neighbors \in gossip_init("ring"))
  /\ SwimInit /\ ec_init
  /\ dlm_init /\ dkv_init /\ dtx_init

(* Everything but the state of the part named p.                             *)
Others(p) ==
  /\ UNCHANGED part
  /\ p # "paxos"  => UNCHANGED vars
  /\ p # "multi"  => UNCHANGED multiVars
  /\ p # "bully"  => UNCHANGED varsBully
  /\ p # "ring"   => UNCHANGED varsRing
  /\ p # "zk"     => UNCHANGED varsZk
  /\ p # "gossip" => UNCHANGED gossipVars
  /\ p # "swim"   => UNCHANGED swimVars
  /\ p # "leases" => UNCHANGED dlmVars
  /\ p # "ec"     => UNCHANGED ecVars
  /\ p # "kv"     => UNCHANGED replicas
  /\ p # "dtx"    => UNCHANGED dtxVars

MCNext ==
  \/ part = "paxos" /\ Next /\ Others("paxos")
  \/ part = "multi" /\ MultiNext /\ Others("multi")
  \/ part = "bully" /\ ELECT!BullyNext /\ Others("bully")
  \/ part = "ring" /\ ELECT!RingNext /\ Others("ring")
  \/ part = "zk" /\ ELECT!ZkNext /\ Others("zk")
  \/ part = "gossip" /\ GossipNext /\ Others("gossip")
  \/ part = "swim" /\ SwimNext /\ Others("swim")
  \/ part = "leases" /\ DlmNext /\ Others("leases")
  \/ part = "ec" /\ EcNext /\ Others("ec")
  \/ part = "kv" /\ DkvNext /\ Others("kv")
  \/ part = "dtx" /\ DtxNext /\ Others("dtx")

(* The only liveness is that of gossip.                                      *)
MCSpec == MCInit /\ [][MCNext]_allVars /\ (part = "gossip" => Fairness)

-----------------------------------------------------------------------------
(* The properties of the instances, each stated in its own module.           *)

(* Every object keeps its type and every table its capacity.                 *)
TypesOK ==
  /\ TypeOK /\ MultiTypeOK /\ ELECT!BullyTypeOK /\ ELECT!RingTypeOK /\ ELECT!ZkTypeOK
  /\ GossipTypeOK /\ SwimTypeOK

(* Elections: after any sequence of crashes and recoveries the right node    *)
(* leads: the highest running one (bully, but for a total outage, and ring,  *)
(* whose links leave no running node out), one that runs (sequence numbers), *)
(* or the one to which the acceptors promised last (Multi-Paxos).            *)
RightNodeLeads ==
  /\ TypesOK
  /\ ELECT!BullyHighestLeads
  /\ ELECT!RingHighestLeads /\ ELECT!NobodyBypassed
  /\ ELECT!LeaderRuns
  /\ LeaderHoldsPromise

(* Gossip: push-pull rounds reach agreement.                                 *)
Converges == part = "gossip" => RoundsConverge

(* The versioned store: replication applies what is newer, nothing older.    *)
NewerApplied == [][NewerWins]_allVars
=============================================================================
