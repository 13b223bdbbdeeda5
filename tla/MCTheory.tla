------------------------------- MODULE MCTheory ------------------------------
(***************************************************************************)
(* The parts of mini-dist-system-theory for TLC.  They share no state, so a  *)
(* behaviour exercises one of them, named by part.  The constants of         *)
(* Leadership, Causality, Quorums and Dht are in MCTheory.cfg.               *)
(***************************************************************************)
EXTENDS Leadership, Causality, Quorums, Dht

VARIABLES
  part,
  kind, rep, seen, net, gmode, gnodes, gqueue, gsender          \* Convergence

varsRaft     == <<rnodes, rqueue, leader_id>>
varsElection == <<emode, enodes, elected_leader, election_in_progress, equeue, draining, faults>>
varsEpidemic == <<gmode, gnodes, gqueue, gsender>>
varsCrdt     == <<kind, rep, seen, net>>
varsSnapshot == <<processes, inflight, orderly, sends, resets>>
varsClocks   == <<clocks, events>>
varsCap      == <<cmode, values, partition_between, last, writes>>
varsGenerals == <<value, behavior, commander, order, round, turn, final_decision>>
allVars == <<part, varsRaft, varsElection, varsEpidemic, varsCrdt, varsSnapshot, varsClocks,
             varsCap, dhtVars, varsGenerals>>

(* The highest node is not the last.                                         *)
MCPriority == [i \in Node |-> (i + 1) % N]

(* Gossip of a key that node 0 updates twice, in a ring that holds a message *)
(* of every node: in push-pull mode it drops half of a round.                *)
REPLICAS == INSTANCE Convergence WITH
              Kinds <- {"gcounter", "pncounter", "gset", "twopset", "orset", "lww"},
              Replica <- {0, 1}, Elements <- {0, 1}, MaxCount <- 4, MaxOps <- 3,
              N <- 3, Keys <- {"a"}, Owner <- [k \in {"a"} |-> 0], MaxItems <- 1,
              QueueCap <- 3, MaxVersion <- 2, mode <- gmode, nodes <- gnodes, queue <- gqueue,
              sender <- gsender

(* Every process is linked to every other.                                   *)
MCChannels == {c \in Process \X Process : c[1] # c[2]}

MCInit ==
  /\ part \in {"raft", "election", "epidemic", "crdt", "snapshot", "clocks", "cap",
               "chord", "hash", "generals"}
  /\ raft_init_cluster
  /\ le_init_network /\ (part # "election" => emode = "bully")
  /\ REPLICAS!gossip_init_network /\ (part # "epidemic" => gmode = "push" /\ gsender = 0)
  /\ REPLICAS!CrdtInit /\ (part # "crdt" => kind = "gset")
  /\ snap_init_system
  /\ ClockInit
  /\ cap_configure /\ (part # "cap" => cmode = "CP")
  /\ chord_init /\ ch_init
  /\ IF part = "generals" THEN byz_init_network
     ELSE /\ value = <<>> /\ behavior = <<>> /\ commander = 0 /\ order = 0
          /\ round = 0 /\ turn = 0 /\ final_decision = -1

(* A step of the part leaves the variables of the others alone.              *)
Others(p) ==
  /\ p # "raft" => UNCHANGED varsRaft
  /\ p # "election" => UNCHANGED varsElection
  /\ p # "epidemic" => UNCHANGED varsEpidemic
  /\ p # "crdt" => UNCHANGED varsCrdt
  /\ p # "snapshot" => UNCHANGED varsSnapshot
  /\ p # "clocks" => UNCHANGED varsClocks
  /\ p # "cap" => UNCHANGED varsCap
  /\ p \notin {"chord", "hash"} => UNCHANGED dhtVars
  /\ p # "generals" => UNCHANGED varsGenerals
  /\ UNCHANGED part

MCNext ==
  \/ part = "raft" /\ RaftNext /\ Others("raft")
  \/ part = "election" /\ ElectionNext /\ Others("election")
  \/ part = "epidemic" /\ REPLICAS!EpidemicNext /\ Others("epidemic")
  \/ part = "crdt" /\ REPLICAS!CrdtNext /\ Others("crdt")
  \/ part = "snapshot" /\ SnapNext /\ Others("snapshot")
  \/ part = "clocks" /\ ClockNext /\ Others("clocks")
  \/ part = "cap" /\ CapNext /\ Others("cap")
  \/ part = "chord" /\ ChordNext /\ Others("chord")
  \/ part = "hash" /\ HashNext /\ Others("hash")
  \/ part = "generals" /\ ByzNext /\ Others("generals")

(* le_process_messages is a loop; in gossip_rounds_to_converge the nodes send *)
(* in turn before the round is processed, and the draws give every peer      *)
(* again and again.                                                          *)
Processes == part = "epidemic" /\ gsender # -1 /\ REPLICAS!gossip_process_round /\ Others("epidemic")
SendsTo(i, peer) ==
  part = "epidemic" /\ gsender = i /\ REPLICAS!gossip_send_round(i, peer) /\ Others("epidemic")

MCSpec ==
  /\ MCInit /\ [][MCNext]_allVars
  /\ WF_allVars(part = "election" /\ le_process_messages /\ Others("election"))
  /\ WF_allVars(Processes)
  /\ \A i \in 0 .. 2 : \A peer \in (0 .. 2) \ {i} : SF_allVars(SendsTo(i, peer))

------------------------------------------------------------------------------
(* crdt.c, gossip_merge_state, snap_process_marker, le_process_messages, in   *)
(* whatever order messages are taken.  Counters and two-phase sets show what *)
(* the updates they have seen add up to, and the other types stay within     *)
(* bounds (Convergence names them); in gossip, nodes that have the same      *)
(* version of an item have the same value; a snapshot that nothing disturbed *)
(* is complete exactly when it was started and no marker is in flight; and   *)
(* once the messages of a bully or ring election are processed, there is no  *)
(* leader or one that every node names, whatever crashed or came back.       *)
SeenDecides ==
  /\ part = "crdt" => REPLICAS!SeenDecides
  /\ part = "epidemic" => REPLICAS!SameVersionSameValue
  /\ part = "snapshot" => CompleteWhenQuiet
  /\ part = "election" => LeaderIsAgreed

(* le_process_messages, gossip_rounds_to_converge: the loop over the messages *)
(* of an election ends, unless the token of a crashed node goes round in a   *)
(* ring; the rounds of gossip end in each of its three modes, with the       *)
(* nodes' sends and the processing in the loop's order and the ring full.    *)
ElectionsAndGossipEnd ==
  /\ (part = "election" /\ draining) ~>
       \/ ~draining
       \/ \E k \in 1 .. Len(equeue) : /\ emode = "ring" /\ equeue[k].type = "election"
                                      /\ equeue[k].candidate_id \notin Active
  /\ (part = "epidemic" /\ gsender # -1) ~> (gsender = 0 /\ REPLICAS!gossip_converged)
==============================================================================
