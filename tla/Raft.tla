-------------------------------- MODULE Raft --------------------------------
(***************************************************************************)
(* mini-dist-protocol/src/raft.c: a single-threaded simulation of a Raft   *)
(* cluster.  The array RaftNode nodes[n] is the variable nodes, one record  *)
(* per node; an RPC is a direct call of the receiver's handler, so sending  *)
(* to all peers is one step.  raft_tick walks the array in index order;     *)
(* turn is the index of the node it will process next, and the caller of    *)
(* the library (submit, isolate, reconnect) runs only between two ticks,    *)
(* when turn = 0.                                                           *)
(*                                                                          *)
(* Timers are abstracted: the caller chooses delta_ms and every election    *)
(* timeout is redrawn at random in [150, 300] ms, so at its turn a node's   *)
(* timer may or may not have reached its limit.                             *)
(***************************************************************************)
EXTENDS Integers, Sequences, FiniteSets

CONSTANTS
  N,         \* cluster_size
  Commands,  \* the values clients submit
  MaxLog,    \* RAFT_MAX_LOG_ENTRIES
  MaxBatch,  \* capacity of AppendEntriesRPC.entries (128 in raft.h)
  MaxTerm,   \* bound of the model: no node starts an election beyond it
  MaxDown    \* bound of the model: how many nodes are isolated at a time

ASSUME RaftAssumption ==
  /\ N \in Nat \ {0}
  /\ MaxLog \in Nat \ {0}
  /\ MaxBatch \in Nat \ {0}
  /\ MaxTerm \in Nat
  /\ MaxDown \in Nat

VARIABLES nodes, turn

vars == <<nodes, turn>>

Node == 0 .. N - 1

NONE == -1

LogEntry == [term : Nat, command : Commands]

RaftNode ==
  [ state          : {"FOLLOWER", "CANDIDATE", "LEADER"},
    current_term   : Nat,
    voted_for      : Node \cup {NONE},
    log            : Seq(LogEntry),
    commit_index   : Nat,
    next_index     : [Node -> Nat \ {0}],
    match_index    : [Node -> Nat],
    votes_received : Nat,
    active         : BOOLEAN ]

-----------------------------------------------------------------------------
(* Helpers of raft.c.                                                       *)

raft_quorum_size == N \div 2 + 1

raft_last_log_index(nd) == Len(nd.log)

raft_last_log_term(nd) ==
  IF Len(nd.log) = 0 THEN 0 ELSE nd.log[Len(nd.log)].term

raft_log_ok(nd, prev_log_index, prev_log_term) ==
  \/ prev_log_index = 0
  \/ /\ prev_log_index <= Len(nd.log)
     /\ nd.log[prev_log_index].term = prev_log_term

raft_become_follower(nd, term) ==
  [nd EXCEPT !.current_term = IF term > @ THEN term ELSE @,
             !.state = "FOLLOWER",
             !.voted_for = NONE,
             !.votes_received = 0]

(* Mutant: the vote of the previous term is kept.                            *)
BecomeCandidateKeepsVote(nd, i) ==
  [nd EXCEPT !.state = "CANDIDATE",
             !.current_term = @ + 1,
             !.votes_received = 1]

raft_become_candidate(nd, i) ==
  [nd EXCEPT !.state = "CANDIDATE",
             !.current_term = @ + 1,
             !.voted_for = i,
             !.votes_received = 1]

raft_become_leader(nd) ==
  [nd EXCEPT !.state = "LEADER",
             !.voted_for = NONE,
             !.votes_received = 0,
             !.next_index = [j \in Node |-> Len(nd.log) + 1],
             !.match_index = [j \in Node |-> 0]]

-----------------------------------------------------------------------------
(* RequestVote.  A handler is a function of the receiver's record and the    *)
(* RPC: the receiver's new record, and whether the call granted or accepted. *)

CatchUp(nd, term) ==
  IF term > nd.current_term THEN raft_become_follower(nd, term) ELSE nd

UpToDate(rpc, nd) ==
  \/ rpc.last_log_term > raft_last_log_term(nd)
  \/ /\ rpc.last_log_term = raft_last_log_term(nd)
     /\ rpc.last_log_index >= raft_last_log_index(nd)

VoteGranted(nd, rpc) ==
  /\ rpc.term >= nd.current_term
  /\ CatchUp(nd, rpc.term).voted_for \in {NONE, rpc.candidate_id}
  /\ UpToDate(rpc, nd)

raft_handle_request_vote(nd, rpc) ==
  CASE rpc.term < nd.current_term -> nd
    [] VoteGranted(nd, rpc) ->
         [CatchUp(nd, rpc.term) EXCEPT !.voted_for = rpc.candidate_id]
    [] OTHER -> CatchUp(nd, rpc.term)

RequestVote(nd, i) ==
  [ term           |-> nd.current_term,
    candidate_id   |-> i,
    last_log_index |-> raft_last_log_index(nd),
    last_log_term  |-> raft_last_log_term(nd) ]

(* Every grant received at a tick is added to votes_received; a candidate    *)
(* asks all its peers again at its next tick.                                *)
raft_send_request_vote(ns, i) ==
  LET rpc   == RequestVote(ns[i], i)
      peers == {j \in Node \ {i} : ns[j].active}
      yes   == {j \in peers : VoteGranted(ns[j], rpc)}
  IN  [j \in Node |->
         IF j = i THEN [ns[i] EXCEPT !.votes_received = @ + Cardinality(yes)]
         ELSE IF j \in peers THEN raft_handle_request_vote(ns[j], rpc)
         ELSE ns[j]]

-----------------------------------------------------------------------------
(* AppendEntries.                                                            *)

(* Mutant: a conflicting entry is overwritten and what follows it is kept.   *)
MergeKeepsTail(log, prev, entries) ==
  LET m == IF prev + Len(entries) <= MaxLog THEN Len(entries) ELSE MaxLog - prev
  IN  SubSeq(log, 1, prev) \o SubSeq(entries, 1, m)
        \o SubSeq(log, prev + m + 1, Len(log))

(* The copy loop: entries already present with the same term are kept, the   *)
(* first missing or conflicting one cuts the log, and the rest is appended,  *)
(* up to the capacity of the log array.                                      *)
MergeEntries(log, prev, entries) ==
  LET m   == IF prev + Len(entries) <= MaxLog THEN Len(entries) ELSE MaxLog - prev
      new == {k \in 1 .. m : \/ prev + k > Len(log)
                             \/ log[prev + k].term # entries[k].term}
  IN  IF new = {} THEN log
      ELSE LET c == CHOOSE k \in new : \A l \in new : k <= l
           IN  SubSeq(log, 1, prev + c - 1) \o SubSeq(entries, c, m)

Accepts(nd, rpc) ==
  /\ rpc.term >= nd.current_term
  /\ raft_log_ok(nd, rpc.prev_log_index, rpc.prev_log_term)

(* Mutant: the commit index always follows the leader's.                     *)
FollowerCommitFollows(commit, rpc) ==
  IF rpc.leader_commit > rpc.prev_log_index + Len(rpc.entries)
  THEN rpc.prev_log_index + Len(rpc.entries) ELSE rpc.leader_commit

FollowerCommit(commit, rpc) ==
  LET last_new   == rpc.prev_log_index + Len(rpc.entries)
      new_commit == IF rpc.leader_commit > last_new THEN last_new
                    ELSE rpc.leader_commit
  IN  IF new_commit > commit THEN new_commit ELSE commit

raft_handle_append_entries(nd, rpc) ==
  CASE rpc.term < nd.current_term -> nd
    [] Accepts(nd, rpc) ->
         [CatchUp(nd, rpc.term) EXCEPT
            !.log = MergeEntries(@, rpc.prev_log_index, rpc.entries),
            !.commit_index = FollowerCommit(@, rpc)]
    [] OTHER -> CatchUp(nd, rpc.term)

AppendEntries(nd, j, entries) ==
  LET prev == nd.next_index[j] - 1
  IN  [ term           |-> nd.current_term,
        prev_log_index |-> prev,
        prev_log_term  |-> IF prev > 0 /\ prev <= Len(nd.log)
                           THEN nd.log[prev].term ELSE 0,
        entries        |-> entries,
        leader_commit  |-> nd.commit_index ]

(* The replies of heartbeats are ignored.                                    *)
raft_send_heartbeat(ns, i) ==
  [j \in Node |->
     IF j # i /\ ns[j].active
     THEN raft_handle_append_entries(ns[j], AppendEntries(ns[i], j, <<>>))
     ELSE ns[j]]

(* What the leader still has to send to j, at most MaxBatch entries.         *)
Batch(nd, j) ==
  LET first == nd.next_index[j]
      last  == first + MaxBatch - 1
  IN  SubSeq(nd.log, first, IF last <= Len(nd.log) THEN last ELSE Len(nd.log))

(* The highest entry of the leader's own term that a quorum has, counting    *)
(* match_index of the active peers.                                          *)
LeaderCommit(ns, i) ==
  LET nd      == ns[i]
      Have(n) == {j \in Node : j = i \/ (ns[j].active /\ nd.match_index[j] >= n)}
      ready   == {n \in nd.commit_index + 1 .. Len(nd.log) :
                    /\ nd.log[n].term = nd.current_term
                    /\ Cardinality(Have(n)) >= raft_quorum_size}
  IN  IF ready = {} THEN nd.commit_index
      ELSE CHOOSE n \in ready : \A k \in ready : k <= n

(* next_index of a peer after its reply: past what it accepted, or one back. *)
NextIndex(old, accepted, sent) ==
  CASE accepted -> old + sent
    [] ~accepted /\ old > 1 -> old - 1
    [] OTHER -> old

raft_send_append_entries(ns, i) ==
  LET peers  == {j \in Node \ {i} : ns[j].active}
      rpc(j) == AppendEntries(ns[i], j, Batch(ns[i], j))
      ok     == {j \in peers : Accepts(ns[j], rpc(j))}
      next   == [j \in Node |->
                   IF j \in peers
                   THEN NextIndex(ns[i].next_index[j], j \in ok, Len(rpc(j).entries))
                   ELSE ns[i].next_index[j]]
      match  == [j \in Node |-> IF j \in ok THEN next[j] - 1
                                ELSE ns[i].match_index[j]]
      sent   == [j \in Node |->
                   IF j = i THEN [ns[i] EXCEPT !.next_index = next,
                                               !.match_index = match]
                   ELSE IF j \in peers THEN raft_handle_append_entries(ns[j], rpc(j))
                   ELSE ns[j]]
  IN  [sent EXCEPT ![i].commit_index = LeaderCommit(sent, i)]

-----------------------------------------------------------------------------
(* raft_init_cluster.                                                        *)
Init ==
  /\ nodes = [i \in Node |->
       [ state |-> "FOLLOWER", current_term |-> 0, voted_for |-> NONE,
         log |-> <<>>, commit_index |-> 0,
         next_index |-> [j \in Node |-> 1], match_index |-> [j \in Node |-> 0],
         votes_received |-> 0, active |-> TRUE ]]
  /\ turn = 0

(* raft_tick, one iteration of its loop: node turn is processed.             *)
NextTurn == turn' = (turn + 1) % N

(* The node is inactive, or its timer has not reached its limit.             *)
TickIdle ==
  /\ ~nodes[turn].active \/ nodes[turn].state # "CANDIDATE"
  /\ NextTurn
  /\ UNCHANGED nodes

(* The election timer of a follower or a candidate has reached its limit.    *)
TickElection ==
  /\ nodes[turn].active
  /\ nodes[turn].state # "LEADER"
  /\ nodes[turn].current_term < MaxTerm
  /\ nodes' = [nodes EXCEPT ![turn] = raft_become_candidate(@, turn)]
  /\ NextTurn

(* A candidate whose timer still runs asks for votes.                        *)
TickCandidate ==
  /\ nodes[turn].active
  /\ nodes[turn].state = "CANDIDATE"
  /\ LET asked == raft_send_request_vote(nodes, turn)
     IN  nodes' = IF asked[turn].votes_received >= raft_quorum_size
                  THEN [asked EXCEPT ![turn] = raft_become_leader(@)]
                  ELSE asked
  /\ NextTurn

(* A leader whose heartbeat is due: a heartbeat, then the missing entries.   *)
TickLeader ==
  /\ nodes[turn].active
  /\ nodes[turn].state = "LEADER"
  /\ nodes' = raft_send_append_entries(raft_send_heartbeat(nodes, turn), turn)
  /\ NextTurn

raft_tick == TickIdle \/ TickElection \/ TickCandidate \/ TickLeader

(* An isolated leader can still be handed a command: only state is checked.  *)
raft_submit_command(i, c) ==
  /\ turn = 0
  /\ nodes[i].state = "LEADER"
  /\ Len(nodes[i].log) < MaxLog
  /\ LET entry == [term |-> nodes[i].current_term, command |-> c]
     IN  nodes' = raft_send_append_entries(
                    [nodes EXCEPT ![i].log = Append(@, entry)], i)
  /\ UNCHANGED turn

raft_isolate_node(i) ==
  /\ turn = 0
  /\ Cardinality({j \in Node \ {i} : ~nodes[j].active}) < MaxDown
  /\ nodes' = [nodes EXCEPT ![i].active = FALSE]
  /\ UNCHANGED turn

raft_reconnect_node(i) ==
  /\ turn = 0
  /\ nodes' = [nodes EXCEPT ![i] =
                 raft_become_follower([@ EXCEPT !.active = TRUE], @.current_term)]
  /\ UNCHANGED turn

Next ==
  \/ raft_tick
  \/ \E i \in Node :
       \/ \E c \in Commands : raft_submit_command(i, c)
       \/ raft_isolate_node(i)
       \/ raft_reconnect_node(i)

Spec == Init /\ [][Next]_vars

-----------------------------------------------------------------------------
(* Properties.                                                               *)

(* Every field keeps its type; next_index never falls below 1, the value     *)
(* that raft_send_append_entries turns into the array position 0, and the    *)
(* log never outgrows its array.                                             *)
TypeOK ==
  /\ nodes \in [Node -> RaftNode]
  /\ turn \in Node
  /\ \A i \in Node : Len(nodes[i].log) <= MaxLog

SortedLog(log, term) ==
  /\ \A k \in 1 .. Len(log) : 0 < log[k].term /\ log[k].term <= term
  /\ \A k \in 1 .. Len(log) - 1 : log[k].term <= log[k + 1].term

(* The terms along every log never decrease and none lies beyond the node's   *)
(* own term, whatever mixture of leaders has cut and extended the log: the    *)
(* comparison of last entries in raft_handle_request_vote rests on it.        *)
LogTermsSorted ==
  \A i \in Node : SortedLog(nodes[i].log, nodes[i].current_term)

(* A recorded vote is a vote of the node's current term: the candidate it     *)
(* names has reached that term (raft_become_follower forgets the vote of the  *)
(* old term before raft_handle_request_vote records the new one).             *)
VotedForStarted ==
  \A i \in Node :
    nodes[i].voted_for # NONE =>
      nodes[nodes[i].voted_for].current_term >= nodes[i].current_term

(* No node, in no role, ever goes back in term or in commit index, isolated,  *)
(* deposed and reconnected as it may be.                                      *)
NeverBack ==
  [][\A i \in Node :
       /\ nodes'[i].current_term >= nodes[i].current_term
       /\ nodes'[i].commit_index >= nodes[i].commit_index]_vars

(* docs/consensus-protocols.md, "Safety": no two decided values differ.  Two  *)
(* nodes that have both committed a position hold the same entry there.       *)
StateMachineSafety ==
  \A i, j \in Node :
    \A k \in 1 .. nodes[i].commit_index :
      ( /\ k <= nodes[j].commit_index
        /\ k <= Len(nodes[i].log)
        /\ k <= Len(nodes[j].log) ) => nodes[i].log[k] = nodes[j].log[k]

-----------------------------------------------------------------------------
(* A view for TLC.  next_index and match_index are read only while their      *)
(* owner leads, and raft_become_leader resets them: states that differ only   *)
(* in the stale values of other nodes are one state.  Node identities are     *)
(* array indices that raft_tick walks in order, so there is no symmetry.      *)
LeaderView ==
  << turn,
     [i \in Node |->
        << [nodes[i] EXCEPT !.next_index = <<>>, !.match_index = <<>>],
           IF nodes[i].state = "LEADER"
           THEN [j \in Node \ {i} |-> <<nodes[i].next_index[j], nodes[i].match_index[j]>>]
           ELSE <<>> >>] >>
=============================================================================
