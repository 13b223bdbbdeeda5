----------------------------- MODULE Leadership -----------------------------
(***************************************************************************)
(* Who leads in mini-dist-system-theory: the Raft cluster, and the         *)
(* election by bully or ring messages.  They share no state.               *)
(***************************************************************************)
EXTENDS Integers, Sequences, FiniteSets, FiniteSetsExt

-----------------------------------------------------------------------------
(***************************************************************************)
(* mini-dist-system-theory/src/raft.c: a simulated cluster.  The nodes share *)
(* one ring of messages, which drops what does not fit, and one leader_id.   *)
(* The caller takes the messages in order (examples/raft_demo.c), ticks the  *)
(* clock, submits commands and sends the leader's heartbeats.  Election      *)
(* timeouts are random, so any node that does not lead may be the next whose *)
(* deadline passes.  Log indices are the code's, from 0.                     *)
(***************************************************************************)

CONSTANTS
  N,             \* node_count
  RaftQueueCap,  \* the messages the ring holds (RAFT_MAX_MSG_QUEUE - 1)
  MaxLog,        \* RAFT_MAX_LOG
  MaxTerm        \* bound: no election starts beyond this term

ASSUME RaftClusterAssumption ==
  N \in Nat \ {0} /\ RaftQueueCap \in Nat /\ MaxLog \in Nat /\ MaxTerm \in Nat

VARIABLES rnodes, rqueue, leader_id

raftVars == <<rnodes, rqueue, leader_id>>

Node == 0 .. (N - 1)

raft_quorum_size == (N \div 2) + 1

raft_init_cluster ==
  /\ rnodes = [i \in Node |->
                [role |-> "follower", current_term |-> 0, voted_for |-> -1, log |-> <<>>,
                 commit_index |-> -1, votes_received |-> 0,
                 next_index |-> [j \in Node |-> 0], match_index |-> [j \in Node |-> -1]]]
  /\ rqueue = <<>>
  /\ leader_id = -1

raft_last_log_index(n) == Len(n.log) - 1
raft_last_log_term(n) == IF n.log = <<>> THEN 0 ELSE n.log[Len(n.log)]
raft_log_ok(n, pi, pt) == pi < 0 \/ (pi < Len(n.log) /\ n.log[pi + 1] = pt)

(* What does not fit in the ring is dropped.                                 *)
raft_enqueue_msg(q, ms) == LET all == q \o ms IN SubSeq(all, 1, Min({Len(all), RaftQueueCap}))

(* The messages to the other nodes, in the order of their numbers.           *)
ToOthers(i, msg) == [k \in 1 .. (N - 1) |-> msg[IF k - 1 < i THEN k - 1 ELSE k]]

raft_build_request_vote(n, from, to) ==
  [type |-> "request_vote", from |-> from, to |-> to, term |-> n.current_term,
   last_log_index |-> raft_last_log_index(n), last_log_term |-> raft_last_log_term(n)]
raft_build_request_vote_reply(m, term, g) ==
  [type |-> "vote_reply", from |-> m.to, to |-> m.from, term |-> term, granted |-> g]

(* Never any entries: entry_count is 0.                                      *)
raft_build_append_entries(n, from, to) ==
  LET prev == n.next_index[to] - 1
  IN  [type |-> "append", from |-> from, to |-> to, term |-> n.current_term,
       prev_log_index |-> prev,
       prev_log_term |-> IF prev >= 0 /\ prev < Len(n.log) THEN n.log[prev + 1] ELSE 0,
       leader_commit |-> n.commit_index]
raft_build_append_entries_reply(m, term, ok, mi) ==
  [type |-> "append_reply", from |-> m.to, to |-> m.from, term |-> term,
   success |-> ok, match_index_reply |-> mi]

raft_become_follower(n, term) ==
  [n EXCEPT !.role = "follower", !.current_term = term, !.voted_for = -1]

raft_become_leader(n) ==
  [n EXCEPT !.role = "leader", !.next_index = [j \in Node |-> Len(n.log)],
            !.match_index = [j \in Node |-> -1]]

(* The highest entry of the leader's own term that a quorum matches.         *)
raft_advance_commit(n, lid) ==
  LET Stored(k) == n.log[k + 1] = n.current_term /\
        1 + Cardinality({j \in Node \ {lid} : n.match_index[j] >= k}) >= raft_quorum_size
      ks == {k \in (n.commit_index + 1) .. (Len(n.log) - 1) : Stored(k)}
  IN  IF ks = {} THEN n ELSE [n EXCEPT !.commit_index = Max(ks)]

(* n, as node i, after a step that may have made it the leader: the new      *)
(* leader sends heartbeats after what it sent before, ms.                    *)
Settle(q, i, n, ms) ==
  IF n.votes_received >= raft_quorum_size
    THEN LET l == raft_become_leader(n) IN
         /\ rnodes' = [rnodes EXCEPT ![i] = l]
         /\ leader_id' = i
         /\ rqueue' = raft_enqueue_msg(q, ms \o
                       ToOthers(i, [j \in Node |-> raft_build_append_entries(l, i, j)]))
    ELSE /\ rnodes' = [rnodes EXCEPT ![i] = n]
         /\ rqueue' = raft_enqueue_msg(q, ms)
         /\ UNCHANGED leader_id

(* raft_tick: the deadline of a node that does not lead has passed.          *)
raft_start_election(i) ==
  /\ rnodes[i].role # "leader"
  /\ rnodes[i].current_term < MaxTerm
  /\ LET c == [rnodes[i] EXCEPT !.role = "candidate", !.current_term = @ + 1,
                               !.voted_for = i, !.votes_received = 1]
     IN  Settle(rqueue, i, c, ToOthers(i, [j \in Node |-> raft_build_request_vote(c, i, j)]))

(* A voter takes on a higher term, and votes once in it, for a log that is   *)
(* at least as far as its own.                                               *)
VoterAfter(n, m) == IF m.term > n.current_term THEN raft_become_follower(n, m.term) ELSE n
UpToDate(n, m) ==
  \/ m.last_log_term > raft_last_log_term(n)
  \/ m.last_log_term = raft_last_log_term(n) /\ m.last_log_index >= raft_last_log_index(n)

VotesEveryone(n, m) == UpToDate(n, m)
Grants(n, m) == n.voted_for \in {-1, m.from} /\ UpToDate(n, m)

raft_handle_request_vote(m, rest) ==
  LET n == VoterAfter(rnodes[m.to], m)
      grant == m.term >= n.current_term /\ Grants(n, m)
  IN  /\ rnodes' = [rnodes EXCEPT ![m.to] = IF grant THEN [n EXCEPT !.voted_for = m.from] ELSE n]
      /\ rqueue' = raft_enqueue_msg(rest,
                    <<raft_build_request_vote_reply(m, n.current_term, grant)>>)
      /\ UNCHANGED leader_id

(* A higher term ends the candidacy, without clearing leader_id; a reply to  *)
(* an election that is over is ignored.                                      *)
raft_handle_request_vote_reply(m, rest) ==
  LET n == rnodes[m.to] IN
  \/ /\ m.term > n.current_term
     /\ rnodes' = [rnodes EXCEPT ![m.to] = raft_become_follower(n, m.term)]
     /\ rqueue' = rest
     /\ UNCHANGED leader_id
  \/ /\ m.term = n.current_term /\ n.role = "candidate" /\ m.granted
     /\ Settle(rest, m.to, [n EXCEPT !.votes_received = @ + 1], <<>>)
  \/ /\ m.term < n.current_term \/ (m.term = n.current_term
                                     /\ ~(n.role = "candidate" /\ m.granted))
     /\ rqueue' = rest
     /\ UNCHANGED <<rnodes, leader_id>>

(* A current append makes its sender the leader that everyone sees; the      *)
(* commit index follows the leader's as far as the log goes.                 *)
AppendTo(n, m) ==
  LET f == IF m.term > n.current_term THEN raft_become_follower(n, m.term)
           ELSE IF n.role = "candidate" THEN [n EXCEPT !.role = "follower"] ELSE n
  IN  IF raft_log_ok(f, m.prev_log_index, m.prev_log_term) /\ m.leader_commit > f.commit_index
        THEN [f EXCEPT !.commit_index = Min({m.leader_commit, raft_last_log_index(f)})]
        ELSE f

raft_handle_append_entries(m, rest) ==
  LET n == rnodes[m.to]
      a == AppendTo(n, m)
      ok == raft_log_ok(a, m.prev_log_index, m.prev_log_term)
  IN  \/ /\ m.term < n.current_term
         /\ rqueue' = raft_enqueue_msg(rest,
                       <<raft_build_append_entries_reply(m, n.current_term, FALSE, -1)>>)
         /\ UNCHANGED <<rnodes, leader_id>>
      \/ /\ m.term >= n.current_term
         /\ rnodes' = [rnodes EXCEPT ![m.to] = a]
         /\ leader_id' = m.from
         /\ rqueue' = raft_enqueue_msg(rest,
                       <<raft_build_append_entries_reply(m, a.current_term, ok,
                           IF ok THEN m.prev_log_index ELSE -1)>>)

(* A reply from an earlier term is taken too, if its receiver leads again.   *)
raft_handle_append_entries_reply(m, rest) ==
  LET n == rnodes[m.to]
      matched == [n EXCEPT !.match_index[m.from] = m.match_index_reply,
                           !.next_index[m.from] = m.match_index_reply + 1]
  IN  /\ rqueue' = rest
      /\ IF m.term > n.current_term
           THEN /\ rnodes' = [rnodes EXCEPT ![m.to] = raft_become_follower(n, m.term)]
                /\ leader_id' = -1
           ELSE /\ rnodes' = [rnodes EXCEPT ![m.to] =
                     IF n.role # "leader" THEN n
                     ELSE IF m.success THEN raft_advance_commit(matched, m.to)
                     ELSE [n EXCEPT !.next_index[m.from] = Max({@ - 1, 0})]]
                /\ UNCHANGED leader_id

raft_process_message ==
  /\ rqueue # <<>>
  /\ LET m == Head(rqueue)
         rest == Tail(rqueue)
     IN  \/ m.type = "request_vote" /\ raft_handle_request_vote(m, rest)
         \/ m.type = "vote_reply" /\ raft_handle_request_vote_reply(m, rest)
         \/ m.type = "append" /\ raft_handle_append_entries(m, rest)
         \/ m.type = "append_reply" /\ raft_handle_append_entries_reply(m, rest)

raft_leader_send_heartbeats ==
  /\ leader_id >= 0
  /\ rqueue' = raft_enqueue_msg(rqueue,
       ToOthers(leader_id, [j \in Node |->
         raft_build_append_entries(rnodes[leader_id], leader_id, j)]))
  /\ UNCHANGED <<rnodes, leader_id>>

(* raft_client_submit: the command goes to the node that leader_id names,    *)
(* which need not lead any more.  An entry is its term.                      *)
raft_leader_append_entry ==
  /\ leader_id >= 0
  /\ Len(rnodes[leader_id].log) < MaxLog
  /\ LET l == rnodes[leader_id]
         grown == Append(l.log, l.current_term)
     IN  rnodes' = [rnodes EXCEPT ![leader_id] =
                     [l EXCEPT !.log = grown, !.match_index[leader_id] = Len(grown) - 1,
                               !.next_index[leader_id] = Len(grown)]]
  /\ UNCHANGED <<rqueue, leader_id>>

raft_leader_commit_entries ==
  /\ leader_id >= 0
  /\ rnodes' = [rnodes EXCEPT ![leader_id] = raft_advance_commit(@, leader_id)]
  /\ UNCHANGED <<rqueue, leader_id>>

RaftInit == raft_init_cluster

RaftNext ==
  \/ \E i \in Node : raft_start_election(i)
  \/ raft_process_message
  \/ raft_leader_send_heartbeats
  \/ raft_leader_append_entry
  \/ raft_leader_commit_entries

RaftSpec == RaftInit /\ [][RaftNext]_raftVars

------------------------------------------------------------------------------
(* raft_handle_request_vote: whatever is lost or left in the ring, and       *)
(* however often a node stands again, no two nodes lead the same term, and a *)
(* node leads only with the votes of a quorum: the nodes that voted for it   *)
(* in its term, or have left that term since.                                *)
OneLeaderPerTerm ==
  \A i \in Node : rnodes[i].role = "leader" =>
    /\ \A j \in Node \ {i} : rnodes[j].role = "leader" =>
         rnodes[j].current_term # rnodes[i].current_term
    /\ Cardinality({j \in Node : rnodes[j].current_term > rnodes[i].current_term
                      \/ (rnodes[j].current_term = rnodes[i].current_term
                          /\ rnodes[j].voted_for = i)}) >= raft_quorum_size

-----------------------------------------------------------------------------
(***************************************************************************)
(* mini-dist-system-theory/src/leader_election.c: bully, ring and Raft-style *)
(* elections in one simulated network.  The caller starts elections, ticks,  *)
(* and crashes or revives nodes by setting is_active; le_process_messages    *)
(* then takes messages until the ring is empty, and nothing else happens     *)
(* while it does (draining).  Messages that do not fit are dropped.          *)
(***************************************************************************)

CONSTANTS
  priority,          \* a priority for each node, no two the same
  ElectionQueueCap,  \* the messages the ring holds (LE_MAX_MSG - 1)
  MaxPending,        \* bound: no election is started over more waiting messages than this
  MaxFaults          \* bound: crashes and revivals

VARIABLES emode, enodes, elected_leader, election_in_progress, equeue, draining, faults

electionVars == <<emode, enodes, elected_leader, election_in_progress, equeue, draining, faults>>

le_init_network ==
  /\ emode \in {"bully", "ring", "raft_style"}
  /\ enodes = [i \in Node |-> [is_leader |-> FALSE, is_active |-> TRUE, leader_id |-> -1]]
  /\ elected_leader = -1
  /\ election_in_progress = FALSE
  /\ equeue = <<>>
  /\ draining = FALSE
  /\ faults = 0

le_enqueue_msg(q, ms) == LET all == q \o ms IN SubSeq(all, 1, Min({Len(all), ElectionQueueCap}))
le_next_ring_node(i) == (i + 1) % N
Msg(type, to, c) == [type |-> type, to |-> to, candidate_id |-> c]

(* One message to each node of S, in the order of the numbers.               *)
ToEach(S, type, c) ==
  LET nth(k) == CHOOSE i \in S : Cardinality({j \in S : j < i}) = k - 1
  IN  [k \in 1 .. Cardinality(S) |-> Msg(type, nth(k), c)]

Active == {i \in Node : enodes[i].is_active}
Higher(i) == {j \in Active : priority[j] > priority[i]}
Leads(i) == [enodes EXCEPT ![i].is_leader = TRUE, ![i].leader_id = i]

(* Calls the higher nodes or, when none is active, takes the lead.           *)
CallsOrLeads(i, q) ==
  IF Higher(i) # {}
    THEN /\ equeue' = le_enqueue_msg(q, ToEach(Higher(i), "election", i))
         /\ election_in_progress' = TRUE
         /\ UNCHANGED <<enodes, elected_leader>>
    ELSE /\ enodes' = Leads(i)
         /\ elected_leader' = i
         /\ election_in_progress' = FALSE
         /\ equeue' = le_enqueue_msg(q, ToEach(Node \ {i}, "coordinator", i))

le_bully_start_election(i) ==
  /\ emode = "bully" /\ ~draining
  /\ i \in Active /\ Len(equeue) <= MaxPending
  /\ CallsOrLeads(i, equeue)
  /\ UNCHANGED <<emode, draining, faults>>

le_bully_handle_election(m, rest) ==
  IF m.to \in Active /\ priority[m.to] > priority[m.candidate_id]
    THEN CallsOrLeads(m.to, le_enqueue_msg(rest, <<Msg("answer", m.candidate_id, m.to)>>))
    ELSE equeue' = rest /\ UNCHANGED <<enodes, elected_leader, election_in_progress>>

(* Nobody waits for an answer.                                               *)
le_bully_handle_answer(m, rest) ==
  equeue' = rest /\ UNCHANGED <<enodes, elected_leader, election_in_progress>>

(* One coordinator message tells every node, crashed ones included.          *)
le_bully_handle_coordinator(m, rest) ==
  /\ enodes' = [i \in Node |-> [enodes[i] EXCEPT !.leader_id = m.candidate_id,
                                               !.is_leader = (i = m.candidate_id)]]
  /\ elected_leader' = m.candidate_id
  /\ election_in_progress' = FALSE
  /\ equeue' = rest

le_ring_start_election(i) ==
  /\ emode = "ring" /\ ~draining
  /\ i \in Active /\ Len(equeue) <= MaxPending
  /\ election_in_progress' = TRUE
  /\ equeue' = le_enqueue_msg(equeue, <<Msg("election", le_next_ring_node(i), i)>>)
  /\ UNCHANGED <<emode, enodes, elected_leader, draining, faults>>

(* A crashed node passes every token on, an active one replaces a token of a *)
(* lower node by its own, and its own token coming back makes it the leader. *)
le_ring_handle_election(m, rest) ==
  LET next == le_next_ring_node(m.to)
      own == m.to \in Active /\ m.candidate_id = m.to
      carried == IF m.to \in Active /\ priority[m.to] > priority[m.candidate_id]
                   THEN m.to ELSE m.candidate_id
  IN  /\ enodes' = IF own THEN Leads(m.to) ELSE enodes
      /\ elected_leader' = IF own THEN m.to ELSE elected_leader
      /\ election_in_progress' = (election_in_progress /\ ~own)
      /\ equeue' = le_enqueue_msg(rest,
                    <<Msg(IF own THEN "coordinator" ELSE "election", next, carried)>>)

le_ring_handle_coordinator(m, rest) ==
  /\ UNCHANGED election_in_progress
  /\ IF m.to = m.candidate_id
       THEN equeue' = rest /\ UNCHANGED <<enodes, elected_leader>>
       ELSE /\ enodes' = [enodes EXCEPT ![m.to].leader_id = m.candidate_id,
                                      ![m.to].is_leader = FALSE]
            /\ elected_leader' = m.candidate_id
            /\ equeue' = le_enqueue_msg(rest,
                          <<[m EXCEPT !.to = le_next_ring_node(m.to)]>>)

(* A candidate asks the active nodes with a heartbeat, and counts the        *)
(* crashed ones as its votes.                                                *)
le_raft_election_timeout(i) ==
  LET votes == 1 + Cardinality(Node \ (Active \cup {i}))
      won == votes >= (N \div 2) + 1
  IN  /\ enodes' = IF won THEN Leads(i) ELSE enodes
      /\ elected_leader' = IF won THEN i ELSE elected_leader
      /\ election_in_progress' = ~won
      /\ equeue' = le_enqueue_msg(equeue, ToEach(Active \ {i}, "heartbeat", i))

(* Whoever sends a heartbeat counts as elected.                              *)
le_raft_handle_heartbeat(m, rest) ==
  /\ enodes' = [enodes EXCEPT ![m.to].leader_id = m.candidate_id]
  /\ elected_leader' = m.candidate_id
  /\ election_in_progress' = FALSE
  /\ equeue' = rest

(* le_tick, for a node whose timeout has passed, in the Raft-style network   *)
TimeoutPasses ==
  /\ emode = "raft_style" /\ ~draining /\ Len(equeue) <= MaxPending
  /\ \E i \in Active : ~enodes[i].is_leader /\ le_raft_election_timeout(i)
  /\ UNCHANGED <<emode, draining, faults>>

(* ... and its end: a crashed leader is forgotten, unless an election is on, *)
(* and the messages are processed.                                           *)
le_tick ==
  /\ ~draining
  /\ LET dead == /\ elected_leader >= 0 /\ ~election_in_progress
                 /\ elected_leader \notin Active
     IN  /\ elected_leader' = IF dead THEN -1 ELSE elected_leader
         /\ enodes' = IF dead THEN [enodes EXCEPT ![elected_leader].is_leader = FALSE] ELSE enodes
  /\ draining' = TRUE
  /\ UNCHANGED <<emode, election_in_progress, equeue, faults>>

le_process_messages ==
  /\ draining
  /\ \/ /\ equeue = <<>>
        /\ draining' = FALSE
        /\ UNCHANGED <<enodes, elected_leader, election_in_progress, equeue>>
     \/ /\ equeue # <<>>
        /\ LET m == Head(equeue)
               rest == Tail(equeue)
           IN  \/ emode = "bully" /\ m.type = "election" /\ le_bully_handle_election(m, rest)
               \/ m.type = "answer" /\ le_bully_handle_answer(m, rest)
               \/ emode = "bully" /\ m.type = "coordinator" /\ le_bully_handle_coordinator(m, rest)
               \/ emode = "ring" /\ m.type = "election" /\ le_ring_handle_election(m, rest)
               \/ emode = "ring" /\ m.type = "coordinator" /\ le_ring_handle_coordinator(m, rest)
               \/ m.type = "heartbeat" /\ le_raft_handle_heartbeat(m, rest)
        /\ UNCHANGED draining
  /\ UNCHANGED <<emode, faults>>

(* The caller crashes or revives a node.                                     *)
SetActive(i) ==
  /\ ~draining /\ faults < MaxFaults
  /\ enodes' = [enodes EXCEPT ![i].is_active = ~@]
  /\ faults' = faults + 1
  /\ UNCHANGED <<emode, elected_leader, election_in_progress, equeue, draining>>

ElectionNext ==
  \/ \E i \in Node : le_bully_start_election(i) \/ le_ring_start_election(i) \/ SetActive(i)
  \/ TimeoutPasses \/ le_tick \/ le_process_messages

ElectionSpec == le_init_network /\ [][ElectionNext]_electionVars /\ WF_electionVars(le_process_messages)

------------------------------------------------------------------------------
(* le_process_messages, le_bully_handle_coordinator,                         *)
(* le_ring_handle_coordinator: whatever crashed or came back,                *)
(* once the messages of a bully or ring election are all processed, the      *)
(* network has no leader, or one whom every node names, and no other node    *)
(* that is active takes itself for the leader.                               *)
LeaderIsAgreed ==
  (emode # "raft_style" /\ ~draining /\ equeue = <<>> /\ elected_leader >= 0) =>
    \A i \in Node : /\ enodes[i].leader_id = elected_leader
                    /\ (enodes[i].is_leader /\ enodes[i].is_active) => i = elected_leader
=============================================================================
