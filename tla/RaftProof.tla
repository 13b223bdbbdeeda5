----------------------------- MODULE RaftProof ------------------------------
(***************************************************************************)
(* What raft.c guarantees for every cluster size, log capacity and number   *)
(* of commands: types, sorted logs, votes of the current term, and terms    *)
(* and commit indices that never go back.  A step is built from functions   *)
(* on the array of nodes, so the lemmas are about such functions: a sorted  *)
(* array stays sorted, and no node of it goes back.                         *)
(***************************************************************************)
EXTENDS Raft, TLAPS, FiniteSetTheorems, SequenceTheorems, WellFoundedInduction

-----------------------------------------------------------------------------
(* Least and greatest elements, for the CHOOSE of the model.                 *)

LEMMA LeastElement ==
  ASSUME NEW T \in SUBSET Nat, T # {}
  PROVE  \E x \in T : \A y \in T : x <= y
<1>1. PICK x \in T : \A y \in T : ~(<<y, x>> \in OpToRel(<, Nat))
  BY NatLessThanWellFounded, WFMin
<1>2. ASSUME NEW y \in T
      PROVE  x <= y
  <2>1. ~(<<y, x>> \in OpToRel(<, Nat))
    BY <1>1
  <2>2. <<y, x>> \in Nat \X Nat
    OBVIOUS
  <2>3. ~(y < x)
    BY <2>1, <2>2 DEF OpToRel
  <2> QED
    BY <2>3
<1> QED
  BY <1>2

LEMMA GreatestElement ==
  ASSUME NEW b \in Nat, NEW T \in SUBSET (0 .. b), T # {}
  PROVE  \E x \in T : \A y \in T : y <= x
<1> DEFINE U == {b - y : y \in T}
<1>1. U \in SUBSET Nat /\ U # {}
  <2>1. \A y \in T : b - y \in Nat
    OBVIOUS
  <2>2. PICK y \in T : TRUE
    OBVIOUS
  <2>3. b - y \in U
    OBVIOUS
  <2> QED
    BY <2>1, <2>3
<1>2. PICK u \in U : \A v \in U : u <= v
  BY <1>1, LeastElement
<1>3. PICK x \in T : u = b - x
  OBVIOUS
<1>4. ASSUME NEW y \in T
      PROVE  y <= x
  <2>1. b - x <= b - y
    BY <1>2, <1>3
  <2> QED
    BY <2>1
<1> QED
  BY <1>4

-----------------------------------------------------------------------------
(* Logs.                                                                     *)

LEMMA SubSeqLog ==
  ASSUME NEW s \in Seq(LogEntry), NEW a \in Nat \ {0}, NEW b \in Nat, b <= Len(s)
  PROVE  /\ SubSeq(s, a, b) \in Seq(LogEntry)
         /\ Len(SubSeq(s, a, b)) = IF a <= b THEN b - a + 1 ELSE 0
         /\ \A k \in 1 .. Len(SubSeq(s, a, b)) : SubSeq(s, a, b)[k] = s[a + k - 1]
<1>1. \A i \in a .. b : s[i] \in LogEntry
  OBVIOUS
<1>2. a \in Int /\ b \in Int
  OBVIOUS
<1>3. /\ SubSeq(s, a, b) \in Seq(LogEntry)
      /\ Len(SubSeq(s, a, b)) = IF a <= b THEN b - a + 1 ELSE 0
      /\ \A i \in 1 .. b - a + 1 : SubSeq(s, a, b)[i] = s[a + i - 1]
  BY <1>1, <1>2, SubSeqProperties
<1> QED
  BY <1>3

(* A batch of entries that a leader sends fits behind its predecessor.        *)
Follows(prev_log_index, prev_log_term, entries) ==
  (prev_log_index > 0 /\ Len(entries) > 0) => prev_log_term <= entries[1].term

(* The copy loop keeps a log sorted and within its array: where it cuts, the  *)
(* entry before the cut has the term of the leader's entry before it.         *)
LEMMA MergeSorted ==
  ASSUME NEW log \in Seq(LogEntry), NEW prev \in Nat, NEW pterm \in Nat,
         NEW entries \in Seq(LogEntry), NEW T \in Nat,
         Len(log) <= MaxLog, prev <= Len(log),
         SortedLog(log, T), SortedLog(entries, T),
         prev > 0 => log[prev].term = pterm,
         Follows(prev, pterm, entries)
  PROVE  LET r == MergeEntries(log, prev, entries) IN
         r \in Seq(LogEntry) /\ Len(r) <= MaxLog /\ SortedLog(r, T)
<1> USE RaftAssumption
<1> DEFINE m   == IF prev + Len(entries) <= MaxLog THEN Len(entries) ELSE MaxLog - prev
           new == {k \in 1 .. m : \/ prev + k > Len(log)
                                  \/ log[prev + k].term # entries[k].term}
           c   == CHOOSE k \in new : \A l \in new : k <= l
           r   == MergeEntries(log, prev, entries)
<1>1. m \in Nat /\ m <= Len(entries) /\ prev + m <= MaxLog
  OBVIOUS
<1>2. CASE new = {}
  <2>1. r = log
    BY <1>2 DEF MergeEntries
  <2> QED
    BY <2>1
<1>3. CASE new # {}
  <2> HIDE DEF m
  <2>1. new \in SUBSET Nat
    BY <1>1
  <2>2. c \in new /\ \A l \in new : c <= l
    <3>1. \E k \in new : \A l \in new : k <= l
      BY <1>3, <2>1, LeastElement
    <3> HIDE DEF new
    <3> QED
      BY <3>1
  <2>3. c \in 1 .. m
    BY <2>2
  <2>4. r = SubSeq(log, 1, prev + c - 1) \o SubSeq(entries, c, m)
    BY <1>3 DEF MergeEntries, m
  <2>5. \A k \in 1 .. c - 1 : prev + k <= Len(log) /\ log[prev + k].term = entries[k].term
    <3> SUFFICES ASSUME NEW k \in 1 .. c - 1
                 PROVE  prev + k <= Len(log) /\ log[prev + k].term = entries[k].term
      OBVIOUS
    <3>1. k \in 1 .. m /\ ~(c <= k)
      BY <1>1, <2>3
    <3>2. k \notin new
      BY <2>2, <3>1
    <3> QED
      BY <3>1, <3>2
  <2> HIDE DEF c, new, r
  <2>6. prev + c - 1 \in Nat /\ prev + c - 1 <= Len(log)
    <3>1. CASE c = 1
      BY <2>3, <3>1
    <3>2. CASE c > 1
      <4>1. c - 1 \in 1 .. c - 1
        BY <1>1, <2>3, <3>2
      <4>2. prev + (c - 1) <= Len(log)
        BY <2>5, <4>1
      <4> QED
        BY <1>1, <2>3, <4>2
    <3> QED
      BY <1>1, <2>3, <3>1, <3>2
  <2> DEFINE A == SubSeq(log, 1, prev + c - 1)
             B == SubSeq(entries, c, m)
             a == prev + c - 1
  <2>7. /\ A \in Seq(LogEntry) /\ Len(A) = a
        /\ \A k \in 1 .. a : A[k] = log[k]
    BY <2>6, SubSeqLog
  <2>8. /\ B \in Seq(LogEntry) /\ Len(B) = m - c + 1
        /\ \A k \in 1 .. m - c + 1 : B[k] = entries[c + k - 1]
    BY <1>1, <2>3, SubSeqLog
  <2> HIDE DEF A, B
  <2>9. /\ r \in Seq(LogEntry) /\ Len(r) = prev + m
        /\ \A k \in 1 .. prev + m : r[k] = IF k <= a THEN log[k] ELSE entries[k - prev]
    <3>1. r = A \o B
      BY <2>4 DEF A, B
    <3>2. /\ r \in Seq(LogEntry) /\ Len(r) = Len(A) + Len(B)
          /\ \A i \in 1 .. Len(A) + Len(B) : r[i] = IF i <= Len(A) THEN A[i] ELSE B[i - Len(A)]
      BY <2>7, <2>8, <3>1, ConcatProperties
    <3>3. Len(r) = prev + m
      BY <1>1, <2>3, <2>6, <2>7, <2>8, <3>2
    <3>4. ASSUME NEW k \in 1 .. prev + m
          PROVE  r[k] = IF k <= a THEN log[k] ELSE entries[k - prev]
      <4>0. k \in 1 .. Len(A) + Len(B)
        BY <3>2, <3>3
      <4>a. r[k] = IF k <= Len(A) THEN A[k] ELSE B[k - Len(A)]
        BY <3>2, <4>0
      <4>b. r[k] = IF k <= a THEN A[k] ELSE B[k - a]
        BY <2>7, <4>a
      <4>1. CASE k <= a
        BY <2>6, <2>7, <4>1, <4>b
      <4>2. CASE k > a
        <5>1. r[k] = B[k - a]
          BY <2>6, <4>2, <4>b
        <5>2. k - a \in 1 .. m - c + 1 /\ c + (k - a) - 1 = k - prev
          BY <1>1, <2>3, <2>6, <4>2
        <5> QED
          BY <2>6, <2>8, <4>2, <5>1, <5>2
      <4> QED
        BY <2>6, <4>1, <4>2
    <3> QED
      BY <3>2, <3>3, <3>4
  <2>10. \A k \in 1 .. prev + m : 0 < r[k].term /\ r[k].term <= T
    <3> SUFFICES ASSUME NEW k \in 1 .. prev + m
                 PROVE  0 < r[k].term /\ r[k].term <= T
      OBVIOUS
    <3>1. CASE k <= a
      <4>1. k \in 1 .. Len(log) /\ r[k] = log[k]
        BY <1>1, <2>6, <2>9, <3>1
      <4> QED
        BY <4>1 DEF SortedLog
    <3>2. CASE k > a
      <4>1. k - prev \in 1 .. Len(entries)
        BY <1>1, <2>3, <3>2
      <4> QED
        BY <2>6, <2>9, <3>2, <4>1 DEF SortedLog
    <3> QED
      BY <2>6, <3>1, <3>2
  <2>11. \A k \in 1 .. prev + m - 1 : r[k].term <= r[k + 1].term
    <3> SUFFICES ASSUME NEW k \in 1 .. prev + m - 1
                 PROVE  r[k].term <= r[k + 1].term
      OBVIOUS
    <3>0. k \in 1 .. prev + m /\ k + 1 \in 1 .. prev + m
      BY <1>1
    <3>1. CASE k < a
      <4>1. k \in 1 .. Len(log) - 1
        BY <2>6, <3>1
      <4>2. r[k] = log[k] /\ r[k + 1] = log[k + 1]
        BY <2>6, <2>9, <3>0, <3>1
      <4> QED
        BY <4>1, <4>2 DEF SortedLog
    <3>2. CASE k > a
      <4>1. k - prev \in 1 .. Len(entries) - 1
        BY <1>1, <2>3, <3>2
      <4>2. r[k] = entries[k - prev] /\ r[k + 1] = entries[(k - prev) + 1]
        BY <2>6, <2>9, <3>0, <3>2
      <4> QED
        BY <4>1, <4>2 DEF SortedLog
    <3>3. CASE k = a
      <4>1. r[k] = log[k] /\ r[k + 1] = entries[c]
        <5>1. (k + 1) - prev = c /\ ~(k + 1 <= a)
          BY <2>3, <3>3
        <5> QED
          BY <2>6, <2>9, <3>0, <3>3, <5>1
      <4>2. CASE c = 1
        <5>1. prev > 0 /\ k = prev /\ Len(entries) > 0
          BY <1>1, <2>3, <3>3, <4>2
        <5> QED
          BY <4>1, <4>2, <5>1 DEF Follows
      <4>3. CASE c > 1
        <5>1. c - 1 \in 1 .. c - 1 /\ prev + (c - 1) = k
          BY <2>3, <3>3, <4>3
        <5>2. log[k].term = entries[c - 1].term
          BY <2>5, <5>1
        <5>3. c - 1 \in 1 .. Len(entries) - 1 /\ (c - 1) + 1 = c
          BY <1>1, <2>3, <4>3
        <5> QED
          BY <4>1, <5>2, <5>3 DEF SortedLog
      <4> QED
        BY <2>3, <4>2, <4>3
    <3> QED
      BY <2>6, <3>1, <3>2, <3>3
  <2> QED
    BY <1>1, <2>9, <2>10, <2>11 DEF SortedLog, r
<1> QED
  BY <1>2, <1>3

-----------------------------------------------------------------------------
(* One node.                                                                 *)

NodeOK(nd) ==
  /\ nd \in RaftNode
  /\ Len(nd.log) <= MaxLog
  /\ SortedLog(nd.log, nd.current_term)
  /\ nd.state # "FOLLOWER" => nd.current_term > 0

NoBack(old, new) ==
  /\ new.current_term >= old.current_term
  /\ new.commit_index >= old.commit_index

(* What a step of another node may do to a vote: nothing, in the same term,   *)
(* or forget it.                                                              *)
KeepsOrForgets(old, new) ==
  \/ new.voted_for = NONE
  \/ new.voted_for = old.voted_for /\ new.current_term = old.current_term

LEMMA SortedLater ==
  ASSUME NEW log \in Seq(LogEntry), NEW T \in Nat, NEW U \in Nat, T <= U, SortedLog(log, T)
  PROVE  SortedLog(log, U)
<1>1. \A k \in 1 .. Len(log) : log[k].term \in Nat
  <2>1. \A k \in 1 .. Len(log) : log[k] \in LogEntry
    OBVIOUS
  <2> QED
    BY <2>1 DEF LogEntry
<1>2. ASSUME NEW k \in 1 .. Len(log)
      PROVE  log[k].term <= U
  <2>1. log[k].term <= T
    BY DEF SortedLog
  <2> QED
    BY <1>1, <2>1
<1> QED
  BY <1>2 DEF SortedLog

LEMMA NodeFields ==
  ASSUME NEW nd \in RaftNode
  PROVE  /\ nd.current_term \in Nat /\ nd.log \in Seq(LogEntry)
         /\ nd.commit_index \in Nat /\ nd.voted_for \in Node \cup {NONE}
         /\ nd.next_index \in [Node -> Nat \ {0}] /\ nd.match_index \in [Node -> Nat]
         /\ nd.votes_received \in Nat /\ nd.active \in BOOLEAN
  BY DEF RaftNode

LEMMA BecomeFollower ==
  ASSUME NEW nd, NodeOK(nd), NEW term \in Nat
  PROVE  LET f == raft_become_follower(nd, term) IN
         /\ NodeOK(f) /\ NoBack(nd, f)
         /\ f.voted_for = NONE /\ f.log = nd.log
         /\ f.commit_index = nd.commit_index
         /\ f.current_term = IF term > nd.current_term THEN term ELSE nd.current_term
<1> DEFINE f == raft_become_follower(nd, term)
<1>0. nd \in RaftNode
  BY DEF NodeOK
<1>1. /\ f \in RaftNode /\ f.voted_for = NONE /\ f.log = nd.log /\ f.state = "FOLLOWER"
      /\ f.commit_index = nd.commit_index
      /\ f.current_term = IF term > nd.current_term THEN term ELSE nd.current_term
  BY <1>0 DEF raft_become_follower, RaftNode
<1> HIDE DEF f
<1>2. SortedLog(f.log, f.current_term)
  BY <1>0, <1>1, NodeFields, SortedLater DEF NodeOK
<1> QED
  BY <1>0, <1>1, <1>2, NodeFields DEF NodeOK, NoBack, f

LEMMA CatchUpFacts ==
  ASSUME NEW nd, NodeOK(nd), NEW term \in Nat
  PROVE  LET f == CatchUp(nd, term) IN
         /\ NodeOK(f) /\ NoBack(nd, f) /\ KeepsOrForgets(nd, f)
         /\ f.log = nd.log /\ f.commit_index = nd.commit_index
         /\ term >= nd.current_term => f.current_term = term
<1>0. nd.current_term \in Nat /\ nd.commit_index \in Nat
  BY NodeFields DEF NodeOK
<1>1. CASE term > nd.current_term
  BY <1>0, <1>1, BecomeFollower DEF CatchUp, KeepsOrForgets
<1>2. CASE ~(term > nd.current_term)
  BY <1>0, <1>2 DEF CatchUp, KeepsOrForgets, NoBack
<1> QED
  BY <1>1, <1>2

LEMMA HandleRequestVote ==
  ASSUME NEW nd, NodeOK(nd), NEW rpc, rpc.term \in Nat, rpc.candidate_id \in Node
  PROVE  LET f == raft_handle_request_vote(nd, rpc) IN
         /\ NodeOK(f) /\ NoBack(nd, f)
         /\ \/ KeepsOrForgets(nd, f)
            \/ f.voted_for = rpc.candidate_id /\ f.current_term = rpc.term
<1> DEFINE g == CatchUp(nd, rpc.term)
           f == raft_handle_request_vote(nd, rpc)
<1>0. nd.current_term \in Nat /\ nd.commit_index \in Nat
  BY NodeFields DEF NodeOK
<1>1. /\ NodeOK(g) /\ NoBack(nd, g) /\ KeepsOrForgets(nd, g)
      /\ rpc.term >= nd.current_term => g.current_term = rpc.term
  BY CatchUpFacts
<1> HIDE DEF g
<1>2. CASE rpc.term < nd.current_term
  <2>1. ~VoteGranted(nd, rpc)
    BY <1>0, <1>2 DEF VoteGranted
  <2>2. f = nd
    BY <1>2, <2>1 DEF raft_handle_request_vote
  <2> QED
    BY <1>0, <2>2 DEF NoBack, KeepsOrForgets
<1>3. CASE ~(rpc.term < nd.current_term) /\ VoteGranted(nd, rpc)
  <2>1. f = [g EXCEPT !.voted_for = rpc.candidate_id]
    BY <1>3 DEF raft_handle_request_vote, g
  <2>2. /\ f \in RaftNode /\ f.log = g.log /\ f.current_term = g.current_term
        /\ f.commit_index = g.commit_index /\ f.voted_for = rpc.candidate_id
        /\ f.state = g.state
    BY <1>1, <2>1 DEF NodeOK, RaftNode
  <2>3. f.current_term = rpc.term
    BY <1>0, <1>1, <1>3, <2>2
  <2> QED
    BY <1>1, <2>2, <2>3 DEF NodeOK, NoBack
<1>4. CASE ~(rpc.term < nd.current_term) /\ ~VoteGranted(nd, rpc)
  <2>1. f = g
    BY <1>4 DEF raft_handle_request_vote, g
  <2> QED
    BY <1>1, <2>1
<1> QED
  BY <1>2, <1>3, <1>4

RpcOK(rpc) ==
  /\ rpc.term \in Nat /\ rpc.prev_log_index \in Nat /\ rpc.prev_log_term \in Nat
  /\ rpc.entries \in Seq(LogEntry) /\ rpc.leader_commit \in Nat
  /\ SortedLog(rpc.entries, rpc.term)
  /\ Follows(rpc.prev_log_index, rpc.prev_log_term, rpc.entries)

LEMMA HandleAppendEntries ==
  ASSUME NEW nd, NodeOK(nd), NEW rpc, RpcOK(rpc)
  PROVE  LET f == raft_handle_append_entries(nd, rpc) IN
         NodeOK(f) /\ NoBack(nd, f) /\ KeepsOrForgets(nd, f)
<1> DEFINE g == CatchUp(nd, rpc.term)
           f == raft_handle_append_entries(nd, rpc)
<1>0. nd.current_term \in Nat /\ nd.commit_index \in Nat /\ nd.log \in Seq(LogEntry)
  BY NodeFields DEF NodeOK
<1>1. /\ NodeOK(g) /\ NoBack(nd, g) /\ KeepsOrForgets(nd, g)
      /\ g.log = nd.log /\ g.commit_index = nd.commit_index
      /\ rpc.term >= nd.current_term => g.current_term = rpc.term
  BY CatchUpFacts DEF RpcOK
<1> HIDE DEF g
<1>2. CASE rpc.term < nd.current_term
  <2>1. ~Accepts(nd, rpc)
    BY <1>0, <1>2 DEF Accepts, RpcOK
  <2>2. f = nd
    BY <1>2, <2>1 DEF raft_handle_append_entries
  <2> QED
    BY <1>0, <2>2 DEF NoBack, KeepsOrForgets
<1>3. CASE ~(rpc.term < nd.current_term) /\ Accepts(nd, rpc)
  <2> DEFINE l == MergeEntries(g.log, rpc.prev_log_index, rpc.entries)
             x == FollowerCommit(g.commit_index, rpc)
  <2>1. f = [g EXCEPT !.log = l, !.commit_index = x]
    BY <1>3 DEF raft_handle_append_entries, g
  <2>2. g.current_term = rpc.term
    BY <1>0, <1>1, <1>3 DEF RpcOK
  <2>3. l \in Seq(LogEntry) /\ Len(l) <= MaxLog /\ SortedLog(l, rpc.term)
    <3>1. /\ rpc.prev_log_index <= Len(nd.log)
          /\ rpc.prev_log_index > 0 => nd.log[rpc.prev_log_index].term = rpc.prev_log_term
      BY <1>0, <1>3 DEF Accepts, raft_log_ok, RpcOK
    <3>2. g.log \in Seq(LogEntry) /\ Len(g.log) <= MaxLog /\ SortedLog(g.log, rpc.term)
      BY <1>0, <1>1, <2>2 DEF NodeOK
    <3> QED
      BY <1>1, <3>1, <3>2, MergeSorted DEF RpcOK
  <2>4. x \in Nat /\ x >= g.commit_index
    BY <1>0, <1>1 DEF FollowerCommit, RpcOK
  <2> HIDE DEF l, x
  <2>5. /\ f \in RaftNode /\ f.log = l /\ f.commit_index = x
        /\ f.current_term = g.current_term /\ f.voted_for = g.voted_for
        /\ f.state = g.state
    BY <1>1, <2>1, <2>3, <2>4 DEF NodeOK, RaftNode
  <2> QED
    BY <1>0, <1>1, <2>2, <2>3, <2>4, <2>5 DEF NodeOK, NoBack, KeepsOrForgets
<1>4. CASE ~(rpc.term < nd.current_term) /\ ~Accepts(nd, rpc)
  <2>1. f = g
    BY <1>4 DEF raft_handle_append_entries, g
  <2> QED
    BY <1>1, <2>1
<1> QED
  BY <1>2, <1>3, <1>4

-----------------------------------------------------------------------------
(* The array of nodes.                                                       *)

ArrayOK(ns) == ns \in [Node -> RaftNode] /\ \A i \in Node : NodeOK(ns[i])

VotesOK(ns) ==
  \A i \in Node :
    ns[i].voted_for # NONE =>
      ns[ns[i].voted_for].current_term >= ns[i].current_term

ArrayNoBack(ns, ms) == \A i \in Node : NoBack(ns[i], ms[i])

(* What every function on the array below does.                               *)
Sound(ns, ms) == ArrayOK(ms) /\ VotesOK(ms) /\ ArrayNoBack(ns, ms)

(* Votes of the current term stay so when nobody goes back and every new vote *)
(* is for the candidate i, in its term.                                       *)
LEMMA VotesKept ==
  ASSUME NEW ns, NEW ms, ArrayOK(ns), ArrayOK(ms), VotesOK(ns), ArrayNoBack(ns, ms),
         NEW i \in Node,
         \A j \in Node : \/ KeepsOrForgets(ns[j], ms[j])
                          \/ /\ ms[j].voted_for = i
                             /\ ms[j].current_term = ms[i].current_term
  PROVE  VotesOK(ms)
<1> SUFFICES ASSUME NEW j \in Node, ms[j].voted_for # NONE
             PROVE  ms[ms[j].voted_for].current_term >= ms[j].current_term
  BY DEF VotesOK
<1>1. ms[i].current_term \in Nat /\ ms[j].current_term \in Nat
  BY NodeFields DEF ArrayOK
<1>2. CASE ms[j].voted_for = i /\ ms[j].current_term = ms[i].current_term
  BY <1>1, <1>2
<1>3. CASE KeepsOrForgets(ns[j], ms[j])
  <2> DEFINE v == ns[j].voted_for
  <2>1. ms[j].voted_for = v /\ ms[j].current_term = ns[j].current_term /\ v # NONE
    BY <1>3 DEF KeepsOrForgets
  <2>2. v \in Node
    BY <2>1, NodeFields DEF ArrayOK
  <2>3. /\ ns[v].current_term >= ns[j].current_term
        /\ ms[v].current_term >= ns[v].current_term
    BY <2>1, <2>2 DEF VotesOK, ArrayNoBack, NoBack
  <2>4. ns[v].current_term \in Nat /\ ms[v].current_term \in Nat
    BY <2>2, NodeFields DEF ArrayOK
  <2> QED
    BY <1>1, <2>1, <2>3, <2>4
<1> QED
  BY <1>2, <1>3

LEMMA NoBackTransitive ==
  ASSUME NEW ns, NEW ms, NEW ls, ArrayOK(ns), ArrayOK(ms), ArrayOK(ls),
         ArrayNoBack(ns, ms), ArrayNoBack(ms, ls)
  PROVE  ArrayNoBack(ns, ls)
<1> SUFFICES ASSUME NEW i \in Node PROVE NoBack(ns[i], ls[i])
  BY DEF ArrayNoBack
<1>1. /\ ns[i].current_term \in Nat /\ ms[i].current_term \in Nat /\ ls[i].current_term \in Nat
      /\ ns[i].commit_index \in Nat /\ ms[i].commit_index \in Nat /\ ls[i].commit_index \in Nat
  BY NodeFields DEF ArrayOK
<1> QED
  BY <1>1 DEF ArrayNoBack, NoBack

(* A piece of a sorted log is sorted and not older than what precedes it.     *)
LEMMA PieceSorted ==
  ASSUME NEW log \in Seq(LogEntry), NEW a \in Nat \ {0}, NEW b \in Nat, b <= Len(log),
         NEW T \in Nat, SortedLog(log, T), NEW e, e = SubSeq(log, a, b)
  PROVE  /\ e \in Seq(LogEntry)
         /\ SortedLog(e, T)
         /\ (Len(e) > 0 /\ a > 1) => a - 1 <= Len(log) /\ log[a - 1].term <= e[1].term
<1>1. /\ e \in Seq(LogEntry)
      /\ Len(e) = IF a <= b THEN b - a + 1 ELSE 0
      /\ \A k \in 1 .. Len(e) : e[k] = log[a + k - 1]
  BY SubSeqLog
<1>2. ASSUME NEW k \in 1 .. Len(e)
      PROVE  a + k - 1 \in 1 .. Len(log) /\ e[k] = log[a + k - 1]
  <2>1. a <= b
    BY <1>1
  <2>2. k \in Nat /\ 1 <= k /\ k <= b - a + 1
    BY <1>1, <2>1
  <2> QED
    BY <1>1, <2>2
<1>3. \A k \in 1 .. Len(e) : 0 < e[k].term /\ e[k].term <= T
  BY <1>2 DEF SortedLog
<1>4. ASSUME NEW k \in 1 .. Len(e) - 1
      PROVE  e[k].term <= e[k + 1].term
  <2>1. k \in Nat /\ k \in 1 .. Len(e) /\ k + 1 \in 1 .. Len(e)
    BY <1>1
  <2>2. e[k] = log[a + k - 1] /\ e[k + 1] = log[a + (k + 1) - 1]
    BY <1>2, <2>1
  <2>3. a + (k + 1) - 1 \in 1 .. Len(log)
    BY <1>2, <2>1
  <2>4. a + k - 1 \in 1 .. Len(log) - 1 /\ a + (k + 1) - 1 = (a + k - 1) + 1
    BY <2>1, <2>3
  <2> QED
    BY <2>2, <2>4 DEF SortedLog
<1>5. ASSUME Len(e) > 0, a > 1
      PROVE  a - 1 <= Len(log) /\ log[a - 1].term <= e[1].term
  <2>1. 1 \in 1 .. Len(e)
    BY <1>1, <1>5
  <2>2. a + 1 - 1 \in 1 .. Len(log) /\ e[1] = log[a + 1 - 1]
    BY <1>2, <2>1
  <2>3. a + 1 - 1 = (a - 1) + 1
    OBVIOUS
  <2>4. a - 1 \in 1 .. Len(log) - 1 /\ e[1] = log[(a - 1) + 1]
    BY <1>5, <2>2, <2>3
  <2> QED
    BY <2>4 DEF SortedLog
<1> QED
  BY <1>1, <1>3, <1>4, <1>5 DEF SortedLog

(* What a leader sends is a sorted piece of its own log, in its place.        *)
LEMMA BatchOK ==
  ASSUME NEW nd, NodeOK(nd), NEW j \in Node
  PROVE  /\ RpcOK(AppendEntries(nd, j, <<>>))
         /\ RpcOK(AppendEntries(nd, j, Batch(nd, j)))
         /\ Len(Batch(nd, j)) \in Nat
<1> USE RaftAssumption
<1> DEFINE first == nd.next_index[j]
           last  == first + MaxBatch - 1
           b     == IF last <= Len(nd.log) THEN last ELSE Len(nd.log)
           e     == Batch(nd, j)
           prev  == first - 1
           pterm == IF prev > 0 /\ prev <= Len(nd.log) THEN nd.log[prev].term ELSE 0
<1>0. /\ nd.current_term \in Nat /\ nd.commit_index \in Nat /\ nd.log \in Seq(LogEntry)
      /\ first \in Nat \ {0} /\ SortedLog(nd.log, nd.current_term)
  BY NodeFields DEF NodeOK
<1>1. prev \in Nat /\ b \in Nat /\ b <= Len(nd.log)
  BY <1>0
<1>2. pterm \in Nat
  <2>1. CASE prev > 0 /\ prev <= Len(nd.log)
    <3>1. nd.log[prev] \in LogEntry
      BY <1>0, <1>1, <2>1
    <3> QED
      BY <2>1, <3>1 DEF LogEntry
  <2>2. CASE ~(prev > 0 /\ prev <= Len(nd.log))
    BY <2>2
  <2> QED
    BY <2>1, <2>2
<1>3. e = SubSeq(nd.log, first, b)
  BY DEF Batch
<1> DEFINE rpc(es) == [ term |-> nd.current_term, prev_log_index |-> prev,
                        prev_log_term |-> pterm, entries |-> es,
                        leader_commit |-> nd.commit_index ]
<1>4. \A es : AppendEntries(nd, j, es) = rpc(es)
  BY DEF AppendEntries
<1> HIDE DEF e, b
<1>5. /\ e \in Seq(LogEntry) /\ SortedLog(e, nd.current_term)
      /\ (Len(e) > 0 /\ first > 1) =>
           first - 1 <= Len(nd.log) /\ nd.log[first - 1].term <= e[1].term
  BY <1>0, <1>1, <1>3, PieceSorted
<1>6. Len(e) \in Nat
  BY <1>5
<1>7. Follows(prev, pterm, e)
  BY <1>0, <1>1, <1>5 DEF Follows
<1> HIDE DEF pterm
<1>8. RpcOK(rpc(e))
  BY <1>0, <1>1, <1>2, <1>5, <1>7 DEF RpcOK
<1>9. RpcOK(rpc(<<>>))
  <2>1. <<>> \in Seq(LogEntry) /\ Len(<<>>) = 0
    OBVIOUS
  <2>2. SortedLog(<<>>, nd.current_term) /\ Follows(prev, pterm, <<>>)
    BY <2>1 DEF SortedLog, Follows
  <2> QED
    BY <1>0, <1>1, <1>2, <2>1, <2>2 DEF RpcOK
<1> QED
  BY <1>4, <1>6, <1>8, <1>9 DEF e

LEMMA SendHeartbeat ==
  ASSUME NEW ns, ArrayOK(ns), VotesOK(ns), NEW i \in Node
  PROVE  /\ Sound(ns, raft_send_heartbeat(ns, i))
         /\ raft_send_heartbeat(ns, i)[i] = ns[i]
<1> DEFINE ms == raft_send_heartbeat(ns, i)
<1>1. \A j \in Node : ms[j] = IF j # i /\ ns[j].active
                            THEN raft_handle_append_entries(ns[j], AppendEntries(ns[i], j, <<>>))
                            ELSE ns[j]
  BY DEF raft_send_heartbeat
<1>2. ASSUME NEW j \in Node
      PROVE  NodeOK(ms[j]) /\ NoBack(ns[j], ms[j]) /\ KeepsOrForgets(ns[j], ms[j])
  <2>1. NodeOK(ns[i]) /\ NodeOK(ns[j])
    BY DEF ArrayOK
  <2>2. RpcOK(AppendEntries(ns[i], j, <<>>))
    BY <2>1, BatchOK
  <2>3. ns[j].current_term \in Nat /\ ns[j].commit_index \in Nat
    BY <2>1, NodeFields DEF NodeOK
  <2>4. CASE j # i /\ ns[j].active
    BY <1>1, <2>1, <2>2, <2>4, HandleAppendEntries
  <2>5. CASE ~(j # i /\ ns[j].active)
    BY <1>1, <2>1, <2>3, <2>5 DEF NoBack, KeepsOrForgets
  <2> QED
    BY <2>4, <2>5
<1>3. ms = [j \in Node |-> ms[j]]
  BY DEF raft_send_heartbeat
<1> HIDE DEF ms
<1>4. ArrayOK(ms) /\ ArrayNoBack(ns, ms)
  BY <1>2, <1>3 DEF ArrayOK, ArrayNoBack, NodeOK
<1>5. VotesOK(ms)
  BY <1>2, <1>4, VotesKept
<1> QED
  BY <1>1, <1>4, <1>5 DEF Sound, ms

LEMMA LeaderCommitFacts ==
  ASSUME NEW ns, ArrayOK(ns), NEW i \in Node
  PROVE  /\ LeaderCommit(ns, i) \in Nat
         /\ LeaderCommit(ns, i) >= ns[i].commit_index
<1> DEFINE nd      == ns[i]
           Have(n) == {j \in Node : j = i \/ (ns[j].active /\ nd.match_index[j] >= n)}
           ready   == {n \in nd.commit_index + 1 .. Len(nd.log) :
                         /\ nd.log[n].term = nd.current_term
                         /\ Cardinality(Have(n)) >= raft_quorum_size}
           c       == CHOOSE n \in ready : \A k \in ready : k <= n
<1>0. nd.commit_index \in Nat /\ nd.log \in Seq(LogEntry)
  BY NodeFields DEF ArrayOK
<1>1. LeaderCommit(ns, i) = IF ready = {} THEN nd.commit_index ELSE c
  BY DEF LeaderCommit
<1>2. ready \subseteq nd.commit_index + 1 .. Len(nd.log)
  OBVIOUS
<1> HIDE DEF ready
<1>3. CASE ready = {}
  BY <1>0, <1>1, <1>3
<1>4. CASE ready # {}
  <2>1. Len(nd.log) \in Nat /\ ready \in SUBSET (0 .. Len(nd.log))
    BY <1>0, <1>2
  <2>2. \E n \in ready : \A k \in ready : k <= n
    BY <1>4, <2>1, GreatestElement
  <2>3. c \in ready
    BY <2>2
  <2>4. LeaderCommit(ns, i) = c
    BY <1>1, <1>4
  <2> HIDE DEF c
  <2>5. c \in nd.commit_index + 1 .. Len(nd.log)
    BY <1>2, <2>3
  <2> QED
    BY <1>0, <2>4, <2>5
<1> QED
  BY <1>3, <1>4

LEMMA SendAppendEntries ==
  ASSUME NEW ns, ArrayOK(ns), VotesOK(ns), NEW i \in Node
  PROVE  Sound(ns, raft_send_append_entries(ns, i))
<1> DEFINE peers  == {j \in Node \ {i} : ns[j].active}
           rpc(j) == AppendEntries(ns[i], j, Batch(ns[i], j))
           ok     == {j \in peers : Accepts(ns[j], rpc(j))}
           next   == [j \in Node |->
                        IF j \in peers
                        THEN NextIndex(ns[i].next_index[j], j \in ok, Len(rpc(j).entries))
                        ELSE ns[i].next_index[j]]
           match  == [j \in Node |-> IF j \in ok THEN next[j] - 1
                                     ELSE ns[i].match_index[j]]
           mine   == [ns[i] EXCEPT !.next_index = next, !.match_index = match]
           sent   == [j \in Node |->
                        IF j = i THEN mine
                        ELSE IF j \in peers THEN raft_handle_append_entries(ns[j], rpc(j))
                        ELSE ns[j]]
           commit == LeaderCommit(sent, i)
           ms     == [sent EXCEPT ![i].commit_index = commit]
<1>0. NodeOK(ns[i]) /\ ns[i] \in RaftNode
  BY DEF ArrayOK
<1>1. raft_send_append_entries(ns, i) = ms
  BY DEF raft_send_append_entries
<1>2. next \in [Node -> Nat \ {0}]
  <2> SUFFICES ASSUME NEW j \in Node PROVE next[j] \in Nat \ {0}
    OBVIOUS
  <2>1. ns[i].next_index[j] \in Nat \ {0}
    BY <1>0, NodeFields
  <2>2. rpc(j).entries = Batch(ns[i], j)
    BY DEF AppendEntries
  <2>3. Len(rpc(j).entries) \in Nat
    BY <1>0, <2>2, BatchOK
  <2>4. NextIndex(ns[i].next_index[j], j \in ok, Len(rpc(j).entries)) \in Nat \ {0}
    <3> HIDE DEF rpc
    <3> DEFINE o == ns[i].next_index[j]
               l == Len(rpc(j).entries)
               a == j \in ok
    <3>1. o \in Nat \ {0} /\ l \in Nat
      BY <2>1, <2>3
    <3> HIDE DEF o, l, a
    <3>2. NextIndex(o, a, l) \in Nat \ {0}
      BY <3>1 DEF NextIndex
    <3> QED
      BY <3>2 DEF o, l, a
  <2> HIDE DEF rpc, ok, peers
  <2> QED
    BY <2>1, <2>4
<1> HIDE DEF next, ok, rpc
<1>3. match \in [Node -> Nat]
  <2> SUFFICES ASSUME NEW j \in Node PROVE match[j] \in Nat
    OBVIOUS
  <2>1. next[j] \in Nat \ {0} /\ ns[i].match_index[j] \in Nat
    BY <1>0, <1>2, NodeFields
  <2> QED
    BY <2>1
<1> HIDE DEF match
<1>4. /\ mine \in RaftNode /\ mine.log = ns[i].log /\ mine.voted_for = ns[i].voted_for
      /\ mine.current_term = ns[i].current_term /\ mine.commit_index = ns[i].commit_index
      /\ mine.state = ns[i].state
  BY <1>0, <1>2, <1>3 DEF RaftNode
<1> HIDE DEF mine
<1>5. ASSUME NEW j \in Node
      PROVE  NodeOK(sent[j]) /\ NoBack(ns[j], sent[j]) /\ KeepsOrForgets(ns[j], sent[j])
  <2>1. NodeOK(ns[j]) /\ ns[j].current_term \in Nat /\ ns[j].commit_index \in Nat
    BY NodeFields DEF ArrayOK, NodeOK
  <2>2. CASE j = i
    BY <1>0, <1>4, <2>1, <2>2 DEF NodeOK, NoBack, KeepsOrForgets
  <2>3. CASE j # i /\ j \in peers
    <3>1. RpcOK(rpc(j))
      BY <1>0, BatchOK DEF rpc
    <3> QED
      BY <2>1, <2>3, <3>1, HandleAppendEntries
  <2>4. CASE j # i /\ j \notin peers
    BY <2>1, <2>4 DEF NoBack, KeepsOrForgets
  <2> QED
    BY <2>2, <2>3, <2>4
<1>6. ArrayOK(sent)
  <2>1. \A j \in Node : sent[j] \in RaftNode
    BY <1>5 DEF NodeOK
  <2> QED
    BY <1>5, <2>1 DEF ArrayOK
<1>7. commit \in Nat /\ commit >= sent[i].commit_index
  BY <1>6, LeaderCommitFacts
<1> HIDE DEF commit
<1>8. ASSUME NEW j \in Node
      PROVE  NodeOK(ms[j]) /\ NoBack(ns[j], ms[j]) /\ KeepsOrForgets(ns[j], ms[j])
  <2>1. CASE j # i
    BY <1>5, <2>1
  <2>2. CASE j = i
    <3>1. ms[i] = [mine EXCEPT !.commit_index = commit]
      OBVIOUS
    <3>2. /\ ms[i] \in RaftNode /\ ms[i].log = mine.log /\ ms[i].voted_for = mine.voted_for
          /\ ms[i].current_term = mine.current_term /\ ms[i].commit_index = commit
          /\ ms[i].state = mine.state
      BY <1>4, <1>7, <3>1 DEF RaftNode
    <3>3. ns[i].current_term \in Nat /\ ns[i].commit_index \in Nat
      BY <1>0, NodeFields
    <3>4. commit >= ns[i].commit_index
      BY <1>4, <1>7
    <3> QED
      BY <1>0, <1>4, <2>2, <3>2, <3>3, <3>4 DEF NodeOK, NoBack, KeepsOrForgets
  <2> QED
    BY <2>1, <2>2
<1>9. ms = [j \in Node |-> ms[j]]
  OBVIOUS
<1> HIDE DEF ms
<1>10. ArrayOK(ms) /\ ArrayNoBack(ns, ms)
  BY <1>8, <1>9 DEF ArrayOK, ArrayNoBack, NodeOK
<1>11. VotesOK(ms)
  BY <1>8, <1>10, VotesKept
<1> QED
  BY <1>1, <1>10, <1>11 DEF Sound

LEMMA NodeFinite ==
  ASSUME NEW S \in SUBSET Node
  PROVE  IsFiniteSet(S) /\ Cardinality(S) \in Nat
<1>1. IsFiniteSet(Node)
  BY RaftAssumption, FS_Interval, 0 \in Int, N - 1 \in Int DEF Node
<1> QED
  BY <1>1, FS_Subset, FS_CardinalityType

(* A candidate asks for votes: every new vote is for it, in its term.         *)
LEMMA SendRequestVote ==
  ASSUME NEW ns, ArrayOK(ns), VotesOK(ns), NEW i \in Node
  PROVE  Sound(ns, raft_send_request_vote(ns, i))
<1> DEFINE rpc   == RequestVote(ns[i], i)
           peers == {j \in Node \ {i} : ns[j].active}
           yes   == {j \in peers : VoteGranted(ns[j], rpc)}
           votes == ns[i].votes_received + Cardinality(yes)
           mine  == [ns[i] EXCEPT !.votes_received = votes]
           ms    == [j \in Node |->
                       IF j = i THEN mine
                       ELSE IF j \in peers THEN raft_handle_request_vote(ns[j], rpc)
                       ELSE ns[j]]
<1>0. NodeOK(ns[i]) /\ ns[i] \in RaftNode
  BY DEF ArrayOK
<1>1. raft_send_request_vote(ns, i) = ms
  BY DEF raft_send_request_vote
<1>2. votes \in Nat
  <2>1. yes \in SUBSET Node
    OBVIOUS
  <2>2. Cardinality(yes) \in Nat
    BY <2>1, NodeFinite
  <2>3. ns[i].votes_received \in Nat
    BY <1>0, NodeFields
  <2> QED
    BY <2>2, <2>3
<1>3. rpc.term = ns[i].current_term /\ rpc.candidate_id = i
  BY DEF RequestVote
<1> HIDE DEF votes, rpc
<1>4. /\ mine \in RaftNode /\ mine.log = ns[i].log /\ mine.voted_for = ns[i].voted_for
      /\ mine.current_term = ns[i].current_term /\ mine.commit_index = ns[i].commit_index
      /\ mine.state = ns[i].state
  BY <1>0, <1>2 DEF RaftNode
<1> HIDE DEF mine
<1>5. ASSUME NEW j \in Node
      PROVE  /\ NodeOK(ms[j]) /\ NoBack(ns[j], ms[j])
             /\ \/ KeepsOrForgets(ns[j], ms[j])
                \/ ms[j].voted_for = i /\ ms[j].current_term = ms[i].current_term
  <2>1. NodeOK(ns[j]) /\ ns[j].current_term \in Nat /\ ns[j].commit_index \in Nat
    BY NodeFields DEF ArrayOK, NodeOK
  <2>2. CASE j = i
    BY <1>0, <1>4, <2>1, <2>2 DEF NodeOK, NoBack, KeepsOrForgets
  <2>3. CASE j # i /\ j \in peers
    <3>1. rpc.term \in Nat /\ rpc.candidate_id \in Node
      BY <1>0, <1>3, NodeFields
    <3>2. ms[j] = raft_handle_request_vote(ns[j], rpc) /\ ms[i] = mine
      BY <2>3
    <3>3. /\ NodeOK(ms[j]) /\ NoBack(ns[j], ms[j])
          /\ \/ KeepsOrForgets(ns[j], ms[j])
             \/ ms[j].voted_for = rpc.candidate_id /\ ms[j].current_term = rpc.term
      BY <2>1, <3>1, <3>2, HandleRequestVote
    <3> QED
      BY <1>3, <1>4, <3>2, <3>3
  <2>4. CASE j # i /\ j \notin peers
    BY <2>1, <2>4 DEF NoBack, KeepsOrForgets
  <2> QED
    BY <2>2, <2>3, <2>4
<1>6. ms = [j \in Node |-> ms[j]]
  OBVIOUS
<1> HIDE DEF ms
<1>7. ArrayOK(ms) /\ ArrayNoBack(ns, ms)
  BY <1>5, <1>6 DEF ArrayOK, ArrayNoBack, NodeOK
<1>8. VotesOK(ms)
  BY <1>5, <1>7, VotesKept
<1> QED
  BY <1>1, <1>7, <1>8 DEF Sound

(* Replacing one node by one that has not gone back and whose vote is kept,   *)
(* forgotten or its own.                                                      *)
LEMMA ReplaceNode ==
  ASSUME NEW ns, ArrayOK(ns), VotesOK(ns), NEW i \in Node, NEW nd,
         NodeOK(nd), NoBack(ns[i], nd),
         KeepsOrForgets(ns[i], nd) \/ nd.voted_for = i
  PROVE  Sound(ns, [ns EXCEPT ![i] = nd])
<1> DEFINE ms == [ns EXCEPT ![i] = nd]
<1>0. \A j \in Node : ns[j] \in RaftNode /\ ns[j].current_term \in Nat /\ ns[j].commit_index \in Nat
  BY NodeFields DEF ArrayOK
<1>1. ArrayOK(ms)
  BY DEF ArrayOK, NodeOK
<1>2. ArrayNoBack(ns, ms)
  BY <1>0 DEF ArrayOK, ArrayNoBack, NoBack
<1>3. ASSUME NEW j \in Node
      PROVE  \/ KeepsOrForgets(ns[j], ms[j])
             \/ ms[j].voted_for = i /\ ms[j].current_term = ms[i].current_term
  <2>1. CASE j = i
    BY <2>1 DEF ArrayOK
  <2>2. CASE j # i
    BY <2>2 DEF ArrayOK, KeepsOrForgets
  <2> QED
    BY <2>1, <2>2
<1>4. VotesOK(ms)
  <2> HIDE DEF ms
  <2> QED
    BY <1>1, <1>2, <1>3, VotesKept
<1> QED
  BY <1>1, <1>2, <1>4 DEF Sound

LEMMA SoundTransitive ==
  ASSUME NEW ns, NEW ms, NEW ls, ArrayOK(ns), Sound(ns, ms), Sound(ms, ls)
  PROVE  Sound(ns, ls)
  BY NoBackTransitive DEF Sound

LEMMA BecomeLeader ==
  ASSUME NEW nd, NodeOK(nd), nd.current_term > 0
  PROVE  LET f == raft_become_leader(nd) IN
         NodeOK(f) /\ NoBack(nd, f) /\ f.voted_for = NONE
<1> DEFINE f == raft_become_leader(nd)
           x == [j \in Node |-> Len(nd.log) + 1]
           y == [j \in Node |-> 0]
<1>0. nd \in RaftNode /\ nd.log \in Seq(LogEntry)
      /\ nd.current_term \in Nat /\ nd.commit_index \in Nat
  BY NodeFields DEF NodeOK
<1>1. x \in [Node -> Nat \ {0}] /\ y \in [Node -> Nat]
  BY <1>0
<1> HIDE DEF x, y
<1>2. f = [nd EXCEPT !.state = "LEADER", !.voted_for = NONE, !.votes_received = 0,
                     !.next_index = x, !.match_index = y]
  BY DEF raft_become_leader, x, y
<1> HIDE DEF f
<1>3. f \in RaftNode
  BY <1>0, <1>1, <1>2, NONE \in Node \cup {NONE}, 0 \in Nat DEF RaftNode
<1>4. /\ f.log = nd.log /\ f.voted_for = NONE
      /\ f.current_term = nd.current_term /\ f.commit_index = nd.commit_index
  BY <1>0, <1>2 DEF RaftNode
<1> QED
  BY <1>0, <1>3, <1>4 DEF NodeOK, NoBack, f

LEMMA BecomeCandidate ==
  ASSUME NEW nd, NodeOK(nd), NEW i \in Node
  PROVE  LET f == raft_become_candidate(nd, i) IN
         NodeOK(f) /\ NoBack(nd, f) /\ f.voted_for = i
<1> DEFINE f == raft_become_candidate(nd, i)
<1>0. nd \in RaftNode /\ nd.log \in Seq(LogEntry)
      /\ nd.current_term \in Nat /\ nd.commit_index \in Nat
  BY NodeFields DEF NodeOK
<1>1. /\ f \in RaftNode /\ f.log = nd.log /\ f.voted_for = i
      /\ f.current_term = nd.current_term + 1 /\ f.commit_index = nd.commit_index
  <2> DEFINE t == nd.current_term + 1
  <2>1. t \in Nat
    BY <1>0
  <2>2. f = [nd EXCEPT !.state = "CANDIDATE", !.current_term = t,
                       !.voted_for = i, !.votes_received = 1]
    BY DEF raft_become_candidate
  <2> HIDE DEF t, f
  <2>3. f \in RaftNode
    BY <1>0, <2>1, <2>2, i \in Node \cup {NONE}, 1 \in Nat DEF RaftNode
  <2>4. /\ f.log = nd.log /\ f.voted_for = i /\ f.current_term = t
        /\ f.commit_index = nd.commit_index
    BY <1>0, <2>2 DEF RaftNode
  <2> QED
    BY <2>3, <2>4 DEF t, f
<1>2. SortedLog(nd.log, nd.current_term + 1)
  BY <1>0, SortedLater, nd.current_term + 1 \in Nat, nd.current_term <= nd.current_term + 1
     DEF NodeOK
<1> QED
  BY <1>0, <1>1, <1>2 DEF NodeOK, NoBack

(* A leader appends an entry of its own term.                                 *)
LEMMA AppendEntry ==
  ASSUME NEW nd, NodeOK(nd), NEW c \in Commands, Len(nd.log) < MaxLog,
         nd.current_term > 0,
         NEW f, f = [nd EXCEPT !.log = Append(nd.log, [term |-> nd.current_term, command |-> c])]
  PROVE  NodeOK(f) /\ NoBack(nd, f) /\ KeepsOrForgets(nd, f)
<1> DEFINE e == [term |-> nd.current_term, command |-> c]
           l == Append(nd.log, e)
           T == nd.current_term
<1>0. nd \in RaftNode /\ nd.log \in Seq(LogEntry)
      /\ nd.current_term \in Nat /\ nd.commit_index \in Nat
  BY NodeFields DEF NodeOK
<1>a. f = [nd EXCEPT !.log = l]
  OBVIOUS
<1>1. e \in LogEntry /\ e.term = T
  BY <1>0 DEF LogEntry
<1> HIDE DEF e
<1>2. /\ l \in Seq(LogEntry) /\ Len(l) = Len(nd.log) + 1
      /\ \A k \in 1 .. Len(nd.log) : l[k] = nd.log[k]
      /\ l[Len(nd.log) + 1] = e
  BY <1>0, <1>1, AppendProperties
<1> HIDE DEF l
<1>3. Len(nd.log) \in Nat
  BY <1>0
<1>4. \A k \in 1 .. Len(l) : 0 < l[k].term /\ l[k].term <= T
  <2> SUFFICES ASSUME NEW k \in 1 .. Len(l) PROVE 0 < l[k].term /\ l[k].term <= T
    OBVIOUS
  <2>1. CASE k \in 1 .. Len(nd.log)
    BY <1>2, <2>1 DEF NodeOK, SortedLog
  <2>2. CASE k = Len(nd.log) + 1
    BY <1>0, <1>1, <1>2, <2>2
  <2> QED
    BY <1>2, <1>3, <2>1, <2>2
<1>5. \A k \in 1 .. Len(l) - 1 : l[k].term <= l[k + 1].term
  <2> SUFFICES ASSUME NEW k \in 1 .. Len(l) - 1 PROVE l[k].term <= l[k + 1].term
    OBVIOUS
  <2>0. k \in 1 .. Len(l) /\ k \in 1 .. Len(nd.log)
    BY <1>2, <1>3
  <2>1. CASE k \in 1 .. Len(nd.log) - 1
    <3>0. k \in 1 .. Len(nd.log) /\ k + 1 \in 1 .. Len(nd.log)
      BY <1>3, <2>1
    <3>1. l[k] = nd.log[k] /\ l[k + 1] = nd.log[k + 1]
      BY <1>2, <3>0
    <3> QED
      BY <2>1, <3>1 DEF NodeOK, SortedLog
  <2>2. CASE k = Len(nd.log)
    BY <1>1, <1>2, <1>4, <2>0, <2>2
  <2> QED
    BY <1>3, <2>0, <2>1, <2>2
<1>6. SortedLog(l, T)
  BY <1>4, <1>5 DEF SortedLog
<1>7. /\ f \in RaftNode /\ f.log = l /\ f.voted_for = nd.voted_for
      /\ f.current_term = nd.current_term /\ f.commit_index = nd.commit_index
  BY <1>0, <1>2, <1>a DEF RaftNode
<1>8. Len(f.log) <= MaxLog
  BY <1>2, <1>3, <1>7, RaftAssumption
<1>9. NodeOK(f)
  BY <1>0, <1>6, <1>7, <1>8 DEF NodeOK
<1>10. NoBack(nd, f) /\ KeepsOrForgets(nd, f)
  BY <1>0, <1>7 DEF NoBack, KeepsOrForgets
<1> QED
  BY <1>9, <1>10

-----------------------------------------------------------------------------
(* The inductive invariant.  That candidates and leaders have a positive     *)
(* term, which their entries carry, is part of NodeOK.                        *)

IInv == ArrayOK(nodes) /\ VotesOK(nodes) /\ turn \in Node

LEMMA InitInv == Init => IInv
<1> SUFFICES ASSUME Init PROVE IInv
  OBVIOUS
<1> USE RaftAssumption
<1>1. \A i \in Node : NodeOK(nodes[i]) /\ nodes[i].voted_for = NONE
  <2> SUFFICES ASSUME NEW i \in Node
               PROVE  NodeOK(nodes[i]) /\ nodes[i].voted_for = NONE
    OBVIOUS
  <2>1. nodes[i] = [ state |-> "FOLLOWER", current_term |-> 0, voted_for |-> NONE,
                     log |-> <<>>, commit_index |-> 0,
                     next_index |-> [j \in Node |-> 1], match_index |-> [j \in Node |-> 0],
                     votes_received |-> 0, active |-> TRUE ]
    BY DEF Init
  <2>2. nodes[i] \in RaftNode
    BY <2>1, <<>> \in Seq(LogEntry) DEF RaftNode
  <2> QED
    BY <2>1, <2>2 DEF NodeOK, SortedLog
<1>2. ArrayOK(nodes) /\ VotesOK(nodes)
  BY <1>1 DEF ArrayOK, VotesOK, Init, NodeOK
<1>3. turn \in Node
  BY DEF Init, Node
<1> QED
  BY <1>2, <1>3 DEF IInv

LEMMA NextTurnType ==
  ASSUME turn \in Node, NextTurn
  PROVE  turn' \in Node
  BY RaftAssumption DEF NextTurn, Node

(* Every step is a function on the array that the lemmas above speak of.      *)
LEMMA NextSound ==
  ASSUME IInv, Next
  PROVE  Sound(nodes, nodes') /\ turn' \in Node
<1>0. ArrayOK(nodes) /\ VotesOK(nodes) /\ turn \in Node
  BY DEF IInv
<1>a. \A i \in Node : NodeOK(nodes[i])
  BY <1>0 DEF ArrayOK
<1>1. CASE TickIdle
  <2>1. nodes' = nodes /\ turn' \in Node
    BY <1>0, <1>1, NextTurnType DEF TickIdle
  <2>2. \A i \in Node : NoBack(nodes[i], nodes[i])
    BY <1>0, NodeFields DEF NoBack, ArrayOK
  <2> QED
    BY <1>0, <2>1, <2>2 DEF Sound, ArrayNoBack
<1>2. CASE TickElection
  <2> DEFINE nd == raft_become_candidate(nodes[turn], turn)
  <2>1. nodes' = [nodes EXCEPT ![turn] = nd] /\ turn' \in Node
    BY <1>0, <1>2, NextTurnType DEF TickElection
  <2>2. NodeOK(nd) /\ NoBack(nodes[turn], nd) /\ nd.voted_for = turn
    BY <1>0, <1>a, BecomeCandidate
  <2> HIDE DEF nd
  <2> QED
    BY <1>0, <2>1, <2>2, ReplaceNode
<1>3. CASE TickCandidate
  <2> DEFINE asked == raft_send_request_vote(nodes, turn)
             nd    == raft_become_leader(asked[turn])
  <2>1. turn' \in Node
    BY <1>0, <1>3, NextTurnType DEF TickCandidate
  <2>2. Sound(nodes, asked)
    BY <1>0, SendRequestVote
  <2>3. asked[turn].current_term > 0
    <3>1. asked[turn] = [nodes[turn] EXCEPT !.votes_received = @ +
             Cardinality({j \in {k \in Node \ {turn} : nodes[k].active} :
                            VoteGranted(nodes[j], RequestVote(nodes[turn], turn))})]
      BY <1>0 DEF raft_send_request_vote
    <3>2. asked[turn].current_term = nodes[turn].current_term
      BY <1>0, <3>1 DEF ArrayOK, RaftNode
    <3>3. nodes[turn].current_term > 0
      BY <1>0, <1>a, <1>3 DEF TickCandidate, NodeOK
    <3> QED
      BY <3>2, <3>3
  <2>4. nodes' = asked \/ nodes' = [asked EXCEPT ![turn] = nd]
    BY <1>3 DEF TickCandidate
  <2> HIDE DEF asked
  <2>5. NodeOK(asked[turn])
    BY <1>0, <2>2 DEF Sound, ArrayOK
  <2>6. NodeOK(nd) /\ NoBack(asked[turn], nd) /\ KeepsOrForgets(asked[turn], nd)
    BY <2>3, <2>5, BecomeLeader DEF KeepsOrForgets
  <2> HIDE DEF nd
  <2>7. Sound(asked, [asked EXCEPT ![turn] = nd])
    BY <1>0, <2>2, <2>6, ReplaceNode DEF Sound
  <2> QED
    BY <1>0, <2>1, <2>2, <2>4, <2>7, SoundTransitive
<1>4. CASE TickLeader
  <2> DEFINE hb == raft_send_heartbeat(nodes, turn)
  <2>1. nodes' = raft_send_append_entries(hb, turn) /\ turn' \in Node
    BY <1>0, <1>4, NextTurnType DEF TickLeader
  <2>2. Sound(nodes, hb)
    BY <1>0, SendHeartbeat
  <2> HIDE DEF hb
  <2>3. Sound(hb, nodes')
    BY <1>0, <2>1, <2>2, SendAppendEntries DEF Sound
  <2> QED
    BY <1>0, <2>1, <2>2, <2>3, SoundTransitive
<1>5. ASSUME NEW i \in Node, NEW c \in Commands, raft_submit_command(i, c)
      PROVE  Sound(nodes, nodes') /\ turn' \in Node
  <2> DEFINE e  == [term |-> nodes[i].current_term, command |-> c]
             nd == [nodes[i] EXCEPT !.log = Append(nodes[i].log, e)]
             ms == [nodes EXCEPT ![i] = nd]
  <2>1. /\ nodes' = raft_send_append_entries(ms, i) /\ turn' = turn
        /\ nodes[i].state = "LEADER" /\ Len(nodes[i].log) < MaxLog
    BY <1>5 DEF raft_submit_command
  <2>2. nodes[i].current_term > 0
    BY <1>a, <2>1 DEF NodeOK
  <2>3. NodeOK(nd) /\ NoBack(nodes[i], nd) /\ KeepsOrForgets(nodes[i], nd)
    BY <1>a, <2>1, <2>2, AppendEntry
  <2> HIDE DEF nd
  <2>4. Sound(nodes, ms)
    BY <1>0, <2>3, ReplaceNode
  <2> HIDE DEF ms
  <2>5. Sound(ms, nodes')
    BY <2>1, <2>4, SendAppendEntries DEF Sound
  <2> QED
    BY <1>0, <2>1, <2>4, <2>5, SoundTransitive
<1>6. ASSUME NEW i \in Node, raft_isolate_node(i)
      PROVE  Sound(nodes, nodes') /\ turn' \in Node
  <2> DEFINE nd == [nodes[i] EXCEPT !.active = FALSE]
  <2>1. nodes' = [nodes EXCEPT ![i] = nd] /\ turn' = turn
    BY <1>6 DEF raft_isolate_node
  <2>2. NodeOK(nd) /\ NoBack(nodes[i], nd) /\ KeepsOrForgets(nodes[i], nd)
    <3>0. nodes[i] \in RaftNode
      BY <1>0 DEF ArrayOK
    <3>1. /\ nd \in RaftNode /\ nd.log = nodes[i].log /\ nd.voted_for = nodes[i].voted_for
          /\ nd.current_term = nodes[i].current_term /\ nd.commit_index = nodes[i].commit_index
          /\ nd.state = nodes[i].state
      BY <3>0 DEF RaftNode
    <3> QED
      BY <1>a, <3>0, <3>1, NodeFields DEF NodeOK, NoBack, KeepsOrForgets
  <2> HIDE DEF nd
  <2> QED
    BY <1>0, <2>1, <2>2, ReplaceNode
<1>7. ASSUME NEW i \in Node, raft_reconnect_node(i)
      PROVE  Sound(nodes, nodes') /\ turn' \in Node
  <2> DEFINE up == [nodes[i] EXCEPT !.active = TRUE]
             nd == raft_become_follower(up, nodes[i].current_term)
  <2>1. nodes' = [nodes EXCEPT ![i] = nd] /\ turn' = turn
    BY <1>7 DEF raft_reconnect_node
  <2>0. nodes[i] \in RaftNode /\ nodes[i].current_term \in Nat /\ nodes[i].commit_index \in Nat
    BY <1>0, NodeFields DEF ArrayOK
  <2>2. /\ up \in RaftNode /\ up.log = nodes[i].log /\ up.voted_for = nodes[i].voted_for
        /\ up.current_term = nodes[i].current_term /\ up.commit_index = nodes[i].commit_index
        /\ up.state = nodes[i].state
    BY <2>0 DEF RaftNode
  <2> HIDE DEF up
  <2>3. NodeOK(up)
    BY <1>a, <2>2 DEF NodeOK
  <2>4. NodeOK(nd) /\ NoBack(up, nd) /\ nd.voted_for = NONE
    BY <2>0, <2>3, BecomeFollower
  <2> HIDE DEF nd
  <2>5. NoBack(nodes[i], nd) /\ KeepsOrForgets(nodes[i], nd)
    BY <2>2, <2>4 DEF NoBack, KeepsOrForgets
  <2> QED
    BY <1>0, <2>1, <2>4, <2>5, ReplaceNode
<1> QED
  BY <1>1, <1>2, <1>3, <1>4, <1>5, <1>6, <1>7 DEF Next, raft_tick

LEMMA NextInv == IInv /\ [Next]_vars => IInv'
<1>1. ASSUME IInv, Next
      PROVE  IInv'
  BY <1>1, NextSound DEF IInv, Sound
<1>2. ASSUME IInv, UNCHANGED vars
      PROVE  IInv'
  BY <1>2 DEF IInv, vars, ArrayOK, VotesOK
<1> QED
  BY <1>1, <1>2

-----------------------------------------------------------------------------
(* Types: next_index stays positive, logs stay within their arrays.           *)
THEOREM TypeCorrect == Spec => []TypeOK
<1>1. IInv => TypeOK
  BY DEF IInv, TypeOK, ArrayOK, NodeOK
<1> QED
  BY <1>1, InitInv, NextInv, PTL DEF Spec

(* Terms along every log never decrease, in clusters of every size.           *)
THEOREM LogsSorted == Spec => []LogTermsSorted
<1>1. IInv => LogTermsSorted
  BY DEF IInv, LogTermsSorted, ArrayOK, NodeOK
<1> QED
  BY <1>1, InitInv, NextInv, PTL DEF Spec

(* A recorded vote always belongs to the voter's current term.                *)
THEOREM VotesCurrent == Spec => []VotedForStarted
<1>1. IInv => VotedForStarted
  BY DEF IInv, VotedForStarted, VotesOK
<1> QED
  BY <1>1, InitInv, NextInv, PTL DEF Spec

(* No step takes any node back in term or in commit index.                    *)
THEOREM TermsAndCommitsGrow == Spec => NeverBack
<1>1. ASSUME IInv, [Next]_vars
      PROVE  [\A i \in Node :
                /\ nodes'[i].current_term >= nodes[i].current_term
                /\ nodes'[i].commit_index >= nodes[i].commit_index]_vars
  <2>1. CASE Next
    BY <1>1, <2>1, NextSound DEF Sound, ArrayNoBack, NoBack
  <2>2. CASE UNCHANGED vars
    BY <2>2
  <2> QED
    BY <1>1, <2>1, <2>2
<1> QED
  BY <1>1, InitInv, NextInv, PTL DEF Spec, NeverBack
=============================================================================
