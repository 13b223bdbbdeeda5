----------------------------- MODULE Causality ------------------------------
(***************************************************************************)
(* What happened before what in mini-dist-system-theory: logical clocks    *)
(* and the global snapshot.  They share no state.                          *)
(***************************************************************************)
EXTENDS Integers, FiniteSets, FiniteSetsExt, Bags

-----------------------------------------------------------------------------
(***************************************************************************)
(* mini-dist-system-theory/src/time_ordering.c: Lamport, vector and hybrid   *)
(* logical clocks, kept side by side by every process.  Any event may send a *)
(* message, which may be received late, twice, out of order or never, so a   *)
(* receive names the event it is a message of.  Each process reads a wall    *)
(* clock of its own, which may be behind another's and may be set back.      *)
(***************************************************************************)

CONSTANTS
  Process,    \* the processes, numbers (node_id)
  WallTimes,  \* what a wall clock may show
  MaxEvents   \* bound: events

ASSUME ClocksAssumption == WallTimes \subseteq Nat

VARIABLES
  clocks,     \* the three clocks of each process
  events      \* the events so far, with their clocks and what they come after

clockVars == <<clocks, events>>

lamport_increment(c) == c + 1
lamport_tick(c, received) == Max({c, received}) + 1

vector_clock_init == [p \in Process |-> 0]
vector_clock_increment(vc, p) == [vc EXCEPT ![p] = @ + 1]
vector_clock_merge(vc, other) == [p \in Process |-> Max({vc[p], other[p]})]
vector_clock_compare(a, b) ==
  LET leq == \A p \in Process : a[p] <= b[p]
      geq == \A p \in Process : b[p] <= a[p]
  IN  IF leq /\ geq THEN "equal" ELSE IF leq THEN "before" ELSE IF geq THEN "after" ELSE "concurrent"

hlc_tick(h, wall) ==
  IF wall > h.physical THEN [physical |-> wall, logical |-> 0] ELSE [h EXCEPT !.logical = @ + 1]

(* The physical time is set before it is compared with the maximum, so the   *)
(* counter never starts again from 0.                                        *)
ForgetsTheMessage(h, m, wall) ==
  [physical |-> Max({h.physical, m.physical, wall}), logical |-> h.logical + 1]

hlc_on_receive(h, m, wall) ==
  LET max_pt == Max({h.physical, m.physical, wall})
  IN  [physical |-> max_pt,
       logical |-> IF max_pt = m.physical THEN Max({h.logical, m.logical}) + 1 ELSE h.logical + 1]

(* -1, 0 or 1, as hlc_compare and lamport_compare say it.                    *)
lamport_compare(a, b) == IF a < b THEN -1 ELSE IF a > b THEN 1 ELSE 0
hlc_compare(a, b) ==
  IF a.physical # b.physical THEN lamport_compare(a.physical, b.physical)
  ELSE lamport_compare(a.logical, b.logical)

ClockInit ==
  /\ clocks = [p \in Process |->
       [lamport |-> 0, vector |-> vector_clock_init, hlc |-> [physical |-> 0, logical |-> 0]]]
  /\ events = {}

(* An event of p: its clocks, and all it comes after.                        *)
Occurs(p, c, past) ==
  /\ Cardinality(events) < MaxEvents
  /\ clocks' = [clocks EXCEPT ![p] = c]
  /\ events' = events \cup {[no |-> Cardinality(events), at |-> p, clocks |-> c, past |-> past]}

OwnPast(p) == {e.no : e \in {f \in events : f.at = p}} \cup UNION {e.past : e \in {f \in events : f.at = p}}

Local(p, wall) ==
  LET c == clocks[p]
  IN  Occurs(p, [lamport |-> lamport_increment(c.lamport),
                 vector |-> vector_clock_increment(c.vector, p),
                 hlc |-> hlc_tick(c.hlc, wall)], OwnPast(p))

ReceiveFrom(p, e, wall) ==
  LET c == clocks[p]
  IN  Occurs(p, [lamport |-> lamport_tick(c.lamport, e.clocks.lamport),
                 vector |-> vector_clock_increment(vector_clock_merge(c.vector, e.clocks.vector), p),
                 hlc |-> hlc_on_receive(c.hlc, e.clocks.hlc, wall)],
             OwnPast(p) \cup e.past \cup {e.no})

ClockNext ==
  \E p \in Process, wall \in WallTimes :
    \/ Local(p, wall)
    \/ \E e \in events : e.at # p /\ ReceiveFrom(p, e, wall)

ClockSpec == ClockInit /\ [][ClockNext]_clockVars

------------------------------------------------------------------------------
(* vector_clock_compare, lamport_tick, hlc_on_receive: one event is before   *)
(* another in the vector clocks exactly when it happened before it, and then *)
(* it is also before it in the Lamport and in the hybrid clocks, even where  *)
(* the wall clocks differ and step back.                                     *)
ClocksFollowCausality ==
  \A e, f \in events : e # f =>
    /\ (vector_clock_compare(e.clocks.vector, f.clocks.vector) = "before") <=> (e.no \in f.past)
    /\ e.no \in f.past =>
         /\ lamport_compare(e.clocks.lamport, f.clocks.lamport) = -1
         /\ hlc_compare(e.clocks.hlc, f.clocks.hlc) = -1

-----------------------------------------------------------------------------
(***************************************************************************)
(* mini-dist-system-theory/src/snapshot.c: the marker algorithm.  Messages   *)
(* in flight are an array, out of which the caller takes them in any order;  *)
(* it has a function to process a marker and none to receive an application  *)
(* message.  Channels have a direction; a process waits for a marker on the  *)
(* channel from each process it sends to, so the channels here go both ways. *)
(* orderly is history: nothing has disturbed this snapshot, which a marker   *)
(* left over from before the last reset, a second start at a process, or a   *)
(* marker that found the array full does.                                    *)
(***************************************************************************)

CONSTANTS
  Channels,     \* pairs <<from, to>> (snap_add_channel), both ways
  MaxInflight,  \* the size of the array (256)
  MaxSends,     \* bound: application messages
  MaxResets     \* bound: resets, and starts at a process that has recorded

VARIABLES processes, inflight, orderly, sends, resets

snapVars == <<processes, inflight, orderly, sends, resets>>

Neighbors(p) == {q \in Process : <<p, q>> \in Channels}

Unrecorded == [recorded |-> FALSE, recording |-> [q \in Process |-> FALSE],
               marker_received |-> [q \in Process |-> FALSE],
               marker_sent |-> [q \in Process |-> FALSE]]

snap_init_system ==
  /\ processes = [p \in Process |-> Unrecorded]
  /\ inflight = EmptyBag /\ orderly = TRUE
  /\ sends = 0 /\ resets = 0

Marker(p, q) == [type |-> "marker", from |-> p, to |-> q]
Room(b) == MaxInflight - BagCardinality(b)

(* Those of the messages that fit: the array does not grow.                  *)
snap_enqueue_msgs(b, ms) ==
  IF Cardinality(ms) <= Room(b)
    THEN inflight' = b (+) SetToBag(ms)
    ELSE \E S \in SUBSET ms : Cardinality(S) = Room(b) /\ inflight' = b (+) SetToBag(S)

(* Records the state, starts recording every channel and sends markers to    *)
(* the neighbours in S.                                                      *)
Recorded(p, S) ==
  [processes[p] EXCEPT !.recorded = TRUE, !.recording = [q \in Process |-> TRUE],
                       !.marker_sent = [q \in Process |-> @[q] \/ q \in S]]

(* An application message takes up room: who it is for plays no part.        *)
snap_send_message(p, q) ==
  /\ sends < MaxSends
  /\ snap_enqueue_msgs(inflight, {[type |-> "app"]})
  /\ sends' = sends + 1
  /\ UNCHANGED <<processes, orderly, resets>>

(* Any process may start the snapshot, again and after it has recorded too.  *)
snap_initiate_snapshot(p) ==
  /\ processes[p].recorded => resets < MaxResets
  /\ orderly' = (orderly /\ ~processes[p].recorded /\ Cardinality(Neighbors(p)) <= Room(inflight))
  /\ processes' = [processes EXCEPT ![p] = Recorded(p, Neighbors(p))]
  /\ snap_enqueue_msgs(inflight, {Marker(p, q) : q \in Neighbors(p)})
  /\ resets' = IF processes[p].recorded THEN resets + 1 ELSE resets
  /\ UNCHANGED sends

(* A first marker records the state; a later one, from another process, only *)
(* ends the recording of its channel.                                        *)
MarkerTaken(p, from) ==
  LET S == {q \in Neighbors(p) : ~processes[p].marker_sent[q]}
  IN  IF processes[p].recorded
        THEN <<[processes[p] EXCEPT !.marker_received[from] = TRUE,
                                    !.recording[from] = FALSE], {}>>
        ELSE <<[Recorded(p, S) EXCEPT !.marker_received[from] = TRUE,
                                      !.recording[from] = FALSE], S>>

snap_process_marker(m) ==
  /\ m.type = "marker"
  /\ LET taken == MarkerTaken(m.to, m.from)
     IN  /\ processes' = [processes EXCEPT ![m.to] = taken[1]]
         /\ snap_enqueue_msgs(inflight (-) SetToBag({m}), {Marker(m.to, q) : q \in taken[2]})
         /\ orderly' = (orderly /\ Cardinality(taken[2]) <= Room(inflight) + 1)
  /\ UNCHANGED <<sends, resets>>

(* The caller receives an application message: no function records it.       *)
Receive(m) ==
  /\ m.type = "app"
  /\ inflight' = inflight (-) SetToBag({m})
  /\ UNCHANGED <<processes, orderly, sends, resets>>

snap_is_complete ==
  \A p \in Process : processes[p].recorded /\ \A q \in Neighbors(p) : ~processes[p].recording[q]

NoMarkers == \A m \in BagToSet(inflight) : m.type # "marker"

(* The caller starts over, in the middle of a snapshot too.  Messages in     *)
(* flight stay there.                                                        *)
snap_reset ==
  /\ resets < MaxResets
  /\ orderly' = NoMarkers
  /\ processes' = [p \in Process |-> Unrecorded]
  /\ resets' = resets + 1
  /\ UNCHANGED <<inflight, sends>>

SnapNext ==
  \/ \E p \in Process : snap_initiate_snapshot(p) \/ (\E q \in Process : snap_send_message(p, q))
  \/ \E m \in BagToSet(inflight) : snap_process_marker(m) \/ Receive(m)
  \/ snap_reset

SnapSpec == snap_init_system /\ [][SnapNext]_snapVars

------------------------------------------------------------------------------
(* snap_process_marker, snap_is_complete: one marker goes over each channel, *)
(* however many processes started the snapshot and in whatever order the     *)
(* messages were taken, so that a snapshot nothing disturbed is complete     *)
(* exactly when it was started and no marker is in flight.  After one that   *)
(* was disturbed, a reset with no marker in flight makes the next one right. *)
CompleteWhenQuiet ==
  orderly => (snap_is_complete <=> (\E p \in Process : processes[p].recorded) /\ NoMarkers)
=============================================================================
