----------------------------- MODULE TheoryProof ----------------------------
(***************************************************************************)
(* The logical clocks, the replicated register, the Byzantine generals, the *)
(* Raft elections and the hash rings of mini-dist-system-theory, for every  *)
(* number of processes, nodes, generals and keys.                           *)
(***************************************************************************)
EXTENDS Leadership, Causality, Quorums, Dht, TLAPS, FiniteSetTheorems, NaturalsInduction,
        WellFoundedInduction

-----------------------------------------------------------------------------
(* time_ordering.c.  That clocks are ordered like the events says nothing of *)
(* the next event of a process, whose clocks come from those the process     *)
(* keeps.  So the invariant says of the clocks of a process what the         *)
(* property says of an event: they cover exactly the events the process has  *)
(* heard of, and they are beyond those.  And nobody's vector is ahead of     *)
(* process p in the component of p, which makes the next component of p new. *)

Hlc   == [physical : Nat, logical : Nat]
Stamp == [lamport : Nat, vector : [Process -> Nat], hlc : Hlc]
Event == [no : Nat, at : Process, clocks : Stamp, past : SUBSET Nat]

HlcBefore(a, b) ==
  a.physical < b.physical \/ (a.physical = b.physical /\ a.logical < b.logical)
HlcUpTo(a, b) ==
  a.physical < b.physical \/ (a.physical = b.physical /\ a.logical <= b.logical)

VectorUpTo(a, b) == \A p \in Process : a[p] <= b[p]

UpTo(a, b) ==
  a.lamport <= b.lamport /\ VectorUpTo(a.vector, b.vector) /\ HlcUpTo(a.hlc, b.hlc)
Before(a, b) ==
  a.lamport < b.lamport /\ VectorUpTo(a.vector, b.vector) /\ HlcBefore(a.hlc, b.hlc)

(* The events numbered in S are those the vector v covers.                       *)
Covers(v, S) == \A e \in events : (e.no \in S) <=> (e.clocks.vector[e.at] <= v[e.at])

ClockType ==
  /\ clocks \in [Process -> Stamp]
  /\ events \subseteq Event
  /\ IsFiniteSet(events)

Numbered ==
  /\ \A e \in events : e.no < Cardinality(events) /\ \A n \in e.past : n < e.no
  /\ \A e, f \in events : e.no = f.no => e = f

HeardOf == \A p \in Process :
  /\ Covers(clocks[p].vector, OwnPast(p))
  /\ \A e \in events : e.no \in OwnPast(p) => UpTo(e.clocks, clocks[p])

Ordered == \A f \in events :
  /\ Covers(f.clocks.vector, f.past \cup {f.no})
  /\ \A e \in events : e.no \in f.past => Before(e.clocks, f.clocks)

OwnFirst == \A p, q \in Process : clocks[q].vector[p] <= clocks[p].vector[p]

ClockInv == ClockType /\ Numbered /\ HeardOf /\ Ordered /\ OwnFirst

LEMMA MaxOfTwo ==
  ASSUME NEW a \in Nat, NEW b \in Nat
  PROVE  Max({a, b}) = IF a >= b THEN a ELSE b
BY DEF Max

LEMMA MaxOfThree ==
  ASSUME NEW a \in Nat, NEW b \in Nat, NEW c \in Nat
  PROVE  /\ Max({a, b, c}) \in {a, b, c}
         /\ Max({a, b, c}) >= a /\ Max({a, b, c}) >= b /\ Max({a, b, c}) >= c
<1>1. \E x \in {a, b, c} : \A y \in {a, b, c} : x >= y
  <2>1. CASE a >= b /\ a >= c
    BY <2>1
  <2>2. CASE b >= a /\ b >= c
    BY <2>2
  <2>3. CASE c >= a /\ c >= b
    BY <2>3
  <2> QED
    BY <2>1, <2>2, <2>3
<1> QED
  BY <1>1 DEF Max

LEMMA UpToBefore ==
  ASSUME NEW a \in Stamp, NEW b \in Stamp, NEW c \in Stamp
  PROVE  /\ UpTo(a, b) /\ Before(b, c) => Before(a, c)
         /\ Before(a, b) /\ Before(b, c) => Before(a, c)
         /\ UpTo(a, b) /\ UpTo(b, c) => UpTo(a, c)
         /\ Before(a, b) => UpTo(a, b)
         /\ UpTo(a, a)
         /\ ~(Before(a, b) /\ Before(b, a))
<1>1. /\ a.lamport \in Nat /\ b.lamport \in Nat /\ c.lamport \in Nat
      /\ a.hlc.physical \in Nat /\ b.hlc.physical \in Nat /\ c.hlc.physical \in Nat
      /\ a.hlc.logical \in Nat /\ b.hlc.logical \in Nat /\ c.hlc.logical \in Nat
      /\ \A p \in Process : a.vector[p] \in Nat /\ b.vector[p] \in Nat /\ c.vector[p] \in Nat
  BY DEF Stamp, Hlc
<1>2. /\ VectorUpTo(a.vector, b.vector) /\ VectorUpTo(b.vector, c.vector) =>
           VectorUpTo(a.vector, c.vector)
      /\ VectorUpTo(a.vector, a.vector)
  BY <1>1 DEF VectorUpTo
<1> QED
  BY <1>1, <1>2 DEF UpTo, Before, HlcUpTo, HlcBefore

LEMMA ClocksStart ==
  ASSUME ClockInit PROVE ClockInv
<1>1. events = {} /\ clocks = [p \in Process |->
        [lamport |-> 0, vector |-> vector_clock_init, hlc |-> [physical |-> 0, logical |-> 0]]]
  BY DEF ClockInit
<1>2. vector_clock_init \in [Process -> Nat] /\ \A p \in Process : vector_clock_init[p] = 0
  BY DEF vector_clock_init
<1>3. ClockType
  BY <1>1, <1>2, FS_EmptySet DEF ClockType, Stamp, Hlc
<1>4. OwnFirst
  BY <1>1, <1>2 DEF OwnFirst
<1> QED
  BY <1>1, <1>3, <1>4 DEF ClockInv, Numbered, HeardOf, Ordered, Covers

(* The next event of p has the next number, and clocks c that are beyond all  *)
(* that p had heard of and cover what it comes after.                        *)
LEMMA NewEvent ==
  ASSUME ClockInv, NEW p \in Process, NEW c \in Stamp, NEW past \in SUBSET Nat,
         Occurs(p, c, past),
         OwnPast(p) \subseteq past,
         \A n \in past : n < Cardinality(events),
         Covers(c.vector, past),
         \A e \in events : e.no \in past => Before(e.clocks, c),
         UpTo(clocks[p], c),
         c.vector[p] > clocks[p].vector[p],
         \A q \in Process \ {p} : c.vector[q] <= clocks[q].vector[q]
  PROVE  ClockInv'
<1> DEFINE k == Cardinality(events)
           g == [no |-> k, at |-> p, clocks |-> c, past |-> past]
<1>1. clocks' = [clocks EXCEPT ![p] = c] /\ events' = events \cup {g}
  BY DEF Occurs
<1>2. /\ clocks \in [Process -> Stamp] /\ events \subseteq Event /\ IsFiniteSet(events)
      /\ Numbered /\ HeardOf /\ Ordered /\ OwnFirst
  BY DEF ClockInv, ClockType
<1>3. k \in Nat
  BY <1>2, FS_CardinalityType
<1>4. g \in Event /\ g.no = k /\ g.at = p /\ g.clocks = c /\ g.past = past
  BY <1>3 DEF Event
<1>5. \A e \in events : e.no \in Nat /\ e.no < k /\ e.past \in SUBSET Nat /\ e.at \in Process
                        /\ e.clocks \in Stamp
  BY <1>2 DEF Numbered, Event
<1>6. g \notin events
  BY <1>3, <1>4, <1>5
<1>7. IsFiniteSet(events') /\ Cardinality(events') = k + 1
  BY <1>1, <1>2, <1>6, FS_AddElement
<1> HIDE DEF k, g
<1>8. \A q \in Process : clocks'[q] = IF q = p THEN c ELSE clocks[q]
  BY <1>1, <1>2
<1>9. ClockType'
  BY <1>1, <1>2, <1>4, <1>7 DEF ClockType
<1>10. \A n \in past : n < k
  BY DEF k
<1>11. Numbered'
  <2>1. \A e \in events : e.no < k + 1 /\ \A n \in e.past : n < e.no
    BY <1>2, <1>3, <1>5 DEF Numbered
  <2>2. g.no < k + 1 /\ \A n \in g.past : n < g.no
    <3>1. g.no = k /\ g.past = past
      BY <1>4
    <3>2. k < k + 1
      BY <1>3
    <3> QED
      BY <1>10, <3>1, <3>2, Zenon
  <2>3. \A e, f \in events' : e.no = f.no => e = f
    BY <1>1, <1>2, <1>3, <1>4, <1>5 DEF Numbered
  <2> QED
    BY <1>1, <1>7, <2>1, <2>2, <2>3 DEF Numbered
(* Nobody's vector has the new component of p.                               *)
<1>12. \A q \in Process : clocks[q] \in Stamp /\ \A r \in Process : clocks[q].vector[r] \in Nat
  BY <1>2 DEF Stamp
<1>13. c.vector \in [Process -> Nat]
  BY DEF Stamp
<1>14. \A q \in Process : clocks[q].vector[p] < c.vector[p]
  BY <1>2, <1>12, <1>13 DEF OwnFirst
<1>15. \A e \in events : e.clocks.vector[p] < c.vector[p]
  <2> SUFFICES ASSUME NEW e \in events PROVE e.clocks.vector[p] < c.vector[p]
    OBVIOUS
  <2>1. e.at \in Process /\ e.no \in OwnPast(e.at)
    BY <1>5 DEF OwnPast
  <2>2. UpTo(e.clocks, clocks[e.at])
    BY <1>2, <2>1 DEF HeardOf
  <2>3. e.clocks.vector[p] <= clocks[e.at].vector[p] /\ clocks[e.at].vector[p] < c.vector[p]
    BY <1>14, <2>1, <2>2 DEF UpTo, VectorUpTo
  <2>4. e.clocks.vector[p] \in Nat
    BY <1>5 DEF Stamp
  <2> QED
    BY <1>12, <1>13, <2>1, <2>3, <2>4
<1>16. Ordered'
  <2>1. ASSUME NEW f \in events
        PROVE  /\ Covers(f.clocks.vector, f.past \cup {f.no})'
               /\ \A e \in events' : e.no \in f.past => Before(e.clocks, f.clocks)
    <3>1. /\ Covers(f.clocks.vector, f.past \cup {f.no})
          /\ \A e \in events : e.no \in f.past => Before(e.clocks, f.clocks)
      BY <1>2, <2>1 DEF Ordered
    <3>2. g.no \notin f.past \cup {f.no}
      <4>1. \A n \in f.past : n < f.no /\ n \in Nat
        BY <1>2, <1>5 DEF Numbered
      <4> QED
        BY <1>3, <1>4, <1>5, <4>1
    <3>3. f.clocks.vector[p] \in Nat
      BY <1>5 DEF Stamp
    <3>4. ~(g.clocks.vector[g.at] <= f.clocks.vector[g.at])
      BY <1>4, <1>13, <1>15, <3>3
    <3> QED
      BY <1>1, <3>1, <3>2, <3>4 DEF Covers
  <2>2. \A e \in events' : (e.no \in past \cup {k}) <=> (e.clocks.vector[e.at] <= c.vector[e.at])
    <3>1. \A e \in events : (e.no \in past \cup {k}) <=> (e.clocks.vector[e.at] <= c.vector[e.at])
      BY <1>3, <1>5 DEF Covers
    <3>2. g.no \in past \cup {k} /\ g.clocks.vector[g.at] <= c.vector[g.at]
      BY <1>4, <1>13
    <3> QED
      BY <1>1, <3>1, <3>2
  <2>3. \A e \in events' : e.no \in past => Before(e.clocks, c)
    BY <1>1, <1>3, <1>4, <1>10
  <2> QED
    BY <1>1, <1>4, <2>1, <2>2, <2>3 DEF Ordered, Covers
<1>17. OwnPast(p)' = past \cup {k}
  <2>1. \A n : n \in OwnPast(p)' <=> \E e \in events' : e.at = p /\ (n = e.no \/ n \in e.past)
    BY DEF OwnPast
  <2>2. \A n : n \in OwnPast(p) <=> \E e \in events : e.at = p /\ (n = e.no \/ n \in e.past)
    BY DEF OwnPast
  <2>3. \A n : n \in OwnPast(p)' <=> n \in OwnPast(p) \/ n = k \/ n \in past
    BY <1>1, <1>4, <2>1, <2>2
  <2> QED
    BY <2>3
<1>18. \A q \in Process \ {p} : OwnPast(q)' = OwnPast(q)
  <2> SUFFICES ASSUME NEW q \in Process \ {p} PROVE OwnPast(q)' = OwnPast(q)
    OBVIOUS
  <2>1. {f \in events' : f.at = q} = {f \in events : f.at = q}
    BY <1>1, <1>4
  <2> QED
    BY <2>1 DEF OwnPast
<1>19. HeardOf'
  <2>1. ASSUME NEW q \in Process \ {p}
        PROVE  /\ Covers(clocks[q].vector, OwnPast(q))'
               /\ \A e \in events' : e.no \in OwnPast(q)' => UpTo(e.clocks, clocks'[q])
    <3>1. /\ Covers(clocks[q].vector, OwnPast(q))
          /\ \A e \in events : e.no \in OwnPast(q) => UpTo(e.clocks, clocks[q])
      BY <1>2 DEF HeardOf
    <3>2. \A n \in OwnPast(q) : n < k
      <4>1. \A e \in events : \A n \in e.past : n < e.no /\ n \in Nat
        BY <1>2, <1>5 DEF Numbered
      <4>2. \A n \in OwnPast(q) : \E e \in events : n = e.no \/ n \in e.past
        BY DEF OwnPast
      <4> QED
        BY <1>3, <1>5, <4>1, <4>2
    <3>3. g.no \notin OwnPast(q)
      BY <1>3, <1>4, <3>2
    <3>4. ~(g.clocks.vector[g.at] <= clocks[q].vector[g.at])
      BY <1>4, <1>12, <1>13, <1>14
    <3>5. clocks'[q] = clocks[q]
      BY <1>8
    <3> QED
      BY <1>1, <1>18, <3>1, <3>3, <3>4, <3>5 DEF Covers
  <2>2. Covers(clocks[p].vector, OwnPast(p))'
    <3>1. clocks'[p] = c
      BY <1>8
    <3>2. \A e \in events' : (e.no \in past \cup {k}) <=> (e.clocks.vector[e.at] <= c.vector[e.at])
      BY <1>1, <1>4, <1>16 DEF Ordered, Covers
    <3> QED
      BY <1>17, <3>1, <3>2 DEF Covers
  <2>3. \A e \in events' : e.no \in past \cup {k} => UpTo(e.clocks, c)
    <3>1. \A e \in events : e.no \in past \cup {k} => UpTo(e.clocks, c)
      BY <1>3, <1>5, UpToBefore
    <3> QED
      BY <1>1, <1>4, <3>1, UpToBefore
  <2> QED
    BY <1>8, <1>17, <2>1, <2>2, <2>3 DEF HeardOf
<1>20. OwnFirst'
  <2> SUFFICES ASSUME NEW r \in Process, NEW q \in Process
               PROVE  clocks'[q].vector[r] <= clocks'[r].vector[r]
    BY DEF OwnFirst
  <2>1. clocks[q].vector[r] <= clocks[r].vector[r]
    BY <1>2 DEF OwnFirst
  <2>2. CASE r = p
    BY <1>8, <1>12, <1>13, <1>14, <2>2
  <2>3. CASE r # p
    BY <1>8, <2>1, <2>3
  <2> QED
    BY <2>2, <2>3
<1> QED
  BY <1>9, <1>11, <1>16, <1>19, <1>20 DEF ClockInv

LEMMA PastNumbers ==
  ASSUME ClockInv, NEW p \in Process
  PROVE  OwnPast(p) \in SUBSET Nat /\ \A n \in OwnPast(p) : n < Cardinality(events)
<1>1. Cardinality(events) \in Nat
  BY FS_CardinalityType DEF ClockInv, ClockType
<1>2. \A e \in events : /\ e.no \in Nat /\ e.no < Cardinality(events)
                         /\ e.past \in SUBSET Nat /\ \A n \in e.past : n < e.no
  BY DEF ClockInv, ClockType, Numbered, Event
<1>3. \A n \in OwnPast(p) : \E e \in events : n = e.no \/ n \in e.past
  BY DEF OwnPast
<1> QED
  BY <1>1, <1>2, <1>3

LEMMA LocalEvent ==
  ASSUME ClockInv, NEW p \in Process, NEW wall \in WallTimes, Local(p, wall)
  PROVE  ClockInv'
<1> DEFINE c == [lamport |-> lamport_increment(clocks[p].lamport),
                 vector |-> vector_clock_increment(clocks[p].vector, p),
                 hlc |-> hlc_tick(clocks[p].hlc, wall)]
<1>1. /\ clocks \in [Process -> Stamp] /\ events \subseteq Event
      /\ Numbered /\ HeardOf /\ Ordered /\ OwnFirst
  BY DEF ClockInv, ClockType
<1>2. clocks[p] \in Stamp /\ wall \in Nat
  BY <1>1, ClocksAssumption
<1>3. /\ clocks[p].lamport \in Nat /\ clocks[p].vector \in [Process -> Nat]
      /\ clocks[p].hlc \in Hlc
  BY <1>2 DEF Stamp
<1>4. /\ hlc_tick(clocks[p].hlc, wall) \in Hlc
      /\ HlcBefore(clocks[p].hlc, hlc_tick(clocks[p].hlc, wall))
  BY <1>2, <1>3 DEF hlc_tick, Hlc, HlcBefore
<1>5. /\ vector_clock_increment(clocks[p].vector, p) \in [Process -> Nat]
      /\ \A q \in Process : vector_clock_increment(clocks[p].vector, p)[q] =
           IF q = p THEN clocks[p].vector[p] + 1 ELSE clocks[p].vector[q]
  BY <1>3 DEF vector_clock_increment
<1>6. c \in Stamp /\ c.lamport = clocks[p].lamport + 1 /\ HlcBefore(clocks[p].hlc, c.hlc)
      /\ \A q \in Process : c.vector[q] =
           IF q = p THEN clocks[p].vector[p] + 1 ELSE clocks[p].vector[q]
  BY <1>3, <1>4, <1>5 DEF Stamp, lamport_increment
<1>7. Occurs(p, c, OwnPast(p))
  BY DEF Local
<1> HIDE DEF c
<1>8. Before(clocks[p], c)
  BY <1>3, <1>6 DEF Before, VectorUpTo
<1>9. OwnPast(p) \in SUBSET Nat /\ \A n \in OwnPast(p) : n < Cardinality(events)
  BY PastNumbers
<1>10. \A e \in events : e.no \in OwnPast(p) => Before(e.clocks, c)
  BY <1>1, <1>2, <1>6, <1>8, UpToBefore DEF HeardOf, Event
<1>11. Covers(c.vector, OwnPast(p))
  <2> SUFFICES ASSUME NEW e \in events
               PROVE  (e.no \in OwnPast(p)) <=> (e.clocks.vector[e.at] <= c.vector[e.at])
    BY DEF Covers
  <2>1. (e.no \in OwnPast(p)) <=> (e.clocks.vector[e.at] <= clocks[p].vector[e.at])
    BY <1>1 DEF HeardOf, Covers
  <2>2. e.at \in Process /\ e.clocks.vector[e.at] \in Nat
    BY <1>1 DEF Event, Stamp
  <2>3. e.at = p => e.no \in OwnPast(p)
    BY DEF OwnPast
  <2> QED
    BY <1>3, <1>6, <2>1, <2>2, <2>3
<1>12. \A q \in Process \ {p} : c.vector[q] <= clocks[q].vector[q]
  BY <1>1, <1>6 DEF OwnFirst
<1>13. UpTo(clocks[p], c) /\ c.vector[p] > clocks[p].vector[p]
  BY <1>2, <1>3, <1>6, <1>8, UpToBefore
<1> QED
  BY <1>6, <1>7, <1>9, <1>10, <1>11, <1>12, <1>13, NewEvent

(* hlc_on_receive is beyond both clocks, whichever of the three times wins.  *)
LEMMA HlcReceive ==
  ASSUME NEW h \in Hlc, NEW m \in Hlc, NEW wall \in Nat
  PROVE  /\ hlc_on_receive(h, m, wall) \in Hlc
         /\ HlcBefore(h, hlc_on_receive(h, m, wall))
         /\ HlcBefore(m, hlc_on_receive(h, m, wall))
<1>1. /\ h.physical \in Nat /\ m.physical \in Nat /\ h.logical \in Nat /\ m.logical \in Nat
  BY DEF Hlc
<1> DEFINE pt == Max({h.physical, m.physical, wall})
           lg == IF pt = m.physical THEN Max({h.logical, m.logical}) + 1 ELSE h.logical + 1
<1>2. pt \in Nat /\ pt >= h.physical /\ pt >= m.physical
  <2>1. /\ pt \in {h.physical, m.physical, wall} /\ pt >= h.physical /\ pt >= m.physical
    BY <1>1, MaxOfThree
  <2> QED
    BY <1>1, <2>1
<1>3. Max({h.logical, m.logical}) = IF h.logical >= m.logical THEN h.logical ELSE m.logical
  BY <1>1, MaxOfTwo
<1>4. hlc_on_receive(h, m, wall) = [physical |-> pt, logical |-> lg]
  BY DEF hlc_on_receive
<1>5. lg \in Nat /\ lg > h.logical /\ (pt = m.physical => lg > m.logical)
  BY <1>1, <1>3
<1> HIDE DEF pt, lg
<1> QED
  BY <1>1, <1>2, <1>4, <1>5 DEF HlcBefore, Hlc

LEMMA ReceiveEvent ==
  ASSUME ClockInv, NEW p \in Process, NEW wall \in WallTimes, NEW e \in events,
         e.at # p, ReceiveFrom(p, e, wall)
  PROVE  ClockInv'
<1> DEFINE mine == clocks[p]
           got  == e.clocks
           past == OwnPast(p) \cup e.past \cup {e.no}
           c == [lamport |-> lamport_tick(mine.lamport, got.lamport),
                 vector |-> vector_clock_increment(vector_clock_merge(mine.vector, got.vector), p),
                 hlc |-> hlc_on_receive(mine.hlc, got.hlc, wall)]
<1>1. /\ clocks \in [Process -> Stamp] /\ events \subseteq Event
      /\ Numbered /\ HeardOf /\ Ordered /\ OwnFirst
  BY DEF ClockInv, ClockType
<1>2. mine \in Stamp /\ got \in Stamp /\ wall \in Nat
  BY <1>1, ClocksAssumption DEF Event
<1>3. Occurs(p, c, past)
  BY DEF ReceiveFrom
<1>4. /\ mine.lamport \in Nat /\ mine.vector \in [Process -> Nat] /\ mine.hlc \in Hlc
      /\ got.lamport \in Nat /\ got.vector \in [Process -> Nat] /\ got.hlc \in Hlc
  BY <1>2 DEF Stamp
<1> HIDE DEF mine, got
<1>5. /\ lamport_tick(mine.lamport, got.lamport) \in Nat
      /\ mine.lamport < lamport_tick(mine.lamport, got.lamport)
      /\ got.lamport < lamport_tick(mine.lamport, got.lamport)
  <2>1. Max({mine.lamport, got.lamport}) =
          IF mine.lamport >= got.lamport THEN mine.lamport ELSE got.lamport
    BY <1>4, MaxOfTwo
  <2> QED
    BY <1>4, <2>1 DEF lamport_tick
<1> DEFINE both == vector_clock_merge(mine.vector, got.vector)
<1>6. /\ both \in [Process -> Nat]
      /\ \A q \in Process : both[q] =
           IF mine.vector[q] >= got.vector[q] THEN mine.vector[q] ELSE got.vector[q]
  <2>1. \A q \in Process : mine.vector[q] \in Nat /\ got.vector[q] \in Nat
    BY <1>4
  <2>2. \A q \in Process : Max({mine.vector[q], got.vector[q]}) =
           IF mine.vector[q] >= got.vector[q] THEN mine.vector[q] ELSE got.vector[q]
    BY <2>1, MaxOfTwo
  <2> QED
    BY <2>1, <2>2 DEF vector_clock_merge
<1> HIDE DEF both
<1>7. /\ vector_clock_increment(both, p) \in [Process -> Nat]
      /\ \A q \in Process : vector_clock_increment(both, p)[q] =
           IF q = p THEN both[p] + 1 ELSE both[q]
  BY <1>6 DEF vector_clock_increment
<1>8. /\ hlc_on_receive(mine.hlc, got.hlc, wall) \in Hlc
      /\ HlcBefore(mine.hlc, hlc_on_receive(mine.hlc, got.hlc, wall))
      /\ HlcBefore(got.hlc, hlc_on_receive(mine.hlc, got.hlc, wall))
  BY <1>2, <1>4, HlcReceive
<1>9. /\ c \in Stamp /\ mine.lamport < c.lamport /\ got.lamport < c.lamport
      /\ HlcBefore(mine.hlc, c.hlc) /\ HlcBefore(got.hlc, c.hlc)
      /\ \A q \in Process : c.vector[q] = IF q = p THEN both[p] + 1 ELSE both[q]
  BY <1>5, <1>7, <1>8 DEF Stamp, both
<1> HIDE DEF c
<1>10. Before(mine, c) /\ Before(got, c)
  BY <1>4, <1>6, <1>9 DEF Before, VectorUpTo
<1>11. /\ OwnPast(p) \in SUBSET Nat /\ \A n \in OwnPast(p) : n < Cardinality(events)
       /\ e.past \in SUBSET Nat /\ e.no \in Nat /\ e.no < Cardinality(events)
       /\ \A n \in e.past : n < e.no /\ n < Cardinality(events)
  <2>1. /\ e.past \in SUBSET Nat /\ e.no \in Nat /\ e.no < Cardinality(events)
        /\ \A n \in e.past : n < e.no
    BY <1>1 DEF Event, Numbered
  <2>2. Cardinality(events) \in Nat
    BY FS_CardinalityType DEF ClockInv, ClockType
  <2> QED
    BY <2>1, <2>2, PastNumbers
<1>12. past \in SUBSET Nat /\ \A n \in past : n < Cardinality(events)
  BY <1>11
<1>13. \A f \in events : f.no \in past => Before(f.clocks, c)
  <2> SUFFICES ASSUME NEW f \in events, f.no \in past PROVE Before(f.clocks, c)
    OBVIOUS
  <2>1. f.clocks \in Stamp /\ f.no \in Nat
    BY <1>1 DEF Event
  <2>2. CASE f.no \in OwnPast(p)
    <3>1. UpTo(f.clocks, mine)
      BY <1>1, <2>2 DEF HeardOf, mine
    <3> QED
      BY <1>2, <1>9, <1>10, <2>1, <3>1, UpToBefore
  <2>3. CASE f.no \in e.past
    <3>1. Before(f.clocks, got)
      BY <1>1, <2>3 DEF Ordered, got
    <3> QED
      BY <1>2, <1>9, <1>10, <2>1, <3>1, UpToBefore
  <2>4. CASE f.no = e.no
    <3>1. f = e
      BY <1>1, <2>4 DEF Numbered
    <3> QED
      BY <1>10, <3>1 DEF got
  <2> QED
    BY <2>2, <2>3, <2>4
<1>14. Covers(c.vector, past)
  <2> SUFFICES ASSUME NEW f \in events
               PROVE  (f.no \in past) <=> (f.clocks.vector[f.at] <= c.vector[f.at])
    BY DEF Covers
  <2>1. (f.no \in OwnPast(p)) <=> (f.clocks.vector[f.at] <= mine.vector[f.at])
    BY <1>1 DEF HeardOf, Covers, mine
  <2>2. (f.no \in e.past \cup {e.no}) <=> (f.clocks.vector[f.at] <= got.vector[f.at])
    BY <1>1 DEF Ordered, Covers, got
  <2>3. f.at \in Process /\ f.clocks.vector[f.at] \in Nat
    BY <1>1 DEF Event, Stamp
  <2>4. f.at = p => f.no \in OwnPast(p)
    BY DEF OwnPast
  <2>5. (f.no \in past) <=> (f.no \in OwnPast(p) \/ f.no \in e.past \cup {e.no})
    OBVIOUS
  <2>6. mine.vector[f.at] \in Nat /\ got.vector[f.at] \in Nat
    BY <1>4, <2>3
  <2> HIDE DEF past
  <2> QED
    BY <1>6, <1>9, <2>1, <2>2, <2>3, <2>4, <2>5, <2>6
<1>15. \A q \in Process : got.vector[q] <= clocks[q].vector[q]
  <2> SUFFICES ASSUME NEW q \in Process PROVE got.vector[q] <= clocks[q].vector[q]
    OBVIOUS
  <2>1. e.at \in Process /\ e.no \in OwnPast(e.at)
    BY <1>1 DEF Event, OwnPast
  <2>2. got.vector[q] <= clocks[e.at].vector[q] /\ clocks[e.at].vector[q] <= clocks[q].vector[q]
    BY <1>1, <2>1 DEF HeardOf, UpTo, VectorUpTo, OwnFirst, got
  <2>3. got.vector[q] \in Nat /\ clocks[e.at].vector[q] \in Nat /\ clocks[q].vector[q] \in Nat
    BY <1>1, <1>4, <2>1 DEF Stamp
  <2> QED
    BY <2>2, <2>3
<1>16. \A q \in Process \ {p} : c.vector[q] <= clocks[q].vector[q]
  BY <1>1, <1>6, <1>9, <1>15 DEF OwnFirst, mine
<1>17. UpTo(clocks[p], c)
  BY <1>2, <1>9, <1>10, UpToBefore DEF mine
<1>18. c.vector[p] > clocks[p].vector[p]
  BY <1>4, <1>6, <1>9 DEF mine
<1>19. OwnPast(p) \subseteq past
  OBVIOUS
<1> HIDE DEF past
<1> QED
  BY <1>3, <1>9, <1>12, <1>13, <1>14, <1>16, <1>17, <1>18, <1>19, NewEvent

LEMMA ClocksKept ==
  ASSUME ClockInv, [ClockNext]_clockVars PROVE ClockInv'
<1>1. ASSUME NEW p \in Process, NEW wall \in WallTimes, Local(p, wall) PROVE ClockInv'
  BY <1>1, LocalEvent
<1>2. ASSUME NEW p \in Process, NEW wall \in WallTimes, NEW e \in events, e.at # p,
             ReceiveFrom(p, e, wall)
      PROVE  ClockInv'
  BY <1>2, ReceiveEvent
<1>3. CASE UNCHANGED clockVars
  BY <1>3 DEF clockVars, ClockInv, ClockType, Numbered, HeardOf, Ordered, OwnFirst, Covers, OwnPast
<1> QED
  BY <1>1, <1>2, <1>3 DEF ClockNext

LEMMA ClocksTell ==
  ASSUME ClockInv PROVE ClocksFollowCausality
<1> SUFFICES ASSUME NEW e \in events, NEW f \in events, e # f
             PROVE  /\ (vector_clock_compare(e.clocks.vector, f.clocks.vector) = "before")
                         <=> (e.no \in f.past)
                    /\ e.no \in f.past =>
                         /\ lamport_compare(e.clocks.lamport, f.clocks.lamport) = -1
                         /\ hlc_compare(e.clocks.hlc, f.clocks.hlc) = -1
  BY DEF ClocksFollowCausality
<1>1. events \subseteq Event /\ Numbered /\ Ordered
  BY DEF ClockInv, ClockType
<1>2. /\ e.clocks \in Stamp /\ f.clocks \in Stamp /\ e.at \in Process /\ f.at \in Process
      /\ e.no # f.no
  BY <1>1 DEF Event, Numbered
<1>3. e.no \in f.past => Before(e.clocks, f.clocks)
  BY <1>1 DEF Ordered
<1>4. f.no \in e.past => Before(f.clocks, e.clocks)
  BY <1>1 DEF Ordered
<1>5. (e.no \in f.past) <=> (e.clocks.vector[e.at] <= f.clocks.vector[e.at])
  BY <1>1, <1>2 DEF Ordered, Covers
<1>6. (f.no \in e.past) <=> (f.clocks.vector[f.at] <= e.clocks.vector[f.at])
  BY <1>1, <1>2 DEF Ordered, Covers
<1> DEFINE leq == \A p \in Process : e.clocks.vector[p] <= f.clocks.vector[p]
           geq == \A p \in Process : f.clocks.vector[p] <= e.clocks.vector[p]
<1>7. (e.no \in f.past) <=> leq
  BY <1>2, <1>3, <1>5 DEF Before, VectorUpTo
<1>8. leq => ~geq
  BY <1>2, <1>3, <1>4, <1>6, <1>7, UpToBefore
<1>9. (vector_clock_compare(e.clocks.vector, f.clocks.vector) = "before") <=> (leq /\ ~geq)
  BY DEF vector_clock_compare
<1>10. e.no \in f.past =>
         /\ lamport_compare(e.clocks.lamport, f.clocks.lamport) = -1
         /\ hlc_compare(e.clocks.hlc, f.clocks.hlc) = -1
  <2>1. /\ e.clocks.lamport \in Nat /\ f.clocks.lamport \in Nat
        /\ e.clocks.hlc.physical \in Nat /\ f.clocks.hlc.physical \in Nat
        /\ e.clocks.hlc.logical \in Nat /\ f.clocks.hlc.logical \in Nat
    BY <1>2 DEF Stamp, Hlc
  <2> QED
    BY <1>3, <2>1 DEF Before, HlcBefore, lamport_compare, hlc_compare
<1> QED
  BY <1>7, <1>8, <1>9, <1>10

(* Clocks of time_ordering.c: for every number of processes and every way in  *)
(* which messages are delayed, repeated, reordered or lost, one event is      *)
(* before another in the vector clocks exactly when it happened before it,    *)
(* and the Lamport and hybrid clocks agree, wherever the wall clocks stand.   *)
THEOREM ClocksCharacterise == ClockSpec => []ClocksFollowCausality
<1>1. ClockInit => ClockInv
  BY ClocksStart
<1>2. ClockInv /\ [ClockNext]_clockVars => ClockInv'
  BY ClocksKept
<1>3. ClockInv => ClocksFollowCausality
  BY ClocksTell
<1> QED
  BY <1>1, <1>2, <1>3, PTL DEF ClockSpec
-----------------------------------------------------------------------------
(* cap_theorem.c.  The last write is in reach because a quorum of nodes has  *)
(* it: a refused write leaves it alone, an accepted one overwrites a quorum, *)
(* and two quorums have a node in common.  Partitions come and go between.   *)

LastWriteHeld ==
  /\ values \in [CapNode -> Nat] /\ last \in Nat /\ writes \in Nat
  /\ cmode = "CP" => Cardinality({j \in CapNode : values[j] = last}) >= quorum_size
  /\ cmode = "CA" => \A j \in CapNode : values[j] = last
  /\ cmode = "AP" => last = writes

LEMMA Nodes ==
  /\ IsFiniteSet(CapNode) /\ Cardinality(CapNode) = CapNodes
  /\ quorum_size \in Nat /\ quorum_size <= CapNodes /\ quorum_size + quorum_size > CapNodes
<1>1. CapNodes \in Nat /\ CapNodes > 0
  BY CapAssumption
<1>2. IsFiniteSet(0 .. CapNodes - 1) /\ Cardinality(0 .. CapNodes - 1) = IF 0 > CapNodes - 1 THEN 0 ELSE CapNodes - 1 - 0 + 1
  BY <1>1, FS_Interval
<1> QED
  BY <1>1, <1>2 DEF CapNode, quorum_size

LEMMA CapStarts ==
  ASSUME cap_configure PROVE LastWriteHeld
<1>1. {j \in CapNode : values[j] = last} = CapNode
  BY DEF cap_configure
<1> QED
  BY <1>1, Nodes DEF cap_configure, LastWriteHeld

LEMMA CapKeeps ==
  ASSUME LastWriteHeld, [CapNext]_capVars PROVE LastWriteHeld'
<1>1. ASSUME NEW i \in CapNode, cap_write(i) PROVE LastWriteHeld'
  <2> DEFINE written == IF cmode = "CA" THEN CapNode ELSE reachable_nodes(i)
  <2>1. cmode' = cmode /\ writes' = writes + 1 /\ writes \in Nat
    BY <1>1 DEF cap_write, LastWriteHeld
  <2>2. CASE cmode = "CP" /\ ~EnoughReachable(i)
    <3>1. values' = values /\ last' = last
      BY <1>1, <2>2 DEF cap_write
    <3> QED
      BY <2>1, <2>2, <3>1 DEF LastWriteHeld, quorum_size
  <2>3. CASE ~(cmode = "CP" /\ ~EnoughReachable(i))
    <3>1. /\ values' = [j \in CapNode |-> IF j \in written THEN writes + 1 ELSE values[j]]
          /\ last' = writes + 1
      BY <1>1, <2>3 DEF cap_write
    <3>2. values' \in [CapNode -> Nat] /\ last' \in Nat /\ writes' \in Nat
      BY <2>1, <3>1 DEF LastWriteHeld
    <3>3. cmode = "CP" => Cardinality({j \in CapNode : values'[j] = last'}) >= quorum_size
      <4> SUFFICES ASSUME cmode = "CP"
                   PROVE  Cardinality({j \in CapNode : values'[j] = last'}) >= quorum_size
        OBVIOUS
      <4>1. Cardinality(reachable_nodes(i)) >= quorum_size
        BY <2>3 DEF EnoughReachable
      <4>2. reachable_nodes(i) \subseteq {j \in CapNode : values'[j] = last'}
        BY <3>1 DEF reachable_nodes
      <4>3. IsFiniteSet({j \in CapNode : values'[j] = last'})
        BY Nodes, FS_Subset
      <4>4. /\ Cardinality(reachable_nodes(i)) <= Cardinality({j \in CapNode : values'[j] = last'})
            /\ Cardinality(reachable_nodes(i)) \in Nat
            /\ Cardinality({j \in CapNode : values'[j] = last'}) \in Nat
        BY <4>2, <4>3, FS_Subset, FS_CardinalityType
      <4> QED
        BY <4>1, <4>4, Nodes
    <3>4. cmode = "CA" => \A j \in CapNode : values'[j] = last'
      BY <3>1
    <3> QED
      BY <2>1, <3>1, <3>2, <3>3, <3>4 DEF LastWriteHeld, quorum_size
  <2> QED
    BY <2>2, <2>3
<1>2. CASE UNCHANGED <<cmode, values, last, writes>>
  BY <1>2 DEF LastWriteHeld, quorum_size
<1> QED
  BY <1>1, <1>2 DEF CapNext, cap_create_partition, cap_heal_partition, capVars

LEMMA CapReads ==
  ASSUME LastWriteHeld PROVE LastWriteInReach
<1> SUFFICES ASSUME NEW i \in CapNode
             PROVE  /\ (cmode = "CP" /\ ~Refused(i)) => \E j \in reachable_nodes(i) : values[j] = last
                    /\ cmode = "CA" => cap_read(i) = last
                    /\ cmode = "AP" => last = writes
  BY DEF LastWriteInReach
<1>1. ASSUME cmode = "CP", ~Refused(i) PROVE \E j \in reachable_nodes(i) : values[j] = last
  <2> DEFINE H == {j \in CapNode : values[j] = last}
             R == reachable_nodes(i)
  <2>1. H \subseteq CapNode /\ R \subseteq CapNode
    BY DEF reachable_nodes
  <2>2. Cardinality(H) >= quorum_size /\ Cardinality(R) >= quorum_size
    BY <1>1 DEF LastWriteHeld, Refused, EnoughReachable
  <2>3. Cardinality(H) \in Nat /\ Cardinality(R) \in Nat
    BY <2>1, Nodes, FS_Subset, FS_CardinalityType
  <2> HIDE DEF H, R
  <2>4. Cardinality(H) + Cardinality(R) > Cardinality(CapNode)
    <3>1. Cardinality(CapNode) = CapNodes /\ CapNodes \in Nat
      BY Nodes, CapAssumption
    <3> QED
      BY <2>2, <2>3, <3>1, Nodes
  <2>5. H \cap R # {}
    BY <2>1, <2>4, Nodes, FS_MajoritiesIntersect
  <2> QED
    BY <2>5 DEF H, R
<1>2. cmode = "CA" => cap_read(i) = last
  BY DEF LastWriteHeld, cap_read
<1> QED
  BY <1>1, <1>2 DEF LastWriteHeld
-----------------------------------------------------------------------------
(* byzantine.c.  Once the first round is over every loyal lieutenant holds   *)
(* the order, and from then on the loyal generals outvote the others in      *)
(* every collection of values: of n > 3m generals, one of which collects,    *)
(* at least n - m - 1 send the order and at most m something else.           *)

Loyal == General \ Faulty

ByzType ==
  /\ value \in [General -> {0, 1}]
  /\ behavior \in [General -> {"honest", "silent", "random", "traitor"}]
  /\ Generals > 3 * M /\ Cardinality(Faulty) <= M
  /\ commander \in General /\ order \in {0, 1}
  /\ round \in Nat /\ round <= M + 1 /\ turn \in Nat /\ turn <= Generals

OrderSpreads == commander \in Loyal =>
  /\ value[commander] = order
  /\ round = 0 => \A i \in Loyal : i < turn => value[i] = order
  /\ round > 0 => \A i \in Loyal : value[i] = order
  /\ final_decision # -1 => round = M + 1 /\ final_decision = order

ByzInv == ByzType /\ OrderSpreads

LEMMA ByzStarts ==
  ASSUME byz_init_network PROVE ByzInv
<1>1. Generals \in Nat /\ M \in Nat /\ commander \in General
  BY GeneralsAssumption DEF byz_init_network, General
<1> QED
  BY <1>1 DEF byz_init_network, ByzInv, ByzType, OrderSpreads, byz_check_conditions, Loyal, General

LEMMA LoyalMajority ==
  ASSUME ByzType, NEW r \in General, NEW f \in byz_collect_values(r), Heard(f),
         \A i \in Loyal : value[i] = order
  PROVE  \A v \in byz_majority(f) : v = order
<1>1. Generals \in Nat /\ Generals > 0 /\ M \in Nat
  BY GeneralsAssumption
<1>2. IsFiniteSet(General) /\ Cardinality(General) = Generals
  <2>1. /\ IsFiniteSet(0 .. Generals - 1)
        /\ Cardinality(0 .. Generals - 1) = IF 0 > Generals - 1 THEN 0 ELSE Generals - 1 - 0 + 1
    BY <1>1, FS_Interval
  <2> QED
    BY <1>1, <2>1 DEF General
<1>3. /\ DOMAIN f = General \ {r}
      /\ \A i \in General \ {r} : f[i] \in byz_send_value(i)
  BY DEF byz_collect_values
<1> DEFINE Yes == {i \in DOMAIN f : f[i] = order}
           No  == {i \in DOMAIN f : f[i] = 1 - order}
<1>4. \A i \in Loyal \ {r} : i \in Yes
  <2> SUFFICES ASSUME NEW i \in Loyal \ {r} PROVE i \in Yes
    OBVIOUS
  <2>1. i \in General /\ behavior[i] = "honest"
    BY DEF Loyal, Faulty
  <2>2. f[i] = value[i]
    BY <1>3, <2>1 DEF byz_send_value
  <2> QED
    BY <1>3, <2>1, <2>2
<1>5. No \subseteq Faulty
  BY <1>3, <1>4 DEF Loyal, ByzType
<1>6. /\ IsFiniteSet(Faulty) /\ IsFiniteSet(Loyal) /\ IsFiniteSet(Yes) /\ IsFiniteSet(No)
      /\ Cardinality(Faulty) \in Nat /\ Cardinality(No) \in Nat /\ Cardinality(Yes) \in Nat
  <2>1. Faulty \subseteq General /\ Loyal \subseteq General /\ Yes \subseteq General
        /\ No \subseteq General
    BY <1>3 DEF Faulty, Loyal
  <2> HIDE DEF Yes, No
  <2>2. IsFiniteSet(Faulty) /\ IsFiniteSet(Loyal) /\ IsFiniteSet(Yes) /\ IsFiniteSet(No)
    BY <1>2, <2>1, FS_Subset
  <2> QED
    BY <2>2, FS_CardinalityType
<1>7. Cardinality(No) <= Cardinality(Faulty)
  BY <1>5, <1>6, FS_Subset
<1>8. Cardinality(Loyal) = Generals - Cardinality(Faulty)
  <2>1. General \cap Faulty = Faulty
    BY DEF Faulty
  <2> QED
    BY <1>2, <2>1, FS_Difference DEF Loyal
<1>9. Cardinality(Loyal \ {r}) >= Cardinality(Loyal) - 1 /\ Cardinality(Loyal) \in Nat
  <2>1. Cardinality(Loyal) \in Nat
    BY <1>6, FS_CardinalityType
  <2>2. Cardinality(Loyal \ {r}) =
          IF r \in Loyal THEN Cardinality(Loyal) - 1 ELSE Cardinality(Loyal)
    BY <1>6, FS_RemoveElement
  <2> QED
    BY <2>1, <2>2
<1>10. Cardinality(Loyal \ {r}) <= Cardinality(Yes) /\ Cardinality(Loyal \ {r}) \in Nat
  <2>1. Loyal \ {r} \subseteq Yes
    BY <1>4
  <2>2. IsFiniteSet(Loyal \ {r})
    BY <1>6, FS_Difference
  <2> QED
    BY <1>6, <2>1, <2>2, FS_Subset, FS_CardinalityType
<1>11. Generals > 1
  BY <1>1, <1>3 DEF Heard, General
<1>12. Cardinality(No) < Cardinality(Yes)
  <2>1. Cardinality(Faulty) <= M /\ Generals > 3 * M
    BY DEF ByzType
  <2>2. Generals - Cardinality(Faulty) - 1 > Cardinality(Faulty)
    BY <1>1, <1>6, <1>11, <2>1
  <2> HIDE DEF Yes, No
  <2> QED
    BY <1>1, <1>6, <1>7, <1>8, <1>9, <1>10, <2>2
<1>13. order \in {0, 1}
  BY DEF ByzType
<1>14. ASSUME NEW v \in byz_majority(f), v # order PROVE FALSE
  <2>1. v = 1 - order /\ 1 - v = order
    BY <1>13, <1>14 DEF byz_majority
  <2>2. Cardinality({i \in DOMAIN f : f[i] = v}) >= Cardinality({i \in DOMAIN f : f[i] = 1 - v})
    BY <1>14 DEF byz_majority
  <2>3. Cardinality(No) >= Cardinality(Yes)
    BY <2>1, <2>2
  <2> HIDE DEF Yes, No
  <2> QED
    BY <1>6, <1>12, <2>3
<1> QED
  BY <1>14

LEMMA ByzKeeps ==
  ASSUME ByzInv, [ByzNext]_byzVars PROVE ByzInv'
<1>1. Generals \in Nat /\ Generals > 0 /\ M \in Nat /\ General = 0 .. Generals - 1
  BY GeneralsAssumption DEF General
<1>2. ByzType /\ OrderSpreads
  BY DEF ByzInv
<1>3. \A f : byz_majority(f) \subseteq {0, 1}
  BY DEF byz_majority
<1>4. CASE TakesOrder
  <2>1. /\ round = 0 /\ turn \in General /\ turn # commander
        /\ turn' = turn + 1 /\ behavior' = behavior /\ commander' = commander
        /\ order' = order /\ round' = round /\ final_decision' = final_decision
    BY <1>1, <1>2, <1>4 DEF TakesOrder, ByzType
  <2>2. Faulty' = Faulty /\ Loyal' = Loyal
    BY <2>1 DEF Faulty, Loyal
  <2>3. PICK v \in byz_send_value(commander) :
          IF v >= 0 THEN Takes(v, turn) ELSE UNCHANGED value
    BY <1>4 DEF TakesOrder
  <2>4. v \in {-1, 0, 1} /\ (commander \in Loyal => v = order)
    <3>1. value[commander] \in {0, 1} /\ behavior[commander] \in {"honest", "silent", "random", "traitor"}
      BY <1>2 DEF ByzType
    <3>2. commander \in Loyal => behavior[commander] = "honest" /\ value[commander] = order
      BY <1>2 DEF OrderSpreads, Loyal, Faulty
    <3> QED
      BY <2>3, <3>1, <3>2 DEF byz_send_value
  <2>5. value' \in [General -> {0, 1}] /\ \A i \in General : i # turn => value'[i] = value[i]
    BY <1>2, <2>1, <2>3, <2>4 DEF Takes, ByzType
  <2>6. commander \in Loyal => value'[turn] = order
    BY <1>2, <2>1, <2>3, <2>4 DEF Takes, ByzType
  <2>7. ByzType'
    BY <1>1, <1>2, <2>1, <2>2, <2>5 DEF ByzType
  <2>8. OrderSpreads'
    <3> SUFFICES ASSUME commander \in Loyal
                 PROVE  /\ value'[commander] = order
                        /\ \A i \in Loyal : i < turn + 1 => value'[i] = order
                        /\ final_decision = -1
      BY <2>1, <2>2 DEF OrderSpreads
    <3>1. commander \in General /\ Loyal \subseteq General
      BY <1>2 DEF ByzType, Loyal
    <3>2. /\ value[commander] = order /\ \A i \in Loyal : i < turn => value[i] = order
          /\ final_decision = -1
      BY <1>1, <1>2, <2>1 DEF OrderSpreads
    <3>3. ASSUME NEW i \in Loyal, i < turn + 1 PROVE value'[i] = order
      <4>1. i \in Int /\ turn \in Int
        BY <1>1, <2>1, <3>1
      <4>2. i = turn \/ i < turn
        BY <3>3, <4>1
      <4> QED
        BY <2>5, <2>6, <3>1, <3>2, <4>2
    <3> QED
      BY <2>1, <2>5, <3>1, <3>2, <3>3
  <2> QED
    BY <2>7, <2>8 DEF ByzInv
<1>5. CASE TakesMajority
  <2>1. /\ round > 0 /\ round <= M /\ turn \in General /\ turn # commander
        /\ turn' = turn + 1 /\ behavior' = behavior /\ commander' = commander
        /\ order' = order /\ round' = round /\ final_decision' = final_decision
    BY <1>1, <1>2, <1>5 DEF TakesMajority, ByzType
  <2>2. Faulty' = Faulty /\ Loyal' = Loyal
    BY <2>1 DEF Faulty, Loyal
  <2>3. PICK f \in byz_collect_values(turn) :
          IF Heard(f) THEN \E v \in byz_majority(f) : Takes(v, turn) ELSE UNCHANGED value
    BY <1>5 DEF TakesMajority
  <2>4. /\ value' \in [General -> {0, 1}]
        /\ \A i \in General : i # turn => value'[i] = value[i]
        /\ commander \in Loyal /\ turn \in Loyal => value'[turn] = order
    <3>1. commander \in Loyal => \A i \in Loyal : value[i] = order
      BY <1>2, <2>1 DEF OrderSpreads
    <3>2. CASE Heard(f)
      <4>1. PICK v \in byz_majority(f) : Takes(v, turn)
        BY <2>3, <3>2
      <4>2. v \in {0, 1} /\ (commander \in Loyal => v = order)
        BY <1>2, <1>3, <2>1, <3>1, <3>2, <4>1, LoyalMajority
      <4> QED
        BY <1>2, <2>1, <4>1, <4>2 DEF Takes, ByzType
    <3>3. CASE ~Heard(f)
      BY <1>2, <2>3, <3>1, <3>3 DEF ByzType
    <3> QED
      BY <3>2, <3>3
  <2>5. ByzType'
    BY <1>1, <1>2, <2>1, <2>2, <2>4 DEF ByzType
  <2>6. OrderSpreads'
    <3> SUFFICES ASSUME commander \in Loyal
                 PROVE  /\ value'[commander] = order
                        /\ \A i \in Loyal : value'[i] = order
                        /\ final_decision = -1
      BY <2>1, <2>2 DEF OrderSpreads
    <3>1. commander \in General /\ Loyal \subseteq General
      BY <1>2 DEF ByzType, Loyal
    <3>2. /\ value[commander] = order /\ \A i \in Loyal : value[i] = order
          /\ final_decision = -1
      BY <1>1, <1>2, <2>1 DEF OrderSpreads, ByzType
    <3>3. ASSUME NEW i \in Loyal PROVE value'[i] = order
      <4>1. i \in General
        BY <3>1
      <4>2. CASE i = turn
        BY <2>4, <4>2
      <4>3. CASE i # turn
        BY <2>4, <3>2, <4>1, <4>3
      <4> QED
        BY <4>2, <4>3
    <3> QED
      BY <2>1, <2>4, <3>1, <3>2, <3>3
  <2> QED
    BY <2>5, <2>6 DEF ByzInv
<1>6. CASE NextTurn
  <2>1. /\ value' = value /\ behavior' = behavior /\ commander' = commander
        /\ order' = order /\ final_decision' = final_decision /\ round <= M
    BY <1>6 DEF NextTurn
  <2>2. Faulty' = Faulty /\ Loyal' = Loyal /\ Loyal \subseteq General
    BY <2>1 DEF Faulty, Loyal
  <2>3. CASE turn = commander /\ turn' = turn + 1 /\ round' = round
    <3>1. ByzType'
      BY <1>1, <1>2, <2>1, <2>2, <2>3 DEF ByzType
    <3>2. ASSUME commander \in Loyal, round = 0, NEW i \in Loyal, i < turn + 1
          PROVE  value[i] = order
      <4>1. i \in Int /\ turn \in Int
        BY <1>1, <1>2, <2>2 DEF ByzType
      <4>2. i = commander \/ i < turn
        BY <2>3, <3>2, <4>1
      <4> QED
        BY <1>2, <3>2, <4>2 DEF OrderSpreads
    <3>3. OrderSpreads'
      BY <1>2, <2>1, <2>2, <2>3, <3>2 DEF OrderSpreads
    <3> QED
      BY <3>1, <3>3 DEF ByzInv
  <2>4. CASE turn = Generals /\ turn' = 0 /\ round' = round + 1
    <3>1. ByzType'
      BY <1>1, <1>2, <2>1, <2>2, <2>4 DEF ByzType
    <3>2. commander \in Loyal => final_decision = -1 /\ \A i \in Loyal : value[i] = order
      <4>1. round \in Nat /\ \A i \in Loyal : i < turn
        BY <1>1, <1>2, <2>2, <2>4 DEF ByzType
      <4> QED
        BY <1>1, <1>2, <2>1, <4>1 DEF OrderSpreads
    <3>3. OrderSpreads'
      BY <1>2, <2>1, <2>2, <2>4, <3>2 DEF OrderSpreads, ByzType
    <3> QED
      BY <3>1, <3>3 DEF ByzInv
  <2> QED
    BY <1>6, <2>3, <2>4 DEF NextTurn
<1>7. CASE Decides
  <2>1. /\ value' = value /\ behavior' = behavior /\ commander' = commander
        /\ order' = order /\ round' = round /\ turn' = turn /\ round = M + 1
    BY <1>7 DEF Decides
  <2>2. Faulty' = Faulty /\ Loyal' = Loyal
    BY <2>1 DEF Faulty, Loyal
  <2>3. ByzType'
    BY <1>2, <2>1, <2>2 DEF ByzType
  <2>4. PICK f \in byz_collect_values(0) :
          IF Heard(f) THEN final_decision' \in byz_majority(f)
          ELSE final_decision' = value[commander]
    BY <1>7 DEF Decides
  <2>5. ASSUME commander \in Loyal PROVE final_decision' = order
    <3>1. value[commander] = order /\ \A i \in Loyal : value[i] = order
      BY <1>1, <1>2, <2>1, <2>5 DEF OrderSpreads
    <3>2. 0 \in General
      BY <1>1
    <3> QED
      BY <1>2, <2>4, <3>1, <3>2, LoyalMajority
  <2>6. OrderSpreads'
    BY <1>2, <2>1, <2>2, <2>5 DEF OrderSpreads
  <2> QED
    BY <2>3, <2>6 DEF ByzInv
<1>8. CASE UNCHANGED byzVars
  BY <1>2, <1>8 DEF byzVars, ByzInv, ByzType, OrderSpreads, Faulty, Loyal
<1> QED
  BY <1>4, <1>5, <1>6, <1>7, <1>8 DEF ByzNext, byz_om_algorithm

LEMMA ByzObeys ==
  ASSUME ByzInv PROVE LoyalOrderObeyed
<1>1. M \in Nat /\ commander \in General
  BY GeneralsAssumption DEF ByzInv, ByzType
<1> QED
  BY <1>1 DEF ByzInv, OrderSpreads, LoyalOrderObeyed, Loyal

(* cap_theorem.c and byzantine.c: for every number of nodes and every order   *)
(* of writes and partitions, a read that CP does not refuse reaches the last  *)
(* write, CA has it everywhere and AP refuses nothing; for every n > 3m       *)
(* generals, a loyal commander's order is decided and held by every loyal     *)
(* general, whoever lies and however.                                         *)
THEOREM MajoritiesPrevail == CapSpec /\ ByzSpec => []QuorumsPrevail
<1>1. cap_configure => LastWriteHeld
  BY CapStarts
<1>2. LastWriteHeld /\ [CapNext]_capVars => LastWriteHeld'
  BY CapKeeps
<1>3. byz_init_network => ByzInv
  BY ByzStarts
<1>4. ByzInv /\ [ByzNext]_byzVars => ByzInv'
  BY ByzKeeps
<1>5. LastWriteHeld /\ ByzInv => QuorumsPrevail
  BY CapReads, ByzObeys DEF QuorumsPrevail
<1> QED
  BY <1>1, <1>2, <1>3, <1>4, <1>5, PTL DEF CapSpec, ByzSpec

-----------------------------------------------------------------------------
(* raft.c.  A vote is on its way as the request of candidate i to node j or  *)
(* as the granting reply of j to i; whatever the ring drops, it carries each *)
(* vote at most once.  The invariant names the votes a standing node has     *)
(* counted, V[i]: nobody votes twice in a term, and a vote that was counted  *)
(* is not on its way any more.                                               *)

RaftNode ==
  [role : {"follower", "candidate", "leader"}, current_term : Nat, voted_for : Node \cup {-1},
   log : Seq(Nat), commit_index : Int, votes_received : Nat,
   next_index : [Node -> Int], match_index : [Node -> Int]]

VoteRequest == [type : {"request_vote"}, from : Node, to : Node, term : Nat,
                last_log_index : Int, last_log_term : Nat]
VoteReply   == [type : {"vote_reply"}, from : Node, to : Node, term : Nat, granted : BOOLEAN]
AppendCall  == [type : {"append"}, from : Node, to : Node, term : Nat,
                prev_log_index : Int, prev_log_term : Nat, leader_commit : Int]
AppendReply == [type : {"append_reply"}, from : Node, to : Node, term : Nat,
                success : BOOLEAN, match_index_reply : Int]
RaftMsg     == VoteRequest \cup VoteReply \cup AppendCall \cup AppendReply

RaftTypeOK ==
  /\ rnodes \in [Node -> RaftNode]
  /\ rqueue \in Seq(RaftMsg)
  /\ leader_id \in Node \cup {-1}

Asked(m, i, j, t) == m.type = "request_vote" /\ m.from = i /\ m.to = j /\ m.term = t
Granted(m, i, j, t) ==
  m.type = "vote_reply" /\ m.granted /\ m.from = j /\ m.to = i /\ m.term = t
OnItsWay(m, i, j, t) == Asked(m, i, j, t) \/ Granted(m, i, j, t)

HasVoted(n, i, t) == n.current_term > t \/ (n.current_term = t /\ n.voted_for = i)

Stands(n) == n.role # "follower"

(* The votes in the ring q, with the nodes ns.                               *)
Ring(q, ns) ==
  /\ \A k \in DOMAIN q : \A i, j \in Node, t \in Nat :
       OnItsWay(q[k], i, j, t) => i # j /\ t <= ns[i].current_term
  /\ \A k, l \in DOMAIN q : \A i, j \in Node, t \in Nat :
       OnItsWay(q[k], i, j, t) /\ OnItsWay(q[l], i, j, t) => k = l
  /\ \A k \in DOMAIN q : \A i, j \in Node, t \in Nat :
       Granted(q[k], i, j, t) => HasVoted(ns[j], i, t)
  /\ \A k, l \in DOMAIN q : \A i, h, j \in Node, t \in Nat :
       Granted(q[k], i, j, t) /\ Granted(q[l], h, j, t) => i = h

(* The votes V that the standing nodes have counted.                         *)
Counted(q, ns, V) ==
  \A i \in Node : Stands(ns[i]) =>
    /\ Cardinality(V[i]) >= ns[i].votes_received
    /\ \A j \in V[i] : /\ HasVoted(ns[j], i, ns[i].current_term)
                       /\ \A k \in DOMAIN q : ~OnItsWay(q[k], i, j, ns[i].current_term)
    /\ \A h \in Node \ {i} :
         Stands(ns[h]) /\ ns[h].current_term = ns[i].current_term =>
           \A j \in V[i] : j \notin V[h]
    /\ \A k \in DOMAIN q : \A h \in Node \ {i}, j \in Node :
         Granted(q[k], h, j, ns[i].current_term) => j \notin V[i]
    /\ ns[i].role = "leader" => ns[i].votes_received >= raft_quorum_size

RaftInv ==
  /\ RaftTypeOK
  /\ Ring(rqueue, rnodes)
  /\ \E V \in [Node -> SUBSET Node] : Counted(rqueue, rnodes, V)

-----------------------------------------------------------------------------
(* The ring.                                                                 *)

LEMMA LeastOfTwo ==
  ASSUME NEW a \in Int, NEW b \in Int
  PROVE  Min({a, b}) = IF a <= b THEN a ELSE b
BY DEF Min

(* What is enqueued comes after what was in the ring, as far as it fits.     *)
LEMMA Enqueued ==
  ASSUME NEW q \in Seq(RaftMsg), NEW ms \in Seq(RaftMsg)
  PROVE  LET r == raft_enqueue_msg(q, ms) IN
         /\ r \in Seq(RaftMsg)
         /\ Len(r) <= Len(q) + Len(ms)
         /\ \A k \in DOMAIN r : r[k] = IF k <= Len(q) THEN q[k] ELSE ms[k - Len(q)]
<1> DEFINE all == q \o ms
           n   == Min({Len(all), RaftQueueCap})
<1>1. all \in Seq(RaftMsg) /\ Len(all) = Len(q) + Len(ms) /\ Len(all) \in Nat
  OBVIOUS
<1>2. n \in Nat /\ n <= Len(all)
  BY <1>1, LeastOfTwo, RaftClusterAssumption
<1>3. \A k \in 1 .. Len(all) : all[k] = IF k <= Len(q) THEN q[k] ELSE ms[k - Len(q)]
  OBVIOUS
<1> HIDE DEF all, n
<1>4. /\ SubSeq(all, 1, n) \in Seq(RaftMsg)
      /\ Len(SubSeq(all, 1, n)) = n
      /\ \A k \in 1 .. n : SubSeq(all, 1, n)[k] = all[k]
  BY <1>1, <1>2
<1>5. raft_enqueue_msg(q, ms) = SubSeq(all, 1, n)
  BY DEF raft_enqueue_msg, all, n
<1> QED
  BY <1>1, <1>2, <1>3, <1>4, <1>5

(* Votes of r are those of q, d places further on.                           *)
NoNewVotes(r, q, d) ==
  \A k \in DOMAIN r : \A i, j \in Node, t \in Nat :
    OnItsWay(r[k], i, j, t) => k + d \in DOMAIN q /\ r[k] = q[k + d]

(* Who has voted has voted for good, and who stands has stood before.        *)
Follows(n, o) ==
  /\ n.current_term >= o.current_term
  /\ n.current_term = o.current_term => n.voted_for = o.voted_for \/ o.voted_for = -1
  /\ Stands(n) =>
       /\ Stands(o)
       /\ n.current_term = o.current_term
       /\ n.votes_received = o.votes_received
       /\ n.role = "leader" => o.role = "leader"

Later(ns, os) == \A i \in Node : Follows(ns[i], os[i])

LEMMA VotedForGood ==
  ASSUME NEW ns \in [Node -> RaftNode], NEW os \in [Node -> RaftNode], Later(ns, os),
         NEW i \in Node, NEW j \in Node, NEW t \in Nat, HasVoted(os[j], i, t)
  PROVE  HasVoted(ns[j], i, t)
<1>1. i # -1
  BY RaftClusterAssumption DEF Node
<1>2. ns[j].current_term \in Nat /\ os[j].current_term \in Nat
  BY DEF RaftNode
<1>3. /\ ns[j].current_term >= os[j].current_term
      /\ ns[j].current_term = os[j].current_term =>
           ns[j].voted_for = os[j].voted_for \/ os[j].voted_for = -1
  BY DEF Later, Follows
<1> QED
  BY <1>1, <1>2, <1>3 DEF HasVoted

LEMMA RingKept ==
  ASSUME NEW ns \in [Node -> RaftNode], NEW os \in [Node -> RaftNode], Later(ns, os),
         NEW q \in Seq(RaftMsg), NEW r \in Seq(RaftMsg), NEW d \in {0, 1}, NoNewVotes(r, q, d),
         Ring(q, os)
  PROVE  Ring(r, ns)
<1>1. \A i \in Node : ns[i].current_term \in Nat /\ os[i].current_term \in Nat
                      /\ os[i].current_term <= ns[i].current_term
  BY DEF Later, Follows, RaftNode
<1>2. ASSUME NEW k \in DOMAIN r, NEW i \in Node, NEW j \in Node, NEW t \in Nat,
             OnItsWay(r[k], i, j, t)
      PROVE  i # j /\ t <= ns[i].current_term
  <2>1. k + d \in DOMAIN q /\ r[k] = q[k + d]
    BY <1>2 DEF NoNewVotes
  <2>2. i # j /\ t <= os[i].current_term
    BY <1>2, <2>1 DEF Ring
  <2> QED
    BY <1>1, <2>2
<1>3. ASSUME NEW k \in DOMAIN r, NEW l \in DOMAIN r, NEW i \in Node, NEW j \in Node, NEW t \in Nat,
             OnItsWay(r[k], i, j, t), OnItsWay(r[l], i, j, t)
      PROVE  k = l
  <2>1. k + d \in DOMAIN q /\ l + d \in DOMAIN q /\ r[k] = q[k + d] /\ r[l] = q[l + d]
    BY <1>3 DEF NoNewVotes
  <2>2. k + d = l + d
    BY <1>3, <2>1 DEF Ring
  <2> QED
    BY <2>2
<1>4. ASSUME NEW k \in DOMAIN r, NEW i \in Node, NEW j \in Node, NEW t \in Nat,
             Granted(r[k], i, j, t)
      PROVE  HasVoted(ns[j], i, t)
  <2>1. k + d \in DOMAIN q /\ r[k] = q[k + d]
    BY <1>4 DEF NoNewVotes, OnItsWay
  <2>2. HasVoted(os[j], i, t)
    BY <1>4, <2>1 DEF Ring
  <2> QED
    BY <2>2, VotedForGood
<1>5. ASSUME NEW k \in DOMAIN r, NEW l \in DOMAIN r, NEW i \in Node, NEW h \in Node,
             NEW j \in Node, NEW t \in Nat, Granted(r[k], i, j, t), Granted(r[l], h, j, t)
      PROVE  i = h
  <2>1. k + d \in DOMAIN q /\ l + d \in DOMAIN q /\ r[k] = q[k + d] /\ r[l] = q[l + d]
    BY <1>5 DEF NoNewVotes, OnItsWay
  <2> QED
    BY <1>5, <2>1 DEF Ring
<1> QED
  BY <1>2, <1>3, <1>4, <1>5 DEF Ring

LEMMA CountedKept ==
  ASSUME NEW ns \in [Node -> RaftNode], NEW os \in [Node -> RaftNode], Later(ns, os),
         NEW q \in Seq(RaftMsg), NEW r \in Seq(RaftMsg), NEW d \in {0, 1}, NoNewVotes(r, q, d),
         NEW V \in [Node -> SUBSET Node], Counted(q, os, V)
  PROVE  Counted(r, ns, V)
<1> SUFFICES ASSUME NEW i \in Node, Stands(ns[i])
             PROVE  /\ Cardinality(V[i]) >= ns[i].votes_received
                    /\ \A j \in V[i] :
                         /\ HasVoted(ns[j], i, ns[i].current_term)
                         /\ \A k \in DOMAIN r : ~OnItsWay(r[k], i, j, ns[i].current_term)
                    /\ \A h \in Node \ {i} :
                         Stands(ns[h]) /\ ns[h].current_term = ns[i].current_term =>
                           \A j \in V[i] : j \notin V[h]
                    /\ \A k \in DOMAIN r : \A h \in Node \ {i}, j \in Node :
                         Granted(r[k], h, j, ns[i].current_term) => j \notin V[i]
                    /\ ns[i].role = "leader" => ns[i].votes_received >= raft_quorum_size
  BY DEF Counted
<1>1. /\ Stands(os[i]) /\ ns[i].current_term = os[i].current_term
      /\ ns[i].votes_received = os[i].votes_received
      /\ ns[i].role = "leader" => os[i].role = "leader"
      /\ ns[i].current_term \in Nat
  BY DEF Later, Follows, RaftNode
<1>2. Cardinality(V[i]) >= ns[i].votes_received
  BY <1>1 DEF Counted
<1>3. ASSUME NEW j \in V[i] PROVE HasVoted(ns[j], i, ns[i].current_term)
  BY <1>1, <1>3, VotedForGood DEF Counted
<1>4. ASSUME NEW j \in V[i], NEW k \in DOMAIN r PROVE ~OnItsWay(r[k], i, j, ns[i].current_term)
  BY <1>1, <1>4 DEF Counted, NoNewVotes
<1>5. ASSUME NEW h \in Node \ {i}, Stands(ns[h]), ns[h].current_term = ns[i].current_term,
             NEW j \in V[i]
      PROVE  j \notin V[h]
  <2>1. Stands(os[h]) /\ os[h].current_term = os[i].current_term
    BY <1>1, <1>5 DEF Later, Follows
  <2> QED
    BY <1>1, <1>5, <2>1 DEF Counted
<1>6. ASSUME NEW k \in DOMAIN r, NEW h \in Node \ {i}, NEW j \in Node,
             Granted(r[k], h, j, ns[i].current_term)
      PROVE  j \notin V[i]
  <2>1. k + d \in DOMAIN q /\ r[k] = q[k + d]
    BY <1>1, <1>6 DEF NoNewVotes, OnItsWay
  <2> QED
    BY <1>1, <1>6, <2>1 DEF Counted
<1>7. ns[i].role = "leader" => ns[i].votes_received >= raft_quorum_size
  BY <1>1 DEF Counted
<1> QED
  BY <1>2, <1>3, <1>4, <1>5, <1>6, <1>7

-----------------------------------------------------------------------------
(* Types of what the handlers build.                                         *)

LEMMA GreatestOfTwo ==
  ASSUME NEW a \in Int, NEW b \in Int
  PROVE  Max({a, b}) = IF a >= b THEN a ELSE b
BY DEF Max

LEMMA LeastNatural ==
  ASSUME NEW S, S \subseteq Nat, S # {}
  PROVE  \E i \in S : \A j \in S : i <= j
<1> DEFINE less == {p \in Nat \X Nat : p[1] < p[2]}
<1>1. IsWellFoundedOn(less, Nat)
  BY NatLessThanWellFounded DEF OpToRel
<1> HIDE DEF less
<1>2. PICK i \in S : \A j \in S : ~(<<j, i>> \in less)
  BY <1>1, WFMin
<1>3. \A j \in S : ~(j < i)
  BY <1>2 DEF less
<1> QED
  BY <1>3

LEMMA GreatestInRange ==
  ASSUME NEW a \in Int, NEW b \in Int, NEW S, S \subseteq a .. b, S # {}
  PROVE  Max(S) \in S
<1> DEFINE T == {b - x : x \in S}
<1>1. T \subseteq Nat /\ T # {}
  OBVIOUS
<1>2. PICK d \in T : \A e \in T : d <= e
  BY <1>1, LeastNatural
<1>3. PICK x \in S : d = b - x
  OBVIOUS
<1>4. \A y \in S : x >= y
  <2> TAKE y \in S
  <2>1. d <= b - y
    BY <1>2
  <2> QED
    BY <1>3, <2>1
<1> QED
  BY <1>4 DEF Max

LEMMA CommitAdvanced ==
  ASSUME NEW n \in RaftNode, NEW l
  PROVE  LET c == raft_advance_commit(n, l) IN
         /\ c \in RaftNode /\ c.role = n.role /\ c.current_term = n.current_term
         /\ c.voted_for = n.voted_for /\ c.votes_received = n.votes_received
<1> DEFINE ks == {k \in (n.commit_index + 1) .. (Len(n.log) - 1) :
                    n.log[k + 1] = n.current_term /\
                    1 + Cardinality({j \in Node \ {l} : n.match_index[j] >= k}) >= raft_quorum_size}
<1>1. raft_advance_commit(n, l) = IF ks = {} THEN n ELSE [n EXCEPT !.commit_index = Max(ks)]
  BY DEF raft_advance_commit
<1>2. n.commit_index + 1 \in Int /\ Len(n.log) - 1 \in Int
  BY DEF RaftNode
<1>3. ks # {} => Max(ks) \in Int
  <2>1. ks \subseteq (n.commit_index + 1) .. (Len(n.log) - 1)
    OBVIOUS
  <2> HIDE DEF ks
  <2>2. ks # {} => Max(ks) \in ks
    BY <1>2, <2>1, GreatestInRange
  <2>3. (n.commit_index + 1) .. (Len(n.log) - 1) \subseteq Int
    BY <1>2
  <2> QED
    BY <2>1, <2>2, <2>3, Zenon
<1> HIDE DEF ks
<1> QED
  BY <1>1, <1>3 DEF RaftNode

LEMMA Appended ==
  ASSUME NEW n \in RaftNode, NEW m \in AppendCall, m.term >= n.current_term
  PROVE  AppendTo(n, m) \in RaftNode /\ Follows(AppendTo(n, m), n)
<1> DEFINE f == IF m.term > n.current_term THEN raft_become_follower(n, m.term)
                ELSE IF n.role = "candidate" THEN [n EXCEPT !.role = "follower"] ELSE n
           c == Min({m.leader_commit, raft_last_log_index(f)})
<1>1. f \in RaftNode /\ Follows(f, n)
  <2>1. m.term \in Nat /\ n.current_term \in Nat
    BY DEF RaftNode, AppendCall
  <2>2. CASE m.term > n.current_term
    <3>1. f = raft_become_follower(n, m.term)
      BY <2>2
    <3>2. raft_become_follower(n, m.term) \in RaftNode
          /\ raft_become_follower(n, m.term).role = "follower"
          /\ raft_become_follower(n, m.term).current_term = m.term
      BY <2>1 DEF raft_become_follower, RaftNode
    <3> QED
      BY <2>1, <2>2, <3>1, <3>2 DEF Follows, Stands
  <2>3. CASE ~(m.term > n.current_term) /\ n.role = "candidate"
    <3> DEFINE g == [n EXCEPT !.role = "follower"]
    <3>1. f = g
      BY <2>3
    <3>2. g \in RaftNode /\ g.role = "follower" /\ g.current_term = n.current_term
          /\ g.voted_for = n.voted_for
      BY DEF RaftNode
    <3> HIDE DEF f, g
    <3> QED
      BY <2>1, <3>1, <3>2 DEF Follows, Stands
  <2>4. CASE ~(m.term > n.current_term) /\ n.role # "candidate"
    BY <2>1, <2>4 DEF Follows
  <2> QED
    BY <2>2, <2>3, <2>4
<1>2. \/ AppendTo(n, m) = f
      \/ AppendTo(n, m) = [f EXCEPT !.commit_index = c]
  BY DEF AppendTo
<1> HIDE DEF f
<1>3. c \in Int
  <2>1. raft_last_log_index(f) \in Int /\ m.leader_commit \in Int
    BY <1>1 DEF raft_last_log_index, RaftNode, AppendCall
  <2> QED
    BY <2>1, LeastOfTwo
<1> HIDE DEF c
<1>4. [f EXCEPT !.commit_index = c] \in RaftNode /\ Follows([f EXCEPT !.commit_index = c], n)
  BY <1>1, <1>3 DEF RaftNode, Follows, Stands
<1> QED
  BY <1>1, <1>2, <1>4

LEMMA Built ==
  ASSUME NEW n \in RaftNode, NEW i \in Node, NEW j \in Node
  PROVE  /\ raft_build_request_vote(n, i, j) \in VoteRequest
         /\ raft_build_append_entries(n, i, j) \in AppendCall
<1>1. n.current_term \in Nat /\ n.log \in Seq(Nat) /\ n.commit_index \in Int
      /\ n.next_index[j] \in Int
  BY DEF RaftNode
<1>2. raft_last_log_index(n) \in Int /\ raft_last_log_term(n) \in Nat
  BY <1>1 DEF raft_last_log_index, raft_last_log_term
<1>3. raft_build_request_vote(n, i, j) \in VoteRequest
  BY <1>1, <1>2 DEF raft_build_request_vote, VoteRequest
<1> DEFINE prev == n.next_index[j] - 1
           pt   == IF prev >= 0 /\ prev < Len(n.log) THEN n.log[prev + 1] ELSE 0
<1>4. prev \in Int /\ pt \in Nat
  BY <1>1
<1>5. raft_build_append_entries(n, i, j) =
        [type |-> "append", from |-> i, to |-> j, term |-> n.current_term,
         prev_log_index |-> prev, prev_log_term |-> pt, leader_commit |-> n.commit_index]
  BY DEF raft_build_append_entries
<1> HIDE DEF prev, pt
<1> QED
  BY <1>1, <1>3, <1>4, <1>5 DEF AppendCall

(* One message to each other node.                                           *)
LEMMA SentToOthers ==
  ASSUME NEW i \in Node, NEW S, NEW msg \in [Node -> S]
  PROVE  LET ms == ToOthers(i, msg) IN
         /\ ms \in Seq(S) /\ Len(ms) = N - 1
         /\ \E to \in [DOMAIN ms -> Node] :
              /\ \A k \in DOMAIN ms : to[k] # i /\ ms[k] = msg[to[k]]
              /\ \A k, l \in DOMAIN ms : to[k] = to[l] => k = l
<1> DEFINE to == [k \in 1 .. (N - 1) |-> IF k - 1 < i THEN k - 1 ELSE k]
<1>1. N - 1 \in Nat /\ N \in Nat
  BY RaftClusterAssumption
<1>2. \A k \in 1 .. (N - 1) : to[k] \in Node /\ to[k] # i
  BY <1>1 DEF Node
<1>3. \A k, l \in 1 .. (N - 1) : to[k] = to[l] => k = l
  BY <1>1 DEF Node
<1>4. ToOthers(i, msg) = [k \in 1 .. (N - 1) |-> msg[to[k]]]
  BY DEF ToOthers
<1> HIDE DEF to
<1>5. /\ ToOthers(i, msg) \in Seq(S) /\ Len(ToOthers(i, msg)) = N - 1
      /\ DOMAIN ToOthers(i, msg) = 1 .. (N - 1)
  BY <1>1, <1>2, <1>4
<1>6. to \in [1 .. (N - 1) -> Node]
  BY <1>2 DEF to
<1>7. \E t \in [DOMAIN ToOthers(i, msg) -> Node] :
        /\ \A k \in DOMAIN ToOthers(i, msg) : t[k] # i /\ ToOthers(i, msg)[k] = msg[t[k]]
        /\ \A k, l \in DOMAIN ToOthers(i, msg) : t[k] = t[l] => k = l
  <2>1. \A k \in 1 .. (N - 1) : ToOthers(i, msg)[k] = msg[to[k]]
    BY <1>4
  <2> QED
    BY <1>2, <1>3, <1>5, <1>6, <2>1
<1> QED
  BY <1>5, <1>7

-----------------------------------------------------------------------------
(* Steps that send no vote.                                                  *)

LEMMA QuietStep ==
  ASSUME RaftInv, RaftTypeOK', Later(rnodes', rnodes),
         NEW d \in {0, 1}, NoNewVotes(rqueue', rqueue, d)
  PROVE  RaftInv'
<1>1. rnodes \in [Node -> RaftNode] /\ rnodes' \in [Node -> RaftNode]
      /\ rqueue \in Seq(RaftMsg) /\ rqueue' \in Seq(RaftMsg)
  BY DEF RaftInv, RaftTypeOK
<1>2. Ring(rqueue, rnodes)
  BY DEF RaftInv
<1>3. PICK V \in [Node -> SUBSET Node] : Counted(rqueue, rnodes, V)
  BY DEF RaftInv
<1>4. Ring(rqueue', rnodes')
  BY <1>1, <1>2, RingKept
<1>5. Counted(rqueue', rnodes', V)
  BY <1>1, <1>3, CountedKept
<1> QED
  BY <1>4, <1>5 DEF RaftInv, Ring, Counted

LEMMA OneNode ==
  ASSUME NEW ns \in [Node -> RaftNode], NEW i \in Node, NEW n \in RaftNode, Follows(n, ns[i])
  PROVE  /\ [ns EXCEPT ![i] = n] \in [Node -> RaftNode]
         /\ Later([ns EXCEPT ![i] = n], ns)
<1>1. \A j \in Node : Follows(ns[j], ns[j])
  BY DEF Follows, RaftNode
<1> QED
  BY <1>1 DEF Later

(* Messages that carry no vote may be enqueued, behind q or what is left.    *)
LEMMA NoVoteSent ==
  ASSUME NEW q \in Seq(RaftMsg), NEW ms \in Seq(RaftMsg),
         \A k \in DOMAIN ms : \A i, j \in Node, t \in Nat : ~OnItsWay(ms[k], i, j, t)
  PROVE  /\ NoNewVotes(raft_enqueue_msg(q, ms), q, 0)
         /\ \A p \in Seq(RaftMsg) :
              p # <<>> /\ q = Tail(p) => NoNewVotes(raft_enqueue_msg(q, ms), p, 1)
<1> DEFINE r == raft_enqueue_msg(q, ms)
<1>1. /\ r \in Seq(RaftMsg)
      /\ Len(r) <= Len(q) + Len(ms)
      /\ \A k \in DOMAIN r : r[k] = IF k <= Len(q) THEN q[k] ELSE ms[k - Len(q)]
  BY Enqueued
<1> HIDE DEF r
<1>2. ASSUME NEW k \in DOMAIN r, NEW i \in Node, NEW j \in Node, NEW t \in Nat,
             OnItsWay(r[k], i, j, t)
      PROVE  k \in DOMAIN q /\ r[k] = q[k]
  <2>1. CASE k <= Len(q)
    BY <1>1, <2>1
  <2>2. CASE k > Len(q)
    <3>1. k - Len(q) \in DOMAIN ms /\ r[k] = ms[k - Len(q)]
      BY <1>1, <2>2
    <3> QED
      BY <1>2, <3>1
  <2> QED
    BY <1>1, <2>1, <2>2
<1>3. NoNewVotes(r, q, 0)
  BY <1>1, <1>2 DEF NoNewVotes
<1>4. ASSUME NEW p \in Seq(RaftMsg), p # <<>>, q = Tail(p)
      PROVE  NoNewVotes(r, p, 1)
  <2>1. \A k \in DOMAIN q : k + 1 \in DOMAIN p /\ q[k] = p[k + 1]
    BY <1>4
  <2> QED
    BY <1>2, <2>1 DEF NoNewVotes
<1> QED
  BY <1>3, <1>4 DEF r

LEMMA TailHasNoMore ==
  ASSUME NEW p \in Seq(RaftMsg), p # <<>>
  PROVE  Tail(p) \in Seq(RaftMsg) /\ NoNewVotes(Tail(p), p, 1)
BY DEF NoNewVotes

-----------------------------------------------------------------------------
(* A vote is granted, is counted, and votes are asked for.                   *)

LEMMA VoteGranted ==
  ASSUME NEW ns \in [Node -> RaftNode], NEW q \in Seq(RaftMsg), NEW V \in [Node -> SUBSET Node],
         Ring(q, ns), Counted(q, ns, V),
         NEW i \in Node, NEW j \in Node, NEW t \in Nat,
         i # j, t <= ns[i].current_term, HasVoted(ns[j], i, t),
         \A k \in DOMAIN q : ~Asked(q[k], i, j, t),
         \A k \in DOMAIN q : \A h \in Node : ~Granted(q[k], h, j, t),
         \A h \in Node : Stands(ns[h]) /\ ns[h].current_term = t => j \notin V[h],
         NEW m \in VoteReply, Granted(m, i, j, t)
  PROVE  /\ Ring(raft_enqueue_msg(q, <<m>>), ns)
         /\ Counted(raft_enqueue_msg(q, <<m>>), ns, V)
<1> DEFINE r == raft_enqueue_msg(q, <<m>>)
           new == Len(q) + 1
<1>1. \A k \in DOMAIN r : (k \in DOMAIN q /\ r[k] = q[k]) \/ (k = new /\ r[k] = m)
  <2>1. <<m>> \in Seq(RaftMsg) /\ Len(<<m>>) = 1 /\ <<m>>[1] = m
    BY DEF RaftMsg
  <2>2. /\ r \in Seq(RaftMsg)
        /\ Len(r) <= Len(q) + 1
        /\ \A k \in DOMAIN r : r[k] = IF k <= Len(q) THEN q[k] ELSE <<m>>[k - Len(q)]
    BY <2>1, Enqueued
  <2> HIDE DEF r
  <2> TAKE k \in DOMAIN r
  <2>3. CASE k <= Len(q)
    BY <2>2, <2>3
  <2>4. CASE k > Len(q)
    <3>1. k = new
      BY <2>2, <2>4
    <3> QED
      BY <2>1, <2>2, <3>1
  <2> QED
    BY <2>2, <2>3, <2>4
<1>2. new \notin DOMAIN q
  OBVIOUS
<1>3. \A a, b \in Node, u \in Nat : OnItsWay(m, a, b, u) => a = i /\ b = j /\ u = t /\ Granted(m, a, b, u)
  BY DEF OnItsWay, Asked, Granted
<1>4. \A k \in DOMAIN q : ~OnItsWay(q[k], i, j, t)
  BY DEF OnItsWay
<1> HIDE DEF r, new
<1>5. Ring(r, ns)
  <2>1. ASSUME NEW k \in DOMAIN r, NEW a \in Node, NEW b \in Node, NEW u \in Nat,
               OnItsWay(r[k], a, b, u)
        PROVE  a # b /\ u <= ns[a].current_term
    BY <1>1, <1>3, <2>1 DEF Ring
  <2>2. ASSUME NEW k \in DOMAIN r, NEW l \in DOMAIN r, NEW a \in Node, NEW b \in Node, NEW u \in Nat,
               OnItsWay(r[k], a, b, u), OnItsWay(r[l], a, b, u)
        PROVE  k = l
    <3>1. CASE k \in DOMAIN q /\ r[k] = q[k] /\ l \in DOMAIN q /\ r[l] = q[l]
      BY <2>2, <3>1 DEF Ring
    <3> QED
      BY <1>1, <1>3, <1>4, <2>2, <3>1
  <2>3. ASSUME NEW k \in DOMAIN r, NEW a \in Node, NEW b \in Node, NEW u \in Nat,
               Granted(r[k], a, b, u)
        PROVE  HasVoted(ns[b], a, u)
    <3>1. CASE k \in DOMAIN q /\ r[k] = q[k]
      BY <2>3, <3>1 DEF Ring
    <3>2. CASE r[k] = m
      BY <1>3, <2>3, <3>2 DEF OnItsWay
    <3> QED
      BY <1>1, <3>1, <3>2
  <2>4. ASSUME NEW k \in DOMAIN r, NEW l \in DOMAIN r, NEW a \in Node, NEW h \in Node,
               NEW b \in Node, NEW u \in Nat, Granted(r[k], a, b, u), Granted(r[l], h, b, u)
        PROVE  a = h
    <3>1. CASE k \in DOMAIN q /\ r[k] = q[k] /\ l \in DOMAIN q /\ r[l] = q[l]
      BY <2>4, <3>1 DEF Ring
    <3>2. Granted(m, a, b, u) => a = i /\ b = j /\ u = t
      BY <1>3 DEF OnItsWay
    <3>3. Granted(m, h, b, u) => h = i /\ b = j /\ u = t
      BY <1>3 DEF OnItsWay
    <3> QED
      BY <1>1, <2>4, <3>1, <3>2, <3>3
  <2> QED
    BY <2>1, <2>2, <2>3, <2>4 DEF Ring
<1>6. Counted(r, ns, V)
  <2> SUFFICES ASSUME NEW a \in Node, Stands(ns[a])
               PROVE  /\ \A b \in V[a] : \A k \in DOMAIN r :
                           ~OnItsWay(r[k], a, b, ns[a].current_term)
                      /\ \A k \in DOMAIN r : \A h \in Node \ {a}, b \in Node :
                           Granted(r[k], h, b, ns[a].current_term) => b \notin V[a]
    BY DEF Counted
  <2>0. ns[a].current_term \in Nat /\ V[a] \subseteq Node
    BY DEF RaftNode
  <2>1. ASSUME NEW b \in V[a], NEW k \in DOMAIN r, OnItsWay(r[k], a, b, ns[a].current_term)
        PROVE  FALSE
    <3>1. CASE k \in DOMAIN q /\ r[k] = q[k]
      BY <2>1, <3>1 DEF Counted
    <3>2. CASE r[k] = m
      <4>1. b = j /\ ns[a].current_term = t
        BY <1>3, <2>0, <2>1, <3>2
      <4> QED
        BY <2>1, <4>1
    <3> QED
      BY <1>1, <3>1, <3>2
  <2>2. ASSUME NEW k \in DOMAIN r, NEW h \in Node \ {a}, NEW b \in Node,
               Granted(r[k], h, b, ns[a].current_term)
        PROVE  b \notin V[a]
    <3>1. CASE k \in DOMAIN q /\ r[k] = q[k]
      BY <2>2, <3>1 DEF Counted
    <3>2. CASE r[k] = m
      <4>1. b = j /\ ns[a].current_term = t
        BY <1>3, <2>0, <2>2, <3>2 DEF OnItsWay
      <4> QED
        BY <4>1
    <3> QED
      BY <1>1, <3>1, <3>2
  <2> QED
    BY <2>1, <2>2
<1> QED
  BY <1>5, <1>6 DEF r

LEMMA VotesAsked ==
  ASSUME NEW ns \in [Node -> RaftNode], NEW q \in Seq(RaftMsg), NEW V \in [Node -> SUBSET Node],
         Ring(q, ns), Counted(q, ns, V),
         NEW i \in Node, V[i] = {i},
         \A k \in DOMAIN q : \A j \in Node : ~OnItsWay(q[k], i, j, ns[i].current_term),
         NEW ms \in Seq(RaftMsg),
         \A k \in DOMAIN ms : \A a, b \in Node, u \in Nat : OnItsWay(ms[k], a, b, u) =>
           a = i /\ b # i /\ u = ns[i].current_term /\ Asked(ms[k], a, b, u),
         \A k, l \in DOMAIN ms : \A a, b \in Node, u \in Nat :
           OnItsWay(ms[k], a, b, u) /\ OnItsWay(ms[l], a, b, u) => k = l
  PROVE  /\ Ring(raft_enqueue_msg(q, ms), ns)
         /\ Counted(raft_enqueue_msg(q, ms), ns, V)
<1> DEFINE r == raft_enqueue_msg(q, ms)
           T == ns[i].current_term
<1>0. T \in Nat /\ Len(q) \in Nat
  BY DEF RaftNode
<1>1. \A k \in DOMAIN r : \/ k \in DOMAIN q /\ r[k] = q[k]
                          \/ /\ k \in Nat /\ k > Len(q)
                             /\ k - Len(q) \in DOMAIN ms /\ r[k] = ms[k - Len(q)]
  <2>2. /\ r \in Seq(RaftMsg)
        /\ Len(r) <= Len(q) + Len(ms)
        /\ \A k \in DOMAIN r : r[k] = IF k <= Len(q) THEN q[k] ELSE ms[k - Len(q)]
    BY Enqueued
  <2> HIDE DEF r
  <2> TAKE k \in DOMAIN r
  <2>3. CASE k <= Len(q)
    BY <2>2, <2>3
  <2>4. CASE k > Len(q)
    BY <2>2, <2>4
  <2> QED
    BY <2>2, <2>3, <2>4
<1> HIDE DEF r, T
<1>2. ASSUME NEW k \in DOMAIN r, NEW a \in Node, NEW b \in Node, NEW u \in Nat,
             OnItsWay(r[k], a, b, u)
      PROVE  \/ k \in DOMAIN q /\ r[k] = q[k] /\ OnItsWay(q[k], a, b, u)
             \/ /\ k \notin DOMAIN q /\ k - Len(q) \in DOMAIN ms /\ r[k] = ms[k - Len(q)]
                /\ a = i /\ b # i /\ u = T /\ Asked(r[k], a, b, u)
  <2>1. CASE k \in DOMAIN q /\ r[k] = q[k]
    BY <1>2, <2>1
  <2>2. CASE k \in Nat /\ k > Len(q) /\ k - Len(q) \in DOMAIN ms /\ r[k] = ms[k - Len(q)]
    <3>1. k \notin DOMAIN q
      BY <1>0, <2>2
    <3>2. a = i /\ b # i /\ u = T /\ Asked(ms[k - Len(q)], a, b, u)
      BY <1>2, <2>2 DEF T
    <3> QED
      BY <2>2, <3>1, <3>2
  <2> QED
    BY <1>1, <2>1, <2>2
<1>3. ASSUME NEW k \in DOMAIN r, NEW a \in Node, NEW b \in Node, NEW u \in Nat,
             Granted(r[k], a, b, u)
      PROVE  k \in DOMAIN q /\ r[k] = q[k]
  <2>1. ~Asked(r[k], a, b, u) /\ OnItsWay(r[k], a, b, u)
    BY <1>3 DEF Asked, Granted, OnItsWay
  <2> QED
    BY <1>2, <2>1
<1>4. \A k \in DOMAIN q : \A j \in Node : ~OnItsWay(q[k], i, j, T)
  BY DEF T
<1>5. Ring(r, ns)
  <2>1. ASSUME NEW k \in DOMAIN r, NEW a \in Node, NEW b \in Node, NEW u \in Nat,
               OnItsWay(r[k], a, b, u)
        PROVE  a # b /\ u <= ns[a].current_term
    <3>1. CASE k \in DOMAIN q /\ OnItsWay(q[k], a, b, u)
      BY <3>1 DEF Ring
    <3>2. CASE a = i /\ b # i /\ u = T
      BY <1>0, <3>2 DEF T
    <3> QED
      BY <1>2, <2>1, <3>1, <3>2
  <2>2. ASSUME NEW k \in DOMAIN r, NEW l \in DOMAIN r, NEW a \in Node, NEW b \in Node, NEW u \in Nat,
               OnItsWay(r[k], a, b, u), OnItsWay(r[l], a, b, u)
        PROVE  k = l
    <3>1. CASE k \in DOMAIN q /\ l \in DOMAIN q
      BY <1>2, <2>2, <3>1 DEF Ring
    <3>2. CASE k \notin DOMAIN q /\ l \notin DOMAIN q
      <4>1. /\ k - Len(q) \in DOMAIN ms /\ r[k] = ms[k - Len(q)]
            /\ l - Len(q) \in DOMAIN ms /\ r[l] = ms[l - Len(q)]
        BY <1>2, <2>2, <3>2
      <4>2. k - Len(q) = l - Len(q)
        BY <2>2, <4>1
      <4>3. k \in Nat /\ l \in Nat
        BY <1>1, <3>2
      <4> QED
        BY <1>0, <4>2, <4>3
    <3>3. CASE k \in DOMAIN q /\ l \notin DOMAIN q
      BY <1>2, <1>4, <2>2, <3>3
    <3>4. CASE k \notin DOMAIN q /\ l \in DOMAIN q
      BY <1>2, <1>4, <2>2, <3>4
    <3> QED
      BY <3>1, <3>2, <3>3, <3>4
  <2>3. ASSUME NEW k \in DOMAIN r, NEW a \in Node, NEW b \in Node, NEW u \in Nat,
               Granted(r[k], a, b, u)
        PROVE  HasVoted(ns[b], a, u)
    BY <1>3, <2>3 DEF Ring
  <2>4. ASSUME NEW k \in DOMAIN r, NEW l \in DOMAIN r, NEW a \in Node, NEW h \in Node,
               NEW b \in Node, NEW u \in Nat, Granted(r[k], a, b, u), Granted(r[l], h, b, u)
        PROVE  a = h
    <3>1. k \in DOMAIN q /\ r[k] = q[k] /\ l \in DOMAIN q /\ r[l] = q[l]
      BY <1>3, <2>4
    <3> QED
      BY <2>4, <3>1 DEF Ring
  <2> QED
    BY <2>1, <2>2, <2>3, <2>4 DEF Ring
<1>6. Counted(r, ns, V)
  <2> SUFFICES ASSUME NEW a \in Node, Stands(ns[a])
               PROVE  /\ \A b \in V[a] : \A k \in DOMAIN r :
                           ~OnItsWay(r[k], a, b, ns[a].current_term)
                      /\ \A k \in DOMAIN r : \A h \in Node \ {a}, b \in Node :
                           Granted(r[k], h, b, ns[a].current_term) => b \notin V[a]
    BY DEF Counted
  <2>0. ns[a].current_term \in Nat /\ V[a] \subseteq Node
    BY DEF RaftNode
  <2>1. ASSUME NEW b \in V[a], NEW k \in DOMAIN r, OnItsWay(r[k], a, b, ns[a].current_term)
        PROVE  FALSE
    <3>1. CASE k \in DOMAIN q /\ r[k] = q[k]
      BY <2>1, <3>1 DEF Counted
    <3>2. CASE a = i /\ b # i
      BY <2>1, <3>2
    <3> QED
      BY <1>2, <2>0, <2>1, <3>1, <3>2
  <2>2. ASSUME NEW k \in DOMAIN r, NEW h \in Node \ {a}, NEW b \in Node,
               Granted(r[k], h, b, ns[a].current_term)
        PROVE  b \notin V[a]
    <3>1. k \in DOMAIN q /\ r[k] = q[k]
      BY <1>3, <2>0, <2>2
    <3> QED
      BY <2>2, <3>1 DEF Counted
  <2> QED
    BY <2>1, <2>2
<1> QED
  BY <1>5, <1>6 DEF r

LEMMA NodesFinite == IsFiniteSet(Node) /\ Cardinality(Node) = N
<1>1. 0 \in Int /\ N - 1 \in Int /\ N \in Nat /\ N > 0
  BY RaftClusterAssumption
<1>2. IsFiniteSet(0 .. (N - 1)) /\ Cardinality(0 .. (N - 1)) = IF 0 > N - 1 THEN 0 ELSE (N - 1) - 0 + 1
  BY <1>1, FS_Interval
<1> QED
  BY <1>1, <1>2 DEF Node

LEMMA VoteCounted ==
  ASSUME NEW os \in [Node -> RaftNode], NEW q \in Seq(RaftMsg), NEW V \in [Node -> SUBSET Node],
         Ring(q, os), Counted(q, os, V), q # <<>>,
         NEW i \in Node, NEW j \in Node, NEW t \in Nat, Granted(Head(q), i, j, t),
         Stands(os[i]), os[i].current_term = t,
         NEW n \in RaftNode, Stands(n), n.current_term = t, n.voted_for = os[i].voted_for,
         n.votes_received = os[i].votes_received + 1,
         n.role = "leader" => n.votes_received >= raft_quorum_size
  PROVE  /\ Ring(Tail(q), [os EXCEPT ![i] = n])
         /\ Counted(Tail(q), [os EXCEPT ![i] = n], [V EXCEPT ![i] = V[i] \cup {j}])
<1> DEFINE ns == [os EXCEPT ![i] = n]
           W  == [V EXCEPT ![i] = V[i] \cup {j}]
           r  == Tail(q)
<1>1. /\ ns[i] = n /\ \A a \in Node \ {i} : ns[a] = os[a]
      /\ ns \in [Node -> RaftNode]
  OBVIOUS
<1>2. /\ W \in [Node -> SUBSET Node] /\ W[i] = V[i] \cup {j}
      /\ \A a \in Node \ {i} : W[a] = V[a]
  OBVIOUS
<1>3. /\ r \in Seq(RaftMsg) /\ 1 \in DOMAIN q /\ Granted(q[1], i, j, t)
      /\ \A k \in DOMAIN r : k + 1 \in DOMAIN q /\ k + 1 # 1 /\ r[k] = q[k + 1]
  OBVIOUS
<1>4. OnItsWay(q[1], i, j, t)
  BY <1>3 DEF OnItsWay
<1> HIDE DEF ns, W, r
<1>5. \A a \in Node : ns[a].current_term = os[a].current_term /\ ns[a].voted_for = os[a].voted_for
                      /\ (Stands(ns[a]) <=> Stands(os[a]))
                      /\ ns[a].current_term \in Nat
  BY <1>1 DEF RaftNode
<1>6. Ring(r, ns)
  <2>1. \A a, b \in Node, u \in Nat : HasVoted(os[b], a, u) => HasVoted(ns[b], a, u)
    BY <1>5 DEF HasVoted
  <2>2. ASSUME NEW k \in DOMAIN r, NEW l \in DOMAIN r, NEW a \in Node, NEW b \in Node, NEW u \in Nat,
               OnItsWay(r[k], a, b, u), OnItsWay(r[l], a, b, u)
        PROVE  k = l
    <3>1. k + 1 = l + 1
      BY <1>3, <2>2 DEF Ring
    <3> QED
      BY <1>3, <3>1
  <2>3. ASSUME NEW k \in DOMAIN r, NEW a \in Node, NEW b \in Node, NEW u \in Nat,
               OnItsWay(r[k], a, b, u)
        PROVE  a # b /\ u <= ns[a].current_term
    <3>1. a # b /\ u <= os[a].current_term
      BY <1>3, <2>3 DEF Ring
    <3> QED
      BY <1>5, <3>1
  <2>4. ASSUME NEW k \in DOMAIN r, NEW a \in Node, NEW b \in Node, NEW u \in Nat,
               Granted(r[k], a, b, u)
        PROVE  HasVoted(ns[b], a, u)
    BY <1>3, <2>1, <2>4 DEF Ring
  <2>5. ASSUME NEW k \in DOMAIN r, NEW l \in DOMAIN r, NEW a \in Node, NEW h \in Node,
               NEW b \in Node, NEW u \in Nat, Granted(r[k], a, b, u), Granted(r[l], h, b, u)
        PROVE  a = h
    <3>1. k + 1 \in DOMAIN q /\ l + 1 \in DOMAIN q /\ r[k] = q[k + 1] /\ r[l] = q[l + 1]
      BY <1>3
    <3> QED
      BY <2>5, <3>1 DEF Ring
  <2> QED
    BY <2>2, <2>3, <2>4, <2>5 DEF Ring
<1>7. Counted(r, ns, W)
  <2>0. /\ j \notin V[i] /\ HasVoted(os[j], i, t)
        /\ \A h \in Node \ {i} : Stands(os[h]) /\ os[h].current_term = t => j \notin V[h]
    <3>1. j \notin V[i]
      BY <1>3, <1>4 DEF Counted
    <3>2. HasVoted(os[j], i, t)
      BY <1>3 DEF Ring
    <3>3. \A h \in Node \ {i} : Stands(os[h]) /\ os[h].current_term = t => j \notin V[h]
      BY <1>3 DEF Counted
    <3> QED
      BY <3>1, <3>2, <3>3
  <2>1. \A k \in DOMAIN r : ~OnItsWay(r[k], i, j, t)
    BY <1>3, <1>4 DEF Ring
  <2>2. Cardinality(W[i]) = Cardinality(V[i]) + 1 /\ Cardinality(V[i]) \in Nat
    <3>1. IsFiniteSet(V[i])
      BY NodesFinite, FS_Subset
    <3> QED
      BY <1>2, <2>0, <3>1, FS_AddElement, FS_CardinalityType
  <2> SUFFICES ASSUME NEW a \in Node, Stands(ns[a])
               PROVE  /\ Cardinality(W[a]) >= ns[a].votes_received
                      /\ \A b \in W[a] :
                           /\ HasVoted(ns[b], a, ns[a].current_term)
                           /\ \A k \in DOMAIN r : ~OnItsWay(r[k], a, b, ns[a].current_term)
                      /\ \A h \in Node \ {a} :
                           Stands(ns[h]) /\ ns[h].current_term = ns[a].current_term =>
                             \A b \in W[a] : b \notin W[h]
                      /\ \A k \in DOMAIN r : \A h \in Node \ {a}, b \in Node :
                           Granted(r[k], h, b, ns[a].current_term) => b \notin W[a]
                      /\ ns[a].role = "leader" => ns[a].votes_received >= raft_quorum_size
    BY DEF Counted
  <2>3. Stands(os[a]) /\ ns[a].current_term = os[a].current_term
    BY <1>5
  <2>4. Cardinality(W[a]) >= ns[a].votes_received
    <3>1. CASE a = i
      <4>1. Cardinality(V[i]) >= os[i].votes_received /\ os[i].votes_received \in Nat
        BY DEF Counted, RaftNode
      <4> QED
        BY <1>1, <2>2, <3>1, <4>1
    <3>2. CASE a # i
      BY <1>1, <1>2, <2>3, <3>2 DEF Counted
    <3> QED
      BY <3>1, <3>2
  <2>5. ASSUME NEW b \in W[a]
        PROVE  /\ HasVoted(ns[b], a, ns[a].current_term)
               /\ \A k \in DOMAIN r : ~OnItsWay(r[k], a, b, ns[a].current_term)
    <3>0. \A h \in Node : HasVoted(os[h], a, os[a].current_term) => HasVoted(ns[h], a, ns[a].current_term)
      BY <1>5 DEF HasVoted
    <3>1. CASE b \in V[a]
      BY <1>3, <2>3, <3>0, <3>1 DEF Counted
    <3>2. CASE a = i /\ b = j
      BY <2>0, <2>1, <2>3, <3>0, <3>2
    <3> QED
      BY <1>2, <2>5, <3>1, <3>2
  <2>6. ASSUME NEW h \in Node \ {a}, Stands(ns[h]), ns[h].current_term = ns[a].current_term,
               NEW b \in W[a]
        PROVE  b \notin W[h]
    <3>1. Stands(os[h]) /\ os[h].current_term = os[a].current_term
      BY <1>5, <2>3, <2>6
    <3>2. b \in V[a] => b \notin V[h]
      BY <2>3, <3>1 DEF Counted
    <3>3. CASE a = i
      BY <1>2, <2>0, <2>6, <3>1, <3>2, <3>3
    <3>4. CASE h = i
      BY <1>2, <2>0, <2>3, <2>6, <3>1, <3>2, <3>4
    <3>5. CASE a # i /\ h # i
      BY <1>2, <2>6, <3>2, <3>5
    <3> QED
      BY <3>3, <3>4, <3>5
  <2>7. ASSUME NEW k \in DOMAIN r, NEW h \in Node \ {a}, NEW b \in Node,
               Granted(r[k], h, b, ns[a].current_term)
        PROVE  b \notin W[a]
    <3>1. b \notin V[a]
      BY <1>3, <2>3, <2>7 DEF Counted
    <3>2. a = i => b # j
      BY <1>3, <2>3, <2>7 DEF Ring
    <3> QED
      BY <1>2, <3>1, <3>2
  <2>8. ns[a].role = "leader" => ns[a].votes_received >= raft_quorum_size
    <3>1. CASE a = i
      BY <1>1, <3>1
    <3>2. CASE a # i
      BY <1>1, <2>3, <3>2 DEF Counted
    <3> QED
      BY <3>1, <3>2
  <2> QED
    BY <2>4, <2>5, <2>6, <2>7, <2>8
<1> QED
  BY <1>6, <1>7 DEF ns, W, r

LEMMA NewCandidate ==
  ASSUME NEW os \in [Node -> RaftNode], NEW q \in Seq(RaftMsg), NEW V \in [Node -> SUBSET Node],
         Ring(q, os), Counted(q, os, V), NEW i \in Node,
         NEW n \in RaftNode, n.current_term = os[i].current_term + 1, n.voted_for = i,
         n.votes_received = 1, n.role = "leader" => 1 >= raft_quorum_size
  PROVE  /\ Ring(q, [os EXCEPT ![i] = n])
         /\ Counted(q, [os EXCEPT ![i] = n], [V EXCEPT ![i] = {i}])
         /\ \A k \in DOMAIN q : \A j \in Node : ~OnItsWay(q[k], i, j, n.current_term)
<1> DEFINE ns == [os EXCEPT ![i] = n]
           W  == [V EXCEPT ![i] = {i}]
           T  == n.current_term
<1>1. /\ ns[i] = n /\ \A a \in Node \ {i} : ns[a] = os[a]
      /\ ns \in [Node -> RaftNode]
  OBVIOUS
<1>2. /\ W \in [Node -> SUBSET Node] /\ W[i] = {i}
      /\ \A a \in Node \ {i} : W[a] = V[a]
  OBVIOUS
<1>3. T \in Nat /\ os[i].current_term \in Nat /\ T = os[i].current_term + 1
  BY DEF RaftNode
<1> HIDE DEF ns, W, T
<1>4. \A a \in Node : /\ ns[a].current_term \in Nat /\ os[a].current_term \in Nat
                      /\ os[a].current_term <= ns[a].current_term
  <2> TAKE a \in Node
  <2>1. ns[a].current_term \in Nat /\ os[a].current_term \in Nat
    BY <1>1 DEF RaftNode
  <2>2. CASE a = i
    BY <1>1, <1>3, <2>1, <2>2 DEF T
  <2>3. CASE a # i
    BY <1>1, <2>1, <2>3
  <2> QED
    BY <2>1, <2>2, <2>3
<1>5. \A a, b \in Node, u \in Nat : HasVoted(os[b], a, u) => HasVoted(ns[b], a, u)
  <2> SUFFICES ASSUME NEW a \in Node, NEW b \in Node, NEW u \in Nat, HasVoted(os[b], a, u)
               PROVE  HasVoted(ns[b], a, u)
    OBVIOUS
  <2>1. CASE b = i
    BY <1>1, <1>3, <2>1 DEF HasVoted, T
  <2>2. CASE b # i
    BY <1>1, <2>2
  <2> QED
    BY <2>1, <2>2
<1>6. \A a \in Node, u \in Nat : u >= T => ~HasVoted(os[i], a, u)
  BY <1>3 DEF HasVoted
<1>7. ASSUME NEW k \in DOMAIN q, NEW j \in Node, OnItsWay(q[k], i, j, T) PROVE FALSE
  <2>1. T <= os[i].current_term
    BY <1>3, <1>7 DEF Ring
  <2> QED
    BY <1>3, <2>1
<1>8. Ring(q, ns)
  <2>1. ASSUME NEW k \in DOMAIN q, NEW a \in Node, NEW b \in Node, NEW u \in Nat,
               OnItsWay(q[k], a, b, u)
        PROVE  a # b /\ u <= ns[a].current_term
    <3>1. a # b /\ u <= os[a].current_term
      BY <2>1 DEF Ring
    <3> QED
      BY <1>4, <3>1
  <2>2. ASSUME NEW k \in DOMAIN q, NEW a \in Node, NEW b \in Node, NEW u \in Nat,
               Granted(q[k], a, b, u)
        PROVE  HasVoted(ns[b], a, u)
    BY <1>5, <2>2 DEF Ring
  <2> QED
    BY <2>1, <2>2 DEF Ring
<1>9. Counted(q, ns, W)
  <2>1. \A h \in Node \ {i} : Stands(os[h]) /\ os[h].current_term = T => i \notin V[h]
    BY <1>3, <1>6 DEF Counted
  <2>2. \A k \in DOMAIN q : \A h \in Node : ~Granted(q[k], h, i, T)
    BY <1>3, <1>6 DEF Ring
  <2>3. Cardinality(W[i]) = 1
    BY <1>2, FS_Singleton
  <2>4. HasVoted(ns[i], i, T)
    BY <1>1 DEF HasVoted, T
  <2> SUFFICES ASSUME NEW a \in Node, Stands(ns[a])
               PROVE  /\ Cardinality(W[a]) >= ns[a].votes_received
                      /\ \A b \in W[a] :
                           /\ HasVoted(ns[b], a, ns[a].current_term)
                           /\ \A k \in DOMAIN q : ~OnItsWay(q[k], a, b, ns[a].current_term)
                      /\ \A h \in Node \ {a} :
                           Stands(ns[h]) /\ ns[h].current_term = ns[a].current_term =>
                             \A b \in W[a] : b \notin W[h]
                      /\ \A k \in DOMAIN q : \A h \in Node \ {a}, b \in Node :
                           Granted(q[k], h, b, ns[a].current_term) => b \notin W[a]
                      /\ ns[a].role = "leader" => ns[a].votes_received >= raft_quorum_size
    BY DEF Counted
  <2>5. CASE a = i
    <3>1. ns[a].current_term = T /\ W[a] = {i} /\ ns[a].votes_received = 1
      BY <1>1, <1>2, <2>5 DEF T
    <3>2. ASSUME NEW h \in Node \ {i}, Stands(ns[h]), ns[h].current_term = T
          PROVE  i \notin W[h]
      BY <1>1, <1>2, <2>1, <3>2
    <3> QED
      BY <1>1, <1>7, <2>2, <2>3, <2>4, <2>5, <3>1, <3>2
  <2>6. CASE a # i
    <3>1. ns[a] = os[a] /\ W[a] = V[a]
      BY <1>1, <1>2, <2>6
    <3>2. ns[a].current_term \in Nat
      BY <1>4
    <3>3. ASSUME NEW h \in Node \ {a}, Stands(ns[h]), ns[h].current_term = ns[a].current_term,
                 NEW b \in W[a]
          PROVE  b \notin W[h]
      <4>1. CASE h = i
        <5>1. os[a].current_term = T
          BY <1>1, <3>1, <3>3, <4>1 DEF T
        <5> QED
          BY <1>2, <2>1, <2>6, <3>1, <3>3, <4>1, <5>1
      <4>2. CASE h # i
        BY <1>1, <1>2, <3>1, <3>3, <4>2 DEF Counted
      <4> QED
        BY <4>1, <4>2
    <3>4. \A b \in W[a] :
            /\ HasVoted(ns[b], a, ns[a].current_term)
            /\ \A k \in DOMAIN q : ~OnItsWay(q[k], a, b, ns[a].current_term)
      BY <1>5, <3>1, <3>2 DEF Counted
    <3>5. Cardinality(W[a]) >= ns[a].votes_received
      BY <3>1 DEF Counted
    <3>6. \A k \in DOMAIN q : \A h \in Node \ {a}, b \in Node :
            Granted(q[k], h, b, ns[a].current_term) => b \notin W[a]
      BY <3>1 DEF Counted
    <3>7. ns[a].role = "leader" => ns[a].votes_received >= raft_quorum_size
      BY <3>1 DEF Counted
    <3> QED
      BY <3>3, <3>4, <3>5, <3>6, <3>7
  <2> QED
    BY <2>5, <2>6
<1> QED
  BY <1>7, <1>8, <1>9 DEF ns, W, T

-----------------------------------------------------------------------------
(* The steps.                                                                *)

LEMMA SteppedDown ==
  ASSUME NEW n \in RaftNode, NEW t \in Nat, t > n.current_term
  PROVE  LET f == raft_become_follower(n, t) IN
         /\ f \in RaftNode /\ Follows(f, n)
         /\ f.role = "follower" /\ f.current_term = t /\ f.voted_for = -1
<1> DEFINE f == raft_become_follower(n, t)
<1>1. f \in RaftNode /\ f.role = "follower" /\ f.current_term = t /\ f.voted_for = -1
  BY DEF raft_become_follower, RaftNode
<1>2. n.current_term \in Nat
  BY DEF RaftNode
<1> HIDE DEF f
<1>3. Follows(f, n)
  BY <1>1, <1>2 DEF Follows, Stands
<1> QED
  BY <1>1, <1>3 DEF f

LEMMA SameStanding ==
  ASSUME NEW n \in RaftNode, NEW o \in RaftNode, n.role = o.role,
         n.current_term = o.current_term, n.voted_for = o.voted_for,
         n.votes_received = o.votes_received
  PROVE  Follows(n, o)
<1>1. o.current_term \in Nat
  BY DEF RaftNode
<1> QED
  BY <1>1 DEF Follows, Stands

LEMMA Kinds ==
  ASSUME NEW m \in RaftMsg
  PROVE  /\ m.from \in Node /\ m.to \in Node /\ m.term \in Nat
         /\ m.type = "request_vote" => m \in VoteRequest
         /\ m.type = "vote_reply" => m \in VoteReply
         /\ m.type = "append" => m \in AppendCall
         /\ m.type = "append_reply" => m \in AppendReply
BY DEF RaftMsg, VoteRequest, VoteReply, AppendCall, AppendReply

LEMMA NoVotes ==
  ASSUME NEW m \in RaftMsg, m.type \in {"append", "append_reply"},
         NEW i, NEW j, NEW t
  PROVE  ~OnItsWay(m, i, j, t)
BY DEF OnItsWay, Asked, Granted

LEMMA QueueHead ==
  ASSUME RaftTypeOK, rqueue # <<>>
  PROVE  /\ Head(rqueue) \in RaftMsg /\ Tail(rqueue) \in Seq(RaftMsg)
         /\ 1 \in DOMAIN rqueue /\ rqueue[1] = Head(rqueue)
         /\ \A k \in DOMAIN Tail(rqueue) :
              k + 1 \in DOMAIN rqueue /\ k + 1 # 1 /\ Tail(rqueue)[k] = rqueue[k + 1]
BY DEF RaftTypeOK

(* One node changes, and nothing that carries a vote is sent: the queue q    *)
(* that is left and what is added to it.                                     *)
LEMMA QuietNode ==
  ASSUME RaftInv, NEW i \in Node, NEW n \in RaftNode, Follows(n, rnodes[i]),
         rnodes' = [rnodes EXCEPT ![i] = n],
         NEW q, q = rqueue \/ (rqueue # <<>> /\ q = Tail(rqueue)),
         NEW ms \in Seq(RaftMsg), \A k \in DOMAIN ms : ms[k].type \in {"append", "append_reply"},
         rqueue' = q \/ rqueue' = raft_enqueue_msg(q, ms),
         leader_id' \in Node \cup {-1}
  PROVE  RaftInv'
<1>1. RaftTypeOK /\ rnodes \in [Node -> RaftNode] /\ rqueue \in Seq(RaftMsg)
  BY DEF RaftInv, RaftTypeOK
<1>2. rnodes' \in [Node -> RaftNode] /\ Later(rnodes', rnodes)
  BY <1>1, OneNode
<1>3. q \in Seq(RaftMsg)
  BY <1>1, QueueHead
<1>4. \A k \in DOMAIN ms : \A a, b \in Node, t \in Nat : ~OnItsWay(ms[k], a, b, t)
  <2> TAKE k \in DOMAIN ms
  <2>1. ms[k] \in RaftMsg
    OBVIOUS
  <2> QED
    BY <2>1, NoVotes
<1>5. rqueue' \in Seq(RaftMsg)
  BY <1>3, Enqueued
<1>6. NoNewVotes(rqueue', rqueue, 0) \/ NoNewVotes(rqueue', rqueue, 1)
  <2>1. CASE q = rqueue
    <3>1. NoNewVotes(rqueue, rqueue, 0)
      BY <1>1 DEF NoNewVotes
    <3> QED
      BY <1>1, <1>4, <2>1, <3>1, NoVoteSent
  <2>2. CASE rqueue # <<>> /\ q = Tail(rqueue)
    BY <1>1, <1>3, <1>4, <2>2, NoVoteSent, TailHasNoMore
  <2> QED
    BY <2>1, <2>2
<1>7. RaftTypeOK'
  BY <1>2, <1>5 DEF RaftTypeOK
<1> QED
  BY <1>2, <1>6, <1>7, QuietStep

LEMMA SendsHeartbeats ==
  ASSUME NEW n \in RaftNode, NEW i \in Node
  PROVE  LET ms == ToOthers(i, [j \in Node |-> raft_build_append_entries(n, i, j)]) IN
         ms \in Seq(RaftMsg) /\ \A k \in DOMAIN ms : ms[k].type \in {"append", "append_reply"}
<1> DEFINE msg == [j \in Node |-> raft_build_append_entries(n, i, j)]
           ms  == ToOthers(i, msg)
<1>1. msg \in [Node -> AppendCall]
  BY Built
<1> HIDE DEF msg
<1>2. ms \in Seq(AppendCall)
  BY <1>1, SentToOthers
<1> HIDE DEF ms
<1>3. ms \in Seq(RaftMsg)
  BY <1>2 DEF RaftMsg
<1>4. \A k \in DOMAIN ms : ms[k].type = "append"
  <2> TAKE k \in DOMAIN ms
  <2>1. ms[k] \in AppendCall
    BY <1>2
  <2> QED
    BY <2>1 DEF AppendCall
<1> QED
  BY <1>3, <1>4 DEF msg, ms

LEMMA Heartbeats ==
  ASSUME RaftInv, raft_leader_send_heartbeats
  PROVE  RaftInv'
<1>1. rnodes \in [Node -> RaftNode] /\ leader_id \in Node
  BY DEF RaftInv, RaftTypeOK, raft_leader_send_heartbeats
<1> DEFINE ms == ToOthers(leader_id, [j \in Node |->
                   raft_build_append_entries(rnodes[leader_id], leader_id, j)])
<1>2. ms \in Seq(RaftMsg) /\ \A k \in DOMAIN ms : ms[k].type \in {"append", "append_reply"}
  BY <1>1, SendsHeartbeats
<1>3. /\ rqueue' = raft_enqueue_msg(rqueue, ms)
      /\ rnodes' = rnodes /\ leader_id' = leader_id
  BY DEF raft_leader_send_heartbeats
<1> HIDE DEF ms
<1>4. rnodes' = [rnodes EXCEPT ![leader_id] = rnodes[leader_id]]
  BY <1>1, <1>3
<1>5. Follows(rnodes[leader_id], rnodes[leader_id])
  BY <1>1, SameStanding
<1> QED
  BY <1>1, <1>2, <1>3, <1>4, <1>5, QuietNode

LEMMA OneIndex ==
  ASSUME NEW f \in [Node -> Int], NEW i \in Node, NEW v \in Int
  PROVE  [f EXCEPT ![i] = v] \in [Node -> Int]
OBVIOUS

LEMMA Submitted ==
  ASSUME RaftInv, raft_leader_append_entry
  PROVE  RaftInv'
<1>1. rnodes \in [Node -> RaftNode] /\ leader_id \in Node
  BY DEF RaftInv, RaftTypeOK, raft_leader_append_entry
<1> DEFINE l == rnodes[leader_id]
           grown == Append(l.log, l.current_term)
           mi == [l.match_index EXCEPT ![leader_id] = Len(grown) - 1]
           ni == [l.next_index EXCEPT ![leader_id] = Len(grown)]
           n == [l EXCEPT !.log = grown, !.match_index = mi, !.next_index = ni]
<1>2. l \in RaftNode
  BY <1>1
<1>3. rnodes' = [rnodes EXCEPT ![leader_id] = n] /\ rqueue' = rqueue /\ leader_id' = leader_id
  <2>1. rnodes' = [rnodes EXCEPT ![leader_id] =
                     [l EXCEPT !.log = grown, !.match_index[leader_id] = Len(grown) - 1,
                               !.next_index[leader_id] = Len(grown)]]
    BY DEF raft_leader_append_entry
  <2>2. n = [l EXCEPT !.log = grown, !.match_index[leader_id] = Len(grown) - 1,
                      !.next_index[leader_id] = Len(grown)]
    BY <1>2 DEF RaftNode
  <2> QED
    BY <2>1, <2>2 DEF raft_leader_append_entry
<1> HIDE DEF l
<1>4. grown \in Seq(Nat) /\ Len(grown) \in Int
  BY <1>2 DEF RaftNode
<1> HIDE DEF grown
<1>5. /\ n \in RaftNode /\ n.role = l.role /\ n.current_term = l.current_term
      /\ n.voted_for = l.voted_for /\ n.votes_received = l.votes_received
  <2>1. l.match_index \in [Node -> Int] /\ l.next_index \in [Node -> Int]
    BY <1>2 DEF RaftNode
  <2>2. mi \in [Node -> Int] /\ ni \in [Node -> Int]
    <3>1. Len(grown) - 1 \in Int
      BY <1>4
    <3> QED
      BY <1>4, <2>1, <3>1, OneIndex
  <2> HIDE DEF mi, ni
  <2> QED
    BY <1>2, <1>4, <2>2 DEF RaftNode
<1> HIDE DEF n
<1>6. Follows(n, rnodes[leader_id])
  BY <1>2, <1>5, SameStanding DEF l
<1>7. <<>> \in Seq(RaftMsg) /\ \A k \in DOMAIN <<>> : <<>>[k].type \in {"append", "append_reply"}
  OBVIOUS
<1> QED
  BY <1>1, <1>3, <1>5, <1>6, <1>7, QuietNode

LEMMA Commits ==
  ASSUME RaftInv, raft_leader_commit_entries
  PROVE  RaftInv'
<1>1. rnodes \in [Node -> RaftNode] /\ leader_id \in Node
  BY DEF RaftInv, RaftTypeOK, raft_leader_commit_entries
<1> DEFINE n == raft_advance_commit(rnodes[leader_id], leader_id)
<1>2. rnodes' = [rnodes EXCEPT ![leader_id] = n] /\ rqueue' = rqueue /\ leader_id' = leader_id
  BY <1>1 DEF raft_leader_commit_entries
<1>3. n \in RaftNode /\ Follows(n, rnodes[leader_id])
  BY <1>1, CommitAdvanced, SameStanding
<1> HIDE DEF n
<1>4. <<>> \in Seq(RaftMsg) /\ \A k \in DOMAIN <<>> : <<>>[k].type \in {"append", "append_reply"}
  OBVIOUS
<1> QED
  BY <1>1, <1>2, <1>3, <1>4, QuietNode

LEMMA NothingSent ==
  <<>> \in Seq(RaftMsg) /\ \A k \in DOMAIN <<>> : <<>>[k].type \in {"append", "append_reply"}
OBVIOUS

LEMMA AppendTaken ==
  ASSUME RaftInv, rqueue # <<>>, Head(rqueue).type = "append",
         raft_handle_append_entries(Head(rqueue), Tail(rqueue))
  PROVE  RaftInv'
<1> DEFINE m == Head(rqueue)
           n == rnodes[m.to]
           a == AppendTo(n, m)
           ok == raft_log_ok(a, m.prev_log_index, m.prev_log_term)
           no == raft_build_append_entries_reply(m, n.current_term, FALSE, -1)
           yes == raft_build_append_entries_reply(m, a.current_term, ok,
                    IF ok THEN m.prev_log_index ELSE -1)
<1>1. RaftTypeOK /\ rnodes \in [Node -> RaftNode] /\ leader_id \in Node \cup {-1}
  BY DEF RaftInv, RaftTypeOK
<1>2. m \in RaftMsg /\ m \in AppendCall /\ m.from \in Node /\ m.to \in Node /\ m.term \in Nat
  BY <1>1, QueueHead, Kinds
<1>3. n \in RaftNode /\ n.current_term \in Nat
  BY <1>1, <1>2 DEF RaftNode
<1>4. \/ /\ m.term < n.current_term
         /\ rqueue' = raft_enqueue_msg(Tail(rqueue), <<no>>)
         /\ rnodes' = rnodes /\ leader_id' = leader_id
      \/ /\ m.term >= n.current_term
         /\ rnodes' = [rnodes EXCEPT ![m.to] = a]
         /\ leader_id' = m.from
         /\ rqueue' = raft_enqueue_msg(Tail(rqueue), <<yes>>)
  BY DEF raft_handle_append_entries
<1>5. CASE m.term < n.current_term
  <2>1. no \in AppendReply
    BY <1>2, <1>3 DEF raft_build_append_entries_reply, AppendReply
  <2> HIDE DEF m, n, a, ok, no, yes
  <2>2. <<no>> \in Seq(RaftMsg) /\ \A k \in DOMAIN <<no>> : <<no>>[k].type \in {"append", "append_reply"}
    BY <2>1 DEF AppendReply, RaftMsg
  <2>3. rnodes' = [rnodes EXCEPT ![m.to] = n] /\ leader_id' = leader_id
        /\ rqueue' = raft_enqueue_msg(Tail(rqueue), <<no>>)
    BY <1>1, <1>2, <1>3, <1>4, <1>5 DEF n
  <2>4. Follows(n, rnodes[m.to])
    BY <1>3, SameStanding DEF n
  <2> QED
    BY <1>1, <1>2, <1>3, <2>2, <2>3, <2>4, QuietNode
<1>6. CASE m.term >= n.current_term
  <2>1. a \in RaftNode /\ Follows(a, n)
    BY <1>2, <1>3, <1>6, Appended
  <2>2. ok \in BOOLEAN
    BY DEF raft_log_ok
  <2>3. a.current_term \in Nat /\ m.prev_log_index \in Int
    BY <1>2, <2>1 DEF RaftNode, AppendCall
  <2> HIDE DEF a, ok
  <2>4. yes \in AppendReply
    BY <1>2, <2>2, <2>3 DEF raft_build_append_entries_reply, AppendReply
  <2> HIDE DEF m, n, no, yes
  <2>5. <<yes>> \in Seq(RaftMsg) /\ \A k \in DOMAIN <<yes>> : <<yes>>[k].type \in {"append", "append_reply"}
    BY <2>4 DEF AppendReply, RaftMsg
  <2>6. rnodes' = [rnodes EXCEPT ![m.to] = a] /\ leader_id' = m.from
        /\ rqueue' = raft_enqueue_msg(Tail(rqueue), <<yes>>)
    BY <1>2, <1>3, <1>4, <1>6
  <2>7. Follows(a, rnodes[m.to])
    BY <2>1 DEF n
  <2> QED
    BY <1>2, <2>1, <2>5, <2>6, <2>7, QuietNode
<1> QED
  BY <1>2, <1>3, <1>5, <1>6

LEMMA AppendAnswered ==
  ASSUME RaftInv, rqueue # <<>>, Head(rqueue).type = "append_reply",
         raft_handle_append_entries_reply(Head(rqueue), Tail(rqueue))
  PROVE  RaftInv'
<1> DEFINE m == Head(rqueue)
           n == rnodes[m.to]
           matched == [n EXCEPT !.match_index[m.from] = m.match_index_reply,
                                !.next_index[m.from] = m.match_index_reply + 1]
           refused == [n EXCEPT !.next_index[m.from] = Max({@ - 1, 0})]
           c == IF n.role # "leader" THEN n
                ELSE IF m.success THEN raft_advance_commit(matched, m.to) ELSE refused
<1>1. RaftTypeOK /\ rnodes \in [Node -> RaftNode] /\ leader_id \in Node \cup {-1}
  BY DEF RaftInv, RaftTypeOK
<1>2. m \in RaftMsg /\ m \in AppendReply /\ m.from \in Node /\ m.to \in Node /\ m.term \in Nat
  BY <1>1, QueueHead, Kinds
<1>3. n \in RaftNode /\ n.current_term \in Nat
  BY <1>1, <1>2 DEF RaftNode
<1>4. /\ rqueue' = Tail(rqueue)
      /\ IF m.term > n.current_term
         THEN rnodes' = [rnodes EXCEPT ![m.to] = raft_become_follower(n, m.term)] /\ leader_id' = -1
         ELSE rnodes' = [rnodes EXCEPT ![m.to] = c] /\ leader_id' = leader_id
  BY DEF raft_handle_append_entries_reply
<1>5. CASE m.term > n.current_term
  <2>1. raft_become_follower(n, m.term) \in RaftNode /\ Follows(raft_become_follower(n, m.term), n)
    BY <1>2, <1>3, <1>5, SteppedDown
  <2> QED
    BY <1>1, <1>2, <1>4, <1>5, <2>1, NothingSent, QuietNode
<1>6. CASE ~(m.term > n.current_term)
  <2>1. c \in RaftNode /\ Follows(c, n)
    <3>0. n.match_index \in [Node -> Int] /\ n.next_index \in [Node -> Int]
          /\ m.match_index_reply \in Int
      BY <1>2, <1>3 DEF RaftNode, AppendReply
    <3>1. /\ matched \in RaftNode /\ matched.role = n.role /\ matched.current_term = n.current_term
          /\ matched.voted_for = n.voted_for /\ matched.votes_received = n.votes_received
      <4> DEFINE mi == [n.match_index EXCEPT ![m.from] = m.match_index_reply]
                 ni == [n.next_index EXCEPT ![m.from] = m.match_index_reply + 1]
      <4>1. mi \in [Node -> Int] /\ ni \in [Node -> Int]
        <5>1. m.match_index_reply + 1 \in Int
          BY <3>0
        <5> QED
          BY <1>2, <3>0, <5>1, OneIndex
      <4>2. matched = [n EXCEPT !.match_index = mi, !.next_index = ni]
        BY <1>3 DEF RaftNode
      <4> HIDE DEF mi, ni, m, n, matched
      <4> QED
        BY <1>3, <4>1, <4>2 DEF RaftNode
    <3>2. /\ refused \in RaftNode /\ refused.role = n.role /\ refused.current_term = n.current_term
          /\ refused.voted_for = n.voted_for /\ refused.votes_received = n.votes_received
      <4> DEFINE ni == [n.next_index EXCEPT ![m.from] = Max({n.next_index[m.from] - 1, 0})]
      <4>1. ni \in [Node -> Int]
        <5>1. n.next_index[m.from] - 1 \in Int
          BY <1>2, <3>0
        <5>2. Max({n.next_index[m.from] - 1, 0}) \in Int
          BY <5>1, GreatestOfTwo
        <5> QED
          BY <1>2, <3>0, <5>2, OneIndex
      <4>2. refused = [n EXCEPT !.next_index = ni]
        BY <1>3 DEF RaftNode
      <4> HIDE DEF ni, m, n, refused
      <4> QED
        BY <1>3, <4>1, <4>2 DEF RaftNode
    <3> HIDE DEF m, n, matched, refused
    <3>3. LET d == raft_advance_commit(matched, m.to) IN
          /\ d \in RaftNode /\ d.role = n.role /\ d.current_term = n.current_term
          /\ d.voted_for = n.voted_for /\ d.votes_received = n.votes_received
      BY <3>1, CommitAdvanced
    <3>4. Follows(n, n) /\ Follows(refused, n) /\ Follows(raft_advance_commit(matched, m.to), n)
      BY <1>3, <3>2, <3>3, SameStanding
    <3> QED
      BY <1>3, <3>2, <3>3, <3>4
  <2> HIDE DEF m, c
  <2> QED
    BY <1>1, <1>2, <1>4, <1>6, <2>1, NothingSent, QuietNode
<1> QED
  BY <1>5, <1>6

LEMMA VoteAsked ==
  ASSUME RaftInv, rqueue # <<>>, Head(rqueue).type = "request_vote",
         raft_handle_request_vote(Head(rqueue), Tail(rqueue))
  PROVE  RaftInv'
<1> DEFINE m == Head(rqueue)
           o == rnodes[m.to]
           n == VoterAfter(o, m)
           grant == m.term >= n.current_term /\ Grants(n, m)
           c == IF grant THEN [n EXCEPT !.voted_for = m.from] ELSE n
           reply == raft_build_request_vote_reply(m, n.current_term, grant)
           rest == Tail(rqueue)
           ns == [rnodes EXCEPT ![m.to] = c]
<1>1. RaftTypeOK /\ rnodes \in [Node -> RaftNode] /\ rqueue \in Seq(RaftMsg)
      /\ leader_id \in Node \cup {-1} /\ Ring(rqueue, rnodes)
  BY DEF RaftInv, RaftTypeOK
<1>2. m \in RaftMsg /\ m \in VoteRequest /\ m.from \in Node /\ m.to \in Node /\ m.term \in Nat
  BY <1>1, QueueHead, Kinds
<1>3. o \in RaftNode /\ o.current_term \in Nat
  BY <1>1, <1>2 DEF RaftNode
<1>4. rnodes' = ns /\ leader_id' = leader_id /\ rqueue' = raft_enqueue_msg(rest, <<reply>>)
  BY DEF raft_handle_request_vote
<1>5. /\ n \in RaftNode /\ Follows(n, o) /\ n.current_term \in Nat
      /\ o.current_term <= n.current_term /\ m.term <= n.current_term
      /\ n.current_term = o.current_term => n.voted_for = o.voted_for
      /\ n.current_term # o.current_term => n.voted_for = -1
  <2>1. CASE m.term > o.current_term
    <3>1. n = raft_become_follower(o, m.term)
      BY <2>1 DEF VoterAfter
    <3> HIDE DEF m, o, n
    <3> QED
      BY <1>2, <1>3, <2>1, <3>1, SteppedDown
  <2>2. CASE ~(m.term > o.current_term)
    <3>1. n = o
      BY <2>2 DEF VoterAfter
    <3> HIDE DEF m, o, n
    <3> QED
      BY <1>2, <1>3, <2>2, <3>1, SameStanding
  <2> QED
    BY <2>1, <2>2
<1>6. grant \in BOOLEAN /\ (grant => m.term = n.current_term /\ n.voted_for \in {-1, m.from})
  <2>1. m.term >= n.current_term /\ m.term <= n.current_term => m.term = n.current_term
    BY <1>2, <1>5
  <2> QED
    BY <1>5, <2>1 DEF Grants
<1>7. rest \in Seq(RaftMsg) /\ NoNewVotes(rest, rqueue, 1)
  BY <1>1, TailHasNoMore
<1>8. /\ 1 \in DOMAIN rqueue /\ Asked(rqueue[1], m.from, m.to, m.term)
      /\ OnItsWay(rqueue[1], m.from, m.to, m.term)
      /\ \A k \in DOMAIN rest : k + 1 \in DOMAIN rqueue /\ k + 1 # 1 /\ rest[k] = rqueue[k + 1]
  BY <1>1, QueueHead DEF Asked, OnItsWay
<1> HIDE DEF m, o, n, grant, rest
<1>9. c \in RaftNode /\ Follows(c, o) /\ c.current_term = n.current_term
      /\ (grant => c.voted_for = m.from)
  <2>1. CASE grant
    <3> DEFINE g == [n EXCEPT !.voted_for = m.from]
    <3>1. /\ g \in RaftNode /\ g.role = n.role /\ g.current_term = n.current_term
          /\ g.votes_received = n.votes_received /\ g.voted_for = m.from
      BY <1>2, <1>5 DEF RaftNode
    <3>2. c = g
      BY <2>1
    <3> HIDE DEF g, c
    <3>3. Follows(g, o)
      <4>1. g.current_term = o.current_term => g.voted_for = o.voted_for \/ o.voted_for = -1
        BY <1>5, <1>6, <2>1, <3>1
      <4> QED
        BY <1>5, <3>1, <4>1 DEF Follows, Stands
    <3> QED
      BY <3>1, <3>2, <3>3
  <2>2. CASE ~grant
    BY <1>5, <2>2
  <2> QED
    BY <2>1, <2>2
<1>10. reply \in VoteReply /\ reply.granted = grant
  BY <1>2, <1>5, <1>6 DEF raft_build_request_vote_reply, VoteReply
<1>11. ns \in [Node -> RaftNode] /\ Later(ns, rnodes) /\ ns[m.to] = c
       /\ \A a \in Node \ {m.to} : ns[a] = rnodes[a]
  <2> HIDE DEF c
  <2> QED
    BY <1>1, <1>2, <1>9, OneNode DEF o
<1>12. grant => Granted(reply, m.from, m.to, m.term)
  BY <1>6 DEF raft_build_request_vote_reply, Granted
<1> HIDE DEF c, ns, reply
<1>13. RaftTypeOK'
  <2>1. <<reply>> \in Seq(RaftMsg)
    BY <1>10 DEF RaftMsg
  <2> QED
    BY <1>1, <1>4, <1>7, <1>11, <2>1, Enqueued DEF RaftTypeOK
<1>14. CASE ~grant
  <2>1. <<reply>> \in Seq(RaftMsg)
        /\ \A k \in DOMAIN <<reply>> : \A i, j \in Node, t \in Nat : ~OnItsWay(<<reply>>[k], i, j, t)
    BY <1>10, <1>14 DEF RaftMsg, VoteReply, OnItsWay, Asked, Granted
  <2>2. NoNewVotes(raft_enqueue_msg(rest, <<reply>>), rqueue, 1)
    BY <1>1, <1>7, <2>1, NoVoteSent DEF rest
  <2> QED
    BY <1>4, <1>11, <1>13, <2>2, QuietStep
<1>15. CASE grant
  <2> DEFINE i == m.from
             j == m.to
             t == m.term
  <2>1. PICK V \in [Node -> SUBSET Node] : Counted(rqueue, rnodes, V)
    BY DEF RaftInv
  <2>2. Ring(rest, ns) /\ Counted(rest, ns, V)
    BY <1>1, <1>7, <1>11, <2>1, RingKept, CountedKept
  <2>3. i # j /\ t <= ns[i].current_term
    <3>1. i # j /\ t <= rnodes[i].current_term
      BY <1>1, <1>2, <1>8 DEF Ring
    <3> QED
      BY <1>2, <1>11, <3>1
  <2>4. HasVoted(ns[j], i, t)
    BY <1>6, <1>9, <1>11, <1>15 DEF HasVoted
  <2>5. \A k \in DOMAIN rest : ~OnItsWay(rest[k], i, j, t)
    BY <1>1, <1>2, <1>8 DEF Ring
  <2>6. \A h \in Node \ {i} : ~HasVoted(rnodes[j], h, t)
    <3> TAKE h \in Node \ {i}
    <3>1. h # -1
      BY RaftClusterAssumption DEF Node
    <3>2. o.current_term <= t /\ (o.current_term = t => o.voted_for \in {-1, i})
      BY <1>5, <1>6, <1>15
    <3> QED
      BY <1>2, <1>3, <3>1, <3>2 DEF HasVoted, o
  <2>7. \A k \in DOMAIN rest : \A h \in Node : ~Granted(rest[k], h, j, t)
    <3> SUFFICES ASSUME NEW k \in DOMAIN rest, NEW h \in Node, Granted(rest[k], h, j, t)
                 PROVE  FALSE
      OBVIOUS
    <3>1. HasVoted(rnodes[j], h, t)
      BY <1>1, <1>2, <1>8 DEF Ring
    <3>2. h # i
      BY <2>5 DEF OnItsWay
    <3> QED
      BY <2>6, <3>1, <3>2
  <2>8. \A h \in Node : Stands(ns[h]) /\ ns[h].current_term = t => j \notin V[h]
    <3> SUFFICES ASSUME NEW h \in Node, Stands(ns[h]), ns[h].current_term = t, j \in V[h]
                 PROVE  FALSE
      OBVIOUS
    <3>1. Stands(rnodes[h]) /\ rnodes[h].current_term = t
      BY <1>11 DEF Later, Follows
    <3>2. HasVoted(rnodes[j], h, t)
      BY <2>1, <3>1 DEF Counted
    <3>3. h = i
      BY <2>6, <3>2
    <3> QED
      BY <1>8, <2>1, <3>1, <3>3 DEF Counted
  <2>9. /\ Ring(raft_enqueue_msg(rest, <<reply>>), ns)
        /\ Counted(raft_enqueue_msg(rest, <<reply>>), ns, V)
    <3>1. \A k \in DOMAIN rest : ~Asked(rest[k], i, j, t)
      BY <2>5 DEF OnItsWay
    <3>2. i \in Node /\ j \in Node /\ t \in Nat /\ Granted(reply, i, j, t)
      BY <1>2, <1>12, <1>15
    <3> HIDE DEF i, j, t
    <3> QED
      BY <1>7, <1>10, <1>11, <2>2, <2>3, <2>4, <2>7, <2>8, <3>1, <3>2, VoteGranted
  <2>10. Ring(rqueue', rnodes') /\ Counted(rqueue', rnodes', V)
    BY <1>4, <2>9
  <2> QED
    BY <1>13, <2>10 DEF RaftInv, Ring, Counted
<1> QED
  BY <1>14, <1>15

LEMMA Led ==
  ASSUME NEW n \in RaftNode
  PROVE  LET l == raft_become_leader(n) IN
         /\ l \in RaftNode /\ l.role = "leader" /\ l.current_term = n.current_term
         /\ l.voted_for = n.voted_for /\ l.votes_received = n.votes_received
<1> DEFINE ni == [j \in Node |-> Len(n.log)]
           mi == [j \in Node |-> -1]
<1>1. Len(n.log) \in Int
  BY DEF RaftNode
<1>2. ni \in [Node -> Int] /\ mi \in [Node -> Int]
  BY <1>1
<1>3. raft_become_leader(n) = [n EXCEPT !.role = "leader", !.next_index = ni, !.match_index = mi]
  BY DEF raft_become_leader
<1> HIDE DEF ni, mi
<1> QED
  BY <1>2, <1>3 DEF RaftNode

LEMMA NoHeartbeatVotes ==
  ASSUME NEW ms \in Seq(RaftMsg), \A k \in DOMAIN ms : ms[k].type \in {"append", "append_reply"}
  PROVE  \A k \in DOMAIN ms : \A i, j \in Node, t \in Nat : ~OnItsWay(ms[k], i, j, t)
<1> TAKE k \in DOMAIN ms
<1>1. ms[k] \in RaftMsg
  OBVIOUS
<1> QED
  BY <1>1, NoVotes

(* What a node becomes when it has counted its votes, and what it sends.     *)
AfterVotes(n) == IF n.votes_received >= raft_quorum_size THEN raft_become_leader(n) ELSE n
SentAfter(i, n) ==
  IF n.votes_received >= raft_quorum_size
  THEN ToOthers(i, [j \in Node |-> raft_build_append_entries(raft_become_leader(n), i, j)])
  ELSE <<>>

LEMMA Settled ==
  ASSUME NEW i \in Node, NEW n \in RaftNode, n.role = "candidate"
  PROVE  LET c == AfterVotes(n)
             hs == SentAfter(i, n)
         IN  /\ c \in RaftNode /\ hs \in Seq(RaftMsg)
             /\ \A k \in DOMAIN hs : hs[k].type \in {"append", "append_reply"}
             /\ c.current_term = n.current_term /\ c.voted_for = n.voted_for
             /\ c.votes_received = n.votes_received /\ Stands(c)
             /\ c.role = "leader" => c.votes_received >= raft_quorum_size
<1>1. CASE n.votes_received >= raft_quorum_size
  <2> DEFINE l == raft_become_leader(n)
             hs == ToOthers(i, [j \in Node |-> raft_build_append_entries(l, i, j)])
  <2>1. /\ l \in RaftNode /\ l.role = "leader" /\ l.current_term = n.current_term
        /\ l.voted_for = n.voted_for /\ l.votes_received = n.votes_received
    BY Led
  <2>2. AfterVotes(n) = l /\ SentAfter(i, n) = hs
    BY <1>1 DEF AfterVotes, SentAfter
  <2> HIDE DEF l
  <2>3. hs \in Seq(RaftMsg) /\ \A k \in DOMAIN hs : hs[k].type \in {"append", "append_reply"}
    BY <2>1, SendsHeartbeats
  <2> HIDE DEF hs
  <2> QED
    BY <1>1, <2>1, <2>2, <2>3 DEF Stands
<1>2. CASE ~(n.votes_received >= raft_quorum_size)
  <2>1. AfterVotes(n) = n /\ SentAfter(i, n) = <<>>
    BY <1>2 DEF AfterVotes, SentAfter
  <2> QED
    BY <2>1, NothingSent DEF Stands
<1> QED
  BY <1>1, <1>2

LEMMA VoteAnswered ==
  ASSUME RaftInv, rqueue # <<>>, Head(rqueue).type = "vote_reply",
         raft_handle_request_vote_reply(Head(rqueue), Tail(rqueue))
  PROVE  RaftInv'
<1> DEFINE m == Head(rqueue)
           n == rnodes[m.to]
           rest == Tail(rqueue)
           v == [n EXCEPT !.votes_received = @ + 1]
<1>1. RaftTypeOK /\ rnodes \in [Node -> RaftNode] /\ rqueue \in Seq(RaftMsg)
      /\ leader_id \in Node \cup {-1} /\ Ring(rqueue, rnodes)
  BY DEF RaftInv, RaftTypeOK
<1>2. m \in RaftMsg /\ m \in VoteReply /\ m.from \in Node /\ m.to \in Node /\ m.term \in Nat
  BY <1>1, QueueHead, Kinds
<1>3. n \in RaftNode /\ n.current_term \in Nat /\ rest \in Seq(RaftMsg)
  BY <1>1, <1>2, QueueHead DEF RaftNode
<1>4. \/ /\ m.term > n.current_term
         /\ rnodes' = [rnodes EXCEPT ![m.to] = raft_become_follower(n, m.term)]
         /\ rqueue' = rest /\ leader_id' = leader_id
      \/ /\ m.term = n.current_term /\ n.role = "candidate" /\ m.granted
         /\ Settle(rest, m.to, v, <<>>)
      \/ rqueue' = rest /\ rnodes' = rnodes /\ leader_id' = leader_id
  BY DEF raft_handle_request_vote_reply
<1> HIDE DEF m
<1>5. CASE /\ m.term > n.current_term
           /\ rnodes' = [rnodes EXCEPT ![m.to] = raft_become_follower(n, m.term)]
           /\ rqueue' = rest /\ leader_id' = leader_id
  <2>1. raft_become_follower(n, m.term) \in RaftNode /\ Follows(raft_become_follower(n, m.term), n)
    BY <1>2, <1>3, <1>5, SteppedDown
  <2> QED
    BY <1>1, <1>2, <1>5, <2>1, NothingSent, QuietNode
<1>6. CASE rqueue' = rest /\ rnodes' = rnodes /\ leader_id' = leader_id
  <2>1. rnodes' = [rnodes EXCEPT ![m.to] = n] /\ Follows(n, n)
    BY <1>1, <1>2, <1>3, <1>6, SameStanding
  <2> QED
    BY <1>1, <1>2, <1>3, <1>6, <2>1, NothingSent, QuietNode
<1>7. CASE /\ m.term = n.current_term /\ n.role = "candidate" /\ m.granted
           /\ Settle(rest, m.to, v, <<>>)
  <2>1. /\ v \in RaftNode /\ v.role = "candidate" /\ v.current_term = m.term
        /\ v.voted_for = n.voted_for /\ v.votes_received = n.votes_received + 1
    <3>1. n.votes_received \in Nat
      BY <1>3 DEF RaftNode
    <3> DEFINE u == n.votes_received + 1
    <3>2. v = [n EXCEPT !.votes_received = u]
      OBVIOUS
    <3>3. u \in Nat
      BY <3>1
    <3> HIDE DEF n, u, v
    <3>4. /\ v \in RaftNode /\ v.role = n.role /\ v.current_term = n.current_term
          /\ v.voted_for = n.voted_for /\ v.votes_received = u
      BY <1>3, <3>2, <3>3 DEF RaftNode
    <3> QED
      BY <1>7, <3>4 DEF u
  <2> DEFINE c == AfterVotes(v)
             hs == SentAfter(m.to, v)
  <2>2. /\ c \in RaftNode /\ hs \in Seq(RaftMsg)
        /\ \A k \in DOMAIN hs : hs[k].type \in {"append", "append_reply"}
        /\ c.current_term = v.current_term /\ c.voted_for = v.voted_for
        /\ c.votes_received = v.votes_received /\ Stands(c)
        /\ c.role = "leader" => c.votes_received >= raft_quorum_size
    <3> HIDE DEF v
    <3> QED
      BY <1>2, <2>1, Settled
  <2>0. /\ rnodes' = [rnodes EXCEPT ![m.to] = c] /\ leader_id' \in Node \cup {-1}
        /\ rqueue' = raft_enqueue_msg(rest, <<>> \o hs)
    <3> HIDE DEF v, n, rest
    <3>1. CASE v.votes_received >= raft_quorum_size
      BY <1>2, <1>7, <3>1 DEF Settle, AfterVotes, SentAfter
    <3>2. CASE ~(v.votes_received >= raft_quorum_size)
      BY <1>1, <1>7, <3>2 DEF Settle, AfterVotes, SentAfter
    <3> QED
      BY <3>1, <3>2
  <2> HIDE DEF v, c, hs
  <2>3. PICK V \in [Node -> SUBSET Node] : Counted(rqueue, rnodes, V)
    BY DEF RaftInv
  <2> DEFINE ns == [rnodes EXCEPT ![m.to] = c]
             W  == [V EXCEPT ![m.to] = V[m.to] \cup {m.from}]
  <2>4. Ring(rest, ns) /\ Counted(rest, ns, W)
    <3>1. Granted(Head(rqueue), m.to, m.from, m.term)
      BY <1>7 DEF Granted, m
    <3>2. Stands(rnodes[m.to]) /\ rnodes[m.to].current_term = m.term
      BY <1>7 DEF Stands
    <3>3. /\ Stands(c) /\ c.current_term = m.term /\ c.voted_for = rnodes[m.to].voted_for
          /\ c.votes_received = rnodes[m.to].votes_received + 1
          /\ c.role = "leader" => c.votes_received >= raft_quorum_size
      BY <2>1, <2>2
    <3> QED
      BY <1>1, <1>2, <2>2, <2>3, <3>1, <3>2, <3>3, VoteCounted
  <2>5. ns \in [Node -> RaftNode] /\ W \in [Node -> SUBSET Node]
    BY <1>1, <1>2, <2>2
  <2> HIDE DEF ns, W
  <2>6. Later(ns, ns)
    <3>1. \A a \in Node : ns[a] \in RaftNode
      BY <2>5
    <3>2. \A a \in Node : Follows(ns[a], ns[a])
      BY <3>1, SameStanding
    <3> QED
      BY <3>2 DEF Later
  <2>7. <<>> \o hs = hs
    BY <2>2
  <2>8. rqueue' \in Seq(RaftMsg) /\ NoNewVotes(rqueue', rest, 0)
    <3>1. \A k \in DOMAIN hs : \A i, j \in Node, t \in Nat : ~OnItsWay(hs[k], i, j, t)
      BY <2>2, NoHeartbeatVotes
    <3>2. rqueue' = raft_enqueue_msg(rest, hs)
      BY <2>0, <2>7
    <3> HIDE DEF rest
    <3> QED
      BY <1>3, <2>2, <3>1, <3>2, Enqueued, NoVoteSent
  <2>9. Ring(rqueue', ns) /\ Counted(rqueue', ns, W)
    BY <1>3, <2>4, <2>5, <2>6, <2>8, RingKept, CountedKept
  <2>10. rnodes' = ns
    BY <2>0 DEF ns
  <2>11. RaftTypeOK'
    BY <2>0, <2>5, <2>8, <2>10 DEF RaftTypeOK
  <2> QED
    BY <2>5, <2>9, <2>10, <2>11 DEF RaftInv, Ring, Counted
<1> QED
  BY <1>4, <1>5, <1>6, <1>7

LEMMA Stood ==
  ASSUME RaftInv, NEW i \in Node, raft_start_election(i)
  PROVE  RaftInv'
<1> DEFINE o == rnodes[i]
           T == o.current_term + 1
           v == [o EXCEPT !.role = "candidate", !.current_term = T, !.voted_for = i,
                          !.votes_received = 1]
           msg == [j \in Node |-> raft_build_request_vote(v, i, j)]
           ms == ToOthers(i, msg)
           c  == AfterVotes(v)
           hs == SentAfter(i, v)
           ns == [rnodes EXCEPT ![i] = c]
<1>1. RaftTypeOK /\ rnodes \in [Node -> RaftNode] /\ rqueue \in Seq(RaftMsg)
      /\ leader_id \in Node \cup {-1} /\ Ring(rqueue, rnodes)
  BY DEF RaftInv, RaftTypeOK
<1>2. o \in RaftNode /\ o.current_term \in Nat /\ T \in Nat
  BY <1>1 DEF RaftNode
<1>3. Settle(rqueue, i, v, ms)
  BY DEF raft_start_election
<1> HIDE DEF o, T
<1>4. /\ v \in RaftNode /\ v.role = "candidate" /\ v.current_term = T
      /\ v.voted_for = i /\ v.votes_received = 1
  BY <1>2 DEF RaftNode
<1> HIDE DEF v
<1>5. msg \in [Node -> VoteRequest]
      /\ \A j \in Node : msg[j].type = "request_vote" /\ msg[j].from = i /\ msg[j].to = j
                         /\ msg[j].term = T
  BY <1>4, Built DEF raft_build_request_vote
<1> HIDE DEF msg
<1>6. ms \in Seq(VoteRequest) /\ Len(ms) = N - 1
      /\ \E to \in [DOMAIN ms -> Node] :
           /\ \A k \in DOMAIN ms : to[k] # i /\ ms[k] = msg[to[k]]
           /\ \A k, l \in DOMAIN ms : to[k] = to[l] => k = l
  BY <1>5, SentToOthers
<1> HIDE DEF ms
<1>7. PICK to \in [DOMAIN ms -> Node] :
        /\ \A k \in DOMAIN ms : to[k] # i /\ ms[k] = msg[to[k]]
        /\ \A k, l \in DOMAIN ms : to[k] = to[l] => k = l
  BY <1>6
<1>8. /\ c \in RaftNode /\ hs \in Seq(RaftMsg)
      /\ \A k \in DOMAIN hs : hs[k].type \in {"append", "append_reply"}
      /\ c.current_term = T /\ c.voted_for = i /\ c.votes_received = 1
      /\ c.role = "leader" => c.votes_received >= raft_quorum_size
  BY <1>4, Settled
<1>9. /\ rnodes' = ns /\ leader_id' \in Node \cup {-1}
      /\ rqueue' = raft_enqueue_msg(rqueue, ms \o hs)
  <2>1. CASE v.votes_received >= raft_quorum_size
    BY <1>3, <2>1 DEF Settle, AfterVotes, SentAfter
  <2>2. CASE ~(v.votes_received >= raft_quorum_size)
    <3>1. ms \o <<>> = ms
      BY <1>6
    <3> QED
      BY <1>1, <1>3, <2>2, <3>1 DEF Settle, AfterVotes, SentAfter
  <2> QED
    BY <2>1, <2>2
<1> HIDE DEF c, hs
<1>10. PICK V \in [Node -> SUBSET Node] : Counted(rqueue, rnodes, V)
  BY DEF RaftInv
<1> DEFINE W == [V EXCEPT ![i] = {i}]
           all == ms \o hs
<1>11. /\ Ring(rqueue, ns) /\ Counted(rqueue, ns, W)
       /\ \A k \in DOMAIN rqueue : \A j \in Node : ~OnItsWay(rqueue[k], i, j, T)
  <2>1. c.current_term = rnodes[i].current_term + 1
    BY <1>8 DEF T, o
  <2>2. c.role = "leader" => 1 >= raft_quorum_size
    BY <1>8
  <2> QED
    BY <1>1, <1>8, <1>10, <2>1, <2>2, NewCandidate
<1>12. ns \in [Node -> RaftNode] /\ ns[i].current_term = T
       /\ W \in [Node -> SUBSET Node] /\ W[i] = {i}
  BY <1>1, <1>8
<1> HIDE DEF ns, W
<1>13. all \in Seq(RaftMsg) /\ Len(all) = Len(ms) + Len(hs)
       /\ \A k \in DOMAIN all : \/ k \in DOMAIN ms /\ all[k] = ms[k]
                                \/ k - Len(ms) \in DOMAIN hs /\ all[k] = hs[k - Len(ms)]
  <2>1. ms \in Seq(RaftMsg)
    BY <1>6 DEF RaftMsg
  <2> QED
    BY <1>8, <2>1
<1> HIDE DEF all
<1>14. ASSUME NEW k \in DOMAIN all, NEW a \in Node, NEW b \in Node, NEW u \in Nat,
              OnItsWay(all[k], a, b, u)
       PROVE  /\ k \in DOMAIN ms /\ b = to[k]
              /\ a = i /\ b # i /\ u = T /\ Asked(all[k], a, b, u)
  <2>1. \A l \in DOMAIN hs : ~OnItsWay(hs[l], a, b, u)
    BY <1>8, NoHeartbeatVotes
  <2>2. k \in DOMAIN ms /\ all[k] = ms[k]
    BY <1>13, <1>14, <2>1
  <2>3. to[k] \in Node /\ to[k] # i /\ all[k] = msg[to[k]]
    BY <1>7, <2>2
  <2>4. all[k].type = "request_vote" /\ all[k].from = i /\ all[k].to = to[k] /\ all[k].term = T
    BY <1>5, <2>3
  <2> QED
    BY <1>14, <2>2, <2>3, <2>4 DEF OnItsWay, Asked, Granted
<1>15. \A k, l \in DOMAIN all : \A a, b \in Node, u \in Nat :
         OnItsWay(all[k], a, b, u) /\ OnItsWay(all[l], a, b, u) => k = l
  BY <1>7, <1>14
<1>16. Ring(rqueue', ns) /\ Counted(rqueue', ns, W)
  <2>1. rqueue' = raft_enqueue_msg(rqueue, all)
    BY <1>9 DEF all
  <2>2. /\ Ring(raft_enqueue_msg(rqueue, all), ns)
        /\ Counted(raft_enqueue_msg(rqueue, all), ns, W)
    <3>1. \A k \in DOMAIN rqueue : \A j \in Node : ~OnItsWay(rqueue[k], i, j, ns[i].current_term)
      BY <1>11, <1>12
    <3>2. \A k \in DOMAIN all : \A a, b \in Node, u \in Nat : OnItsWay(all[k], a, b, u) =>
            a = i /\ b # i /\ u = ns[i].current_term /\ Asked(all[k], a, b, u)
      BY <1>12, <1>14
    <3> QED
      BY <1>1, <1>11, <1>12, <1>13, <1>15, <3>1, <3>2, VotesAsked
  <2> QED
    BY <2>1, <2>2
<1>17. RaftTypeOK'
  BY <1>1, <1>9, <1>12, <1>13, Enqueued DEF RaftTypeOK, all
<1> QED
  BY <1>9, <1>12, <1>16, <1>17 DEF RaftInv, Ring, Counted

LEMMA RaftStarts == RaftInit => RaftInv
<1> SUFFICES ASSUME RaftInit PROVE RaftInv
  OBVIOUS
<1>1. rnodes \in [Node -> RaftNode]
  <2> DEFINE n == [role |-> "follower", current_term |-> 0, voted_for |-> -1, log |-> <<>>,
                   commit_index |-> -1, votes_received |-> 0,
                   next_index |-> [j \in Node |-> 0], match_index |-> [j \in Node |-> -1]]
  <2>1. n \in RaftNode
    BY DEF RaftNode
  <2>2. rnodes = [i \in Node |-> n]
    BY DEF RaftInit, raft_init_cluster
  <2> QED
    BY <2>1, <2>2
<1>2. \A i \in Node : ~Stands(rnodes[i])
  BY DEF RaftInit, raft_init_cluster, Stands
<1>3. rqueue = <<>> /\ leader_id = -1
  BY DEF RaftInit, raft_init_cluster
<1>4. Ring(rqueue, rnodes)
  BY <1>3 DEF Ring
<1>5. Counted(rqueue, rnodes, [i \in Node |-> {}])
  BY <1>2 DEF Counted
<1>6. [i \in Node |-> {}] \in [Node -> SUBSET Node]
  OBVIOUS
<1>7. RaftTypeOK
  BY <1>1, <1>3 DEF RaftTypeOK
<1> QED
  BY <1>4, <1>5, <1>6, <1>7 DEF RaftInv

LEMMA RaftKeeps == RaftInv /\ [RaftNext]_raftVars => RaftInv'
<1> SUFFICES ASSUME RaftInv, [RaftNext]_raftVars PROVE RaftInv'
  OBVIOUS
<1>1. CASE UNCHANGED raftVars
  BY <1>1 DEF raftVars, RaftInv, RaftTypeOK, Ring, Counted
<1>2. ASSUME NEW i \in Node, raft_start_election(i) PROVE RaftInv'
  BY <1>2, Stood
<1>3. CASE raft_process_message
  BY <1>3, VoteAsked, VoteAnswered, AppendTaken, AppendAnswered DEF raft_process_message
<1> QED
  BY <1>1, <1>2, <1>3, Heartbeats, Submitted, Commits DEF RaftNext

(* Two quorums of counted votes have a voter in common.                      *)
LEMMA OneLeads == RaftInv => OneLeaderPerTerm
<1> SUFFICES ASSUME RaftInv, NEW i \in Node, rnodes[i].role = "leader"
             PROVE  /\ \A j \in Node \ {i} : rnodes[j].role = "leader" =>
                         rnodes[j].current_term # rnodes[i].current_term
                    /\ Cardinality({j \in Node : rnodes[j].current_term > rnodes[i].current_term
                         \/ (rnodes[j].current_term = rnodes[i].current_term
                             /\ rnodes[j].voted_for = i)}) >= raft_quorum_size
  BY DEF OneLeaderPerTerm
<1>1. PICK V \in [Node -> SUBSET Node] : Counted(rqueue, rnodes, V)
  BY DEF RaftInv
<1>2. \A a \in Node : rnodes[a].votes_received \in Nat
  BY DEF RaftInv, RaftTypeOK, RaftNode
<1>3. raft_quorum_size \in Nat /\ raft_quorum_size + raft_quorum_size > N /\ N \in Nat
  BY RaftClusterAssumption DEF raft_quorum_size
<1>4. \A a \in Node : IsFiniteSet(V[a]) /\ Cardinality(V[a]) \in Nat /\ V[a] \subseteq Node
  BY NodesFinite, FS_Subset, FS_CardinalityType
<1>5. \A a \in Node : rnodes[a].role = "leader" => Cardinality(V[a]) >= raft_quorum_size
  <2> SUFFICES ASSUME NEW a \in Node, rnodes[a].role = "leader"
               PROVE  Cardinality(V[a]) >= raft_quorum_size
    OBVIOUS
  <2>1. /\ Cardinality(V[a]) >= rnodes[a].votes_received
        /\ rnodes[a].votes_received >= raft_quorum_size
    BY <1>1 DEF Counted, Stands
  <2> QED
    BY <1>2, <1>3, <1>4, <2>1
<1>6. ASSUME NEW j \in Node \ {i}, rnodes[j].role = "leader",
             rnodes[j].current_term = rnodes[i].current_term
      PROVE  FALSE
  <2>1. V[i] \cap V[j] = {}
    BY <1>1, <1>6 DEF Counted, Stands
  <2>2. Cardinality(V[i] \cup V[j]) = Cardinality(V[i]) + Cardinality(V[j]) - Cardinality({})
    BY <1>4, <2>1, FS_Union
  <2>3. Cardinality(V[i] \cup V[j]) <= N
    BY <1>4, NodesFinite, FS_Subset
  <2>4. Cardinality({}) = 0
    BY FS_EmptySet
  <2>5. Cardinality(V[i]) >= raft_quorum_size /\ Cardinality(V[j]) >= raft_quorum_size
    BY <1>5, <1>6
  <2> QED
    BY <1>3, <1>4, <2>2, <2>3, <2>4, <2>5
<1>7. Cardinality({j \in Node : rnodes[j].current_term > rnodes[i].current_term
                     \/ (rnodes[j].current_term = rnodes[i].current_term
                         /\ rnodes[j].voted_for = i)}) >= raft_quorum_size
  <2> DEFINE S == {j \in Node : rnodes[j].current_term > rnodes[i].current_term
                     \/ (rnodes[j].current_term = rnodes[i].current_term
                         /\ rnodes[j].voted_for = i)}
  <2>1. V[i] \subseteq S
    BY <1>1, <1>4 DEF Counted, Stands, HasVoted
  <2>2. S \subseteq Node
    OBVIOUS
  <2> HIDE DEF S
  <2>3. IsFiniteSet(S) /\ Cardinality(S) \in Nat
    BY <2>2, NodesFinite, FS_Subset, FS_CardinalityType
  <2>4. Cardinality(V[i]) <= Cardinality(S)
    BY <2>1, <2>3, FS_Subset
  <2>5. Cardinality(S) >= raft_quorum_size
    BY <1>3, <1>4, <1>5, <2>3, <2>4
  <2> QED
    BY <2>5 DEF S
<1> QED
  BY <1>6, <1>7

(* raft_handle_request_vote, raft_handle_request_vote_reply: however large   *)
(* the cluster, the ring and the terms, and whatever is lost, no two nodes   *)
(* lead the same term and a leader has the votes of a quorum.                *)
THEOREM LeadersUnique == RaftSpec => []OneLeaderPerTerm
<1>1. RaftInit => RaftInv
  BY RaftStarts
<1>2. RaftInv /\ [RaftNext]_raftVars => RaftInv'
  BY RaftKeeps
<1>3. RaftInv => OneLeaderPerTerm
  BY OneLeads
<1> QED
  BY <1>1, <1>2, <1>3, PTL DEF RaftSpec

-----------------------------------------------------------------------------
(* dht.c.  The keys of a node never exceed its array, so that what a node    *)
(* that stays had is still there behind a hand-over; the fingers of every    *)
(* active node name active nodes, which joining and leaving establish anew   *)
(* and storing a key does not change.  In the ring of virtual nodes the      *)
(* first one at the least distance decides.                                  *)

ChordNode   == [id : Ids, active : BOOLEAN, keys : Seq(Keys)]
VirtualNode == [physical_node : Nat, position : Nat]

FingersLive(ns, fs) ==
  \A i \in Members(ns) : \A k \in 1 .. FingerCount : fs[i][k].node_id \in Names(ns)

DhtInv ==
  /\ dnodes \in Seq(ChordNode)
  /\ \A i \in DOMAIN dnodes : Len(dnodes[i].keys) <= MaxKeys
  /\ FingersLive(dnodes, fingers)
  /\ vnodes \in Seq(VirtualNode)

LEMMA DistanceIsNatural ==
  ASSUME NEW a \in Nat, NEW b \in Nat
  PROVE  Ahead(a, b) \in Nat
BY DhtAssumption DEF Ahead

LEMMA HashIsNatural ==
  ASSUME NEW key \in Nat
  PROVE  dht_hash(key) \in Nat
BY DhtAssumption DEF dht_hash

LEMMA LeastIsIn ==
  ASSUME NEW S, S \subseteq Nat, S # {}
  PROVE  Min(S) \in S /\ \A j \in S : Min(S) <= j
BY LeastNatural DEF Min

(* Of the places I those at the least distance d.                            *)
Nearest(I, d) == {i \in I : \A j \in I : d[i] <= d[j]}

LEMMA NearestExists ==
  ASSUME NEW I, I \subseteq Nat, I # {}, NEW d \in [I -> Nat]
  PROVE  /\ Nearest(I, d) # {} /\ Min(Nearest(I, d)) \in Nearest(I, d)
         /\ \A j \in Nearest(I, d) : Min(Nearest(I, d)) <= j
<1> DEFINE K == {d[i] : i \in I}
<1>1. PICK m \in K : \A y \in K : m <= y
  <2>1. K \subseteq Nat /\ K # {}
    OBVIOUS
  <2> HIDE DEF K
  <2> QED
    BY <2>1, LeastNatural
<1>2. PICK i \in I : d[i] = m
  BY <1>1
<1>3. \A j \in I : d[i] <= d[j]
  BY <1>1, <1>2
<1>4. i \in Nearest(I, d)
  BY <1>2, <1>3 DEF Nearest
<1>5. Nearest(I, d) \subseteq Nat
  BY DEF Nearest
<1> QED
  BY <1>4, <1>5, LeastIsIn

LEMMA NodeAt ==
  ASSUME NEW ns \in Seq(ChordNode), NEW i \in 1 .. Len(ns)
  PROVE  ns[i] \in ChordNode /\ ns[i].id \in Ids /\ ns[i].id \in Nat /\ ns[i].keys \in Seq(Keys)
<1>1. ns[i] \in ChordNode
  OBVIOUS
<1>2. ns[i].id \in Ids /\ ns[i].keys \in Seq(Keys)
  BY <1>1 DEF ChordNode
<1> QED
  BY <1>1, <1>2, DhtAssumption

LEMMA SuccessorIsMember ==
  ASSUME NEW ns \in Seq(ChordNode), Members(ns) # {}, NEW pos \in Nat
  PROVE  dht_find_successor(ns, pos) \in Members(ns)
<1> DEFINE I == Members(ns)
           d == [i \in I |-> Ahead(pos, ns[i].id % hash_space)]
<1>1. I \subseteq 1 .. Len(ns) /\ I \subseteq Nat
  BY DEF Members
<1>2. ASSUME NEW i \in I PROVE ns[i].id % hash_space \in Nat
  <2>1. ns[i].id \in Nat
    BY <1>1, NodeAt
  <2> QED
    BY <2>1, DhtAssumption
<1>3. d \in [I -> Nat]
  <2>1. \A i \in I : Ahead(pos, ns[i].id % hash_space) \in Nat
    BY <1>2, DistanceIsNatural
  <2> HIDE DEF I
  <2> QED
    BY <2>1
<1>4. Nearest(I, d) = {i \in I : \A j \in I : Ahead(pos, ns[i].id % hash_space) <= Ahead(pos, ns[j].id % hash_space)}
  <2> HIDE DEF I
  <2> QED
    BY DEF Nearest
<1>5. Nearest(I, d) # {} /\ Min(Nearest(I, d)) \in Nearest(I, d)
  <2> HIDE DEF I, d
  <2> QED
    BY <1>1, <1>3, NearestExists DEF I
<1>6. dht_find_successor(ns, pos) = Min(Nearest(I, d))
  <2> HIDE DEF d
  <2> QED
    BY <1>4, <1>5 DEF dht_find_successor
<1>7. Nearest(I, d) \subseteq I
  BY DEF Nearest
<1> HIDE DEF d
<1> QED
  BY <1>5, <1>6, <1>7

LEMMA LookupNamesMember ==
  ASSUME NEW ns \in Seq(ChordNode), Members(ns) # {}, NEW key \in Nat
  PROVE  chord_lookup(ns, key) \in Names(ns)
<1>1. dht_find_successor(ns, dht_hash(key)) \in Members(ns)
  BY HashIsNatural, SuccessorIsMember
<1>2. Members(ns) \subseteq 1 .. Len(ns)
  BY DEF Members
<1>3. dht_find_successor(ns, dht_hash(key)) # 0
  BY <1>1, <1>2
<1> QED
  BY <1>1, <1>3 DEF chord_lookup, Names

(* The tables that chord_build_finger_tables leaves are right.               *)
LEMMA FingersBuilt ==
  ASSUME NEW ns \in Seq(ChordNode)
  PROVE  FingersLive(ns, chord_build_finger_tables(ns))
<1> SUFFICES ASSUME NEW i \in Members(ns), NEW k \in 1 .. FingerCount
             PROVE  chord_build_finger_tables(ns)[i][k].node_id \in Names(ns)
  BY DEF FingersLive
<1>1. i \in DOMAIN ns /\ ns[i].active /\ ns[i].id \in Nat
  <2>1. i \in DOMAIN ns /\ ns[i].active
    BY DEF Members
  <2> QED
    BY <2>1, NodeAt
<1> DEFINE start == (ns[i].id + 2 ^ (k - 1)) % hash_space
<1>2. chord_build_finger_tables(ns)[i][k] = [start |-> start, node_id |-> chord_lookup(ns, start)]
  BY <1>1 DEF chord_build_finger_tables
<1>3. start \in Nat
  <2>1. 2 ^ (k - 1) \in Int
    BY DhtAssumption
  <2> QED
    BY <1>1, <2>1, DhtAssumption
<1> HIDE DEF start
<1>4. chord_lookup(ns, start) \in Names(ns)
  BY <1>3, LookupNamesMember
<1> QED
  BY <1>2, <1>4

(* A lookup by fingers names an active node.                                 *)
LEMMA FingerLookupLive ==
  ASSUME DhtInv, NEW id \in Names(dnodes), NEW key \in Keys
  PROVE  chord_finger_lookup(id, key) \in Names(dnodes)
<1> DEFINE i == Min(SlotOf(id))
           fit == {k \in 1 .. FingerCount : fingers[i][k].node_id >= 0
                      /\ dht_in_range(fingers[i][k].start, id, fingers[i][k].node_id)}
<1>1. i \in Members(dnodes)
  <2>1. SlotOf(id) # {} /\ SlotOf(id) \subseteq Members(dnodes)
    BY DEF Names, SlotOf
  <2>2. Members(dnodes) \subseteq Nat
    BY DEF Members, DhtInv
  <2> QED
    BY <2>1, <2>2, LeastIsIn
<1>2. chord_finger_lookup(id, key) = IF fit = {} THEN chord_lookup(dnodes, key) ELSE fingers[i][Max(fit)].node_id
  BY DEF chord_finger_lookup
<1>3. CASE fit = {}
  BY <1>1, <1>2, <1>3, LookupNamesMember, DhtAssumption DEF DhtInv
<1>4. CASE fit # {}
  <2>1. fit \subseteq 1 .. FingerCount
    OBVIOUS
  <2> HIDE DEF fit, i
  <2>2. Max(fit) \in 1 .. FingerCount
    <3>1. 1 \in Int /\ FingerCount \in Int
      BY DhtAssumption
    <3>2. Max(fit) \in fit
      BY <1>4, <2>1, <3>1, GreatestInRange
    <3> QED
      BY <2>1, <3>2
  <2> QED
    BY <1>1, <1>2, <1>4, <2>2 DEF DhtInv, FingersLive
<1> QED
  BY <1>3, <1>4

(* What is left of the ring when a step has changed dnodes and fingers.      *)
RingSound ==
  /\ dnodes' \in Seq(ChordNode)
  /\ \A i \in DOMAIN dnodes' : Len(dnodes'[i].keys) <= MaxKeys
  /\ FingersLive(dnodes', fingers')

(* No key is lost, but for want of room.                                     *)
LostForWantOfRoom ==
  Members(dnodes') # {} /\ ~(Held(dnodes) \subseteq Held(dnodes')) =>
    \E i \in Members(dnodes') : Len(dnodes'[i].keys) = MaxKeys

(* The keys that are held by an active node.                                 *)
LEMMA HeldByNode ==
  ASSUME NEW ns, NEW key
  PROVE  key \in Held(ns) <=> \E i \in Members(ns) : \E k \in DOMAIN ns[i].keys : ns[i].keys[k] = key
BY DEF Held

LEMMA Joined ==
  ASSUME DhtInv, NEW id \in Ids, chord_join(id)
  PROVE  RingSound /\ LostForWantOfRoom
<1> DEFINE new == [id |-> id, active |-> TRUE, keys |-> <<>>]
<1>1. dnodes \in Seq(ChordNode) /\ new \in ChordNode /\ dnodes' = Append(dnodes, new)
  BY DEF DhtInv, chord_join, ChordNode
<1>2. /\ dnodes' \in Seq(ChordNode)
      /\ DOMAIN dnodes = 1 .. Len(dnodes) /\ DOMAIN dnodes' = 1 .. Len(dnodes) + 1
      /\ Len(dnodes) \in Nat
      /\ \A i \in 1 .. Len(dnodes) : dnodes'[i] = dnodes[i]
      /\ dnodes'[Len(dnodes) + 1] = new
  BY <1>1
<1>3. \A i \in DOMAIN dnodes' : Len(dnodes'[i].keys) <= MaxKeys
  <2>1. Len(new.keys) <= MaxKeys
    BY DhtAssumption
  <2> QED
    BY <1>2, <2>1 DEF DhtInv
<1>4. FingersLive(dnodes', fingers')
  BY <1>2, FingersBuilt DEF chord_join
<1>5. Held(dnodes) \subseteq Held(dnodes')
  <2>1. \A i \in Members(dnodes) : i \in Members(dnodes') /\ dnodes'[i] = dnodes[i]
    BY <1>2 DEF Members
  <2> QED
    BY <2>1, HeldByNode
<1> QED
  BY <1>2, <1>3, <1>4, <1>5 DEF RingSound, LostForWantOfRoom

LEMMA Stored ==
  ASSUME DhtInv, NEW key \in Keys, chord_store(key)
  PROVE  RingSound /\ LostForWantOfRoom
<1> DEFINE S == SlotOf(chord_lookup(dnodes, key))
           i == Min(S)
<1>1. dnodes \in Seq(ChordNode) /\ Members(dnodes) # {} /\ Members(dnodes) \subseteq 1 .. Len(dnodes)
  BY DEF DhtInv, chord_store, Members
<1>2. i \in 1 .. Len(dnodes)
  <2>1. chord_lookup(dnodes, key) \in Names(dnodes)
    BY <1>1, LookupNamesMember, DhtAssumption
  <2>2. S # {} /\ S \subseteq 1 .. Len(dnodes)
    BY <1>1, <2>1 DEF SlotOf, Names
  <2> HIDE DEF S
  <2>3. S \subseteq Nat
    BY <1>1, <2>2
  <2> QED
    BY <2>2, <2>3, LeastIsIn
<1>3. Len(dnodes[i].keys) < MaxKeys /\ dnodes' = [dnodes EXCEPT ![i].keys = Append(@, key)]
      /\ fingers' = fingers
  BY DEF chord_store
<1> HIDE DEF i, S
<1>4. dnodes[i] \in ChordNode /\ dnodes[i].keys \in Seq(Keys) /\ Append(dnodes[i].keys, key) \in Seq(Keys)
  BY <1>1, <1>2, NodeAt
<1> DEFINE node == [dnodes[i] EXCEPT !.keys = Append(@, key)]
<1>5. node \in ChordNode /\ node.id = dnodes[i].id /\ node.active = dnodes[i].active
      /\ node.keys = Append(dnodes[i].keys, key)
  BY <1>4 DEF ChordNode
<1>6. dnodes' = [dnodes EXCEPT ![i] = node]
  BY <1>3
<1> HIDE DEF node
<1>7. /\ dnodes' \in Seq(ChordNode) /\ DOMAIN dnodes' = DOMAIN dnodes /\ DOMAIN dnodes = 1 .. Len(dnodes)
      /\ dnodes'[i] = node /\ \A j \in DOMAIN dnodes : j # i => dnodes'[j] = dnodes[j]
  BY <1>1, <1>2, <1>5, <1>6
<1>8. Members(dnodes') = Members(dnodes) /\ Names(dnodes') = Names(dnodes)
  BY <1>5, <1>7 DEF Members, Names
<1>9. \A j \in DOMAIN dnodes' : Len(dnodes'[j].keys) <= MaxKeys
  <2>1. Len(node.keys) <= MaxKeys
    BY <1>3, <1>4, <1>5, DhtAssumption
  <2> QED
    BY <1>7, <2>1 DEF DhtInv
<1>10. FingersLive(dnodes', fingers')
  BY <1>3, <1>8 DEF DhtInv, FingersLive
<1>11. Held(dnodes) \subseteq Held(dnodes')
  <2> SUFFICES ASSUME NEW x \in Held(dnodes) PROVE x \in Held(dnodes')
    OBVIOUS
  <2>1. PICK j \in Members(dnodes) : \E k \in DOMAIN dnodes[j].keys : dnodes[j].keys[k] = x
    BY HeldByNode
  <2>2. CASE j = i
    <3>1. PICK k \in DOMAIN dnodes[i].keys : dnodes[i].keys[k] = x
      BY <2>1, <2>2
    <3>2. k \in DOMAIN node.keys /\ node.keys[k] = x
      BY <1>4, <1>5, <3>1
    <3> QED
      BY <1>7, <1>8, <2>2, <3>2, HeldByNode
  <2>3. CASE j # i
    BY <1>7, <1>8, <2>1, <2>3, HeldByNode DEF Members
  <2> QED
    BY <2>2, <2>3
<1> QED
  BY <1>7, <1>9, <1>10, <1>11 DEF RingSound, LostForWantOfRoom

(* The heir of a node that leaves has its own keys and those handed over,    *)
(* or its array is full.                                                     *)
LEMMA HandedOver ==
  ASSUME NEW s \in Seq(Keys), NEW t \in Seq(Keys), Len(s) <= MaxKeys
  PROVE  LET r == SubSeq(s \o t, 1, Min({MaxKeys, Len(s) + Len(t)}))
         IN  /\ r \in Seq(Keys) /\ Len(r) <= MaxKeys
             /\ \A k \in DOMAIN s : k \in DOMAIN r /\ r[k] = s[k]
             /\ Len(r) # MaxKeys => \A k \in DOMAIN t : Len(s) + k \in DOMAIN r /\ r[Len(s) + k] = t[k]
<1> DEFINE n == Min({MaxKeys, Len(s) + Len(t)})
           r == SubSeq(s \o t, 1, n)
<1>1. MaxKeys \in Nat /\ Len(s) \in Nat /\ Len(t) \in Nat
  BY DhtAssumption
<1>2. n = IF MaxKeys <= Len(s) + Len(t) THEN MaxKeys ELSE Len(s) + Len(t)
  BY <1>1, LeastOfTwo
<1>3. /\ s \o t \in Seq(Keys) /\ Len(s \o t) = Len(s) + Len(t)
      /\ \A k \in 1 .. Len(s) : (s \o t)[k] = s[k]
      /\ \A k \in 1 .. Len(t) : (s \o t)[Len(s) + k] = t[k]
  OBVIOUS
<1>4. n \in Nat /\ n <= Len(s \o t) /\ n <= MaxKeys /\ Len(s) <= n /\ (n # MaxKeys => n = Len(s) + Len(t))
  BY <1>1, <1>2, <1>3
<1> DEFINE q == s \o t
<1> HIDE DEF n, q
<1>5. r = SubSeq(q, 1, n)
  BY DEF q
<1>6. r \in Seq(Keys) /\ Len(r) = n /\ \A k \in 1 .. n : r[k] = q[k]
  BY <1>3, <1>4, <1>5 DEF q
<1> HIDE DEF r
<1>7. r \in Seq(Keys) /\ Len(r) <= MaxKeys
  BY <1>4, <1>6
<1>8. ASSUME NEW k \in DOMAIN s PROVE k \in DOMAIN r /\ r[k] = s[k]
  BY <1>1, <1>3, <1>4, <1>6 DEF q
<1>9. ASSUME Len(r) # MaxKeys, NEW k \in DOMAIN t PROVE Len(s) + k \in DOMAIN r /\ r[Len(s) + k] = t[k]
  <2>1. Len(s) + k \in 1 .. n /\ k \in 1 .. Len(t)
    BY <1>1, <1>4, <1>6, <1>9
  <2> QED
    BY <1>3, <1>6, <2>1 DEF q
<1> QED
  BY <1>7, <1>8, <1>9 DEF r, n

LEMMA KeysReplaced ==
  ASSUME NEW x \in ChordNode, NEW q \in Seq(Keys)
  PROVE  LET y == [x EXCEPT !.keys = q]
         IN  y \in ChordNode /\ y.id = x.id /\ y.active = x.active /\ y.keys = q
BY DEF ChordNode

LEMMA LeaverShape ==
  ASSUME NEW x \in ChordNode
  PROVE  LET y == [x EXCEPT !.active = FALSE, !.keys = <<>>]
         IN  y \in ChordNode /\ y.active = FALSE /\ y.keys = <<>>
<1> DEFINE z == [x EXCEPT !.active = FALSE]
           y == [z EXCEPT !.keys = <<>>]
<1>1. z \in ChordNode /\ z.active = FALSE
  BY DEF ChordNode
<1>2. <<>> \in Seq(Keys)
  OBVIOUS
<1>3. y = [x EXCEPT !.active = FALSE, !.keys = <<>>]
  OBVIOUS
<1> HIDE DEF z
<1>4. y \in ChordNode /\ y.active = z.active /\ y.keys = <<>>
  BY <1>1, <1>2, KeysReplaced
<1> HIDE DEF y
<1> QED
  BY <1>1, <1>3, <1>4

LEMMA Left ==
  ASSUME DhtInv, NEW id \in Ids, chord_leave(id)
  PROVE  RingSound /\ LostForWantOfRoom
<1> DEFINE i == Min(SlotOf(id))
           others == Members(dnodes) \ {i}
           gone == [dnodes EXCEPT ![i].active = FALSE, ![i].keys = <<>>]
           leaver == [dnodes[i] EXCEPT !.active = FALSE, !.keys = <<>>]
           t == dnodes[i].keys
           moved(s) == SubSeq(s \o t, 1, Min({MaxKeys, Len(s) + Len(t)}))
<1>1. dnodes \in Seq(ChordNode) /\ Members(dnodes) \subseteq 1 .. Len(dnodes) /\ Members(dnodes) \subseteq Nat
      /\ DOMAIN dnodes = 1 .. Len(dnodes)
  BY DEF DhtInv, Members
<1>2. i \in Members(dnodes)
  <2>1. SlotOf(id) # {} /\ SlotOf(id) \subseteq Members(dnodes)
    BY DEF chord_leave, SlotOf
  <2> QED
    BY <1>1, <2>1, LeastIsIn
<1>3. dnodes' = IF others = {} THEN gone ELSE [gone EXCEPT ![Min(others)].keys = moved(@)]
  BY DEF chord_leave
<1>4. fingers' = chord_build_finger_tables(dnodes')
  BY DEF chord_leave
<1> HIDE DEF i
<1>5. dnodes[i] \in ChordNode /\ t \in Seq(Keys)
  BY <1>1, <1>2, NodeAt
<1>6. leaver \in ChordNode /\ leaver.active = FALSE /\ leaver.keys = <<>>
  BY <1>5, LeaverShape
<1>7. gone = [dnodes EXCEPT ![i] = leaver]
  BY <1>1, <1>2
<1> HIDE DEF leaver, gone
<1>8. /\ gone \in Seq(ChordNode) /\ DOMAIN gone = DOMAIN dnodes /\ gone[i] = leaver
      /\ \A j \in DOMAIN dnodes : j # i => gone[j] = dnodes[j]
  BY <1>1, <1>2, <1>6, <1>7
<1>9. Members(gone) = others /\ \A j \in others : gone[j] = dnodes[j] /\ j \in DOMAIN dnodes
  BY <1>6, <1>8 DEF Members
<1>10. \A j \in DOMAIN gone : Len(gone[j].keys) <= MaxKeys
  <2>1. Len(leaver.keys) <= MaxKeys
    BY <1>6, DhtAssumption
  <2> QED
    BY <1>8, <2>1 DEF DhtInv
<1>11. CASE others = {}
  <2>1. dnodes' = gone
    BY <1>3, <1>11
  <2>2. FingersLive(dnodes', fingers')
    BY <1>4, <1>8, <2>1, FingersBuilt
  <2> QED
    BY <1>8, <1>9, <1>10, <1>11, <2>1, <2>2 DEF RingSound, LostForWantOfRoom
<1>12. CASE others # {}
  <2> DEFINE h == Min(others)
             s == dnodes[h].keys
             r == moved(s)
             heir == [gone[h] EXCEPT !.keys = moved(@)]
  <2>1. h \in others
    <3> HIDE DEF others
    <3>1. others \subseteq Nat
      BY <1>1 DEF others
    <3> QED
      BY <1>12, <3>1, LeastIsIn
  <2>2. dnodes' = [gone EXCEPT ![h] = heir]
    BY <1>3, <1>12
  <2> HIDE DEF h
  <2>3. h \in DOMAIN dnodes /\ gone[h] = dnodes[h] /\ dnodes[h] \in ChordNode /\ s \in Seq(Keys)
        /\ Len(s) <= MaxKeys /\ h \in Members(dnodes)
    <3>1. h \in DOMAIN dnodes /\ gone[h] = dnodes[h] /\ h \in Members(dnodes)
      BY <1>9, <2>1
    <3> QED
      BY <1>1, <3>1, NodeAt DEF DhtInv
  <2>4. /\ r \in Seq(Keys) /\ Len(r) <= MaxKeys
        /\ \A k \in DOMAIN s : k \in DOMAIN r /\ r[k] = s[k]
        /\ Len(r) # MaxKeys => \A k \in DOMAIN t : Len(s) + k \in DOMAIN r /\ r[Len(s) + k] = t[k]
    <3> HIDE DEF s, t
    <3> QED
      BY <1>5, <2>3, HandedOver DEF s, t
  <2> HIDE DEF r, moved
  <2>5. heir \in ChordNode /\ heir.id = dnodes[h].id /\ heir.active = dnodes[h].active /\ heir.keys = r
    <3>1. heir = [dnodes[h] EXCEPT !.keys = r]
      BY <2>3 DEF r
    <3> QED
      BY <2>3, <2>4, <3>1 DEF ChordNode
  <2> HIDE DEF heir
  <2>6. /\ dnodes' \in Seq(ChordNode) /\ DOMAIN dnodes' = DOMAIN dnodes /\ dnodes'[h] = heir
        /\ \A j \in DOMAIN dnodes : j # h => dnodes'[j] = gone[j]
    BY <1>8, <2>2, <2>3, <2>5
  <2>7. Members(dnodes') = others
    <3>1. Members(dnodes') = Members(gone)
      BY <1>8, <2>3, <2>5, <2>6 DEF Members
    <3> QED
      BY <1>9, <3>1
  <2>8. \A j \in DOMAIN dnodes' : Len(dnodes'[j].keys) <= MaxKeys
    BY <1>8, <1>10, <2>4, <2>5, <2>6
  <2>9. FingersLive(dnodes', fingers')
    BY <1>4, <2>6, FingersBuilt
  <2>10. ASSUME Len(r) # MaxKeys, NEW x \in Held(dnodes) PROVE x \in Held(dnodes')
    <3>1. PICK j \in Members(dnodes) : \E k \in DOMAIN dnodes[j].keys : dnodes[j].keys[k] = x
      BY HeldByNode
    <3>2. PICK k \in DOMAIN dnodes[j].keys : dnodes[j].keys[k] = x
      BY <3>1
    <3>3. CASE j = i
      <4>1. Len(s) + k \in DOMAIN r /\ r[Len(s) + k] = x
        BY <2>4, <2>10, <3>2, <3>3
      <4> QED
        BY <2>1, <2>5, <2>6, <2>7, <4>1, HeldByNode
    <3>4. CASE j = h
      <4>1. k \in DOMAIN r /\ r[k] = x
        BY <2>4, <3>2, <3>4
      <4> QED
        BY <2>1, <2>5, <2>6, <2>7, <4>1, HeldByNode
    <3>5. CASE j # i /\ j # h
      <4>1. j \in others /\ dnodes'[j] = dnodes[j]
        BY <1>9, <2>6, <3>5
      <4> QED
        BY <2>7, <3>2, <4>1, HeldByNode
    <3> QED
      BY <3>3, <3>4, <3>5
  <2>11. LostForWantOfRoom
    <3>1. CASE Len(r) = MaxKeys
      BY <2>1, <2>5, <2>6, <2>7, <3>1 DEF LostForWantOfRoom
    <3>2. CASE Len(r) # MaxKeys
      BY <2>10, <3>2 DEF LostForWantOfRoom
    <3> QED
      BY <3>1, <3>2
  <2> QED
    BY <2>6, <2>8, <2>9, <2>11 DEF RingSound
<1> QED
  BY <1>11, <1>12

-----------------------------------------------------------------------------
(* The ring of virtual nodes.                                                *)

Distance(vs, key, i) == Ahead(dht_hash(key), vs[i].position)

(* m is the first virtual node at the least distance from the key.           *)
IsFirst(vs, key, m) ==
  /\ m \in 1 .. Len(vs)
  /\ \A j \in 1 .. Len(vs) : /\ Distance(vs, key, m) <= Distance(vs, key, j)
                             /\ Distance(vs, key, j) = Distance(vs, key, m) => m <= j

LEMMA DistanceTyped ==
  ASSUME NEW vs \in Seq(VirtualNode), NEW key \in Keys
  PROVE  \A i \in 1 .. Len(vs) : Distance(vs, key, i) \in Nat
<1> TAKE i \in 1 .. Len(vs)
<1>1. vs[i] \in VirtualNode
  OBVIOUS
<1>2. vs[i].position \in Nat
  BY <1>1 DEF VirtualNode
<1>3. dht_hash(key) \in Nat
  BY HashIsNatural, DhtAssumption
<1> QED
  BY <1>2, <1>3, DistanceIsNatural DEF Distance

LEMMA FirstDecides ==
  ASSUME NEW vs \in Seq(VirtualNode), NEW key \in Keys
  PROVE  /\ vs = <<>> => ch_lookup(vs, key) = -1
         /\ vs # <<>> => \E m : IsFirst(vs, key, m)
         /\ \A m : IsFirst(vs, key, m) => ch_lookup(vs, key) = vs[m].physical_node
<1> DEFINE I == 1 .. Len(vs)
           d == [i \in I |-> Distance(vs, key, i)]
           best == {i \in DOMAIN vs : \A j \in DOMAIN vs :
                      Ahead(dht_hash(key), vs[i].position) <= Ahead(dht_hash(key), vs[j].position)}
<1>1. DOMAIN vs = I /\ I \subseteq Nat /\ Len(vs) \in Nat
  OBVIOUS
<1>2. \A i \in I : Distance(vs, key, i) \in Nat
  BY DistanceTyped
<1>3. d \in [I -> Nat]
  BY <1>2
<1>4. best = Nearest(I, d)
  BY <1>1 DEF Nearest, Distance
<1>5. ch_lookup(vs, key) = IF best = {} THEN -1 ELSE vs[Min(best)].physical_node
  BY DEF ch_lookup
<1>6. vs = <<>> => ch_lookup(vs, key) = -1
  <2> SUFFICES ASSUME vs = <<>> PROVE best = {}
    BY <1>5
  <2> QED
    BY <1>1
<1>7. ASSUME vs # <<>> PROVE IsFirst(vs, key, Min(best)) /\ best # {}
  <2>1. I # {}
    BY <1>1, <1>7
  <2> DEFINE m == Min(Nearest(I, d))
  <2>2. Nearest(I, d) # {} /\ m \in Nearest(I, d) /\ \A j \in Nearest(I, d) : m <= j
    <3> HIDE DEF I, d
    <3> QED
      BY <1>1, <1>3, <2>1, NearestExists
  <2> HIDE DEF m
  <2>3. m \in I /\ \A j \in I : d[m] <= d[j]
    BY <2>2 DEF Nearest
  <2>4. ASSUME NEW j \in I, d[j] = d[m] PROVE m <= j
    <3>1. j \in Nearest(I, d)
      BY <2>3, <2>4 DEF Nearest
    <3> QED
      BY <2>2, <3>1
  <2>5. \A j \in I : d[j] = Distance(vs, key, j)
    OBVIOUS
  <2>6. IsFirst(vs, key, m)
    <3> HIDE DEF d
    <3> QED
      BY <2>3, <2>4, <2>5 DEF IsFirst
  <2> HIDE DEF best
  <2> QED
    BY <1>4, <2>2, <2>6 DEF m
<1>8. ASSUME NEW m, IsFirst(vs, key, m) PROVE ch_lookup(vs, key) = vs[m].physical_node
  <2> DEFINE n == Min(best)
  <2>1. vs # <<>>
    BY <1>8 DEF IsFirst
  <2>2. IsFirst(vs, key, n) /\ best # {}
    BY <1>7, <2>1
  <2> HIDE DEF best, n
  <2>3. m \in I /\ n \in I /\ Distance(vs, key, m) = Distance(vs, key, n)
    BY <1>2, <1>8, <2>2 DEF IsFirst
  <2>4. m = n
    BY <1>8, <2>2, <2>3 DEF IsFirst
  <2> QED
    BY <1>5, <2>2, <2>4 DEF n
<1> QED
  BY <1>6, <1>7, <1>8

(* A key that moves when virtual nodes are added moves to one of them.       *)
LEMMA Added ==
  ASSUME DhtInv, NEW p \in Ids, ch_add_node(p)
  PROVE  vnodes' \in Seq(VirtualNode) /\ OnlyTheirKeysMove
<1> DEFINE new == [v \in 1 .. NumVnodes |-> [physical_node |-> p, position |-> dht_hash(p * 1000 + (v - 1))]]
           n == Min({MaxSlots, Len(vnodes) + NumVnodes})
           all == vnodes \o new
<1>1. vnodes \in Seq(VirtualNode) /\ Len(vnodes) \in Nat /\ NumVnodes \in Nat /\ MaxSlots \in Nat /\ p \in Nat
      /\ Len(vnodes) < MaxSlots
  BY DhtAssumption DEF DhtInv, ch_add_node
<1>2. vnodes' = SubSeq(all, 1, n)
  BY DEF ch_add_node
<1>3. new \in Seq(VirtualNode) /\ Len(new) = NumVnodes /\ \A v \in 1 .. NumVnodes : new[v].physical_node = p
  <2>1. \A v \in 1 .. NumVnodes : [physical_node |-> p, position |-> dht_hash(p * 1000 + (v - 1))] \in VirtualNode
    <3> TAKE v \in 1 .. NumVnodes
    <3>1. p * 1000 + (v - 1) \in Nat
      BY <1>1
    <3>2. dht_hash(p * 1000 + (v - 1)) \in Nat
      BY <3>1, HashIsNatural
    <3> QED
      BY <1>1, <3>2 DEF VirtualNode
  <2>2. new \in [1 .. NumVnodes -> VirtualNode]
    BY <2>1
  <2>3. \A v \in 1 .. NumVnodes : new[v].physical_node = p
    OBVIOUS
  <2> HIDE DEF new
  <2> QED
    BY <1>1, <2>2, <2>3
<1> HIDE DEF new
<1>4. /\ all \in Seq(VirtualNode) /\ Len(all) = Len(vnodes) + NumVnodes
      /\ \A j \in 1 .. Len(vnodes) : all[j] = vnodes[j]
      /\ \A j \in 1 .. Len(all) : j > Len(vnodes) => all[j].physical_node = p
  <2>1. /\ all \in Seq(VirtualNode) /\ Len(all) = Len(vnodes) + NumVnodes
        /\ \A j \in 1 .. Len(vnodes) : all[j] = vnodes[j]
        /\ \A v \in 1 .. NumVnodes : all[Len(vnodes) + v] = new[v]
    BY <1>1, <1>3
  <2> HIDE DEF all
  <2>2. ASSUME NEW j \in 1 .. Len(all), j > Len(vnodes) PROVE all[j].physical_node = p
    <3>1. PICK v \in 1 .. NumVnodes : j = Len(vnodes) + v
      <4>1. j - Len(vnodes) \in 1 .. NumVnodes /\ j = Len(vnodes) + (j - Len(vnodes))
        BY <1>1, <2>1, <2>2
      <4> QED
        BY <4>1
    <3>2. all[j] = new[v]
      BY <2>1, <3>1
    <3> QED
      BY <1>3, <3>1, <3>2
  <2> QED
    BY <2>1, <2>2
<1>5. n \in Nat /\ n <= Len(all) /\ Len(vnodes) <= n
  <2>1. n = IF MaxSlots <= Len(vnodes) + NumVnodes THEN MaxSlots ELSE Len(vnodes) + NumVnodes
    BY <1>1, LeastOfTwo
  <2> HIDE DEF n, all
  <2> QED
    BY <1>1, <1>4, <2>1
<1> HIDE DEF n, all
<1>6. /\ vnodes' \in Seq(VirtualNode) /\ Len(vnodes') = n
      /\ \A j \in 1 .. Len(vnodes) : vnodes'[j] = vnodes[j]
      /\ \A j \in 1 .. n : j > Len(vnodes) => vnodes'[j].physical_node = p
  <2>1. vnodes' \in Seq(VirtualNode) /\ Len(vnodes') = n /\ \A j \in 1 .. n : vnodes'[j] = all[j]
    BY <1>2, <1>4, <1>5
  <2> QED
    BY <1>1, <1>4, <1>5, <2>1
<1>7. ASSUME NEW key \in Keys, ch_lookup(vnodes', key) # ch_lookup(vnodes, key)
      PROVE  Len(vnodes') > Len(vnodes) /\ ch_lookup(vnodes', key) = vnodes'[Len(vnodes')].physical_node
  <2>1. vnodes' # <<>>
    <3> SUFFICES ASSUME vnodes' = <<>> PROVE FALSE
      OBVIOUS
    <3>1. vnodes = <<>>
      BY <1>1, <1>5, <1>6
    <3> QED
      BY <1>7, <3>1
  <2>2. PICK m : IsFirst(vnodes', key, m)
    BY <1>6, <2>1, FirstDecides
  <2>3. m \in 1 .. n /\ ch_lookup(vnodes', key) = vnodes'[m].physical_node
    BY <1>6, <2>2, FirstDecides DEF IsFirst
  <2>4. m > Len(vnodes)
    <3> SUFFICES ASSUME m <= Len(vnodes) PROVE FALSE
      BY <1>1, <1>5, <2>3
    <3>1. m \in 1 .. Len(vnodes) /\ \A j \in 1 .. Len(vnodes) : j \in 1 .. n
      BY <1>1, <1>5, <2>3
    <3>2. \A j \in 1 .. Len(vnodes) : Distance(vnodes', key, j) = Distance(vnodes, key, j)
      BY <1>6 DEF Distance
    <3>3. IsFirst(vnodes, key, m)
      BY <1>6, <2>2, <3>1, <3>2 DEF IsFirst
    <3>4. ch_lookup(vnodes, key) = vnodes[m].physical_node
      BY <1>1, <3>3, FirstDecides
    <3> QED
      BY <1>6, <1>7, <2>3, <3>1, <3>4
  <2> QED
    BY <1>1, <1>5, <1>6, <2>3, <2>4
<1> QED
  BY <1>6, <1>7 DEF OnlyTheirKeysMove

(* g is what the loop of ch_remove_node has kept of vs after each of its     *)
(* first n turns.                                                            *)
Removal(vs, p, n, g) ==
  /\ g \in [0 .. n -> Seq(VirtualNode)]
  /\ g[0] = <<>>
  /\ \A i \in 1 .. n : g[i] = IF vs[i].physical_node # p THEN Append(g[i - 1], vs[i]) ELSE g[i - 1]

LEMMA RemovalGoesOn ==
  ASSUME NEW vs \in Seq(VirtualNode), NEW p, NEW n \in 0 .. Len(vs), n + 1 <= Len(vs),
         NEW g, Removal(vs, p, n, g)
  PROVE  \E h : Removal(vs, p, n + 1, h)
<1> DEFINE next == IF vs[n + 1].physical_node # p THEN Append(g[n], vs[n + 1]) ELSE g[n]
           h == [i \in 0 .. n + 1 |-> IF i = n + 1 THEN next ELSE g[i]]
<1>1. n \in Nat /\ n + 1 \in 1 .. Len(vs) /\ g \in [0 .. n -> Seq(VirtualNode)] /\ g[0] = <<>>
  BY DEF Removal
<1>2. next \in Seq(VirtualNode)
  <2>1. g[n] \in Seq(VirtualNode) /\ vs[n + 1] \in VirtualNode
    BY <1>1
  <2> QED
    BY <2>1
<1> HIDE DEF next
<1>3. h \in [0 .. n + 1 -> Seq(VirtualNode)] /\ h[n + 1] = next /\ \A i \in 0 .. n : h[i] = g[i]
  BY <1>1, <1>2
<1> HIDE DEF h
<1>4. ASSUME NEW i \in 1 .. n + 1
      PROVE  h[i] = IF vs[i].physical_node # p THEN Append(h[i - 1], vs[i]) ELSE h[i - 1]
  <2>1. CASE i = n + 1
    <3>1. h[i - 1] = g[n] /\ h[i] = next
      BY <1>1, <1>3, <2>1
    <3> QED
      BY <2>1, <3>1 DEF next
  <2>2. CASE i # n + 1
    <3>1. i \in 1 .. n /\ i \in 0 .. n /\ i - 1 \in 0 .. n
      BY <1>1, <2>2
    <3>2. h[i] = g[i] /\ h[i - 1] = g[i - 1]
      BY <1>3, <3>1
    <3> QED
      BY <3>1, <3>2 DEF Removal
  <2> QED
    BY <2>1, <2>2
<1>5. h[0] = <<>>
  BY <1>1, <1>3
<1> QED
  BY <1>3, <1>4, <1>5 DEF Removal

LEMMA RemovalExists ==
  ASSUME NEW vs \in Seq(VirtualNode), NEW p
  PROVE  \E g : Removal(vs, p, Len(vs), g)
<1> DEFINE Bad == {n \in 0 .. Len(vs) : ~\E g : Removal(vs, p, n, g)}
<1>1. CASE Bad = {}
  <2>1. Len(vs) \in 0 .. Len(vs)
    OBVIOUS
  <2> QED
    BY <1>1, <2>1
<1>2. CASE Bad # {}
  <2>1. PICK n \in Bad : \A l \in Bad : n <= l
    <3>1. Bad \subseteq Nat
      OBVIOUS
    <3> HIDE DEF Bad
    <3> QED
      BY <3>1, <1>2, LeastNatural
  <2>2. n \in 0 .. Len(vs) /\ ~\E g : Removal(vs, p, n, g)
    OBVIOUS
  <2>3. n # 0
    <3> DEFINE g == [i \in 0 .. 0 |-> <<>>]
    <3>1. Removal(vs, p, 0, g)
      <4>1. <<>> \in Seq(VirtualNode)
        OBVIOUS
      <4> QED
        BY <4>1 DEF Removal
    <3> HIDE DEF g
    <3> QED
      BY <2>2, <3>1
  <2>4. n - 1 \in 0 .. Len(vs) /\ (n - 1) + 1 <= Len(vs) /\ (n - 1) + 1 = n
    BY <2>2, <2>3
  <2>5. n - 1 \notin Bad
    <3> HIDE DEF Bad
    <3> QED
      BY <2>1, <2>2, <2>4
  <2>6. \E g : Removal(vs, p, n - 1, g)
    BY <2>4, <2>5
  <2>7. \E g : Removal(vs, p, (n - 1) + 1, g)
    BY <2>4, <2>6, RemovalGoesOn
  <2> QED
    BY <2>2, <2>4, <2>7
<1> QED
  BY <1>1, <1>2

(* s is what is left of the first i virtual nodes of vs without those of p,  *)
(* in order; f gives the places they had.                                    *)
Places(vs, p, i, s, f) ==
  /\ f \in [1 .. Len(s) -> 1 .. i]
  /\ \A a, b \in 1 .. Len(s) : a < b => f[a] < f[b]
  /\ \A a \in 1 .. Len(s) : s[a] = vs[f[a]] /\ vs[f[a]].physical_node # p
  /\ \A j \in 1 .. i : vs[j].physical_node # p => \E a \in 1 .. Len(s) : f[a] = j

Remainder(vs, p, i, s) ==
  s \in Seq(VirtualNode) /\ Len(s) <= i /\ \E f : Places(vs, p, i, s, f)

LEMMA RemainderGrows ==
  ASSUME NEW vs \in Seq(VirtualNode), NEW p, NEW i \in 1 .. Len(vs), NEW s, Remainder(vs, p, i - 1, s)
  PROVE  Remainder(vs, p, i, IF vs[i].physical_node # p THEN Append(s, vs[i]) ELSE s)
<1>1. s \in Seq(VirtualNode) /\ Len(s) \in Nat /\ Len(s) <= i - 1 /\ i \in Nat /\ i >= 1 /\ vs[i] \in VirtualNode
  BY DEF Remainder
<1>2. PICK f : Places(vs, p, i - 1, s, f)
  BY DEF Remainder
<1>3. CASE vs[i].physical_node = p
  <2>1. Places(vs, p, i, s, f)
    BY <1>1, <1>2, <1>3 DEF Places
  <2> QED
    BY <1>1, <1>3, <2>1 DEF Remainder
<1>4. CASE vs[i].physical_node # p
  <2> DEFINE t == Append(s, vs[i])
             n == Len(s)
             g == [a \in 1 .. n + 1 |-> IF a = n + 1 THEN i ELSE f[a]]
  <2>1. t \in Seq(VirtualNode) /\ Len(t) = n + 1 /\ t[n + 1] = vs[i] /\ \A a \in 1 .. n : t[a] = s[a]
    BY <1>1
  <2>2. f \in [1 .. n -> 1 .. i - 1]
    BY <1>2 DEF Places
  <2>3. g \in [1 .. n + 1 -> 1 .. i] /\ g[n + 1] = i /\ \A a \in 1 .. n : g[a] = f[a] /\ g[a] < i
    <3>1. n \in Nat
      BY <1>1
    <3> HIDE DEF n
    <3>2. \A a \in 1 .. n + 1 : a # n + 1 => a \in 1 .. n
      BY <3>1
    <3>3. \A a \in 1 .. n : f[a] \in 1 .. i /\ f[a] < i /\ a \in 1 .. n + 1 /\ a # n + 1
      BY <1>1, <2>2, <3>1
    <3>4. n + 1 \in 1 .. n + 1 /\ i \in 1 .. i
      BY <1>1, <3>1
    <3>5. g \in [1 .. n + 1 -> 1 .. i]
      BY <3>2, <3>3, <3>4
    <3> QED
      BY <3>3, <3>4, <3>5
  <2> HIDE DEF t, g, n
  <2>4. n \in Nat /\ n = Len(s) /\ \A a \in 1 .. n + 1 : a = n + 1 \/ a \in 1 .. n
    BY <1>1 DEF n
  <2>5. ASSUME NEW a \in 1 .. n + 1, NEW b \in 1 .. n + 1, a < b PROVE g[a] < g[b]
    <3>1. a \in 1 .. n
      BY <2>4, <2>5
    <3>2. CASE b = n + 1
      BY <2>3, <3>1, <3>2
    <3>3. CASE b \in 1 .. n
      BY <1>2, <2>3, <2>4, <2>5, <3>1, <3>3 DEF Places
    <3> QED
      BY <2>4, <3>2, <3>3
  <2>6. ASSUME NEW a \in 1 .. n + 1 PROVE t[a] = vs[g[a]] /\ vs[g[a]].physical_node # p
    <3>1. CASE a = n + 1
      BY <1>4, <2>1, <2>3, <3>1
    <3>2. CASE a \in 1 .. n
      BY <1>2, <2>1, <2>3, <2>4, <3>2 DEF Places
    <3> QED
      BY <2>4, <3>1, <3>2
  <2>7. ASSUME NEW j \in 1 .. i, vs[j].physical_node # p PROVE \E a \in 1 .. n + 1 : g[a] = j
    <3>1. CASE j = i
      BY <2>3, <2>4, <3>1
    <3>2. CASE j # i
      <4>1. j \in 1 .. i - 1
        BY <1>1, <3>2
      <4>2. PICK a \in 1 .. n : f[a] = j
        BY <1>2, <2>4, <2>7, <4>1 DEF Places
      <4> QED
        BY <2>3, <2>4, <4>2
    <3> QED
      BY <3>1, <3>2
  <2>8. Places(vs, p, i, t, g)
    BY <2>1, <2>3, <2>5, <2>6, <2>7 DEF Places
  <2>9. Len(t) <= i
    BY <1>1, <2>1, <2>4
  <2> QED
    BY <1>4, <2>1, <2>8, <2>9 DEF Remainder, t
<1> QED
  BY <1>3, <1>4

LEMMA RemainderIsLeft ==
  ASSUME NEW vs \in Seq(VirtualNode), NEW p
  PROVE  Remainder(vs, p, Len(vs), Without(vs, p))
<1> DEFINE n == Len(vs)
           F(k) == [i \in 0 .. n |->
                      IF i = 0 THEN <<>>
                      ELSE IF vs[i].physical_node # p THEN Append(k[i - 1], vs[i]) ELSE k[i - 1]]
           kept == CHOOSE k : k = F(k)
<1>1. n \in Nat
  OBVIOUS
<1>2. PICK g : Removal(vs, p, n, g)
  BY RemovalExists
<1>3. g = F(g)
  <2>1. ASSUME NEW i \in 0 .. n PROVE g[i] = F(g)[i]
    <3>1. CASE i = 0
      BY <1>2, <3>1 DEF Removal
    <3>2. CASE i # 0
      <4>1. i \in 1 .. n
        BY <1>1, <3>2
      <4> QED
        BY <1>2, <3>2, <4>1 DEF Removal
    <3> QED
      BY <3>1, <3>2
  <2>2. g \in [0 .. n -> Seq(VirtualNode)]
    BY <1>2 DEF Removal
  <2> QED
    BY <2>1, <2>2
<1>4. kept = F(kept)
  <2> HIDE DEF F
  <2> QED
    BY <1>3
<1>5. Without(vs, p) = kept[n]
  BY DEF Without
<1> HIDE DEF kept
<1>6. kept[0] = <<>> /\ \A i \in 1 .. n :
        kept[i] = IF vs[i].physical_node # p THEN Append(kept[i - 1], vs[i]) ELSE kept[i - 1]
  <2>1. 0 \in 0 .. n /\ \A i \in 1 .. n : i \in 0 .. n /\ i # 0
    BY <1>1
  <2> QED
    BY <1>4, <2>1
<1> HIDE DEF F
<1> DEFINE Bad == {i \in 0 .. n : ~Remainder(vs, p, i, kept[i])}
<1>7. CASE Bad = {}
  BY <1>1, <1>5, <1>7
<1>8. CASE Bad # {}
  <2>1. PICK i \in Bad : \A l \in Bad : i <= l
    <3>1. Bad \subseteq Nat
      OBVIOUS
    <3> HIDE DEF Bad
    <3> QED
      BY <3>1, <1>8, LeastNatural
  <2>2. i \in 0 .. n /\ ~Remainder(vs, p, i, kept[i])
    OBVIOUS
  <2>3. i # 0
    <3>1. Remainder(vs, p, 0, <<>>)
      <4> DEFINE f == [a \in 1 .. 0 |-> 0]
      <4>1. Places(vs, p, 0, <<>>, f)
        BY DEF Places
      <4>2. <<>> \in Seq(VirtualNode) /\ Len(<<>>) <= 0
        OBVIOUS
      <4> HIDE DEF f
      <4> QED
        BY <4>1, <4>2 DEF Remainder
    <3> QED
      BY <1>6, <2>2, <3>1
  <2>4. i \in 1 .. n /\ i - 1 \in 0 .. n /\ i - 1 < i
    BY <1>1, <2>2, <2>3
  <2>5. i - 1 \notin Bad
    <3> HIDE DEF Bad
    <3> QED
      BY <2>1, <2>2, <2>4
  <2>6. Remainder(vs, p, i - 1, kept[i - 1])
    BY <2>4, <2>5
  <2>7. Remainder(vs, p, i, kept[i])
    BY <1>6, <2>4, <2>6, RemainderGrows
  <2> QED
    BY <2>2, <2>7
<1> QED
  BY <1>7, <1>8

(* A key that moves when virtual nodes are removed was at one of them.       *)
LEMMA Removed ==
  ASSUME DhtInv, NEW p \in Ids, ch_remove_node(p)
  PROVE  vnodes' \in Seq(VirtualNode) /\ OnlyTheirKeysMove
<1> DEFINE s == vnodes'
<1>1. vnodes \in Seq(VirtualNode) /\ Len(vnodes) \in Nat
  BY DEF DhtInv
<1>2. Remainder(vnodes, p, Len(vnodes), s)
  BY <1>1, RemainderIsLeft DEF ch_remove_node
<1>3. s \in Seq(VirtualNode) /\ Len(s) \in Nat /\ Len(s) <= Len(vnodes) /\ DOMAIN s = 1 .. Len(s)
  BY <1>2 DEF Remainder
<1>4. PICK f : Places(vnodes, p, Len(vnodes), s, f)
  BY <1>2 DEF Remainder
<1> HIDE DEF s
<1>5. ASSUME NEW key \in Keys, ch_lookup(s, key) # ch_lookup(vnodes, key)
      PROVE  \A v \in 1 .. Len(s) : s[v].physical_node # ch_lookup(vnodes, key)
  <2>1. vnodes # <<>>
    <3> SUFFICES ASSUME vnodes = <<>> PROVE FALSE
      OBVIOUS
    <3>1. s = <<>>
      BY <1>1, <1>3
    <3> QED
      BY <1>5, <3>1
  <2>2. PICK m : IsFirst(vnodes, key, m)
    BY <1>1, <2>1, FirstDecides
  <2>3. m \in 1 .. Len(vnodes) /\ ch_lookup(vnodes, key) = vnodes[m].physical_node
    BY <1>1, <2>2, FirstDecides DEF IsFirst
  <2>4. CASE vnodes[m].physical_node = p
    BY <1>4, <2>3, <2>4 DEF Places
  <2>5. CASE vnodes[m].physical_node # p
    <3>1. PICK a \in 1 .. Len(s) : f[a] = m
      BY <1>4, <2>3, <2>5 DEF Places
    <3>2. f \in [1 .. Len(s) -> 1 .. Len(vnodes)] /\ \A b \in 1 .. Len(s) : s[b] = vnodes[f[b]]
      BY <1>4 DEF Places
    <3>3. \A b \in 1 .. Len(s) : Distance(s, key, b) = Distance(vnodes, key, f[b])
      BY <3>2 DEF Distance
    <3>4. ASSUME NEW b \in 1 .. Len(s)
          PROVE  /\ Distance(s, key, a) <= Distance(s, key, b)
                 /\ Distance(s, key, b) = Distance(s, key, a) => a <= b
      <4>1. f[b] \in 1 .. Len(vnodes)
        BY <3>2
      <4>2. Distance(vnodes, key, m) <= Distance(vnodes, key, f[b])
            /\ (Distance(vnodes, key, f[b]) = Distance(vnodes, key, m) => m <= f[b])
        BY <2>2, <4>1 DEF IsFirst
      <4>3. m <= f[b] => a <= b
        <5> SUFFICES ASSUME m <= f[b], b < a PROVE FALSE
          BY <1>3
        <5>1. f[b] < f[a]
          BY <1>4 DEF Places
        <5> QED
          BY <1>1, <2>3, <3>1, <4>1, <5>1
      <4> QED
        BY <3>1, <3>3, <4>2, <4>3
    <3>5. IsFirst(s, key, a)
      BY <3>4 DEF IsFirst
    <3>6. ch_lookup(s, key) = s[a].physical_node
      BY <1>3, <3>5, FirstDecides
    <3> QED
      BY <1>5, <2>3, <3>1, <3>2, <3>6
  <2> QED
    BY <2>4, <2>5
<1>6. ~(Len(s) > Len(vnodes))
  BY <1>1, <1>3
<1> QED
  BY <1>3, <1>5, <1>6 DEF OnlyTheirKeysMove, s

-----------------------------------------------------------------------------
LEMMA DhtStarts == chord_init /\ ch_init => DhtInv
<1> SUFFICES ASSUME chord_init, ch_init PROVE DhtInv
  OBVIOUS
<1>1. dnodes = <<>> /\ vnodes = <<>> /\ Members(dnodes) = {}
  BY DEF chord_init, ch_init, Members
<1> QED
  BY <1>1 DEF DhtInv, FingersLive

FingersName == \A id \in Names(dnodes), key \in Keys : chord_finger_lookup(id, key) \in Names(dnodes)

LEMMA DhtKeeps ==
  ASSUME DhtInv, DhtNext
  PROVE  DhtInv' /\ LostForWantOfRoom /\ OnlyTheirKeysMove
<1>1. ASSUME RingSound, vnodes' = vnodes PROVE DhtInv' /\ OnlyTheirKeysMove
  BY <1>1 DEF DhtInv, RingSound, OnlyTheirKeysMove
<1>2. ASSUME vnodes' \in Seq(VirtualNode), UNCHANGED <<dnodes, fingers>>
      PROVE  DhtInv' /\ LostForWantOfRoom
  BY <1>2 DEF DhtInv, LostForWantOfRoom
<1>3. ASSUME NEW id \in Ids, chord_join(id) PROVE DhtInv' /\ LostForWantOfRoom /\ OnlyTheirKeysMove
  BY <1>1, <1>3, Joined DEF chord_join
<1>4. ASSUME NEW id \in Ids, chord_leave(id) PROVE DhtInv' /\ LostForWantOfRoom /\ OnlyTheirKeysMove
  BY <1>1, <1>4, Left DEF chord_leave
<1>5. ASSUME NEW key \in Keys, chord_store(key) PROVE DhtInv' /\ LostForWantOfRoom /\ OnlyTheirKeysMove
  BY <1>1, <1>5, Stored DEF chord_store
<1>6. ASSUME NEW p \in Ids, ch_add_node(p) PROVE DhtInv' /\ LostForWantOfRoom /\ OnlyTheirKeysMove
  BY <1>2, <1>6, Added DEF ch_add_node
<1>7. ASSUME NEW p \in Ids, ch_remove_node(p) PROVE DhtInv' /\ LostForWantOfRoom /\ OnlyTheirKeysMove
  BY <1>2, <1>7, Removed DEF ch_remove_node
<1> QED
  BY <1>3, <1>4, <1>5, <1>6, <1>7 DEF DhtNext, ChordNext, HashNext

(* chord_join, chord_leave, chord_store, ch_add_node, ch_remove_node, on     *)
(* rings of any size: while a node stays active a key is lost only when an   *)
(* array is full, a finger lookup names an active node, and the lookup of a  *)
(* key changes only to a virtual node that is added or from one that is      *)
(* removed.                                                                  *)
THEOREM KeysStayOnTheRing == DhtSpec => KeysHandedOver
<1>1. DhtInv /\ UNCHANGED dhtVars => DhtInv'
  BY DEF DhtInv, dhtVars, FingersLive, Members, Names
<1>2. DhtInv /\ [DhtNext]_dhtVars => DhtInv'
  BY <1>1, DhtKeeps
<1>3. DhtInv => FingersName
  BY FingerLookupLive DEF FingersName
<1>4. DhtInv /\ FingersName' /\ [DhtNext]_dhtVars => [KeysKept /\ OnlyTheirKeysMove]_dhtVars
  BY DhtKeeps DEF KeysKept, LostForWantOfRoom, FingersName
<1> QED
  BY <1>2, <1>3, <1>4, DhtStarts, PTL DEF DhtSpec, KeysHandedOver
=============================================================================
