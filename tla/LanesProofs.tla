---------------------------- MODULE LanesProofs ----------------------------
(***************************************************************************)
(* The packet loops for any pool, lanes, queues, batches and frames: every *)
(* buffer out of the pool has exactly one owner, and the frames of a flow  *)
(* are written in order and at most once.                                  *)
(*                                                                         *)
(* The two belong together.  A frame that the reassembler held twice, or   *)
(* held behind its release point, would leave it without being counted;    *)
(* that a frame comes through one lane once is why neither happens.        *)
(*                                                                         *)
(* At the end, the pool itself, whose acquisition and drop are single      *)
(* steps here and several in module PacketPool: it keeps its budget with   *)
(* any number of tasks, buffers and limits.                                *)
(***************************************************************************)
EXTENDS Lanes, PacketPool, FiniteSetTheorems, TLAPS

Packets == [n : 0 .. MaxFrames, class : Classes]
Orders == [expected : 1 .. MaxFrames + 1, held : SUBSET Packets]
Readers == [pc : {"wait", "acquire", "read", "ended"}, hand : 0 .. Batch]
Writers == [pc : {"recv", "batch", "send", "write", "stalled", "ended"}, batch : Seq(Packets), sent : Nat]

Typed ==
    /\ mode \in Modes /\ used \in 0 .. PoolSize /\ reader \in Readers
    /\ linked \in BOOLEAN /\ session \in BOOLEAN /\ client \in BOOLEAN
    /\ mmsg \in BOOLEAN /\ cancelled \in BOOLEAN
    /\ uplink \in [Classes -> 0 .. UplinkCapacity] /\ sending \in 0 .. UplinkCapacity
    /\ lane \in [Classes -> Seq(Packets)] /\ arrived \subseteq Frames \union {Unframed}
    /\ order \in Orders /\ IsFiniteSet(order.held) /\ ready \in Seq(Packets)
    /\ writer \in Writers /\ written \in Seq(0 .. MaxFrames)
    /\ \A c \in Classes : Len(lane[c]) <= LaneCapacity

\* The reader has room in its hand while it takes buffers, and none in it at its select.
HandFits ==
    /\ reader.pc = "acquire" => reader.hand < ReadBatch
    /\ reader.pc \in {"wait", "ended"} => reader.hand = 0

\* A batch is what the writer works on: one packet for a device.
BatchFits ==
    /\ writer.pc \in {"batch", "send", "write"} <=> Len(writer.batch) \in 1 .. Batch
    /\ writer.pc \notin {"batch", "send", "write"} => writer.batch = << >>
    /\ writer.pc = "write" => Len(writer.batch) = 1
    /\ writer.sent <= Len(writer.batch)
    /\ writer.pc # "send" => writer.sent = 0
    /\ writer.pc \in {"stalled", "ended"} => ready = << >>

\* What is in a lane has arrived, and comes through it once.
LanesFit(ln, in) ==
    /\ \A c \in Classes : \A i \in 1 .. Len(ln[c]) : ln[c][i].n \in in
    /\ \A c, d \in Classes : \A i \in 1 .. Len(ln[c]), j \in 1 .. Len(ln[d]) :
           ln[c][i].n = ln[d][j].n /\ ln[c][i].n # Unframed => c = d /\ i = j

\* The reassembler holds each frame once, none behind its release point ...
HeldFits(o) ==
    /\ \A p \in o.held : p.n >= o.expected
    /\ \A p, q \in o.held : p.n = q.n => p = q

\* ... and none that is still to come.
HeldArrived(o, ln, in) ==
    /\ \A p \in o.held : p.n \in in
    /\ \A p \in o.held : \A c \in Classes : \A i \in 1 .. Len(ln[c]) : ln[c][i].n # p.n

Lt(a, b) == a # Unframed /\ b # Unframed => a < b

\* What was written, is in the batch, or in order waits for it: each before the next.
Line(out, batch, sent, rdy) ==
    /\ \A i, j \in 1 .. Len(out) : i < j => Lt(out[i], out[j])
    /\ \A i \in 1 .. Len(out) : \A j \in sent + 1 .. Len(batch) : Lt(out[i], batch[j].n)
    /\ \A i \in 1 .. Len(out) : \A j \in 1 .. Len(rdy) : Lt(out[i], rdy[j].n)
    /\ \A i, j \in sent + 1 .. Len(batch) : i < j => Lt(batch[i].n, batch[j].n)
    /\ \A i \in sent + 1 .. Len(batch) : \A j \in 1 .. Len(rdy) : Lt(batch[i].n, rdy[j].n)
    /\ \A i, j \in 1 .. Len(rdy) : i < j => Lt(rdy[i].n, rdy[j].n)

\* All of it is behind the release point.
Behind(out, batch, sent, rdy, expected) ==
    /\ \A i \in 1 .. Len(out) : out[i] < expected
    /\ \A i \in sent + 1 .. Len(batch) : batch[i].n < expected
    /\ \A i \in 1 .. Len(rdy) : rdy[i].n < expected

InOrder ==
    /\ Line(written, writer.batch, writer.sent, ready)
    /\ writer.pc \notin {"stalled", "ended"} =>
           Behind(written, writer.batch, writer.sent, ready, order.expected)

LanesInv ==
    /\ Typed /\ HandFits /\ BatchFits
    /\ LanesFit(lane, arrived) /\ HeldFits(order) /\ HeldArrived(order, lane, arrived)
    /\ InOrder /\ BuffersAccounted

-----------------------------------------------------------------------------
(***************************************************************************)
(* The reassembler                                                         *)
(***************************************************************************)
LEMMA Least ==
    ASSUME NEW T \in SUBSET Nat, T # {}
    PROVE  \E x \in T : \A y \in T : x <= y
<1>1. PICK x \in T : \A y \in T : ~ (<<y, x>> \in OpToRel(<, Nat))
    BY NatLessThanWellFounded, WFMin
<1>2. \A y \in T : ~ (y < x)
    BY <1>1 DEF OpToRel
<1> QED
    BY <1>2

\* What drain_contiguous lets go: the frames from the release point to the next gap.
Drained(o, r) ==
    /\ r.expected \in o.expected .. MaxFrames + 1
    /\ r.held \subseteq o.held
    /\ \A p \in r.held : p.n > r.expected
    /\ r.run \in Seq(Packets) /\ Len(r.run) = r.expected - o.expected
    /\ \A i \in 1 .. Len(r.run) : r.run[i] \in o.held /\ r.run[i].n = o.expected + i - 1
    /\ IsFiniteSet(r.held) /\ Cardinality(o.held) = Len(r.run) + Cardinality(r.held)

LEMMA ReleasedDrains ==
    ASSUME NEW o \in Orders, IsFiniteSet(o.held), HeldFits(o)
    PROVE  Drained(o, Released(o))
<1> DEFINE At(n) == {p \in o.held : p.n = n}
           e == o.expected
           Ends(k) == At(k) = {} /\ \A n \in e .. k - 1 : At(n) # {}
           end == CHOOSE k \in e .. MaxFrames + 1 : Ends(k)
           run == [i \in 1 .. end - e |-> CHOOSE p \in At(e + i - 1) : TRUE]
           behind == {p \in o.held : p.n < end}
           ahead == {p \in o.held : p.n >= end}
<1>1. e \in 1 .. MaxFrames + 1 /\ o.held \subseteq Packets /\ MaxFrames \in Nat
    BY LanesConstants DEF Orders
<1>2. \E k \in e .. MaxFrames + 1 : Ends(k)
    <2> DEFINE T == {k \in e .. MaxFrames + 1 : At(k) = {}}
    <2>1. MaxFrames + 1 \in T
        BY <1>1 DEF Packets
    <2>2. T \in SUBSET Nat /\ T # {}
        BY <1>1, <2>1
    <2>3. PICK k \in T : \A y \in T : k <= y
        BY <2>2, Least
    <2>4. \A n \in e .. k - 1 : At(n) # {}
        BY <1>1, <2>3
    <2> QED
        BY <2>3, <2>4
<1>3. end \in e .. MaxFrames + 1 /\ Ends(end)
    BY <1>2, Zenon
<1>4. Released(o) = [expected |-> end, held |-> ahead, run |-> run]
    BY DEF Released
<1>5. /\ Released(o).expected = end /\ Released(o).held = ahead /\ Released(o).run = run
    BY <1>4
<1>6. end \in Nat /\ end - e \in Nat
    BY <1>1, <1>3
<1>7. \A i \in 1 .. end - e : run[i] \in At(e + i - 1)
    <2> SUFFICES ASSUME NEW i \in 1 .. end - e PROVE run[i] \in At(e + i - 1)
        OBVIOUS
    <2>1. At(e + i - 1) # {}
        BY <1>1, <1>3, <1>6
    <2> HIDE DEF At
    <2>2. (CHOOSE p \in At(e + i - 1) : TRUE) \in At(e + i - 1)
        BY <2>1, Zenon
    <2> QED
        BY <2>2
<1> HIDE DEF run, end
<1>8. DOMAIN run = 1 .. end - e
    BY DEF run
<1>9. \A i \in 1 .. end - e : run[i] \in o.held /\ run[i].n = e + i - 1
    BY <1>7
<1>10. run \in Seq(Packets) /\ Len(run) = end - e
    <2>1. run \in [1 .. end - e -> Packets]
        BY <1>1, <1>8, <1>9 DEF run
    <2> QED
        BY <1>6, <2>1
<1>11. Cardinality(o.held) = (end - e) + Cardinality(ahead) /\ IsFiniteSet(ahead)
    <2>1. run \in [1 .. end - e -> behind]
        <3>1. \A i \in 1 .. end - e : run[i] \in behind
            BY <1>1, <1>6, <1>9
        <3>2. run = [i \in 1 .. end - e |-> run[i]]
            BY DEF run
        <3> HIDE DEF behind
        <3> QED
            BY <3>1, <3>2
    <2>2. \A i, j \in 1 .. end - e : run[i] = run[j] => i = j
        BY <1>1, <1>6, <1>9
    <2>3. \A p \in behind : \E i \in 1 .. end - e : run[i] = p
        <3> SUFFICES ASSUME NEW p \in behind PROVE \E i \in 1 .. end - e : run[i] = p
            OBVIOUS
        <3>1. p \in o.held /\ p.n \in Nat /\ p.n >= e /\ p.n < end
            BY <1>1 DEF HeldFits, Packets
        <3>2. p.n - e + 1 \in 1 .. end - e
            BY <1>1, <1>6, <3>1
        <3>3. run[p.n - e + 1].n = p.n /\ run[p.n - e + 1] \in o.held
            BY <1>1, <1>9, <3>1, <3>2
        <3> QED
            BY <3>1, <3>2, <3>3 DEF HeldFits
    <2>4. run \in Bijection(1 .. end - e, behind)
        BY <2>1, <2>2, <2>3 DEF Bijection, Injection, Surjection, IsInjective
    <2>5. ExistsBijection(1 .. end - e, behind)
        BY <2>4 DEF ExistsBijection
    <2>6. IsFiniteSet(1 .. end - e) /\ Cardinality(1 .. end - e) = end - e
        <3> DEFINE n == end - e
        <3>1. 1 \in Int /\ n \in Int /\ n >= 0
            BY <1>6
        <3> HIDE DEF n
        <3>2. IsFiniteSet(1 .. n) /\ Cardinality(1 .. n) = IF 1 > n THEN 0 ELSE n - 1 + 1
            BY <3>1, FS_Interval
        <3>3. Cardinality(1 .. n) = n
            BY <3>1, <3>2
        <3> QED
            BY <3>2, <3>3 DEF n
    <2>7. IsFiniteSet(behind) /\ Cardinality(behind) = end - e
        BY <2>5, <2>6, FS_Bijection
    <2>8. behind = o.held \ ahead /\ ahead \subseteq o.held /\ o.held \intersect ahead = ahead
        BY <1>1, <1>6 DEF Packets
    <2>9. IsFiniteSet(ahead) /\ Cardinality(ahead) \in Nat /\ Cardinality(o.held) \in Nat
        BY <2>8, FS_Subset, FS_CardinalityType
    <2>10. Cardinality(behind) = Cardinality(o.held) - Cardinality(ahead)
        <3> HIDE DEF ahead, behind
        <3>1. Cardinality(o.held \ ahead) = Cardinality(o.held) - Cardinality(o.held \intersect ahead)
            BY FS_Difference
        <3> QED
            BY <2>8, <3>1
    <2> QED
        BY <1>6, <2>7, <2>9, <2>10
<1>12. \A p \in ahead : p.n > end
    BY <1>1, <1>3, <1>6 DEF Packets
<1> QED
    BY <1>3, <1>5, <1>6, <1>9, <1>10, <1>11, <1>12 DEF Drained

\* The release point moves up to the first frame that is held.
LEMMA GapMoves ==
    ASSUME NEW o \in Orders, HeldFits(o)
    PROVE  LET g == GapExpires(o)
           IN  g \in Orders /\ HeldFits(g) /\ g.held = o.held /\ g.expected >= o.expected
<1>1. CASE o.held = {}
    BY <1>1, LanesConstants DEF GapExpires, Orders
<1>2. CASE o.held # {}
    <2> DEFINE T == {p.n : p \in o.held}
               First(n) == \A p \in o.held : n <= p.n
               first == CHOOSE n \in T : First(n)
    <2>1. T \in SUBSET Nat /\ T # {} /\ \A n \in T : n \in o.expected .. MaxFrames
        BY <1>2, LanesConstants DEF Orders, Packets, HeldFits
    <2>2. \E n \in T : First(n)
        <3> HIDE DEF T
        <3>1. PICK n \in T : \A m \in T : n <= m
            BY <2>1, Least
        <3>2. First(n)
            BY <3>1 DEF T
        <3> QED
            BY <3>1, <3>2
    <2>3. first \in T /\ First(first)
        BY <2>2, Zenon
    <2>4. GapExpires(o) = [o EXCEPT !.expected = first]
        BY <1>2 DEF GapExpires
    <2> HIDE DEF first
    <2> QED
        BY <2>1, <2>3, <2>4, LanesConstants DEF Orders, HeldFits
<1> QED
    BY <1>1, <1>2

\* Frames with consecutive numbers, and two such runs one after the other.
Consecutive(run, from) == run \in Seq(Packets) /\ \A i \in 1 .. Len(run) : run[i].n = from + i - 1

LEMMA RunsJoin ==
    ASSUME NEW a, NEW b, NEW e \in Nat, Consecutive(a, e), Consecutive(b, e + Len(a))
    PROVE  Consecutive(a \o b, e) /\ Len(a \o b) = Len(a) + Len(b)
<1>1. a \o b \in Seq(Packets) /\ Len(a \o b) = Len(a) + Len(b) /\ Len(a) \in Nat /\ Len(b) \in Nat
    BY DEF Consecutive
<1>2. ASSUME NEW i \in 1 .. Len(a \o b) PROVE (a \o b)[i].n = e + i - 1
    <2>1. CASE i <= Len(a)
        <3>1. (a \o b)[i] = a[i] /\ i \in 1 .. Len(a)
            BY <1>1, <2>1 DEF Consecutive
        <3> QED
            BY <3>1 DEF Consecutive
    <2>2. CASE i > Len(a)
        <3>1. (a \o b)[i] = b[i - Len(a)] /\ i - Len(a) \in 1 .. Len(b)
            BY <1>1, <2>2 DEF Consecutive
        <3>2. b[i - Len(a)].n = (e + Len(a)) + (i - Len(a)) - 1
            BY <3>1 DEF Consecutive
        <3> QED
            BY <1>1, <3>1, <3>2
    <2> QED
        BY <1>1, <2>1, <2>2
<1> QED
    BY <1>1, <1>2 DEF Consecutive

\* What a push makes of the reassembler `o` and of a packet `p` it was given: the packets
\* in order, the reassembler afterwards, and whether the packet was dropped.
Pushed(o, p, out, after, dropped) ==
    /\ after \in Orders /\ IsFiniteSet(after.held) /\ HeldFits(after)
    /\ after.expected >= o.expected
    /\ after.held \subseteq o.held \union {p}
    /\ dropped \in {0, 1}
    /\ Cardinality(o.held) + 1 = dropped + Len(out) + Cardinality(after.held)
    /\ \/ out = <<p>> /\ p.n = Unframed /\ after = o
       \/ /\ \A q \in after.held : q.n # Unframed
          /\ \E e \in o.expected .. after.expected :
                 Consecutive(out, e) /\ e + Len(out) <= after.expected

LEMMA PushIs ==
    ASSUME order \in Orders, IsFiniteSet(order.held), HeldFits(order), ready = << >>, used \in Nat,
           NEW p \in Packets, \A q \in order.held : q.n # p.n,
           NEW expired \in BOOLEAN, ReorderPush(p, expired)
    PROVE  \E dropped : Pushed(order, p, ready', order', dropped) /\ used' = used - dropped
<1> DEFINE g == IF expired THEN GapExpires(order) ELSE order
           o == Released(g)
           h == [expected |-> o.expected, held |-> o.held \union {p}]
           rel == Released(h)
<1>1. g \in Orders /\ HeldFits(g) /\ g.held = order.held /\ g.expected >= order.expected
    BY GapMoves DEF Orders
<1> HIDE DEF g
<1>2. Drained(g, o)
    BY <1>1, ReleasedDrains
<1> HIDE DEF o
<1>3. /\ g.expected \in Nat /\ order.expected \in 1 .. MaxFrames + 1 /\ order.held \subseteq Packets
      /\ o.expected \in 1 .. MaxFrames + 1 /\ o.expected >= g.expected /\ o.held \subseteq order.held
      /\ o.run \in Seq(Packets) /\ Len(o.run) = o.expected - g.expected
      /\ \A i \in 1 .. Len(o.run) : o.run[i].n = g.expected + i - 1
    BY <1>1, <1>2, LanesConstants DEF Drained, Orders
<1>4. Consecutive(o.run, g.expected)
    BY <1>3 DEF Consecutive
<1>5. /\ IsFiniteSet(o.held) /\ Cardinality(order.held) = Len(o.run) + Cardinality(o.held)
      /\ Cardinality(o.held) \in Nat /\ Len(o.run) \in Nat
    BY <1>1, <1>2, <1>3, FS_CardinalityType DEF Drained
<1>6. \A q \in o.held : q.n > o.expected
    BY <1>2 DEF Drained
<1>7. p.n \in 0 .. MaxFrames
    BY DEF Packets
<1>8. CASE p.n = Unframed
    <2>1. ready' = <<p>> /\ order' = order /\ used' = used
        BY <1>8 DEF ReorderPush
    <2>2. Cardinality(order.held) \in Nat
        BY FS_CardinalityType
    <2>3. Pushed(order, p, ready', order', 0)
        BY <1>3, <1>8, <2>1, <2>2 DEF Pushed
    <2> QED
        BY <2>1, <2>3
<1>9. CASE p.n # Unframed /\ p.n < o.expected
    <2>1. ready' = << >> \o o.run /\ used' = used - 1 /\ order' = [expected |-> o.expected, held |-> o.held]
        BY <1>9 DEF ReorderPush, Release, o, g
    <2>2. ready' = o.run
        BY <1>3, <2>1
    <2>3. order'.expected = o.expected /\ order'.held = o.held
        BY <2>1
    <2>4. order' \in Orders /\ HeldFits(order') /\ \A q \in order'.held : q.n # Unframed
        BY <1>1, <1>3, <1>6, <2>1 DEF Orders, HeldFits, Unframed, Packets
    <2>5. Pushed(order, p, ready', order', 1)
        BY <1>1, <1>3, <1>4, <1>5, <2>2, <2>3, <2>4 DEF Pushed
    <2> QED
        BY <2>1, <2>5
<1>10. CASE p.n # Unframed /\ ~ (p.n < o.expected)
    <2>1. /\ h.expected = o.expected /\ h.held = o.held \union {p}
          /\ h \in Orders /\ HeldFits(h) /\ p \notin o.held
        BY <1>1, <1>3, <1>6, <1>7, <1>10 DEF Orders, HeldFits, Packets
    <2>2. IsFiniteSet(h.held) /\ Cardinality(h.held) = Cardinality(o.held) + 1
        BY <1>5, <2>1, FS_AddElement
    <2> HIDE DEF h
    <2>3. Drained(h, rel)
        BY <2>1, <2>2, ReleasedDrains
    <2>4. ready' = << >> \o o.run \o rel.run /\ used' = used /\ order' = [expected |-> rel.expected, held |-> rel.held]
        BY <1>10 DEF ReorderPush, o, g, h
    <2> HIDE DEF rel
    <2>5. /\ rel.expected \in o.expected .. MaxFrames + 1 /\ rel.held \subseteq o.held \union {p}
          /\ \A q \in rel.held : q.n > rel.expected
          /\ rel.run \in Seq(Packets) /\ Len(rel.run) = rel.expected - o.expected
          /\ \A i \in 1 .. Len(rel.run) : rel.run[i].n = o.expected + i - 1
          /\ IsFiniteSet(rel.held) /\ Cardinality(h.held) = Len(rel.run) + Cardinality(rel.held)
        BY <2>1, <2>3 DEF Drained
    <2>6. /\ Cardinality(rel.held) \in Nat /\ Len(rel.run) \in Nat
          /\ rel.expected \in 1 .. MaxFrames + 1 /\ rel.expected >= o.expected
        BY <1>3, <2>5, FS_CardinalityType
    <2> DEFINE out == o.run \o rel.run
    <2>7. ready' = out
        BY <1>3, <2>4, <2>5
    <2>8. g.expected + Len(o.run) = o.expected
        BY <1>3
    <2>9. Consecutive(rel.run, g.expected + Len(o.run))
        BY <2>5, <2>8 DEF Consecutive
    <2>10. Consecutive(out, g.expected) /\ Len(out) = Len(o.run) + Len(rel.run)
        BY <1>3, <1>4, <2>9, RunsJoin
    <2> HIDE DEF out
    <2>11. order'.expected = rel.expected /\ order'.held = rel.held
        BY <2>4
    <2>12. order' \in Orders /\ HeldFits(order') /\ \A q \in order'.held : q.n # Unframed
        <3>1. rel.held \subseteq Packets /\ rel.held \subseteq order.held \union {p}
            BY <1>3, <2>5
        <3>2. \A q, r \in rel.held : q.n = r.n => q = r
            BY <3>1 DEF HeldFits
        <3> QED
            BY <2>4, <2>5, <2>6, <3>1, <3>2 DEF Orders, HeldFits, Unframed, Packets
    <2> DEFINE first == o.run
               second == rel.run
               held == rel.held
    <2>13. /\ Len(first) \in Nat /\ Len(second) \in Nat /\ Cardinality(held) \in Nat
           /\ Len(out) = Len(first) + Len(second)
           /\ Len(first) = o.expected - g.expected /\ Len(second) = rel.expected - o.expected
           /\ Cardinality(order.held) = Len(first) + Cardinality(o.held)
           /\ Cardinality(o.held) + 1 = Len(second) + Cardinality(held)
        BY <1>3, <1>5, <2>2, <2>5, <2>6, <2>10
    <2> HIDE DEF first, second, held
    <2>14. g.expected \in order.expected .. rel.expected /\ g.expected + Len(out) <= rel.expected
        <3> DEFINE a == order.expected
                   b == g.expected
                   c == o.expected
                   d == rel.expected
        <3>1. a \in Nat /\ b \in Nat /\ c \in Nat /\ d \in Nat /\ a <= b /\ b <= c /\ c <= d
            BY <1>1, <1>3, <2>6, LanesConstants
        <3>2. Len(out) = (c - b) + (d - c)
            BY <2>13
        <3> HIDE DEF a, b, c, d
        <3>3. b \in a .. d /\ b + Len(out) <= d
            BY <3>1, <3>2
        <3> QED
            BY <3>3 DEF a, b, d
    <2>15. Cardinality(order.held) + 1 = 0 + Len(out) + Cardinality(held)
        BY <1>5, <2>13
    <2>16. rel.expected >= order.expected /\ rel.held \subseteq order.held \union {p}
        BY <1>1, <1>3, <2>5, <2>6
    <2>17. Pushed(order, p, ready', order', 0)
        BY <2>5, <2>7, <2>10, <2>11, <2>12, <2>14, <2>15, <2>16 DEF Pushed, held
    <2> QED
        BY <2>4, <2>17
<1> QED
    BY <1>8, <1>9, <1>10

-----------------------------------------------------------------------------
(***************************************************************************)
(* The lanes                                                               *)
(***************************************************************************)
Lanes3 == [Classes -> Seq(Packets)]
Count(ln) == Len(ln[1]) + Len(ln[2]) + Len(ln[3])

\* `m` holds only what `ln` holds, at other places.
Within(m, ln) ==
    \A d \in Classes : \A i \in 1 .. Len(m[d]) : \E j \in 1 .. Len(ln[d]) : m[d][i] = ln[d][j]

\* One lane of three is longer or shorter.
LEMMA CountOne ==
    ASSUME NEW ln \in Lanes3, NEW c \in Classes, NEW s \in Seq(Packets)
    PROVE  LET m == [ln EXCEPT ![c] = s]
           IN  /\ m \in Lanes3 /\ m[c] = s /\ \A d \in Classes \ {c} : m[d] = ln[d]
               /\ Count(ln) \in Nat /\ Count(m) \in Nat /\ Count(m) = Count(ln) + Len(s) - Len(ln[c])
<1>1. c \in {1, 2, 3} /\ Len(ln[1]) \in Nat /\ Len(ln[2]) \in Nat /\ Len(ln[3]) \in Nat /\ Len(s) \in Nat
    BY DEF Classes, Lanes3
<1>2. CASE c = 1
    BY <1>1, <1>2 DEF Classes, Lanes3, Count
<1>3. CASE c = 2
    BY <1>1, <1>3 DEF Classes, Lanes3, Count
<1>4. CASE c = 3
    BY <1>1, <1>4 DEF Classes, Lanes3, Count
<1> QED
    BY <1>1, <1>2, <1>3, <1>4

\* next_return_packet takes the oldest packet of a lane.
LEMMA LaneTakes ==
    ASSUME NEW ln \in Lanes3, NEW in, LanesFit(ln, in), NEW c \in Classes, ln[c] # << >>
    PROVE  LET m == [ln EXCEPT ![c] = Tail(@)]
               p == Head(ln[c])
           IN  /\ m \in Lanes3 /\ LanesFit(m, in) /\ Within(m, ln)
               /\ p \in Packets /\ p.n \in in /\ p = ln[c][1] /\ Len(ln[c]) >= 1
               /\ p.n # Unframed => \A d \in Classes : \A i \in 1 .. Len(m[d]) : m[d][i].n # p.n
               /\ Count(ln) \in Nat /\ Count(m) \in Nat /\ Count(m) = Count(ln) - 1
               /\ \A d \in Classes : Len(m[d]) <= Len(ln[d])
<1> DEFINE t == Tail(ln[c])
           m == [ln EXCEPT ![c] = t]
           p == Head(ln[c])
<1>1. /\ t \in Seq(Packets) /\ Len(t) = Len(ln[c]) - 1 /\ Len(ln[c]) >= 1 /\ Len(ln[c]) \in Nat
      /\ \A i \in 1 .. Len(t) : t[i] = ln[c][i + 1] /\ i + 1 \in 1 .. Len(ln[c])
      /\ p \in Packets /\ p = ln[c][1] /\ 1 \in 1 .. Len(ln[c])
    BY DEF Lanes3
<1>2. /\ m \in Lanes3 /\ m[c] = t /\ \A d \in Classes \ {c} : m[d] = ln[d]
      /\ Count(ln) \in Nat /\ Count(m) \in Nat /\ Count(m) = Count(ln) + Len(t) - Len(ln[c])
    <2> HIDE DEF t
    <2> QED
        BY <1>1, CountOne
<1>3. Count(m) = Count(ln) - 1
    BY <1>1, <1>2
<1> HIDE DEF t, m, p
<1>4. \A d \in Classes : Len(m[d]) <= Len(ln[d])
    <2>1. \A d \in Classes : Len(ln[d]) \in Nat
        BY DEF Lanes3
    <2> QED
        BY <1>1, <1>2, <2>1
<1>5. ASSUME NEW d \in Classes, NEW i \in 1 .. Len(m[d])
      PROVE  \E j \in 1 .. Len(ln[d]) : m[d][i] = ln[d][j] /\ (d = c => j = i + 1) /\ (d # c => j = i)
    BY <1>1, <1>2
<1>6. Within(m, ln)
    BY <1>5 DEF Within
<1>7. LanesFit(m, in)
    <2>1. \A d \in Classes : \A i \in 1 .. Len(m[d]) : m[d][i].n \in in
        BY <1>5 DEF LanesFit
    <2>2. ASSUME NEW d \in Classes, NEW e \in Classes, NEW i \in 1 .. Len(m[d]), NEW j \in 1 .. Len(m[e]),
                 m[d][i].n = m[e][j].n, m[d][i].n # Unframed
          PROVE  d = e /\ i = j
        <3>1. PICK k \in 1 .. Len(ln[d]) : m[d][i] = ln[d][k] /\ (d = c => k = i + 1) /\ (d # c => k = i)
            BY <1>5
        <3>2. PICK l \in 1 .. Len(ln[e]) : m[e][j] = ln[e][l] /\ (e = c => l = j + 1) /\ (e # c => l = j)
            BY <1>5
        <3>3. d = e /\ k = l
            BY <2>2, <3>1, <3>2 DEF LanesFit
        <3>4. i \in Nat /\ j \in Nat
            BY <1>2 DEF Lanes3
        <3> QED
            BY <3>1, <3>2, <3>3, <3>4
    <2> QED
        BY <2>1, <2>2 DEF LanesFit
<1>8. ASSUME p.n # Unframed, NEW d \in Classes, NEW i \in 1 .. Len(m[d]) PROVE m[d][i].n # p.n
    <2>1. PICK j \in 1 .. Len(ln[d]) : m[d][i] = ln[d][j] /\ (d = c => j = i + 1) /\ (d # c => j = i)
        BY <1>5
    <2>2. i \in Nat /\ i >= 1
        BY <1>2 DEF Lanes3
    <2>3. d = c => j # 1
        BY <2>1, <2>2
    <2> QED
        BY <1>1, <1>8, <2>1, <2>3 DEF LanesFit
<1>9. p.n \in in
    BY <1>1 DEF LanesFit
<1> QED
    BY <1>1, <1>2, <1>3, <1>4, <1>6, <1>7, <1>8, <1>9 DEF m, t, p

\* A packet comes into a lane, in place of the oldest where it is full.
Gained(ln, m, in, c, p) ==
    /\ m \in Lanes3 /\ LanesFit(m, in \union {p.n})
    /\ \A d \in Classes : \A i \in 1 .. Len(m[d]) :
           m[d][i] = p \/ \E j \in 1 .. Len(ln[d]) : m[d][i] = ln[d][j]
    /\ Count(ln) \in Nat /\ Count(m) \in Nat
    /\ Count(m) = Count(ln) + 1 - (IF Len(ln[c]) = LaneCapacity THEN 1 ELSE 0)
    /\ \A d \in Classes : Len(m[d]) <= LaneCapacity

\* force_send puts a packet that has not come before into a lane, in place of its oldest
\* where it is full.
LEMMA LaneGets ==
    ASSUME NEW ln \in Lanes3, NEW in, LanesFit(ln, in), NEW c \in Classes, NEW p \in Packets, p.n \notin in,
           \A d \in Classes : Len(ln[d]) <= LaneCapacity
    PROVE  Gained(ln, [ln EXCEPT ![c] = ForceSend(@, p)], in, c, p)
<1> DEFINE t == IF Len(ln[c]) = LaneCapacity THEN Tail(ln[c]) ELSE ln[c]
           s == Append(t, p)
           m == [ln EXCEPT ![c] = s]
           k == IF Len(ln[c]) = LaneCapacity THEN 1 ELSE 0
<1>1. LaneCapacity \in Nat /\ LaneCapacity >= 1 /\ ln[c] \in Seq(Packets) /\ Len(ln[c]) \in Nat
    BY LanesConstants DEF Lanes3
<1>2. /\ t \in Seq(Packets) /\ Len(t) = Len(ln[c]) - k /\ k \in {0, 1} /\ Len(t) \in Nat
      /\ Len(t) + 1 <= LaneCapacity
      /\ \A i \in 1 .. Len(t) : t[i] = ln[c][i + k] /\ i + k \in 1 .. Len(ln[c])
    <2>1. CASE Len(ln[c]) = LaneCapacity
        BY <1>1, <2>1
    <2>2. CASE Len(ln[c]) # LaneCapacity
        BY <1>1, <2>2
    <2> QED
        BY <2>1, <2>2
<1> HIDE DEF t, k
<1>3. /\ s \in Seq(Packets) /\ Len(s) = Len(t) + 1 /\ s[Len(s)] = p /\ \A i \in 1 .. Len(t) : s[i] = t[i]
    BY <1>2
<1>4. /\ m \in Lanes3 /\ m[c] = s /\ \A d \in Classes \ {c} : m[d] = ln[d]
      /\ Count(ln) \in Nat /\ Count(m) \in Nat /\ Count(m) = Count(ln) + Len(s) - Len(ln[c])
    <2> HIDE DEF s
    <2>1. s \in Seq(Packets)
        BY <1>3
    <2> QED
        BY <2>1, CountOne
<1> HIDE DEF s, m
<1>5. Count(m) = Count(ln) + 1 - k
    BY <1>1, <1>2, <1>3, <1>4
<1>6. \A d \in Classes : Len(m[d]) <= LaneCapacity
    BY <1>2, <1>3, <1>4
<1>7. ASSUME NEW d \in Classes, NEW i \in 1 .. Len(m[d])
      PROVE  \/ d = c /\ i = Len(s) /\ m[d][i] = p
             \/ \E j \in 1 .. Len(ln[d]) : m[d][i] = ln[d][j] /\ (d = c => j = i + k) /\ (d # c => j = i)
    <2>1. CASE d # c
        BY <1>4, <2>1
    <2>2. CASE d = c /\ i = Len(s)
        BY <1>3, <1>4, <2>2
    <2>3. CASE d = c /\ i # Len(s)
        <3>1. i \in 1 .. Len(s) /\ m[d][i] = s[i]
            BY <1>4, <2>3
        <3>2. i \in 1 .. Len(t)
            BY <1>2, <1>3, <2>3, <3>1
        <3>3. m[d][i] = t[i]
            BY <1>3, <3>1, <3>2
        <3> QED
            BY <1>2, <2>3, <3>2, <3>3
    <2> QED
        BY <2>1, <2>2, <2>3
<1>8. \A d \in Classes : \A i \in 1 .. Len(ln[d]) : ln[d][i].n \in in /\ ln[d][i].n # p.n
    BY DEF LanesFit
<1>9. LanesFit(m, in \union {p.n})
    <2>1. \A d \in Classes : \A i \in 1 .. Len(m[d]) : m[d][i].n \in in \union {p.n}
        BY <1>7, <1>8
    <2>2. ASSUME NEW d \in Classes, NEW e \in Classes, NEW i \in 1 .. Len(m[d]), NEW j \in 1 .. Len(m[e]),
                 m[d][i].n = m[e][j].n, m[d][i].n # Unframed
          PROVE  d = e /\ i = j
        <3>1. i \in Nat /\ j \in Nat
            BY <1>4 DEF Lanes3
        <3>2. CASE m[d][i].n = p.n
            BY <1>7, <1>8, <2>2, <3>2
        <3>3. CASE m[d][i].n # p.n
            <4>1. PICK x \in 1 .. Len(ln[d]) : m[d][i] = ln[d][x] /\ (d = c => x = i + k) /\ (d # c => x = i)
                BY <1>7, <3>3
            <4>2. PICK y \in 1 .. Len(ln[e]) : m[e][j] = ln[e][y] /\ (e = c => y = j + k) /\ (e # c => y = j)
                BY <1>7, <2>2, <3>3
            <4>3. d = e /\ x = y
                BY <2>2, <4>1, <4>2 DEF LanesFit
            <4> QED
                BY <1>2, <3>1, <4>1, <4>2, <4>3
        <3> QED
            BY <3>2, <3>3
    <2> QED
        BY <2>1, <2>2 DEF LanesFit
<1>10. [ln EXCEPT ![c] = ForceSend(@, p)] = m
    BY DEF ForceSend, m, s, t
<1>11. Gained(ln, m, in, c, p)
    BY <1>4, <1>5, <1>6, <1>7, <1>9 DEF Gained, k
<1> QED
    BY <1>10, <1>11

-----------------------------------------------------------------------------
(***************************************************************************)
(* Steps upwards: the reader and the session                               *)
(***************************************************************************)
InSession == IF session THEN 1 ELSE 0
UpCount == reader.hand + InUplink + sending + InSession

UpTyped ==
    /\ mode \in Modes /\ reader \in Readers /\ linked \in BOOLEAN /\ session \in BOOLEAN
    /\ client \in BOOLEAN /\ mmsg \in BOOLEAN /\ cancelled \in BOOLEAN
    /\ uplink \in [Classes -> 0 .. UplinkCapacity] /\ sending \in 0 .. UplinkCapacity

DownTyped ==
    /\ lane \in Lanes3 /\ arrived \subseteq Frames \union {Unframed}
    /\ order \in Orders /\ IsFiniteSet(order.held) /\ ready \in Seq(Packets)
    /\ writer \in Writers /\ written \in Seq(0 .. MaxFrames)
    /\ \A c \in Classes : Len(lane[c]) <= LaneCapacity

LEMMA TypedParts == Typed <=> UpTyped /\ DownTyped /\ used \in 0 .. PoolSize
    BY DEF Typed, UpTyped, DownTyped, Lanes3

LEMMA NatSum ==
    ASSUME NEW a \in Nat, NEW b \in Nat, NEW c \in Nat
    PROVE  a + b + c \in Nat
    OBVIOUS

LEMMA UpNat ==
    ASSUME NEW r \in Readers, NEW u \in [Classes -> 0 .. UplinkCapacity],
           NEW k \in 0 .. UplinkCapacity, NEW b \in BOOLEAN
    PROVE  r.hand + (u[1] + u[2] + u[3]) + k + (IF b THEN 1 ELSE 0) \in Nat
<1>1. r.hand \in Nat /\ k \in Nat /\ u[1] \in Nat /\ u[2] \in Nat /\ u[3] \in Nat
    BY LanesConstants DEF Readers, Classes
<1> QED
    BY <1>1

LEMMA UpAmounts ==
    ASSUME UpTyped
    PROVE  /\ InUplink \in Nat /\ UpCount \in Nat /\ InSession \in {0, 1}
           /\ reader.hand \in Nat /\ sending \in Nat
           /\ \A c \in Classes : uplink[c] \in Nat /\ uplink[c] <= InUplink
           /\ reader.hand <= UpCount /\ sending + InUplink <= UpCount
<1>1. /\ reader.hand \in Nat /\ sending \in Nat /\ InSession \in {0, 1}
      /\ uplink[1] \in Nat /\ uplink[2] \in Nat /\ uplink[3] \in Nat
    BY LanesConstants DEF UpTyped, Readers, Classes, InSession
<1> QED
    BY <1>1 DEF InUplink, UpCount, Classes

LEMMA DownAmounts ==
    ASSUME DownTyped
    PROVE  /\ Count(lane) \in Nat /\ InLanes = Count(lane) /\ Owned \in Nat
           /\ Len(ready) \in Nat /\ Cardinality(order.held) \in Nat /\ Len(writer.batch) \in Nat
           /\ writer.batch \in Seq(Packets)
<1>1. Len(lane[1]) \in Nat /\ Len(lane[2]) \in Nat /\ Len(lane[3]) \in Nat /\ Len(ready) \in Nat
    BY DEF DownTyped, Lanes3, Classes
<1>2. Cardinality(order.held) \in Nat
    BY FS_CardinalityType DEF DownTyped
<1>3. writer.batch \in Seq(Packets)
    BY DEF DownTyped, Writers
<1>4. Len(writer.batch) \in Nat
    BY <1>3
<1>5. Owned \in Nat
    <2> DEFINE x == Len(writer.batch)
               y == Cardinality(order.held)
    <2>1. Owned = Len(ready) + y + x
        BY DEF Owned
    <2>2. x \in Nat /\ y \in Nat
        BY <1>2, <1>4
    <2> HIDE DEF x, y
    <2> QED
        BY <1>1, <2>1, <2>2
<1>6. InLanes = Count(lane) /\ Count(lane) \in Nat
    BY <1>1, NatSum DEF InLanes, Count
<1> QED
    BY <1>1, <1>2, <1>3, <1>4, <1>5, <1>6

LEMMA Account ==
    BuffersAccounted <=> used = UpCount + InLanes + Owned
    BY DEF BuffersAccounted, UpCount, InSession

Balanced == used' = used + UpCount' - UpCount

\* Nothing that goes down moves: the buffers out of the pool and those of the reader and
\* the session grow or shrink together.
LEMMA UpStep ==
    ASSUME LanesInv, UNCHANGED <<mode, lane, arrived, order, ready, writer, written>>,
           UpTyped', HandFits', Balanced, used' <= PoolSize
    PROVE  LanesInv'
<1>1. UpTyped /\ DownTyped /\ used \in Nat
    BY TypedParts, LanesConstants DEF LanesInv
<1>2. DownTyped' /\ InLanes' = InLanes /\ Owned' = Owned
    BY <1>1 DEF DownTyped, InLanes, Owned
<1>3. UpCount \in Nat /\ UpCount' \in Nat /\ InLanes \in Nat /\ Owned \in Nat
    <2>1. UpCount'  \in Nat
        BY UpNat DEF UpTyped, UpCount, InUplink, InSession
    <2> QED
        BY <1>1, <2>1, UpAmounts, DownAmounts
<1>4. used = UpCount + InLanes + Owned
    BY Account DEF LanesInv
<1>5. used' = UpCount' + InLanes' + Owned'
    BY <1>1, <1>2, <1>3, <1>4 DEF Balanced
<1>6. BuffersAccounted'
    BY <1>5 DEF BuffersAccounted, UpCount, InSession
<1>7. used' \in 0 .. PoolSize
    <2>1. used' \in Nat
        <3>1. used' = UpCount' + InLanes + Owned
            BY <1>2, <1>5
        <3> QED
            BY <1>3, <3>1, NatSum
    <2> QED
        BY <2>1, LanesConstants
<1>8. Typed'
    BY <1>2, <1>7 DEF Typed, UpTyped, DownTyped, Lanes3
<1>9. BatchFits' /\ LanesFit(lane, arrived)' /\ HeldFits(order)' /\ HeldArrived(order, lane, arrived)'
    BY DEF LanesInv, BatchFits
<1>10. InOrder'
    BY DEF LanesInv, InOrder
<1> QED
    BY <1>6, <1>8, <1>9, <1>10 DEF LanesInv

\* What a step may use of the invariant.
LEMMA Usable ==
    ASSUME LanesInv
    PROVE  /\ UpTyped /\ DownTyped /\ used \in Nat /\ used <= PoolSize /\ PoolSize \in Nat
           /\ UpCount \in Nat /\ InLanes \in Nat /\ Owned \in Nat
           /\ used = UpCount + InLanes + Owned /\ UpCount <= used
<1>1. UpTyped /\ DownTyped /\ used \in Nat /\ used <= PoolSize /\ PoolSize \in Nat
    BY TypedParts, LanesConstants DEF LanesInv
<1>2. UpCount \in Nat /\ InLanes \in Nat /\ Owned \in Nat
    BY <1>1, UpAmounts, DownAmounts
<1>3. used = UpCount + InLanes + Owned
    BY Account DEF LanesInv
<1> QED
    BY <1>1, <1>2, <1>3

LEMMA ReaderStep ==
    ASSUME LanesInv, ReaderTask \/ ReaderStops
    PROVE  LanesInv'
<1> DEFINE h == reader.hand
<1>1. /\ UpTyped /\ used \in Nat /\ used <= PoolSize /\ PoolSize \in Nat /\ UpCount \in Nat /\ UpCount <= used
      /\ InUplink \in Nat /\ InSession \in Nat /\ h \in 0 .. Batch /\ sending \in Nat /\ h <= UpCount
    BY Usable, UpAmounts DEF UpTyped, Readers
<1>2. Batch \in Nat /\ Batch >= 1 /\ ReadBatch \in 1 .. Batch
    BY LanesConstants DEF ReadBatch
<1>3. HandFits
    BY DEF LanesInv
<1>4. CASE ReaderWakes
    <2>1. reader' = [reader EXCEPT !.pc = "acquire"] /\ reader.pc = "wait"
        BY <1>4 DEF ReaderWakes
    <2>2. /\ used' = used /\ mode' = mode
          /\ UNCHANGED <<linked, uplink, sending, session, lane, arrived, order, ready, writer, client, mmsg,
                         cancelled, written>>
        BY <1>4 DEF ReaderWakes, queues, down, sorted, world
    <2>3. reader' \in Readers /\ reader'.hand = h /\ reader'.pc = "acquire" /\ h = 0
        BY <1>1, <1>3, <2>1 DEF UpTyped, Readers, HandFits
    <2>4. UpCount' = UpCount
        BY <2>2, <2>3 DEF UpCount, InUplink, InSession
    <2> QED
        BY <1>1, <1>2, <2>2, <2>3, <2>4, UpStep DEF UpTyped, HandFits, ReadBatch, Balanced
<1>5. CASE ReaderAcquires
    <2>1. UNCHANGED <<mode, linked, uplink, sending, session, lane, arrived, order, ready, writer, client, mmsg,
                      cancelled, written>>
        BY <1>5 DEF ReaderAcquires, queues, down, sorted, world
    <2>2. reader.pc = "acquire" /\ h < ReadBatch
        BY <1>3, <1>5 DEF ReaderAcquires, HandFits
    <2>3. UpCount = h + InUplink + sending + InSession /\ UpCount' = reader'.hand + InUplink + sending + InSession
        BY <2>1 DEF UpCount, InUplink, InSession
    <2>4. CASE /\ Acquire
               /\ reader' = [pc |-> IF reader.hand + 1 = ReadBatch THEN "read" ELSE "acquire",
                             hand |-> reader.hand + 1]
        <3>1. used < PoolSize /\ used' = used + 1
            BY <2>4 DEF Acquire
        <3>2. reader'.hand = h + 1 /\ reader'.pc = IF h + 1 = ReadBatch THEN "read" ELSE "acquire"
            BY <2>4
        <3>3. h + 1 \in 0 .. Batch
            BY <1>1, <1>2, <2>2
        <3>4. reader' \in Readers
            BY <2>4, <3>3 DEF Readers
        <3> HIDE DEF h
        <3>5. Balanced
            BY <1>1, <2>3, <3>1, <3>2 DEF Balanced
        <3>6. HandFits'
            BY <1>1, <1>2, <2>1, <2>2, <3>2 DEF HandFits, ReadBatch
        <3> QED
            BY <1>1, <2>1, <3>1, <3>4, <3>5, <3>6, UpStep DEF UpTyped
    <2>5. CASE /\ used = PoolSize /\ UNCHANGED used
               /\ reader' = [reader EXCEPT !.pc = IF reader.hand = 0 THEN "wait" ELSE "read"]
        <3>1. reader' \in Readers /\ reader'.hand = h /\ reader'.pc = IF h = 0 THEN "wait" ELSE "read"
            BY <1>1, <2>5 DEF UpTyped, Readers
        <3>2. Balanced
            BY <1>1, <2>3, <2>5, <3>1 DEF Balanced
        <3>3. HandFits'
            BY <3>1 DEF HandFits
        <3> QED
            BY <1>1, <2>1, <2>5, <3>1, <3>2, <3>3, UpStep DEF UpTyped
    <2> QED
        BY <1>5, <2>4, <2>5 DEF ReaderAcquires
<1>6. CASE ReaderReads
    <2>1. /\ reader' = [pc |-> "wait", hand |-> 0] /\ client' = (client \/ mode = "udp")
          /\ UNCHANGED <<mode, linked, sending, session, lane, arrived, order, ready, writer, mmsg, cancelled, written>>
        BY <1>6 DEF ReaderReads, down, sorted
    <2>2. PICK added \in [Classes -> 0 .. reader.hand] :
             /\ added[1] + added[2] + added[3] <= reader.hand
             /\ uplink' = IF linked THEN [c \in Classes |-> Smaller(UplinkCapacity, uplink[c] + added[c])]
                          ELSE uplink
             /\ used' = used - reader.hand - InUplink + InUplink'
        BY <1>6 DEF ReaderReads
    <2>3. UplinkCapacity \in Nat /\ \A c \in Classes : added[c] \in Nat /\ uplink[c] \in 0 .. UplinkCapacity
        BY <1>1, LanesConstants DEF UpTyped
    <2>4. \A c \in Classes : uplink'[c] \in 0 .. UplinkCapacity /\ uplink'[c] <= uplink[c] + added[c]
        BY <2>2, <2>3 DEF Smaller
    <2>5. uplink' \in [Classes -> 0 .. UplinkCapacity]
        BY <1>1, <2>2, <2>4 DEF UpTyped
    <2>6. InUplink' \in Nat /\ InUplink' <= InUplink + h
        <3>1. 1 \in Classes /\ 2 \in Classes /\ 3 \in Classes
            BY DEF Classes
        <3> QED
            BY <1>1, <2>2, <2>3, <2>4, <3>1 DEF InUplink
    <2>7. UpCount' = 0 + InUplink' + sending + InSession /\ UpCount = h + InUplink + sending + InSession
        BY <2>1 DEF UpCount, InSession
    <2>8. used' = used - h - InUplink + InUplink'
        BY <2>2
    <2> HIDE DEF h
    <2>9. Balanced
        BY <1>1, <2>6, <2>7, <2>8 DEF Balanced
    <2>10. used' <= PoolSize
        <3> DEFINE a == InUplink'
        <3>1. a \in Nat /\ a <= InUplink + h /\ used' = used - h - InUplink + a
            BY <2>6, <2>8
        <3> HIDE DEF a
        <3>2. used - h - InUplink + a <= PoolSize
            BY <1>1, <1>2, <3>1
        <3> QED
            BY <3>1, <3>2
    <2>11. reader' \in Readers /\ HandFits'
        BY <1>2, <2>1 DEF Readers, HandFits
    <2> QED
        BY <1>1, <2>1, <2>5, <2>9, <2>10, <2>11, UpStep DEF UpTyped
<1>7. CASE ReaderFails
    <2>1. /\ reader' = [pc |-> "wait", hand |-> 0] /\ used' = used - h
          /\ UNCHANGED <<mode, linked, uplink, sending, session, lane, arrived, order, ready, writer, client, mmsg,
                         cancelled, written>>
        BY <1>7 DEF ReaderFails, Release, queues, down, sorted, world
    <2>2. UpCount' = 0 + InUplink + sending + InSession /\ UpCount = h + InUplink + sending + InSession
        BY <2>1 DEF UpCount, InUplink, InSession
    <2> HIDE DEF h
    <2>3. Balanced /\ used' <= PoolSize
        BY <1>1, <2>1, <2>2 DEF Balanced
    <2>4. reader' \in Readers /\ HandFits'
        BY <1>2, <2>1 DEF Readers, HandFits
    <2> QED
        BY <1>1, <2>1, <2>3, <2>4, UpStep DEF UpTyped
<1>8. CASE ReaderStops
    <2>1. /\ reader' = [reader EXCEPT !.pc = "ended"] /\ reader.pc = "wait" /\ used' = used
          /\ UNCHANGED <<mode, linked, uplink, sending, session, lane, arrived, order, ready, writer, client, mmsg,
                         cancelled, written>>
        BY <1>8 DEF ReaderStops, queues, down, sorted, world
    <2>2. reader' \in Readers /\ reader'.hand = h /\ reader'.pc = "ended" /\ h = 0
        BY <1>1, <1>3, <2>1 DEF UpTyped, Readers, HandFits
    <2>3. UpCount' = UpCount
        BY <2>1, <2>2 DEF UpCount, InUplink, InSession
    <2> QED
        BY <1>1, <2>1, <2>2, <2>3, UpStep DEF UpTyped, HandFits, Balanced
<1> QED
    BY <1>4, <1>5, <1>6, <1>7, <1>8 DEF ReaderTask

\* next_writer_packet looks at three queues, one of which has a packet.
LEMMA FirstQueueHas ==
    ASSUME UpTyped, InUplink > 0
    PROVE  FirstQueue \in Classes /\ uplink[FirstQueue] > 0
<1> DEFINE First(c) == uplink[c] > 0 /\ \A d \in 1 .. c - 1 : uplink[d] = 0
<1>1. uplink[1] \in Nat /\ uplink[2] \in Nat /\ uplink[3] \in Nat
    BY LanesConstants DEF UpTyped, Classes
<1>2. uplink[1] > 0 \/ (uplink[1] = 0 /\ uplink[2] > 0) \/ (uplink[1] = 0 /\ uplink[2] = 0 /\ uplink[3] > 0)
    BY <1>1 DEF InUplink
<1>3. uplink[1] > 0 => First(1)
    OBVIOUS
<1>4. uplink[1] = 0 /\ uplink[2] > 0 => First(2)
    OBVIOUS
<1>5. uplink[1] = 0 /\ uplink[2] = 0 /\ uplink[3] > 0 => First(3)
    OBVIOUS
<1>6. \E c \in Classes : First(c)
    BY <1>2, <1>3, <1>4, <1>5 DEF Classes
<1>7. FirstQueue \in Classes /\ First(FirstQueue)
    BY <1>6, Zenon DEF FirstQueue
<1> QED
    BY <1>7

LEMMA SessionStep ==
    ASSUME LanesInv, SessionWriter \/ SessionAcquires \/ SessionConsumes \/ Cancel
    PROVE  LanesInv'
<1> DEFINE h == reader.hand
<1>1. /\ UpTyped /\ used \in Nat /\ used <= PoolSize /\ PoolSize \in Nat /\ UpCount \in Nat /\ UpCount <= used
      /\ InUplink \in Nat /\ InSession \in {0, 1} /\ h \in Nat /\ sending \in 0 .. UplinkCapacity
      /\ UpCount = h + InUplink + sending + InSession /\ HandFits
      /\ UplinkCapacity \in Nat /\ UplinkCapacity >= 1
    BY Usable, UpAmounts, LanesConstants DEF UpTyped, UpCount, LanesInv
<1>2. CASE SessionStarts
    <2>1. /\ linked' = TRUE /\ used' = used
          /\ UNCHANGED <<mode, reader, uplink, sending, session, lane, arrived, order, ready, writer, client, mmsg,
                         cancelled, written>>
        BY <1>2 DEF SessionStarts, down, sorted, world
    <2>2. UpCount' = UpCount /\ HandFits'
        BY <1>1, <2>1 DEF UpCount, InUplink, InSession, HandFits, ReadBatch
    <2> QED
        BY <1>1, <2>1, <2>2, UpStep DEF UpTyped, Balanced
<1>3. CASE TakeWriterBatch
    <2> DEFINE q == FirstQueue
    <2>1. PICK size \in 1 .. uplink[q] : sending' = size /\ uplink' = [uplink EXCEPT ![q] = @ - size]
        BY <1>3 DEF TakeWriterBatch
    <2>2. /\ sending = 0 /\ InUplink > 0 /\ used' = used
          /\ UNCHANGED <<mode, reader, linked, session, lane, arrived, order, ready, writer, client, mmsg,
                         cancelled, written>>
        BY <1>3 DEF TakeWriterBatch, down, sorted, world
    <2>3. q \in Classes
        BY <1>1, <2>2, FirstQueueHas
    <2> HIDE DEF q
    <2>4. /\ uplink[q] \in 0 .. UplinkCapacity /\ size \in 0 .. UplinkCapacity
          /\ uplink[q] - size \in 0 .. UplinkCapacity
        BY <1>1, <2>1, <2>3 DEF UpTyped
    <2>5. uplink' \in [Classes -> 0 .. UplinkCapacity]
        BY <1>1, <2>1, <2>3, <2>4 DEF UpTyped
    <2>6. InUplink' + size = InUplink /\ InUplink' \in Nat
        <3>1. uplink[1] \in Nat /\ uplink[2] \in Nat /\ uplink[3] \in Nat /\ size \in Nat /\ DOMAIN uplink = Classes
            BY <1>1, <2>4 DEF UpTyped, Classes
        <3>2. uplink'[q] = uplink[q] - size /\ \A c \in Classes \ {q} : uplink'[c] = uplink[c]
            BY <2>1, <2>3, <3>1
        <3>3. q \in {1, 2, 3} /\ 1 \in Classes /\ 2 \in Classes /\ 3 \in Classes
            BY <2>3 DEF Classes
        <3>4. InUplink' \in Nat
            BY <1>1, <2>5, <3>3 DEF InUplink
        <3>5. CASE q = 1
            BY <3>1, <3>2, <3>3, <3>5 DEF InUplink
        <3>6. CASE q = 2
            BY <3>1, <3>2, <3>3, <3>6 DEF InUplink
        <3>7. CASE q = 3
            BY <3>1, <3>2, <3>3, <3>7 DEF InUplink
        <3> QED
            BY <3>3, <3>4, <3>5, <3>6, <3>7
    <2>7. UpCount' = h + InUplink' + size + InSession /\ HandFits'
        BY <1>1, <2>1, <2>2 DEF UpCount, InSession, HandFits, ReadBatch
    <2>8. UpCount = h + InUplink + 0 + InSession
        BY <1>1, <2>2
    <2> HIDE DEF h
    <2>9. UpCount' = UpCount
        <3> DEFINE a == InUplink'
        <3>1. a \in Nat /\ a + size = InUplink /\ UpCount' = h + a + size + InSession
            BY <2>6, <2>7
        <3> HIDE DEF a
        <3>2. h + a + size + InSession = h + InUplink + 0 + InSession
            BY <1>1, <2>4, <3>1
        <3> QED
            BY <2>8, <3>1, <3>2
    <2> QED
        BY <1>1, <2>1, <2>2, <2>4, <2>5, <2>7, <2>9, UpStep DEF UpTyped, Balanced
<1>4. CASE SendCommand
    <2>1. /\ used < PoolSize /\ used' = used + 1 /\ sending = 0 /\ sending' = 1
          /\ UNCHANGED <<mode, reader, linked, uplink, session, lane, arrived, order, ready, writer, client, mmsg,
                         cancelled, written>>
        BY <1>4 DEF SendCommand, Acquire, down, sorted, world
    <2>2. UpCount' = h + InUplink + 1 + InSession /\ HandFits'
        BY <1>1, <2>1 DEF UpCount, InUplink, InSession, HandFits, ReadBatch
    <2> HIDE DEF h
    <2>3. Balanced
        BY <1>1, <2>1, <2>2 DEF Balanced
    <2> QED
        BY <1>1, <2>1, <2>2, <2>3, UpStep DEF UpTyped
<1>5. CASE FlushQueuedData
    <2>1. /\ used' = used - sending /\ sending' = 0
          /\ UNCHANGED <<mode, reader, linked, uplink, session, lane, arrived, order, ready, writer, client, mmsg,
                         cancelled, written>>
        BY <1>5 DEF FlushQueuedData, Release, down, sorted, world
    <2>2. UpCount' = h + InUplink + 0 + InSession /\ HandFits'
        BY <1>1, <2>1 DEF UpCount, InUplink, InSession, HandFits, ReadBatch
    <2> HIDE DEF h
    <2>3. Balanced /\ used' <= PoolSize
        BY <1>1, <2>1, <2>2 DEF Balanced
    <2> QED
        BY <1>1, <2>1, <2>2, <2>3, UpStep DEF UpTyped
<1>6. CASE SessionEnds
    <2>1. /\ used' = used - (sending + InUplink + InSession) /\ session' = FALSE /\ sending' = 0
          /\ uplink' = [c \in Classes |-> 0] /\ linked' = FALSE
          /\ UNCHANGED <<mode, reader, lane, arrived, order, ready, writer, client, mmsg, cancelled, written>>
        BY <1>6 DEF SessionEnds, Release, SessionOwned, InSession, sorted, world
    <2>2. UpCount' = h + 0 + 0 + 0 /\ HandFits'
        BY <1>1, <2>1 DEF UpCount, InUplink, InSession, HandFits, ReadBatch, Classes
    <2> HIDE DEF h
    <2>3. Balanced /\ used' <= PoolSize
        BY <1>1, <2>1, <2>2 DEF Balanced
    <2>4. uplink' \in [Classes -> 0 .. UplinkCapacity] /\ sending' \in 0 .. UplinkCapacity
        BY <1>1, <2>1
    <2>5. UpTyped'
        BY <1>1, <2>1, <2>4 DEF UpTyped
    <2> QED
        BY <2>1, <2>2, <2>3, <2>5, UpStep
<1>7. CASE SessionAcquires
    <2>1. /\ used < PoolSize /\ used' = used + 1 /\ ~ session /\ session' = TRUE
          /\ UNCHANGED <<mode, reader, linked, uplink, sending, lane, arrived, order, ready, writer, client, mmsg,
                         cancelled, written>>
        BY <1>7 DEF SessionAcquires, Acquire, up, queues, sorted, world
    <2>2. UpCount' = h + InUplink + sending + 1 /\ InSession = 0 /\ HandFits'
        BY <1>1, <2>1 DEF UpCount, InUplink, InSession, HandFits, ReadBatch
    <2> HIDE DEF h
    <2>3. Balanced
        BY <1>1, <2>1, <2>2 DEF Balanced
    <2> QED
        BY <1>1, <2>1, <2>2, <2>3, UpStep DEF UpTyped
<1>8. CASE SessionConsumes
    <2>1. /\ used' = used - 1 /\ session /\ session' = FALSE
          /\ UNCHANGED <<mode, reader, linked, uplink, sending, lane, arrived, order, ready, writer, client, mmsg,
                         cancelled, written>>
        BY <1>8 DEF SessionConsumes, Release, up, queues, sorted, world
    <2>2. UpCount' = h + InUplink + sending + 0 /\ InSession = 1 /\ HandFits'
        BY <1>1, <2>1 DEF UpCount, InUplink, InSession, HandFits, ReadBatch
    <2> HIDE DEF h
    <2>3. Balanced /\ used' <= PoolSize
        BY <1>1, <2>1, <2>2 DEF Balanced
    <2> QED
        BY <1>1, <2>1, <2>2, <2>3, UpStep DEF UpTyped
<1>9. CASE Cancel
    <2>1. /\ cancelled' = TRUE /\ used' = used
          /\ UNCHANGED <<mode, reader, linked, uplink, sending, session, lane, arrived, order, ready, writer, client,
                         mmsg, written>>
        BY <1>9 DEF Cancel, up, queues, down, sorted
    <2>2. UpCount' = UpCount /\ HandFits'
        BY <1>1, <2>1 DEF UpCount, InUplink, InSession, HandFits, ReadBatch
    <2> QED
        BY <1>1, <2>1, <2>2, UpStep DEF UpTyped, Balanced
<1> QED
    BY <1>2, <1>3, <1>4, <1>5, <1>6, <1>7, <1>8, <1>9 DEF SessionWriter

-----------------------------------------------------------------------------
(***************************************************************************)
(* Packets in order                                                        *)
(***************************************************************************)
\* The line is kept whole.
InLine(out, batch, sent, rdy, expected) ==
    Line(out, batch, sent, rdy) /\ Behind(out, batch, sent, rdy, expected)

\* The next packet joins the batch.
LEMMA LineTake ==
    ASSUME NEW out \in Seq(0 .. MaxFrames), NEW batch \in Seq(Packets), NEW rdy \in Seq(Packets),
           NEW sent \in Nat, sent <= Len(batch), NEW expected, rdy # << >>, InLine(out, batch, sent, rdy, expected)
    PROVE  InLine(out, Append(batch, Head(rdy)), sent, Tail(rdy), expected)
<1> DEFINE b == Append(batch, Head(rdy))
           t == Tail(rdy)
           p == rdy[1]
<1>1. /\ b \in Seq(Packets) /\ Len(b) = Len(batch) + 1 /\ Len(batch) \in Nat /\ b[Len(b)] = p
      /\ \A i \in 1 .. Len(batch) : b[i] = batch[i]
    OBVIOUS
<1>2. /\ Len(t) = Len(rdy) - 1 /\ Len(rdy) \in Nat /\ 1 \in 1 .. Len(rdy)
      /\ \A i \in 1 .. Len(t) : t[i] = rdy[i + 1] /\ i + 1 \in 1 .. Len(rdy) /\ i + 1 > 1
    OBVIOUS
<1>3. ASSUME NEW j \in sent + 1 .. Len(b)
      PROVE  (j \in sent + 1 .. Len(batch) /\ b[j] = batch[j]) \/ (j = Len(b) /\ b[j] = p)
    BY <1>1
<1> HIDE DEF b, t, p
<1>4. /\ \A i, j \in 1 .. Len(out) : i < j => Lt(out[i], out[j])
      /\ \A i \in 1 .. Len(out) : \A j \in sent + 1 .. Len(batch) : Lt(out[i], batch[j].n)
      /\ \A i \in 1 .. Len(out) : \A j \in 1 .. Len(rdy) : Lt(out[i], rdy[j].n)
      /\ \A i, j \in sent + 1 .. Len(batch) : i < j => Lt(batch[i].n, batch[j].n)
      /\ \A i \in sent + 1 .. Len(batch) : \A j \in 1 .. Len(rdy) : Lt(batch[i].n, rdy[j].n)
      /\ \A i, j \in 1 .. Len(rdy) : i < j => Lt(rdy[i].n, rdy[j].n)
    BY DEF InLine, Line
<1>5. p = rdy[1]
    BY DEF p
<1>6. \A i \in 1 .. Len(out) : \A j \in sent + 1 .. Len(b) : Lt(out[i], b[j].n)
    BY <1>2, <1>3, <1>4, <1>5
<1>7. \A i \in 1 .. Len(out) : \A j \in 1 .. Len(t) : Lt(out[i], t[j].n)
    BY <1>2, <1>4
<1>8. ASSUME NEW i \in sent + 1 .. Len(b), NEW j \in sent + 1 .. Len(b), i < j PROVE Lt(b[i].n, b[j].n)
    <2>1. i \in sent + 1 .. Len(batch) /\ b[i] = batch[i]
        BY <1>1, <1>3, <1>8
    <2> QED
        BY <1>2, <1>3, <1>4, <1>5, <1>8, <2>1
<1>9. ASSUME NEW i \in sent + 1 .. Len(b), NEW j \in 1 .. Len(t) PROVE Lt(b[i].n, t[j].n)
    <2>1. t[j] = rdy[j + 1] /\ j + 1 \in 1 .. Len(rdy) /\ 1 < j + 1
        BY <1>2
    <2>2. CASE i \in sent + 1 .. Len(batch) /\ b[i] = batch[i]
        BY <1>4, <2>1, <2>2
    <2>3. CASE b[i] = p
        BY <1>2, <1>4, <1>5, <2>1, <2>3
    <2> QED
        BY <1>3, <2>2, <2>3
<1>10. ASSUME NEW i \in 1 .. Len(t), NEW j \in 1 .. Len(t), i < j PROVE Lt(t[i].n, t[j].n)
    <2>1. t[i] = rdy[i + 1] /\ t[j] = rdy[j + 1] /\ i + 1 \in 1 .. Len(rdy) /\ j + 1 \in 1 .. Len(rdy) /\ i + 1 < j + 1
        BY <1>2, <1>10
    <2> QED
        BY <1>4, <2>1
<1>11. Line(out, b, sent, t)
    BY <1>4, <1>6, <1>7, <1>8, <1>9, <1>10 DEF Line
<1>12. Behind(out, b, sent, t, expected)
    BY <1>2, <1>3, <1>5 DEF InLine, Behind
<1> QED
    BY <1>11, <1>12 DEF InLine, b, t

\* Packets of the batch are written out, up to one of them.
Extends(out, more, batch, sent, upto) ==
    /\ Len(more) = Len(out) + (upto - sent)
    /\ \A i \in 1 .. Len(out) : more[i] = out[i]
    /\ \A i \in sent + 1 .. upto : more[Len(out) + (i - sent)] = batch[i].n

LEMMA LineSend ==
    ASSUME NEW out \in Seq(0 .. MaxFrames), NEW batch \in Seq(Packets), NEW rdy \in Seq(Packets),
           NEW sent \in Nat, NEW upto \in sent .. Len(batch), NEW expected,
           NEW more, Extends(out, more, batch, sent, upto), InLine(out, batch, sent, rdy, expected)
    PROVE  InLine(more, batch, upto, rdy, expected)
<1>1. Len(out) \in Nat /\ Len(batch) \in Nat /\ upto \in Nat /\ sent <= upto /\ upto <= Len(batch)
    OBVIOUS
<1>2. /\ \A i, j \in 1 .. Len(out) : i < j => Lt(out[i], out[j])
      /\ \A i \in 1 .. Len(out) : \A j \in sent + 1 .. Len(batch) : Lt(out[i], batch[j].n)
      /\ \A i \in 1 .. Len(out) : \A j \in 1 .. Len(rdy) : Lt(out[i], rdy[j].n)
      /\ \A i, j \in sent + 1 .. Len(batch) : i < j => Lt(batch[i].n, batch[j].n)
      /\ \A i \in sent + 1 .. Len(batch) : \A j \in 1 .. Len(rdy) : Lt(batch[i].n, rdy[j].n)
      /\ \A i, j \in 1 .. Len(rdy) : i < j => Lt(rdy[i].n, rdy[j].n)
    BY DEF InLine, Line
<1> DEFINE Old(i) == i \in 1 .. Len(out) /\ more[i] = out[i]
           New(i, k) == k \in sent + 1 .. upto /\ i = Len(out) + (k - sent) /\ more[i] = batch[k].n
                        /\ k \in sent + 1 .. Len(batch)
<1>3. ASSUME NEW i \in 1 .. Len(more) PROVE Old(i) \/ \E k \in Nat : New(i, k)
    <2>1. i \in Nat /\ i >= 1 /\ i <= Len(out) + (upto - sent)
        BY <1>1 DEF Extends
    <2>2. CASE i <= Len(out)
        BY <1>1, <2>1, <2>2 DEF Extends
    <2>3. CASE i > Len(out)
        <3> DEFINE k == sent + (i - Len(out))
        <3>1. k \in sent + 1 .. upto /\ i = Len(out) + (k - sent) /\ k \in Nat /\ k \in sent + 1 .. Len(batch)
            BY <1>1, <2>1, <2>3
        <3> HIDE DEF k
        <3>2. more[i] = batch[k].n
            BY <3>1 DEF Extends
        <3> QED
            BY <3>1, <3>2
    <2> QED
        BY <1>1, <2>1, <2>2, <2>3
<1>4. ASSUME NEW i \in 1 .. Len(more), NEW j \in 1 .. Len(more), i < j PROVE Lt(more[i], more[j])
    <2>1. i \in Nat /\ j \in Nat
        OBVIOUS
    <2>2. CASE Old(i) /\ Old(j)
        BY <1>2, <1>4, <2>2
    <2>3. CASE Old(i) /\ \E k \in Nat : New(j, k)
        BY <1>2, <2>3
    <2>4. ASSUME NEW k \in Nat, New(i, k), Old(j) PROVE FALSE
        BY <1>1, <1>4, <2>1, <2>4
    <2>5. ASSUME NEW k \in Nat, NEW l \in Nat, New(i, k), New(j, l) PROVE Lt(more[i], more[j])
        <3>1. k < l
            BY <1>1, <1>4, <2>5
        <3> QED
            BY <1>2, <2>5, <3>1
    <2> QED
        BY <1>3, <2>2, <2>3, <2>4, <2>5
<1>5. ASSUME NEW i \in 1 .. Len(more), NEW j \in upto + 1 .. Len(batch) PROVE Lt(more[i], batch[j].n)
    <2>1. j \in sent + 1 .. Len(batch) /\ j > upto /\ j \in Nat
        BY <1>1
    <2>2. CASE Old(i)
        BY <1>2, <2>1, <2>2
    <2>3. ASSUME NEW k \in Nat, New(i, k) PROVE Lt(more[i], batch[j].n)
        BY <1>1, <1>2, <2>1, <2>3
    <2> QED
        BY <1>3, <2>2, <2>3
<1>6. ASSUME NEW i \in 1 .. Len(more), NEW j \in 1 .. Len(rdy) PROVE Lt(more[i], rdy[j].n)
    BY <1>2, <1>3
<1>7. \A i \in upto + 1 .. Len(batch) : i \in sent + 1 .. Len(batch)
    BY <1>1
<1>8. Line(more, batch, upto, rdy)
    BY <1>2, <1>4, <1>5, <1>6, <1>7 DEF Line
<1>9. Behind(more, batch, upto, rdy, expected)
    BY <1>3, <1>7 DEF InLine, Behind
<1> QED
    BY <1>8, <1>9 DEF InLine

\* The rest of the batch is given up.
LEMMA LineDrop ==
    ASSUME NEW out, NEW batch, NEW sent, NEW rdy, NEW expected, InLine(out, batch, sent, rdy, expected)
    PROVE  InLine(out, << >>, 0, rdy, expected)
<1>1. \A i \in 0 + 1 .. Len(<< >>) : FALSE
    OBVIOUS
<1> QED
    BY <1>1 DEF InLine, Line, Behind

\* Frames from the release point on fill an empty line.
LEMMA LineFill ==
    ASSUME NEW o \in Orders, NEW p \in Packets, NEW rdy, NEW after, NEW dropped, Pushed(o, p, rdy, after, dropped),
           NEW out \in Seq(0 .. MaxFrames), NEW batch \in Seq(Packets), NEW sent \in Nat,
           InLine(out, batch, sent, << >>, o.expected)
    PROVE  rdy \in Seq(Packets) /\ InLine(out, batch, sent, rdy, after.expected)
<1>1. o.expected \in Nat /\ o.expected >= 1 /\ after.expected \in Nat /\ after.expected >= o.expected
    BY LanesConstants DEF Pushed, Orders
<1>2. (\A i \in 1 .. Len(out) : out[i] \in Nat) /\ \A i \in sent + 1 .. Len(batch) : batch[i].n \in Nat
    <2>1. \A q \in Packets : q.n \in Nat
        BY LanesConstants DEF Packets
    <2>2. \A i \in sent + 1 .. Len(batch) : batch[i] \in Packets
        OBVIOUS
    <2>3. \A i \in 1 .. Len(out) : out[i] \in 0 .. MaxFrames
        <3> DEFINE N == 0 .. MaxFrames
        <3>1. out \in Seq(N)
            OBVIOUS
        <3> HIDE DEF N
        <3>2. \A i \in 1 .. Len(out) : out[i] \in N
            BY <3>1
        <3> QED
            BY <3>2 DEF N
    <2> QED
        BY <2>1, <2>2, <2>3, LanesConstants
<1>3. /\ \A i, j \in 1 .. Len(out) : i < j => Lt(out[i], out[j])
      /\ \A i \in 1 .. Len(out) : \A j \in sent + 1 .. Len(batch) : Lt(out[i], batch[j].n)
      /\ \A i, j \in sent + 1 .. Len(batch) : i < j => Lt(batch[i].n, batch[j].n)
      /\ \A i \in 1 .. Len(out) : out[i] < o.expected
      /\ \A i \in sent + 1 .. Len(batch) : batch[i].n < o.expected
    BY DEF InLine, Line, Behind
<1>4. \A x \in Nat : x < o.expected => x < after.expected
    BY <1>1
<1>5. /\ rdy \in Seq(Packets)
      /\ \A j \in 1 .. Len(rdy) : rdy[j].n < after.expected /\ (rdy[j].n = Unframed \/ rdy[j].n >= o.expected)
      /\ \A i, j \in 1 .. Len(rdy) : i < j => Lt(rdy[i].n, rdy[j].n)
    <2>1. CASE rdy = <<p>> /\ p.n = Unframed
        BY <1>1, <2>1 DEF Unframed
    <2>2. CASE \E e \in o.expected .. after.expected : Consecutive(rdy, e) /\ e + Len(rdy) <= after.expected
        <3>1. PICK e \in o.expected .. after.expected : Consecutive(rdy, e) /\ e + Len(rdy) <= after.expected
            BY <2>2
        <3>2. rdy \in Seq(Packets) /\ Len(rdy) \in Nat /\ e \in Nat /\ e >= o.expected
            BY <1>1, <3>1 DEF Consecutive
        <3>3. \A j \in 1 .. Len(rdy) : rdy[j].n = e + j - 1
            BY <3>1 DEF Consecutive
        <3> QED
            BY <1>1, <3>1, <3>2, <3>3 DEF Lt
    <2> QED
        BY <2>1, <2>2 DEF Pushed
<1>6. \A j \in 1 .. Len(rdy) : rdy[j].n \in Nat
    <2>1. \A q \in Packets : q.n \in Nat
        BY LanesConstants DEF Packets
    <2>2. \A j \in 1 .. Len(rdy) : rdy[j] \in Packets
        BY <1>5
    <2> QED
        BY <2>1, <2>2
<1>7. \A x, y \in Nat : x < o.expected /\ (y = Unframed \/ y >= o.expected) => Lt(x, y)
    BY <1>1 DEF Lt
<1>8. Line(out, batch, sent, rdy)
    BY <1>2, <1>3, <1>5, <1>6, <1>7 DEF Line
<1>9. Behind(out, batch, sent, rdy, after.expected)
    BY <1>2, <1>3, <1>4, <1>5 DEF Behind
<1> QED
    BY <1>5, <1>8, <1>9 DEF InLine

-----------------------------------------------------------------------------
(***************************************************************************)
(* Steps downwards: the lanes and the writer                               *)
(***************************************************************************)
\* The account afterwards: u buffers on the way up, a in lanes, b with the writer.
Settled(u, a, b) ==
    /\ UpCount' = u /\ InLanes' = a /\ Owned' = b /\ used' = u + a + b /\ u + a + b <= PoolSize

LEMMA DownStep ==
    ASSUME UpTyped', HandFits', DownTyped', BatchFits', LanesFit(lane, arrived)', HeldFits(order)',
           HeldArrived(order, lane, arrived)', InOrder',
           NEW u \in Nat, NEW a \in Nat, NEW b \in Nat, Settled(u, a, b)
    PROVE  LanesInv'
<1>1. used' = UpCount' + InLanes' + Owned'
    BY DEF Settled
<1>2. BuffersAccounted'
    BY <1>1 DEF BuffersAccounted, UpCount, InSession
<1>3. used' \in 0 .. PoolSize
    <2>1. u + a + b \in 0 .. PoolSize
        BY LanesConstants DEF Settled
    <2> QED
        BY <2>1 DEF Settled
<1>4. Typed'
    BY <1>3 DEF Typed, UpTyped, DownTyped, Lanes3
<1> QED
    BY <1>2, <1>4 DEF LanesInv

\* The reader and the session stand still.
UpStill ==
    /\ UNCHANGED <<mode, reader, linked, uplink, sending, session, cancelled>>
    /\ client' \in BOOLEAN /\ mmsg' \in BOOLEAN

LEMMA Still ==
    ASSUME LanesInv, UpStill
    PROVE  UpTyped' /\ HandFits' /\ UpCount' = UpCount
<1>1. UpTyped /\ HandFits
    BY Usable DEF LanesInv
<1> QED
    BY <1>1 DEF UpStill, UpTyped, HandFits, ReadBatch, UpCount, InUplink, InSession

\* The writer works: what it has is in order.
LEMMA Working ==
    ASSUME LanesInv, writer.pc \notin {"stalled", "ended"}
    PROVE  InLine(written, writer.batch, writer.sent, ready, order.expected)
    BY DEF LanesInv, InOrder, InLine

\* The amounts a writer owns.
LEMMA OwnedIs ==
    ASSUME LanesInv
    PROVE  /\ Len(ready) \in Nat /\ Cardinality(order.held) \in Nat /\ Len(writer.batch) \in Nat
           /\ Owned = Len(ready) + Cardinality(order.held) + Len(writer.batch)
           /\ ready \in Seq(Packets) /\ writer.batch \in Seq(Packets) /\ writer.sent \in Nat
           /\ written \in Seq(0 .. MaxFrames) /\ writer.sent <= Len(writer.batch)
    BY Usable, DownAmounts DEF Owned, DownTyped, Writers, LanesInv, BatchFits

\* next_return_packet looks at three lanes, one of which has a packet.
LEMMA FirstLaneHas ==
    ASSUME lane \in Lanes3, InLanes > 0
    PROVE  FirstLane \in Classes /\ lane[FirstLane] # << >>
<1> DEFINE First(c) == lane[c] # << >> /\ \A d \in 1 .. c - 1 : lane[d] = << >>
<1>1. lane[1] # << >> \/ lane[2] # << >> \/ lane[3] # << >>
    <2> SUFFICES ASSUME lane[1] = << >>, lane[2] = << >>, lane[3] = << >> PROVE FALSE
        OBVIOUS
    <2>1. Len(lane[1]) = 0 /\ Len(lane[2]) = 0 /\ Len(lane[3]) = 0
        OBVIOUS
    <2>2. InLanes = 0 + 0 + 0
        BY <2>1 DEF InLanes
    <2> QED
        BY <2>2
<1>2. lane[1] # << >> => First(1)
    OBVIOUS
<1>3. lane[1] = << >> /\ lane[2] # << >> => First(2)
    OBVIOUS
<1>4. lane[1] = << >> /\ lane[2] = << >> /\ lane[3] # << >> => First(3)
    OBVIOUS
<1>5. \E c \in Classes : First(c)
    BY <1>1, <1>2, <1>3, <1>4 DEF Classes
<1>6. FirstLane \in Classes /\ First(FirstLane)
    BY <1>5, Zenon DEF FirstLane
<1> QED
    BY <1>6

LEMMA ReordersStep ==
    ASSUME LanesInv, WriterReorders
    PROVE  LanesInv'
<1> DEFINE c == FirstLane
           p == Head(lane[c])
           batch == writer.batch
<1>1. /\ DownTyped /\ used \in Nat /\ used <= PoolSize /\ UpCount \in Nat /\ InLanes \in Nat /\ Owned \in Nat
      /\ used = UpCount + InLanes + Owned /\ PoolSize \in Nat
    BY Usable
<1>2. /\ writer.pc \in {"recv", "batch"} /\ ready = << >> /\ InLanes > 0
      /\ lane' = [lane EXCEPT ![c] = Tail(@)] /\ \E expired \in BOOLEAN : ReorderPush(p, expired)
      /\ UNCHANGED <<mode, reader, linked, uplink, sending, session, arrived, writer, client, mmsg, cancelled, written>>
    BY DEF WriterReorders, up, queues, world
<1>3. c \in Classes /\ lane[c] # << >> /\ lane \in Lanes3
    BY <1>1, <1>2, FirstLaneHas DEF DownTyped
<1>4. LanesFit(lane, arrived) /\ HeldFits(order) /\ HeldArrived(order, lane, arrived) /\ BatchFits
    BY DEF LanesInv
<1> HIDE DEF c
<1>5. /\ lane' \in Lanes3 /\ LanesFit(lane', arrived) /\ Within(lane', lane)
      /\ p \in Packets /\ p.n \in arrived /\ p = lane[c][1] /\ Len(lane[c]) >= 1
      /\ p.n # Unframed => \A d \in Classes : \A i \in 1 .. Len(lane'[d]) : lane'[d][i].n # p.n
      /\ Count(lane) \in Nat /\ Count(lane') \in Nat /\ Count(lane') = Count(lane) - 1
      /\ \A d \in Classes : Len(lane'[d]) <= Len(lane[d])
    <2> DEFINE m == [lane EXCEPT ![c] = Tail(@)]
    <2>1. /\ m \in Lanes3 /\ LanesFit(m, arrived) /\ Within(m, lane)
          /\ p \in Packets /\ p.n \in arrived /\ p = lane[c][1] /\ Len(lane[c]) >= 1
          /\ p.n # Unframed => \A d \in Classes : \A i \in 1 .. Len(m[d]) : m[d][i].n # p.n
          /\ Count(lane) \in Nat /\ Count(m) \in Nat /\ Count(m) = Count(lane) - 1
          /\ \A d \in Classes : Len(m[d]) <= Len(lane[d])
        BY <1>3, <1>4, LaneTakes
    <2>2. lane' = m
        BY <1>2
    <2> HIDE DEF m, p
    <2> QED
        BY <2>1, <2>2
<1>6. \A q \in order.held : q.n # p.n
    <2>1. 1 \in 1 .. Len(lane[c])
        BY <1>3, <1>5 DEF Lanes3
    <2> QED
        BY <1>3, <1>4, <1>5, <2>1 DEF HeldArrived
<1> HIDE DEF p
<1>7. PICK dropped : Pushed(order, p, ready', order', dropped) /\ used' = used - dropped
    BY <1>1, <1>2, <1>4, <1>5, <1>6, PushIs DEF DownTyped
<1>8. /\ order' \in Orders /\ IsFiniteSet(order'.held) /\ HeldFits(order')
      /\ order'.held \subseteq order.held \union {p} /\ dropped \in {0, 1}
      /\ Cardinality(order.held) + 1 = dropped + Len(ready') + Cardinality(order'.held)
      /\ p.n = Unframed => order' = order \/ \A q \in order'.held : q.n # Unframed
    BY <1>7 DEF Pushed
<1>9. InLine(written, batch, writer.sent, << >>, order.expected) /\ order \in Orders
    BY <1>1, <1>2, Working DEF DownTyped
<1>10. ready' \in Seq(Packets) /\ InLine(written, batch, writer.sent, ready', order'.expected)
    BY <1>5, <1>7, <1>9, LineFill, OwnedIs
<1>11. InOrder'
    BY <1>2, <1>10 DEF InOrder, InLine
<1>12. HeldArrived(order', lane', arrived)
    <2>1. \A q \in order'.held : q.n \in arrived
        BY <1>4, <1>5, <1>8 DEF HeldArrived
    <2>2. ASSUME NEW q \in order'.held, NEW d \in Classes, NEW i \in 1 .. Len(lane'[d]) PROVE lane'[d][i].n # q.n
        <3>1. PICK j \in 1 .. Len(lane[d]) : lane'[d][i] = lane[d][j]
            BY <1>5 DEF Within
        <3>2. CASE q \in order.held
            BY <1>4, <3>1, <3>2 DEF HeldArrived
        <3>3. CASE q = p /\ q \notin order.held
            <4>1. p.n # Unframed
                BY <1>8, <3>3
            <4> QED
                BY <1>5, <3>3, <4>1
        <3> QED
            BY <1>8, <3>2, <3>3
    <2> QED
        BY <2>1, <2>2 DEF HeldArrived
<1>13. DownTyped'
    <2>1. ASSUME NEW d \in Classes PROVE Len(lane'[d]) <= LaneCapacity
        <3>1. Len(lane'[d]) \in Nat /\ Len(lane[d]) \in Nat /\ Len(lane'[d]) <= Len(lane[d])
            BY <1>3, <1>5 DEF Lanes3
        <3>2. Len(lane[d]) <= LaneCapacity
            BY <1>1 DEF DownTyped
        <3> QED
            BY <3>1, <3>2, LanesConstants
    <2> QED
        BY <1>1, <1>2, <1>5, <1>8, <1>10, <2>1 DEF DownTyped
<1>14. BatchFits'
    BY <1>2, <1>4 DEF BatchFits
<1>15. UpStill
    BY <1>2, Usable DEF UpStill, UpTyped
<1> DEFINE a == InLanes - 1
           x == Len(ready')
           y == Cardinality(order'.held)
           z == Len(batch)
           w == Cardinality(order.held)
<1>16. x \in Nat /\ y \in Nat /\ z \in Nat /\ w \in Nat /\ Owned = 0 + w + z /\ w + 1 = dropped + x + y
    BY <1>2, <1>8, <1>10, OwnedIs, FS_CardinalityType
<1>17. InLanes' = a /\ a \in Nat /\ Owned' = x + y + z
    BY <1>1, <1>2, <1>5, DownAmounts DEF InLanes, Count, Owned
<1> HIDE DEF a, x, y, z, w
<1>18. x + y + z \in Nat /\ UpCount + a + (x + y + z) = used - dropped
    <2>1. a = InLanes - 1
        BY DEF a
    <2> QED
        BY <1>1, <1>8, <1>16, <2>1
<1>19. used - dropped <= PoolSize
    BY <1>1, <1>8
<1>20. Settled(UpCount, a, x + y + z)
    BY <1>7, <1>15, <1>17, <1>18, <1>19, Still DEF Settled
<1> QED
    BY <1>1, <1>2, <1>5, <1>8, <1>11, <1>12, <1>13, <1>14, <1>15, <1>17, <1>18, <1>20, Still, DownStep

\* k buffers of the writer are given back.
Pays(k) ==
    /\ used' = used - k
    /\ Len(ready') + Len(writer'.batch) + k = Len(ready) + Len(writer.batch)

\* A step of the writer that leaves the lanes and the reassembler alone.
LEMMA WriterStep ==
    ASSUME LanesInv, UpStill, UNCHANGED <<lane, arrived, order>>,
           ready' \in Seq(Packets), writer' \in Writers, written' \in Seq(0 .. MaxFrames), BatchFits',
           InLine(written', writer'.batch, writer'.sent, ready', order.expected),
           NEW k \in Nat, Pays(k)
    PROVE  LanesInv'
<1>1. /\ DownTyped /\ used \in Nat /\ used <= PoolSize /\ UpCount \in Nat /\ InLanes \in Nat /\ Owned \in Nat
      /\ used = UpCount + InLanes + Owned /\ PoolSize \in Nat
    BY Usable
<1>2. DownTyped'
    BY <1>1 DEF DownTyped
<1>3. LanesFit(lane, arrived)' /\ HeldFits(order)' /\ HeldArrived(order, lane, arrived)'
    BY DEF LanesInv
<1>4. InOrder'
    BY DEF InOrder, InLine
<1> DEFINE x == Len(ready')
           z == Len(writer'.batch)
           w == Cardinality(order.held)
           v == Len(ready)
           y == Len(writer.batch)
<1>5. x \in Nat /\ z \in Nat
    <2>1. writer'.batch \in Seq(Packets)
        BY DEF Writers
    <2> QED
        BY <2>1
<1>6. w \in Nat /\ v \in Nat /\ y \in Nat /\ Owned = v + w + y
    BY OwnedIs
<1>7. Owned' = x + w + z /\ InLanes' = InLanes
    BY DEF Owned, InLanes
<1>8. x + z + k = v + y /\ used' = used - k
    BY DEF Pays
<1> HIDE DEF x, z, w, v, y
<1>9. x + w + z \in Nat /\ UpCount + InLanes + (x + w + z) = used - k
    BY <1>1, <1>5, <1>6, <1>8
<1>10. used - k <= PoolSize
    BY <1>1
<1>11. Settled(UpCount, InLanes, x + w + z)
    BY <1>7, <1>8, <1>9, <1>10, Still DEF Settled
<1> QED
    BY <1>1, <1>2, <1>3, <1>4, <1>9, <1>11, Still, DownStep

LEMMA TakesStep ==
    ASSUME LanesInv, WriterTakes \/ WriterBatches
    PROVE  LanesInv'
<1> DEFINE batch == writer.batch
           next == Head(ready)
<1>1. /\ ready \in Seq(Packets) /\ batch \in Seq(Packets) /\ writer.sent \in Nat /\ writer.sent <= Len(batch)
      /\ written \in Seq(0 .. MaxFrames) /\ BatchFits /\ Len(ready) \in Nat /\ Len(batch) \in Nat
    BY OwnedIs DEF LanesInv
<1>2. /\ ready # << >> /\ ready' = Tail(ready) /\ used' = used /\ writer.pc \in {"recv", "batch"}
      /\ UNCHANGED <<mode, reader, linked, uplink, sending, session, lane, arrived, order, client, mmsg, cancelled, written>>
    BY DEF WriterTakes, WriterBatches, up, queues, down, world
<1>3. UpStill
    BY <1>2, Usable DEF UpStill, UpTyped
<1>4. writer.sent = 0
    BY <1>1, <1>2 DEF BatchFits
<1>5. InLine(written, batch, 0, ready, order.expected)
    BY <1>2, <1>4, Working
<1>6. InLine(written, Append(batch, next), 0, Tail(ready), order.expected)
    BY <1>1, <1>2, <1>5, LineTake
<1>7. /\ Append(batch, next) \in Seq(Packets) /\ Len(Append(batch, next)) = Len(batch) + 1
      /\ Tail(ready) \in Seq(Packets) /\ Len(Tail(ready)) = Len(ready) - 1
    BY <1>1, <1>2
<1>8. Batch \in Nat /\ Batch >= 1 /\ writer \in Writers
    BY LanesConstants, Usable DEF DownTyped
<1>9. /\ writer' \in Writers /\ writer'.batch = Append(batch, next) /\ writer'.sent = 0
      /\ writer'.pc \in {"batch", "write"} /\ Len(batch) + 1 \in 1 .. Batch
      /\ writer'.pc = "write" => batch = << >>
    <2>1. CASE WriterTakes
        <3>1. batch = << >>
            BY <1>1, <2>1 DEF WriterTakes, BatchFits
        <3>2. Append(batch, next) = <<next>>
            BY <3>1
        <3>3. writer' = [pc |-> IF mode = "udp" THEN "batch" ELSE "write", batch |-> <<next>>, sent |-> 0]
            BY <2>1 DEF WriterTakes
        <3>4. writer' = [pc |-> IF mode = "udp" THEN "batch" ELSE "write", batch |-> Append(batch, next), sent |-> 0]
            BY <3>2, <3>3
        <3>5. Len(batch) = 0
            BY <3>1
        <3> HIDE DEF batch
        <3> QED
            BY <1>7, <1>8, <3>1, <3>4, <3>5 DEF Writers
    <2>2. CASE WriterBatches
        <3>1. writer' = [writer EXCEPT !.batch = Append(batch, next)] /\ writer.pc = "batch" /\ Len(batch) # Batch
            BY <2>2 DEF WriterBatches, BatchFull
        <3>2. Len(batch) \in 1 .. Batch
            BY <1>1, <3>1 DEF BatchFits
        <3>3. Len(batch) + 1 \in 1 .. Batch
            BY <1>1, <1>8, <3>1, <3>2
        <3> DEFINE new == Append(batch, next)
        <3>4. new \in Seq(Packets) /\ writer' = [writer EXCEPT !.batch = new]
            BY <1>7, <3>1
        <3> HIDE DEF new
        <3>5. writer' \in Writers /\ writer'.batch = new /\ writer'.sent = writer.sent /\ writer'.pc = writer.pc
            BY <1>8, <3>4 DEF Writers
        <3> QED
            BY <1>4, <3>1, <3>3, <3>5 DEF new
    <2> QED
        BY <2>1, <2>2
<1>10. BatchFits'
    <2>1. Len(writer'.batch) = Len(batch) + 1 /\ (batch = << >> => Len(batch) = 0)
        BY <1>7, <1>9
    <2> HIDE DEF batch
    <2> QED
        BY <1>1, <1>9, <2>1 DEF BatchFits
<1>11. Pays(0)
    <2> DEFINE x == Len(ready)
               y == Len(batch)
    <2>1. Len(ready') = x - 1 /\ Len(writer'.batch) = y + 1 /\ x \in Nat /\ y \in Nat
        BY <1>1, <1>2, <1>7, <1>9
    <2> HIDE DEF x, y
    <2>2. (x - 1) + (y + 1) + 0 = x + y
        BY <2>1
    <2>3. used' = used - 0
        BY <1>2, Usable
    <2> QED
        BY <2>1, <2>2, <2>3 DEF Pays, x, y
<1> QED
    BY <1>1, <1>2, <1>3, <1>6, <1>7, <1>9, <1>10, <1>11, WriterStep

LEMMA BatchEndsStep ==
    ASSUME LanesInv, WriterBatchEnds
    PROVE  LanesInv'
<1>1. /\ ready \in Seq(Packets) /\ writer.batch \in Seq(Packets) /\ written \in Seq(0 .. MaxFrames) /\ BatchFits
      /\ writer \in Writers /\ Len(ready) \in Nat /\ Len(writer.batch) \in Nat
    BY OwnedIs, Usable DEF LanesInv, DownTyped
<1>2. /\ writer.pc = "batch" /\ writer' = [writer EXCEPT !.pc = "send"] /\ used' = used
      /\ UNCHANGED <<mode, reader, linked, uplink, sending, session, lane, arrived, order, client, mmsg, cancelled, written>>
    BY DEF WriterBatchEnds, up, queues, down, world
<1>3. ready' = ready
    <2>1. CASE UNCHANGED ready
        BY <2>1
    <2>2. CASE ready # << >> /\ PutBack
        <3>1. <<Head(ready)>> \o Tail(ready) = ready
            BY <1>1, <2>2
        <3> QED
            BY <2>2, <3>1 DEF PutBack
    <2> QED
        BY <2>1, <2>2 DEF WriterBatchEnds
<1>4. writer' \in Writers /\ writer'.pc = "send" /\ writer'.batch = writer.batch /\ writer'.sent = writer.sent
    BY <1>1, <1>2 DEF Writers
<1>5. UpStill
    BY <1>2, Usable DEF UpStill, UpTyped
<1>6. InLine(written, writer.batch, writer.sent, ready, order.expected)
    BY <1>2, Working
<1>7. BatchFits'
    BY <1>1, <1>2, <1>3, <1>4 DEF BatchFits
<1>8. Pays(0)
    <2> DEFINE x == Len(ready)
               y == Len(writer.batch)
    <2>1. Len(ready') = x /\ Len(writer'.batch) = y /\ x \in Nat /\ y \in Nat
        BY <1>1, <1>3, <1>4
    <2> HIDE DEF x, y
    <2>2. x + y + 0 = x + y
        BY <2>1
    <2>3. used' = used - 0
        BY <1>2, Usable
    <2> QED
        BY <2>1, <2>2, <2>3 DEF Pays, x, y
<1> QED
    BY <1>1, <1>2, <1>3, <1>4, <1>5, <1>6, <1>7, <1>8, WriterStep

\* The numbers of the packets sent come after those written before.
LEMMA WrittenExtends ==
    ASSUME NEW out \in Seq(0 .. MaxFrames), NEW batch \in Seq(Packets), NEW sent \in Nat, NEW upto \in sent .. Len(batch)
    PROVE  LET more == out \o Numbers(SubSeq(batch, sent + 1, upto))
           IN  more \in Seq(0 .. MaxFrames) /\ Extends(out, more, batch, sent, upto)
<1> DEFINE part == SubSeq(batch, sent + 1, upto)
           nums == Numbers(part)
           n == upto - sent
           N == 0 .. MaxFrames
<1>1. n \in Nat /\ Len(out) \in Nat /\ upto <= Len(batch)
    OBVIOUS
<1>2. /\ part \in Seq(Packets) /\ Len(part) = n
      /\ \A i \in 1 .. n : part[i] = batch[sent + i] /\ sent + i \in 1 .. Len(batch)
    OBVIOUS
<1> HIDE DEF part
<1>3. nums = [i \in 1 .. n |-> part[i].n]
    BY <1>2 DEF Numbers
<1>4. \A i \in 1 .. n : part[i].n \in N /\ part[i] \in Packets
    <2>1. \A q \in Packets : q.n \in N
        BY DEF Packets
    <2> HIDE DEF n, N
    <2> QED
        BY <1>1, <1>2, <2>1
<1> HIDE DEF nums, n, N
<1>5. nums \in [1 .. n -> N]
    BY <1>3, <1>4
<1>6. nums \in Seq(N) /\ Len(nums) = n /\ \A i \in 1 .. n : nums[i] = part[i].n
    BY <1>1, <1>3, <1>5
<1>7. out \in Seq(N)
    BY DEF N
<1> DEFINE more == out \o nums
<1>8. /\ more \in Seq(N) /\ Len(more) = Len(out) + n
      /\ \A i \in 1 .. Len(out) : more[i] = out[i]
      /\ \A i \in 1 .. n : more[Len(out) + i] = nums[i]
    <2>1. more \in Seq(N) /\ Len(more) = Len(out) + n
        <3>1. nums \in Seq(N)
            BY <1>6
        <3>2. more \in Seq(N) /\ Len(more) = Len(out) + Len(nums)
            BY <1>7, <3>1
        <3> QED
            BY <1>6, <3>2
    <2>2. \A i \in 1 .. Len(out) : more[i] = out[i]
        BY <1>1, <1>6, <1>7
    <2>3. ASSUME NEW i \in 1 .. n PROVE more[Len(out) + i] = nums[i]
        <3> DEFINE j == Len(out) + i
        <3>1. j \in 1 .. Len(out) + Len(nums) /\ j > Len(out) /\ j - Len(out) = i
            BY <1>1, <1>6
        <3> HIDE DEF j
        <3>2. more[j] = nums[j - Len(out)]
            BY <1>1, <1>6, <1>7, <3>1
        <3> QED
            BY <3>1, <3>2 DEF j
    <2> QED
        BY <2>1, <2>2, <2>3
<1> HIDE DEF more
<1>9. ASSUME NEW i \in sent + 1 .. upto PROVE more[Len(out) + (i - sent)] = batch[i].n
    <2> DEFINE k == i - sent
    <2>1. k \in 1 .. n /\ sent + k = i
        BY DEF n
    <2> HIDE DEF k
    <2>2. more[Len(out) + k] = batch[sent + k].n
        BY <1>2, <1>6, <1>8, <2>1
    <2> QED
        BY <2>1, <2>2 DEF k
<1>10. Extends(out, more, batch, sent, upto)
    BY <1>8, <1>9 DEF Extends, n
<1> QED
    BY <1>8, <1>10 DEF more, N, nums, part

\* The writer is idle again.
LEMMA IdleFits ==
    ASSUME writer' = Idle
    PROVE  writer' \in Writers /\ writer'.batch = << >> /\ writer'.sent = 0 /\ BatchFits' /\ Len(writer'.batch) = 0
<1>1. << >> \in Seq(Packets) /\ Len(<< >>) = 0 /\ 0 \notin 1 .. Batch
    BY LanesConstants
<1>2. writer'.pc = "recv" /\ writer'.batch = << >> /\ writer'.sent = 0 /\ writer' \in Writers
    BY <1>1 DEF Idle, Writers
<1>3. Len(writer'.batch) = 0
    BY <1>1, <1>2
<1> QED
    BY <1>1, <1>2, <1>3 DEF BatchFits

\* The batch is over: all its buffers are given back.
LEMMA IdleStep ==
    ASSUME LanesInv, UpStill, UNCHANGED <<lane, arrived, order, ready>>, written' \in Seq(0 .. MaxFrames),
           writer' = Idle, used' = used - Len(writer.batch),
           NEW batch, NEW sent, InLine(written', batch, sent, ready, order.expected)
    PROVE  LanesInv'
<1>1. Len(writer.batch) \in Nat /\ Len(ready) \in Nat /\ ready \in Seq(Packets)
    BY OwnedIs
<1>2. InLine(written', << >>, 0, ready, order.expected)
    BY LineDrop
<1>3. writer' \in Writers /\ writer'.batch = << >> /\ writer'.sent = 0 /\ BatchFits' /\ Len(writer'.batch) = 0
    BY IdleFits
<1>4. Pays(Len(writer.batch))
    <2> DEFINE y == Len(writer.batch)
    <2>1. y \in Nat /\ Len(ready') = Len(ready)
        BY <1>1
    <2> HIDE DEF y
    <2>2. Len(ready) + 0 + y = Len(ready) + y
        BY <1>1, <2>1
    <2> QED
        BY <1>3, <2>1, <2>2 DEF Pays, y
<1> QED
    BY <1>1, <1>2, <1>3, <1>4, WriterStep

LEMMA SendsStep ==
    ASSUME LanesInv, WriterSends
    PROVE  LanesInv'
<1> DEFINE batch == writer.batch
           sent == writer.sent
<1>1. /\ ready \in Seq(Packets) /\ batch \in Seq(Packets) /\ written \in Seq(0 .. MaxFrames) /\ BatchFits
      /\ writer \in Writers /\ Len(ready) \in Nat /\ Len(batch) \in Nat /\ sent \in Nat /\ sent <= Len(batch)
    BY OwnedIs, Usable DEF LanesInv, DownTyped
<1>2. PICK count \in 0 .. Len(batch) - sent, error \in BOOLEAN, still \in BOOLEAN :
        LET upto == sent + count
            end  == upto = Len(batch) \/ error
        IN  /\ mmsg' = still
            /\ written' = written \o Numbers(SubSeq(batch, sent + 1, upto))
            /\ writer' = IF end THEN Idle ELSE [writer EXCEPT !.sent = upto]
            /\ Release(IF end THEN Len(batch) ELSE 0)
    BY DEF WriterSends
<1>3. /\ writer.pc = "send"
      /\ UNCHANGED <<mode, reader, linked, uplink, sending, session, lane, arrived, order, ready, client, cancelled>>
    BY DEF WriterSends, up, queues, down, sorted
<1>4. UpStill
    BY <1>2, <1>3, Usable DEF UpStill, UpTyped
<1> DEFINE upto == sent + count
<1>5. upto \in sent .. Len(batch) /\ upto \in Nat /\ upto <= Len(batch)
    BY <1>1
<1> HIDE DEF upto, sent
<1>6. written' = written \o Numbers(SubSeq(batch, sent + 1, upto))
    BY <1>2 DEF upto, sent
<1>7. written' \in Seq(0 .. MaxFrames) /\ Extends(written, written', batch, sent, upto)
    BY <1>1, <1>5, <1>6, WrittenExtends
<1>8. InLine(written, batch, sent, ready, order.expected)
    BY <1>3, Working DEF sent
<1>9. InLine(written', batch, upto, ready, order.expected)
    BY <1>1, <1>5, <1>7, <1>8, LineSend
<1>10. CASE upto = Len(batch) \/ error
    <2>1. writer' = Idle /\ used' = used - Len(batch)
        BY <1>2, <1>10 DEF upto, sent, Release
    <2> QED
        BY <1>3, <1>4, <1>7, <1>9, <2>1, IdleStep
<1>11. CASE ~ (upto = Len(batch) \/ error)
    <2>1. writer' = [writer EXCEPT !.sent = upto] /\ used' = used - 0
        BY <1>2, <1>11 DEF upto, sent, Release
    <2>2. writer' \in Writers /\ writer'.pc = "send" /\ writer'.batch = batch /\ writer'.sent = upto
        BY <1>1, <1>3, <1>5, <2>1 DEF Writers
    <2>3. BatchFits'
        BY <1>1, <1>3, <1>5, <2>2 DEF BatchFits
    <2>4. Pays(0)
        <3> DEFINE y == Len(batch)
        <3>1. y \in Nat /\ Len(ready') = Len(ready) /\ Len(writer'.batch) = y
            BY <1>1, <1>3, <2>2
        <3> HIDE DEF y
        <3>2. Len(ready) + y + 0 = Len(ready) + y
            BY <1>1, <3>1
        <3> QED
            BY <2>1, <3>1, <3>2 DEF Pays, y
    <2> QED
        BY <1>1, <1>3, <1>4, <1>7, <1>9, <2>2, <2>3, <2>4, WriterStep
<1> QED
    BY <1>10, <1>11

LEMMA DiscardsStep ==
    ASSUME LanesInv, WriterDiscards
    PROVE  LanesInv'
<1>1. /\ writer.pc = "send" /\ writer' = Idle /\ used' = used - Len(writer.batch)
      /\ UNCHANGED <<mode, reader, linked, uplink, sending, session, lane, arrived, order, ready, client, mmsg,
                     cancelled, written>>
    BY DEF WriterDiscards, Release, up, queues, down, sorted, world
<1>2. UpStill
    BY <1>1, Usable DEF UpStill, UpTyped
<1>3. InLine(written', writer.batch, writer.sent, ready, order.expected) /\ written' \in Seq(0 .. MaxFrames)
    BY <1>1, Working, OwnedIs
<1> QED
    BY <1>1, <1>2, <1>3, IdleStep

LEMMA WritesStep ==
    ASSUME LanesInv, WriterWrites
    PROVE  LanesInv'
<1> DEFINE batch == writer.batch
<1>1. /\ writer.pc = "write" /\ writer' = Idle /\ used' = used - 1
      /\ written' = written \o Numbers(batch) \/ written' = written
      /\ UNCHANGED <<mode, reader, linked, uplink, sending, session, lane, arrived, order, ready, client, mmsg,
                     cancelled>>
    BY DEF WriterWrites, Release, up, queues, down, sorted, world
<1>2. /\ ready \in Seq(Packets) /\ batch \in Seq(Packets) /\ written \in Seq(0 .. MaxFrames)
      /\ Len(batch) = 1 /\ writer.sent = 0
    BY <1>1, OwnedIs DEF LanesInv, BatchFits
<1>3. UpStill
    BY <1>1, Usable DEF UpStill, UpTyped
<1>4. InLine(written, batch, 0, ready, order.expected)
    BY <1>1, <1>2, Working
<1>5. CASE written' = written
    BY <1>1, <1>2, <1>3, <1>4, <1>5, IdleStep
<1>6. CASE written' = written \o Numbers(batch)
    <2>1. SubSeq(batch, 0 + 1, 1) = batch /\ 1 \in 0 .. Len(batch) /\ 0 \in Nat
        BY <1>2
    <2> HIDE DEF batch
    <2>2. written' \in Seq(0 .. MaxFrames) /\ Extends(written, written', batch, 0, 1)
        BY <1>2, <1>6, <2>1, WrittenExtends
    <2>3. InLine(written', batch, 1, ready, order.expected)
        BY <1>2, <1>4, <2>1, <2>2, LineSend
    <2>4. used' = used - Len(writer.batch)
        BY <1>1, <1>2 DEF batch
    <2> QED
        BY <1>1, <1>3, <2>2, <2>3, <2>4, IdleStep
<1> QED
    BY <1>1, <1>5, <1>6

\* What is left when a writer has gone with everything it owns.
LEMMA GoneFits ==
    ASSUME LanesInv, NEW pc \in {"stalled", "ended"}, NEW keeps \in BOOLEAN, NEW more,
           WriterGone(pc, keeps, more), UNCHANGED <<arrived, written>>
    PROVE  /\ DownTyped' /\ BatchFits' /\ LanesFit(lane, arrived)' /\ HeldFits(order)'
           /\ HeldArrived(order, lane, arrived)' /\ InOrder'
           /\ Owned' = 0 /\ InLanes' = IF keeps THEN InLanes ELSE 0
<1>1. DownTyped /\ LanesFit(lane, arrived) /\ InOrder
    BY Usable DEF LanesInv
<1>2. /\ writer' = [Idle EXCEPT !.pc = pc] /\ ready' = << >> /\ order' = [expected |-> 1, held |-> {}]
      /\ lane' = IF keeps THEN lane ELSE [c \in Classes |-> << >>]
    BY DEF WriterGone
<1>3. << >> \in Seq(Packets) /\ Len(<< >>) = 0 /\ Cardinality({}) = 0 /\ IsFiniteSet({}) /\ 0 \notin 1 .. Batch
    BY FS_EmptySet, LanesConstants
<1>4. writer' \in Writers /\ writer'.pc = pc /\ writer'.batch = << >> /\ writer'.sent = 0
    BY <1>2, <1>3 DEF Idle, Writers
<1>5. order' \in Orders /\ order'.held = {} /\ order'.expected = 1
    BY <1>2, LanesConstants DEF Orders
<1>6. BatchFits'
    BY <1>2, <1>3, <1>4 DEF BatchFits
<1>7. HeldFits(order)' /\ HeldArrived(order, lane, arrived)'
    BY <1>5 DEF HeldFits, HeldArrived
<1>8. Owned' = 0
    <2>1. Len(ready') = 0 /\ Cardinality(order'.held) = 0 /\ Len(writer'.batch) = 0
        BY <1>2, <1>3, <1>4, <1>5
    <2>2. Owned' = 0 + 0 + 0
        BY <2>1 DEF Owned
    <2> QED
        BY <2>2
<1>9. InOrder'
    <2>1. Line(written, writer.batch, writer.sent, ready)
        BY <1>1 DEF InOrder
    <2>2. \A i \in 0 + 1 .. Len(<< >>) : FALSE
        BY <1>3
    <2>3. Line(written, << >>, 0, << >>)
        BY <2>1, <2>2 DEF Line
    <2> QED
        BY <1>2, <1>4, <2>3 DEF InOrder
<1>10. CASE keeps
    <2>1. lane' = lane
        BY <1>2, <1>10
    <2> QED
        BY <1>1, <1>2, <1>3, <1>4, <1>5, <1>6, <1>7, <1>8, <1>9, <1>10, <2>1 DEF DownTyped, InLanes
<1>11. CASE ~ keeps
    <2>1. lane' = [c \in Classes |-> << >>]
        BY <1>2, <1>11
    <2>2. \A c \in Classes : lane'[c] = << >> /\ Len(lane'[c]) = 0
        BY <1>3, <2>1
    <2>3. lane' \in Lanes3
        BY <1>3, <2>1 DEF Lanes3
    <2>4. LanesFit(lane, arrived)'
        BY <2>2 DEF LanesFit
    <2>5. InLanes' = 0
        <3>1. Len(lane'[1]) = 0 /\ Len(lane'[2]) = 0 /\ Len(lane'[3]) = 0
            BY <2>2 DEF Classes
        <3>2. InLanes' = 0 + 0 + 0
            BY <3>1 DEF InLanes
        <3> QED
            BY <3>2
    <2>6. DownTyped'
        BY <1>1, <1>2, <1>3, <1>4, <1>5, <2>2, <2>3, LanesConstants DEF DownTyped
    <2> QED
        BY <1>6, <1>7, <1>8, <1>9, <1>11, <2>4, <2>5, <2>6
<1> QED
    BY <1>10, <1>11

\* The writer ends and its lanes with it.
LEMMA GoneStep ==
    ASSUME LanesInv, WriterGone("ended", FALSE, 0), UpStill, UNCHANGED <<arrived, written>>
    PROVE  LanesInv'
<1>1. /\ used \in Nat /\ used <= PoolSize /\ UpCount \in Nat /\ InLanes \in Nat /\ Owned \in Nat
      /\ used = UpCount + InLanes + Owned /\ PoolSize \in Nat
    BY Usable
<1>2. /\ DownTyped' /\ BatchFits' /\ LanesFit(lane, arrived)' /\ HeldFits(order)'
      /\ HeldArrived(order, lane, arrived)' /\ InOrder' /\ Owned' = 0 /\ InLanes' = 0
    BY GoneFits
<1>3. used' = used - (Owned + 0 + InLanes)
    BY DEF WriterGone, Release
<1>4. used - (Owned + 0 + InLanes) = UpCount + 0 + 0 /\ UpCount + 0 + 0 <= PoolSize
    BY <1>1
<1>5. Settled(UpCount, 0, 0)
    BY <1>2, <1>3, <1>4, Still DEF Settled
<1> QED
    BY <1>1, <1>2, <1>5, Still, DownStep

LEMMA EndsStep ==
    ASSUME LanesInv, WriterStops \/ TunFails \/ WintunFails
    PROVE  LanesInv'
<1> DEFINE h == reader.hand
<1>1. /\ UpTyped /\ used \in Nat /\ used <= PoolSize /\ PoolSize \in Nat /\ UpCount \in Nat /\ UpCount <= used
      /\ InUplink \in Nat /\ InSession \in Nat /\ h \in Nat /\ sending \in Nat
      /\ InLanes \in Nat /\ Owned \in Nat /\ used = UpCount + InLanes + Owned
      /\ UpCount = h + InUplink + sending + InSession
    BY Usable, UpAmounts DEF UpCount
<1>2. Batch \in Nat
    BY LanesConstants
<1>3. CASE WriterStops
    <2>1. WriterGone("ended", FALSE, 0) /\ UNCHANGED <<arrived, written>>
        BY <1>3 DEF WriterStops
    <2>2. UpStill
        BY <1>1, <1>3 DEF WriterStops, up, queues, world, UpStill, UpTyped
    <2> QED
        BY <2>1, <2>2, GoneStep
<1>4. CASE TunFails
    <2>1. /\ reader' = [pc |-> "ended", hand |-> 0] /\ WriterGone("stalled", TRUE, h)
          /\ UNCHANGED <<mode, linked, uplink, sending, session, arrived, client, mmsg, cancelled, written>>
        BY <1>4 DEF TunFails, queues, world
    <2>2. /\ DownTyped' /\ BatchFits' /\ LanesFit(lane, arrived)' /\ HeldFits(order)'
          /\ HeldArrived(order, lane, arrived)' /\ InOrder' /\ Owned' = 0 /\ InLanes' = InLanes
        <3> HIDE DEF h
        <3>1. "stalled" \in {"stalled", "ended"} /\ TRUE \in BOOLEAN
            OBVIOUS
        <3> QED
            BY <2>1, <3>1, GoneFits
    <2>3. used' = used - (Owned + h + 0)
        BY <2>1 DEF WriterGone, Release
    <2>4. reader' \in Readers /\ reader'.hand = 0 /\ reader'.pc = "ended"
        BY <1>2, <2>1 DEF Readers
    <2>5. UpTyped' /\ HandFits'
        BY <1>1, <2>1, <2>4 DEF UpTyped, HandFits
    <2> DEFINE u == 0 + InUplink + sending + InSession
    <2>6. UpCount' = u
        BY <2>1, <2>4 DEF UpCount, InUplink, InSession
    <2> HIDE DEF h
    <2>7. u \in Nat /\ used - (Owned + h + 0) = u + InLanes + 0 /\ u + InLanes + 0 <= PoolSize
        BY <1>1
    <2> HIDE DEF u
    <2>8. Settled(u, InLanes, 0)
        BY <2>2, <2>3, <2>6, <2>7 DEF Settled
    <2> QED
        BY <1>1, <2>2, <2>5, <2>7, <2>8, DownStep
<1>5. CASE WintunFails
    <2>1. UNCHANGED <<mode, linked, uplink, sending, session, arrived, client, mmsg, cancelled, written>>
        BY <1>5 DEF WintunFails, queues, world
    <2>2. CASE WriterGone("ended", FALSE, 0) /\ UNCHANGED reader
        <3>1. UpStill
            BY <1>1, <2>1, <2>2 DEF UpStill, UpTyped
        <3> QED
            BY <2>1, <2>2, <3>1, GoneStep
    <2>3. CASE reader' = [pc |-> "ended", hand |-> 0] /\ Release(h) /\ UNCHANGED <<writer, sorted, lane>>
        <3>1. reader' \in Readers /\ reader'.hand = 0 /\ reader'.pc = "ended"
            BY <1>2, <2>3 DEF Readers
        <3>2. UpTyped' /\ HandFits'
            BY <1>1, <2>1, <3>1 DEF UpTyped, HandFits
        <3>3. UpCount' = 0 + InUplink + sending + InSession /\ used' = used - h
            BY <2>1, <2>3, <3>1 DEF UpCount, InUplink, InSession, Release
        <3> HIDE DEF h
        <3>4. Balanced /\ used' <= PoolSize
            BY <1>1, <3>3 DEF Balanced
        <3> QED
            BY <2>1, <2>3, <3>2, <3>4, UpStep DEF sorted
    <2> QED
        BY <1>5, <2>2, <2>3 DEF WintunFails
<1> QED
    BY <1>3, <1>4, <1>5

LEMMA ReturnStep ==
    ASSUME LanesInv, NEW n \in Frames \union {Unframed}, NEW c \in Classes, ReturnPacket(n, c)
    PROVE  LanesInv'
<1> DEFINE h == reader.hand
           p == [n |-> n, class |-> c]
<1>1. /\ UpTyped /\ DownTyped /\ used \in Nat /\ used <= PoolSize /\ PoolSize \in Nat /\ UpCount \in Nat
      /\ InUplink \in Nat /\ h \in Nat /\ sending \in Nat
      /\ InLanes \in Nat /\ InLanes = Count(lane) /\ Owned \in Nat /\ used = UpCount + InLanes + Owned
      /\ UpCount = h + InUplink + sending + InSession
    BY Usable, UpAmounts, DownAmounts DEF UpCount
<1>2. /\ session /\ session' = FALSE /\ n \notin arrived /\ arrived' = arrived \union {n}
      /\ UNCHANGED <<mode, reader, linked, uplink, sending, order, ready, writer, client, mmsg, cancelled, written>>
    BY DEF ReturnPacket, up, queues, sorted, world
<1>3. /\ LanesFit(lane, arrived) /\ HeldFits(order) /\ HeldArrived(order, lane, arrived) /\ BatchFits /\ InOrder
      /\ HandFits
    BY DEF LanesInv
<1>4. UpTyped' /\ HandFits'
    BY <1>1, <1>2, <1>3 DEF UpTyped, HandFits, ReadBatch
<1>5. BatchFits' /\ HeldFits(order)' /\ InOrder' /\ Owned' = Owned
    BY <1>2, <1>3 DEF BatchFits, InOrder, Owned
<1>6. p \in Packets /\ p.n = n
    BY LanesConstants DEF Packets, Frames, Unframed
<1> DEFINE u == h + InUplink + sending + 0
<1>7. UpCount' = u /\ InSession = 1
    BY <1>2 DEF UpCount, InUplink, InSession
<1> HIDE DEF h
<1>8. u \in Nat /\ UpCount = u + 1
    BY <1>1, <1>7
<1> HIDE DEF u
<1>9. CASE writer.pc = "ended"
    <2>1. lane' = lane /\ used' = used - 1
        BY <1>9 DEF ReturnPacket, Release
    <2>2. LanesFit(lane', arrived') /\ HeldArrived(order', lane', arrived')
        BY <1>2, <1>3, <2>1 DEF LanesFit, HeldArrived
    <2>3. DownTyped' /\ InLanes' = InLanes
        BY <1>1, <1>2, <2>1 DEF DownTyped, InLanes
    <2>4. used - 1 = u + InLanes + Owned /\ u + InLanes + Owned <= PoolSize
        BY <1>1, <1>8
    <2>5. Settled(u, InLanes, Owned)
        BY <1>5, <1>7, <2>1, <2>3, <2>4 DEF Settled
    <2> QED
        BY <1>1, <1>4, <1>5, <1>8, <2>2, <2>3, <2>5, DownStep
<1>10. CASE writer.pc # "ended"
    <2> DEFINE m == [lane EXCEPT ![c] = ForceSend(@, p)]
               k == IF Len(lane[c]) = LaneCapacity THEN 1 ELSE 0
    <2>1. lane' = m /\ used' = used - k
        BY <1>10 DEF ReturnPacket, Release, PushedOut
    <2> HIDE DEF p
    <2>2. /\ lane \in Lanes3 /\ \A d \in Classes : Len(lane[d]) <= LaneCapacity
          /\ p \in Packets /\ p.n \notin arrived /\ LanesFit(lane, arrived)
        BY <1>1, <1>2, <1>3, <1>6 DEF DownTyped
    <2>3. /\ m \in Lanes3 /\ LanesFit(m, arrived \union {p.n})
          /\ \A d \in Classes : \A i \in 1 .. Len(m[d]) :
                 m[d][i] = p \/ \E j \in 1 .. Len(lane[d]) : m[d][i] = lane[d][j]
          /\ Count(m) \in Nat /\ Count(m) = Count(lane) + 1 - k
          /\ \A d \in Classes : Len(m[d]) <= LaneCapacity
        <3>1. Gained(lane, m, arrived, c, p)
            BY <2>2, LaneGets
        <3> HIDE DEF m
        <3> QED
            BY <3>1 DEF Gained
    <2> HIDE DEF m
    <2>4. HeldArrived(order', lane', arrived')
        <3>1. \A q \in order.held : q.n \in arrived /\ q.n # n
            BY <1>2, <1>3 DEF HeldArrived
        <3>2. ASSUME NEW q \in order.held, NEW d \in Classes, NEW i \in 1 .. Len(m[d]) PROVE m[d][i].n # q.n
            BY <1>3, <1>6, <2>3, <3>1 DEF HeldArrived
        <3> QED
            BY <1>2, <2>1, <3>1, <3>2 DEF HeldArrived
    <2>5. LanesFit(lane', arrived')
        BY <1>2, <1>6, <2>1, <2>3
    <2>6. DownTyped'
        BY <1>1, <1>2, <2>1, <2>3 DEF DownTyped
    <2>7. InLanes' = Count(m)
        BY <2>1 DEF InLanes, Count
    <2>8. k \in {0, 1}
        OBVIOUS
    <2> HIDE DEF k
    <2> DEFINE x == Count(m)
    <2>9. used - k = u + x + Owned /\ u + x + Owned <= PoolSize
        <3>1. x \in Nat /\ x = InLanes + 1 - k
            BY <1>1, <2>3
        <3> HIDE DEF x
        <3>2. used = u + 1 + InLanes + Owned /\ used <= PoolSize /\ PoolSize \in Nat
              /\ u \in Nat /\ InLanes \in Nat /\ Owned \in Nat
            BY <1>1, <1>8
        <3>3. CASE k = 0
            BY <3>1, <3>2, <3>3
        <3>4. CASE k = 1
            BY <3>1, <3>2, <3>4
        <3> QED
            BY <2>8, <3>3, <3>4
    <2>10. Settled(u, Count(m), Owned)
        BY <1>5, <1>7, <2>1, <2>7, <2>9 DEF Settled
    <2> QED
        BY <1>1, <1>4, <1>5, <1>8, <2>3, <2>4, <2>5, <2>6, <2>10, DownStep
<1> QED
    BY <1>9, <1>10

-----------------------------------------------------------------------------
(***************************************************************************)
(* The theorems                                                            *)
(***************************************************************************)
LEMMA LanesInit == Init => LanesInv
<1> SUFFICES ASSUME Init PROVE LanesInv
    OBVIOUS
<1>1. /\ mode \in Modes /\ used = 0 /\ reader.pc = "wait" /\ reader.hand = 0
      /\ uplink = [c \in Classes |-> 0] /\ session = FALSE /\ sending = 0
      /\ lane = [c \in Classes |-> << >>] /\ arrived = {}
      /\ order.expected = 1 /\ order.held = {} /\ ready = << >> /\ written = << >>
      /\ writer.pc = "recv" /\ writer.batch = << >> /\ writer.sent = 0
    BY DEF Init, Idle
<1>2. reader \in Readers /\ order \in Orders /\ writer \in Writers
    BY LanesConstants DEF Init, Idle, Readers, Orders, Writers
<1>3. \A c \in Classes : lane[c] = << >> /\ Len(lane[c]) = 0
    BY <1>1
<1>4. Len(ready) = 0 /\ Len(written) = 0 /\ Len(writer.batch) = 0
    BY <1>1
<1>5. IsFiniteSet(order.held) /\ Cardinality(order.held) = 0
    BY <1>1, FS_EmptySet
<1>6. Typed
    <2>1. lane \in [Classes -> Seq(Packets)] /\ uplink \in [Classes -> 0 .. UplinkCapacity]
        BY <1>1, LanesConstants
    <2>2. ready \in Seq(Packets) /\ written \in Seq(0 .. MaxFrames)
        BY <1>1
    <2>3. linked \in BOOLEAN /\ client \in BOOLEAN /\ mmsg \in BOOLEAN /\ cancelled \in BOOLEAN
        BY DEF Init
    <2>4. used \in 0 .. PoolSize /\ sending \in 0 .. UplinkCapacity
        BY <1>1, LanesConstants
    <2>5. \A c \in Classes : Len(lane[c]) <= LaneCapacity
        BY <1>3, LanesConstants
    <2>6. arrived \subseteq Frames \union {Unframed} /\ session \in BOOLEAN
        BY <1>1
    <2> QED
        BY <1>1, <1>2, <1>5, <2>1, <2>2, <2>3, <2>4, <2>5, <2>6 DEF Typed
<1>7. HandFits /\ BatchFits
    BY <1>1, <1>4, LanesConstants DEF HandFits, BatchFits
<1>8. LanesFit(lane, arrived) /\ HeldFits(order) /\ HeldArrived(order, lane, arrived)
    BY <1>1, <1>3 DEF LanesFit, HeldFits, HeldArrived
<1>9. InOrder
    <2>1. \A i \in 0 + 1 .. 0 : FALSE
        OBVIOUS
    <2> QED
        BY <1>1, <1>4, <2>1 DEF InOrder, Line, Behind
<1>10. BuffersAccounted
    <2>1. InUplink = 0 + 0 + 0
        BY <1>1 DEF InUplink, Classes
    <2>2. InLanes = 0 + 0 + 0
        <3>1. Len(lane[1]) = 0 /\ Len(lane[2]) = 0 /\ Len(lane[3]) = 0
            BY <1>3 DEF Classes
        <3> QED
            BY <3>1 DEF InLanes
    <2>3. Owned = 0 + 0 + 0
        BY <1>4, <1>5 DEF Owned
    <2> QED
        BY <1>1, <2>1, <2>2, <2>3 DEF BuffersAccounted
<1> QED
    BY <1>6, <1>7, <1>8, <1>9, <1>10 DEF LanesInv

LEMMA LanesStutter ==
    ASSUME LanesInv, UNCHANGED vars
    PROVE  LanesInv'
<1>1. /\ mode' = mode /\ used' = used /\ reader' = reader /\ linked' = linked /\ session' = session
      /\ uplink' = uplink /\ sending' = sending /\ lane' = lane /\ arrived' = arrived /\ order' = order
      /\ ready' = ready /\ writer' = writer /\ client' = client /\ mmsg' = mmsg
      /\ cancelled' = cancelled /\ written' = written
    BY DEF vars
<1>2. Typed' /\ HandFits' /\ BatchFits'
    BY <1>1 DEF LanesInv, Typed, HandFits, BatchFits, ReadBatch
<1>3. LanesFit(lane, arrived)' /\ HeldFits(order)' /\ HeldArrived(order, lane, arrived)' /\ InOrder'
    BY <1>1 DEF LanesInv, InOrder
<1>4. InUplink' = InUplink /\ InLanes' = InLanes /\ Owned' = Owned
    BY <1>1 DEF InUplink, InLanes, Owned
<1>5. BuffersAccounted'
    BY <1>1, <1>4 DEF LanesInv, BuffersAccounted
<1> QED
    BY <1>2, <1>3, <1>5 DEF LanesInv

LEMMA LanesNext == LanesInv /\ [Next]_vars => LanesInv'
<1> SUFFICES ASSUME LanesInv, [Next]_vars PROVE LanesInv'
    OBVIOUS
<1>1. CASE ReaderTask \/ ReaderStops
    BY <1>1, ReaderStep
<1>2. CASE SessionWriter \/ SessionAcquires \/ SessionConsumes \/ Cancel
    BY <1>2, SessionStep
<1>3. ASSUME NEW n \in Frames \union {Unframed}, NEW c \in Classes, ReturnPacket(n, c)
      PROVE  LanesInv'
    BY <1>3, ReturnStep
<1>4. CASE WriterReorders
    BY <1>4, ReordersStep
<1>5. CASE WriterTakes \/ WriterBatches
    BY <1>5, TakesStep
<1>6. CASE WriterBatchEnds
    BY <1>6, BatchEndsStep
<1>7. CASE WriterDiscards
    BY <1>7, DiscardsStep
<1>8. CASE WriterSends
    BY <1>8, SendsStep
<1>9. CASE WriterWrites
    BY <1>9, WritesStep
<1>10. CASE WriterStops \/ TunFails \/ WintunFails
    BY <1>10, EndsStep
<1>11. CASE UNCHANGED vars
    BY <1>11, LanesStutter
<1>12. Terminated => UNCHANGED vars
    BY DEF Terminated
<1> QED
    BY <1>1, <1>2, <1>3, <1>4, <1>5, <1>6, <1>7, <1>8, <1>9, <1>10, <1>11, <1>12
    DEF Next, SessionTask, WriterTask

\* The invariant of the packet loops of dispatcher.rs: what is in the lanes, held by the
\* reassembler, in order, in the batch and written fits together.
THEOREM LanesInvariant == Spec => []LanesInv
<1> QED
    BY LanesInit, LanesNext, PTL DEF Spec

\* Lanes, queues and the pool keep to their capacities, and the batch of write_udp is
\* neither empty nor longer than datagram_batch while it is filled or sent.
THEOREM LanesTypeCorrect == Spec => []TypeOK
<1>1. LanesInv => TypeOK
    BY DEF LanesInv, Typed, BatchFits, Orders, Readers, Writers, TypeOK
<1> QED
    BY <1>1, LanesInvariant, PTL

\* A buffer of PacketPool that is out of it is in exactly one place: a task's hand, a
\* queue, the reassembler or the batch.  force_send into a full lane, a late frame, a
\* batch cut short by an error, a session or a loop that ends: none loses or returns one
\* twice, whatever the capacities, the batch size and the number of frames.
THEOREM BuffersHaveOwners == Spec => []BuffersAccounted
<1>1. LanesInv => BuffersAccounted
    BY DEF LanesInv
<1> QED
    BY <1>1, LanesInvariant, PTL

\* ReturnReorder with three lanes, write_udp's batches of one class, push_front and the
\* retries of write_udp_batch: the frames of a flow leave in order and at most once.
THEOREM FramesWrittenInOrder == Spec => []OrderedWrites
<1>1. LanesInv => OrderedWrites
    BY DEF LanesInv, InOrder, Line, Lt, OrderedWrites
<1> QED
    BY <1>1, LanesInvariant, PTL

-----------------------------------------------------------------------------
(***************************************************************************)
(* The pool that is atomic in Lanes, step by step (PacketPool)             *)
(***************************************************************************)
\* A storage is in one place at a time: with that, every step adds to or takes from the
\* storages alive exactly what it adds to or takes from the counter.
PoolInv == PoolTypeOK /\ Disjoint /\ CounterIsExact /\ WithinBudget

\* The storages alive are finitely many and Cardinality counts them.
LEMMA LiveIsFinite ==
    ASSUME PoolTypeOK
    PROVE  IsFiniteSet(Live) /\ Cardinality(Live) \in Nat
<1>1. IsFiniteSet(queue \union in_use)
    BY FS_Union DEF PoolTypeOK
<1>2. IsFiniteSet(Live)
    BY <1>1, FS_Union DEF PoolTypeOK, Live
<1> QED
    BY <1>2, FS_CardinalityType

\* A new pool is empty.
LEMMA PoolStarts == PoolInit => PoolInv
<1> SUFFICES ASSUME PoolInit PROVE PoolInv
    OBVIOUS
<1>1. PoolTypeOK /\ Disjoint
    BY FS_EmptySet DEF PoolInit, PoolTypeOK, Disjoint
<1>2. Live = {}
    BY DEF PoolInit, Live
<1>3. CounterIsExact /\ WithinBudget
    BY <1>2, FS_EmptySet, PacketPoolConstants DEF PoolInit, CounterIsExact, WithinBudget
<1> QED
    BY <1>1, <1>3 DEF PoolInv

\* A step that moves a storage from one place to another, or none, counts nothing.
LEMMA MovingKeepsTheCount ==
    ASSUME PoolInv, PoolTypeOK', Disjoint', Live' = Live, allocated' = allocated
    PROVE  PoolInv'
BY DEF PoolInv, CounterIsExact, WithinBudget

LEMMA PoolReuseStep ==
    ASSUME PoolInv, NEW t \in Threads, Reuse(t)
    PROVE  PoolInv'
<1> USE DEF PoolInv
<1>1. PICK b \in queue : queue' = queue \ {b} /\ in_use' = in_use \union {b}
    BY DEF Reuse
<1>2. PoolTypeOK'
    <2>1. IsFiniteSet(queue') /\ IsFiniteSet(in_use')
        BY <1>1, FS_RemoveElement, FS_AddElement DEF PoolTypeOK
    <2> QED
        BY <1>1, <2>1 DEF PoolTypeOK, Reuse
<1>3. Disjoint' /\ Live' = Live /\ allocated' = allocated
    BY <1>1 DEF Disjoint, Live, Reuse
<1> QED
    BY <1>2, <1>3, MovingKeepsTheCount

\* Neither a miss nor a failed acquisition touches a storage.
LEMMA PoolMissStep ==
    ASSUME PoolInv, NEW t \in Threads, Miss(t) \/ Exhausted(t)
    PROVE  PoolInv'
<1>1. /\ UNCHANGED <<queue, in_use, dying, allocated>>
      /\ missed' \in SUBSET Threads
    BY DEF Miss, Exhausted, PoolInv, PoolTypeOK
<1> QED
    BY <1>1, MovingKeepsTheCount DEF PoolInv, PoolTypeOK, Disjoint, Live

\* fetch_update counts a new storage in only below the limit.
LEMMA PoolAllocateStep ==
    ASSUME PoolInv, NEW t \in Threads, Allocate(t)
    PROVE  PoolInv'
<1> USE DEF PoolInv
<1>1. PICK b \in Buffers \ Live : in_use' = in_use \union {b}
    BY DEF Allocate
<1>2. PoolTypeOK'
    <2>1. IsFiniteSet(in_use')
        BY <1>1, FS_AddElement DEF PoolTypeOK
    <2> QED
        BY <1>1, <2>1 DEF PoolTypeOK, Allocate
<1>3. Disjoint' /\ Live' = Live \union {b}
    BY <1>1 DEF Disjoint, Live, Allocate
<1>4. Cardinality(Live') = Cardinality(Live) + 1
    BY <1>1, <1>3, LiveIsFinite, FS_AddElement
<1>5. CounterIsExact' /\ WithinBudget'
    BY <1>4, LiveIsFinite, PacketPoolConstants
       DEF Allocate, BelowLimit, CounterIsExact, WithinBudget
<1> QED
    BY <1>2, <1>3, <1>5

LEMMA PoolReturnStep ==
    ASSUME PoolInv, NEW b \in Buffers, Retain(b) \/ Refuse(b)
    PROVE  PoolInv'
<1> USE DEF PoolInv
<1>1. b \in in_use /\ in_use' = in_use \ {b} /\ allocated' = allocated /\ missed' = missed
    BY DEF Retain, Refuse
<1>2. \/ queue' = queue \union {b} /\ dying' = dying
      \/ dying' = dying \union {b} /\ queue' = queue
    BY DEF Retain, Refuse
<1>3. PoolTypeOK'
    <2>1. IsFiniteSet(in_use \ {b})
        BY FS_RemoveElement DEF PoolTypeOK
    <2>2. IsFiniteSet(queue \union {b}) /\ IsFiniteSet(dying \union {b})
        BY FS_AddElement DEF PoolTypeOK
    <2> QED
        BY <1>1, <1>2, <2>1, <2>2 DEF PoolTypeOK
<1>4. Disjoint' /\ Live' = Live
    BY <1>1, <1>2 DEF Disjoint, Live
<1> QED
    BY <1>1, <1>3, <1>4, MovingKeepsTheCount

\* A refused storage is counted out as it goes.
LEMMA PoolCountOutStep ==
    ASSUME PoolInv, NEW b \in Buffers, CountOut(b)
    PROVE  PoolInv'
<1> USE DEF PoolInv
<1>1. Disjoint' /\ Live' = Live \ {b} /\ b \in Live
    BY DEF Disjoint, Live, CountOut
<1>2. Cardinality(Live') = Cardinality(Live) - 1
    BY <1>1, LiveIsFinite, FS_RemoveElement
<1>3. Live # {} /\ Cardinality(Live) # 0
    BY <1>1, LiveIsFinite, FS_EmptySet
<1>4. allocated' \in Nat
    BY <1>3, LiveIsFinite DEF CountOut, FetchSub, CounterIsExact
<1>5. PoolTypeOK'
    <2>1. IsFiniteSet(dying')
        BY FS_RemoveElement DEF PoolTypeOK, CountOut
    <2> QED
        BY <1>4, <2>1 DEF PoolTypeOK, CountOut
<1>6. CounterIsExact' /\ WithinBudget'
    BY <1>2, LiveIsFinite, PacketPoolConstants DEF CountOut, FetchSub, CounterIsExact, WithinBudget
<1> QED
    BY <1>1, <1>5, <1>6

LEMMA PoolSteps == PoolInv /\ [PoolNext]_(poolVars) => PoolInv'
<1> SUFFICES ASSUME PoolInv, [PoolNext]_(poolVars) PROVE PoolInv'
    OBVIOUS
<1>1. CASE \E t \in Threads : Reuse(t) \/ Miss(t) \/ Allocate(t) \/ Exhausted(t)
    BY <1>1, PoolReuseStep, PoolMissStep, PoolAllocateStep
<1>2. CASE \E b \in Buffers : Retain(b) \/ Refuse(b) \/ CountOut(b)
    BY <1>2, PoolReturnStep, PoolCountOutStep
<1>3. CASE UNCHANGED poolVars
    BY <1>3, MovingKeepsTheCount DEF PoolInv, PoolTypeOK, Disjoint, Live, poolVars
<1> QED
    BY <1>1, <1>2, <1>3 DEF PoolNext

\* PacketPool (packet.rs): in every interleaving of any number of tasks the storages
\* are kept apart, counted exactly and within the allocation limit.
THEOREM PoolIsSafe ==
    PoolSpec => [](PoolTypeOK /\ Disjoint /\ CounterIsExact /\ WithinBudget)
<1>1. PoolSpec => []PoolInv
    BY PoolStarts, PoolSteps, PTL DEF PoolSpec
<1> QED
    BY <1>1, PTL DEF PoolInv

\* try_acquire (packet.rs) never lets the pool outgrow its budget.
THEOREM PoolKeepsItsBudget == PoolSpec => []WithinBudget
BY PoolIsSafe, PTL

\* No interleaving of acquire and drop makes the counter drift from the storages alive.
THEOREM PoolCountsExactly == PoolSpec => []CounterIsExact
BY PoolIsSafe, PTL
=============================================================================
