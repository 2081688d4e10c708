----------------------------- MODULE TurnProofs -----------------------------
(***************************************************************************)
(* The TURN client and its driver, for every capacity of the queues and    *)
(* every limit of retries: what waits to be sent belongs to a transaction, *)
(* a granted allocation is released, the snapshot shows what the core is,  *)
(* and the allocation implements the lease of module TurnLease.            *)
(*                                                                         *)
(* The core tells the driver what happened through a bounded ring of       *)
(* events that loses its oldest.  The invariant is about the ring: in      *)
(* which order events can stand in it, and what the snapshot will be once  *)
(* they are all taken.  Every method of the core is shown to keep it.      *)
(***************************************************************************)
EXTENDS TurnAllocation, FiniteSetTheorems, TLAPS

-----------------------------------------------------------------------------
(***************************************************************************)
(* Vec::retain on the queue of control packets                             *)
(***************************************************************************)
LEMMA Least ==
    ASSUME NEW T \in SUBSET Nat, T # {}
    PROVE  \E x \in T : \A y \in T : x <= y
<1>1. PICK x \in T : \A y \in T : ~ (<<y, x>> \in OpToRel(<, Nat))
    BY NatLessThanWellFounded, WFMin
<1>2. \A y \in T : ~ (y < x)
    BY <1>1 DEF OpToRel
<1> QED
    BY <1>2

LEMMA SetInduction ==
    ASSUME NEW S \in SUBSET Nat, 0 \in S, \A n \in S : n + 1 \in S
    PROVE  S = Nat
<1>1. SUFFICES ASSUME Nat \ S # {} PROVE FALSE
    OBVIOUS
<1>2. PICK x \in Nat \ S : \A y \in Nat \ S : x <= y
    BY <1>1, Least
<1>3. x # 0 /\ x - 1 \in Nat
    BY <1>2
<1>4. x - 1 \in S
    BY <1>2, <1>3
<1>5. (x - 1) + 1 = x
    BY <1>3
<1> QED
    BY <1>2, <1>4, <1>5

\* f[n] is what is left of the first n packets.
Retains(f, s, txn, N) ==
    f = [n \in 0 .. N |-> IF n = 0 THEN << >>
                          ELSE IF s[n].txn = txn THEN f[n - 1] ELSE Append(f[n - 1], s[n])]

LEMMA RetainsExists ==
    ASSUME NEW s, NEW txn
    PROVE  \A N \in Nat : \E f : Retains(f, s, txn, N)
<1> DEFINE S == {N \in Nat : \E f : Retains(f, s, txn, N)}
<1>1. 0 \in S
    <2>1. Retains([n \in 0 .. 0 |-> << >>], s, txn, 0)
        BY DEF Retains
    <2> QED
        BY <2>1
<1>2. ASSUME NEW N \in S PROVE N + 1 \in S
    <2>1. PICK f : Retains(f, s, txn, N)
        OBVIOUS
    <2> DEFINE last == IF s[N + 1].txn = txn THEN f[N] ELSE Append(f[N], s[N + 1])
               g == [n \in 0 .. N + 1 |-> IF n = N + 1 THEN last ELSE f[n]]
    <2>2. Retains(g, s, txn, N + 1)
        <3>1. ASSUME NEW n \in 0 .. N + 1
              PROVE  g[n] = IF n = 0 THEN << >>
                            ELSE IF s[n].txn = txn THEN g[n - 1] ELSE Append(g[n - 1], s[n])
            <4>1. CASE n = N + 1
                <5>1. n # 0 /\ n - 1 = N /\ g[n - 1] = f[N]
                    BY <4>1
                <5> QED
                    BY <4>1, <5>1
            <4>2. CASE n \in 0 .. N
                <5>1. f[n] = IF n = 0 THEN << >>
                             ELSE IF s[n].txn = txn THEN f[n - 1] ELSE Append(f[n - 1], s[n])
                    BY <2>1, <4>2 DEF Retains
                <5>2. g[n] = f[n] /\ (n # 0 => g[n - 1] = f[n - 1])
                    BY <4>2
                <5> QED
                    BY <5>1, <5>2
            <4> QED
                BY <4>1, <4>2
        <3>2. g = [n \in 0 .. N + 1 |-> g[n]]
            OBVIOUS
        <3> HIDE DEF g
        <3> QED
            BY <3>1, <3>2 DEF Retains
    <2> QED
        BY <2>2
<1>3. S = Nat
    BY <1>1, <1>2, SetInduction
<1> QED
    BY <1>3

LEMMA WithoutIs ==
    ASSUME NEW s, NEW txn, Len(s) \in Nat
    PROVE  \E f : Retains(f, s, txn, Len(s)) /\ Without(s, txn) = f[Len(s)]
<1> DEFINE f == CHOOSE g : g = [n \in 0 .. Len(s) |-> IF n = 0 THEN << >>
                          ELSE IF s[n].txn = txn THEN g[n - 1] ELSE Append(g[n - 1], s[n])]
<1>1. PICK h : Retains(h, s, txn, Len(s))
    BY RetainsExists
<1>2. f = [n \in 0 .. Len(s) |-> IF n = 0 THEN << >>
                          ELSE IF s[n].txn = txn THEN f[n - 1] ELSE Append(f[n - 1], s[n])]
    BY <1>1, Zenon DEF Retains
<1>3. Without(s, txn) = f[Len(s)]
    BY Zenon DEF Without
<1> QED
    BY <1>2, <1>3, Zenon DEF Retains

\* What is left are packets of the queue, and none of the transaction.
LEMMA WithoutKeeps ==
    ASSUME NEW P, NEW s \in Seq(P), NEW txn
    PROVE  /\ Without(s, txn) \in Seq(P) /\ Len(Without(s, txn)) <= Len(s)
           /\ \A k \in Range(Without(s, txn)) : k \in Range(s) /\ k.txn # txn
<1>0. Len(s) \in Nat /\ \A n \in 1 .. Len(s) : s[n] \in P /\ s[n] \in Range(s)
    BY DEF Range
<1>1. PICK f : Retains(f, s, txn, Len(s)) /\ Without(s, txn) = f[Len(s)]
    BY <1>0, WithoutIs
<1> DEFINE Fine(n) == /\ f[n] \in Seq(P) /\ Len(f[n]) <= n
                      /\ \A i \in 1 .. Len(f[n]) : f[n][i] \in Range(s) /\ f[n][i].txn # txn
           S == {n \in Nat : n <= Len(s) => Fine(n)}
<1>2. 0 \in S
    <2>1. f[0] = << >>
        BY <1>0, <1>1 DEF Retains
    <2>2. << >> \in Seq(P) /\ Len(<< >>) = 0
        OBVIOUS
    <2>3. Fine(0)
        BY <2>1, <2>2
    <2> QED
        BY <2>3
<1>3. ASSUME NEW n \in S PROVE n + 1 \in S
    <2> SUFFICES ASSUME n + 1 <= Len(s) PROVE Fine(n + 1)
        OBVIOUS
    <2>1. Fine(n)
        BY <1>0
    <2>2. /\ n + 1 \in 0 .. Len(s) /\ n + 1 # 0 /\ (n + 1) - 1 = n
          /\ s[n + 1] \in P /\ s[n + 1] \in Range(s)
        BY <1>0
    <2>3. f[n + 1] = IF s[n + 1].txn = txn THEN f[n] ELSE Append(f[n], s[n + 1])
        BY <1>1, <2>2 DEF Retains
    <2>4. CASE s[n + 1].txn = txn
        BY <2>1, <2>3, <2>4
    <2>5. CASE s[n + 1].txn # txn
        <3>1. f[n + 1] = Append(f[n], s[n + 1])
            BY <2>3, <2>5
        <3>2. /\ f[n + 1] \in Seq(P) /\ Len(f[n + 1]) = Len(f[n]) + 1
              /\ \A i \in 1 .. Len(f[n + 1]) : \/ i \in 1 .. Len(f[n]) /\ f[n + 1][i] = f[n][i]
                                               \/ f[n + 1][i] = s[n + 1]
            BY <2>1, <2>2, <3>1
        <3>3. ASSUME NEW i \in 1 .. Len(f[n + 1])
              PROVE  f[n + 1][i] \in Range(s) /\ f[n + 1][i].txn # txn
            <4>1. CASE f[n + 1][i] = s[n + 1]
                BY <2>2, <2>5, <4>1
            <4>2. CASE i \in 1 .. Len(f[n]) /\ f[n + 1][i] = f[n][i]
                BY <2>1, <4>2
            <4> QED
                BY <3>2, <4>1, <4>2
        <3> QED
            BY <2>1, <3>2, <3>3
    <2> QED
        BY <2>4, <2>5
<1>4. S = Nat
    BY <1>2, <1>3, SetInduction
<1>5. Fine(Len(s))
    BY <1>0, <1>4
<1> QED
    BY <1>1, <1>5 DEF Range

-----------------------------------------------------------------------------
(***************************************************************************)
(* Types                                                                   *)
(***************************************************************************)
Transactions == (Operations \X Nat) \union {<< >>}

Packets == [op : Operations \union {"Keepalive"}, txn : Transactions]

Requests == [op : Operations, txn : Transactions, transmissions : Nat, nonceRetries : Nat,
             authenticated : BOOLEAN]

Events == [kind : {"STATE"}, arg : TurnStates]
            \union [kind : {"COMPLETE"}, arg : Operations \X BOOLEAN]
            \union [kind : {"EVENT_OVERFLOW", "CONTROL_OVERFLOW", "REBIND_EXHAUSTED", "RELAY", "CHANNEL_BOUND",
                            "STUN_ERROR", "FORCED_DESTROY"}, arg : {0}]

Cores == [state : TurnStates, auth : BOOLEAN, relay : BOOLEAN, channel : BOOLEAN,
          controls : Seq(Packets), events : Seq(Events), pending : SUBSET Requests, armed : SUBSET Deadlines,
          refreshFailed : BOOLEAN, channelFailures : Nat, shutting : BOOLEAN, destroyed : BOOLEAN,
          transport : Transports]

\* Among ControlCapacity + 1 identifiers one is not in the queue.
LEMMA FreshTransactionIs ==
    ASSUME NEW c \in Cores, Len(c.controls) <= ControlCapacity, NEW op \in Operations
    PROVE  FreshTransaction(c, op) \in Transactions
<1> DEFINE q == c.controls
           Free(n) == \A k \in Range(q) : k.txn # <<op, n>>
           First(n) == Free(n) /\ \A m \in 0 .. n - 1 : \E k \in Range(q) : k.txn = <<op, m>>
<1>0. q \in Seq(Packets) /\ Len(q) \in Nat /\ ControlCapacity \in Nat /\ Range(q) = {q[i] : i \in 1 .. Len(q)}
    BY TurnBounds DEF Cores, Range
<1>1. \E n \in 0 .. ControlCapacity : Free(n)
    <2> SUFFICES ASSUME \A n \in 0 .. ControlCapacity : \E k \in Range(q) : k.txn = <<op, n>>
                 PROVE  FALSE
        OBVIOUS
    <2> DEFINE h == [n \in 0 .. ControlCapacity |-> CHOOSE i \in 1 .. Len(q) : q[i].txn = <<op, n>>]
    <2>1. \A n \in 0 .. ControlCapacity : \E i \in 1 .. Len(q) : q[i].txn = <<op, n>>
        BY <1>0, Zenon
    <2>2. \A n \in 0 .. ControlCapacity : h[n] \in 1 .. Len(q) /\ q[h[n]].txn = <<op, n>>
        BY <2>1, Zenon
    <2>3. h \in [0 .. ControlCapacity -> 1 .. Len(q)]
        BY <2>2
    <2>4. /\ IsFiniteSet(0 .. ControlCapacity) /\ IsFiniteSet(1 .. Len(q))
          /\ Cardinality(1 .. Len(q)) < Cardinality(0 .. ControlCapacity)
        <3>1. /\ Cardinality(0 .. ControlCapacity) = ControlCapacity + 1
              /\ IsFiniteSet(0 .. ControlCapacity)
            <4>1. 0 \in Int /\ ControlCapacity \in Int /\ ~ (0 > ControlCapacity) /\ ControlCapacity - 0 + 1 = ControlCapacity + 1
                BY <1>0
            <4>2. IsFiniteSet(0 .. ControlCapacity) /\ Cardinality(0 .. ControlCapacity) = ControlCapacity - 0 + 1
                BY <4>1, FS_Interval
            <4> QED
                BY <4>1, <4>2
        <3>2. Cardinality(1 .. Len(q)) = Len(q) /\ IsFiniteSet(1 .. Len(q))
            <4>1. 1 \in Int /\ Len(q) \in Int /\ Len(q) = IF 1 > Len(q) THEN 0 ELSE Len(q) - 1 + 1
                BY <1>0
            <4>2. /\ IsFiniteSet(1 .. Len(q))
                  /\ Cardinality(1 .. Len(q)) = IF 1 > Len(q) THEN 0 ELSE Len(q) - 1 + 1
                BY <4>1, FS_Interval
            <4> QED
                BY <4>1, <4>2
        <3> QED
            BY <1>0, <3>1, <3>2
    <2> HIDE DEF h
    <2>5. PICK x, y \in 0 .. ControlCapacity : x # y /\ h[x] = h[y]
        BY <2>3, <2>4, FS_PigeonHole
    <2>6. <<op, x>> = <<op, y>>
        BY <2>2, <2>5
    <2> QED
        BY <2>5, <2>6
<1>2. \E n \in 0 .. ControlCapacity : First(n)
    <2> DEFINE T == {n \in 0 .. ControlCapacity : Free(n)}
    <2> HIDE DEF Free
    <2>1. T \in SUBSET Nat /\ T # {}
        BY <1>0, <1>1
    <2>2. PICK n \in T : \A m \in T : n <= m
        BY <2>1, Least
    <2>3. ASSUME NEW m \in 0 .. n - 1 PROVE ~ Free(m)
        <3>1. n \in 0 .. ControlCapacity
            BY <2>2
        <3>2. m \in 0 .. ControlCapacity /\ ~ (n <= m)
            BY <1>0, <3>1
        <3> QED
            BY <2>2, <3>2
    <2> QED
        BY <2>2, <2>3, Zenon DEF Free
<1> DEFINE n == CHOOSE n \in 0 .. ControlCapacity : First(n)
<1>3. n \in 0 .. ControlCapacity
    BY <1>2, Zenon
<1>4. n \in Nat
    BY <1>0, <1>3
<1>5. FreshTransaction(c, op) = <<op, n>>
    BY Zenon DEF FreshTransaction
<1> HIDE DEF n
<1> QED
    BY <1>4, <1>5 DEF Transactions

-----------------------------------------------------------------------------
(***************************************************************************)
(* The ring of events                                                      *)
(***************************************************************************)
\* How far an allocation is: not granted yet, ready, or over.
Rank(state) == IF state > READY THEN 2 ELSE IF state = READY THEN 1 ELSE 0

\* How far it is at least, once the driver has taken the event ...
Mark(e) == IF e.kind = "STATE" THEN Rank(e.arg) ELSE IF e.kind = "CHANNEL_BOUND" THEN 1 ELSE 0

\* ... and at most, before it takes it.
Limit(e) == IF e.kind = "STATE" THEN Rank(e.arg)
            ELSE IF e.kind = "CHANNEL_BOUND" THEN 1 ELSE IF e.kind = "RELAY" THEN 0 ELSE 2

\* The events stand in an order that never leads back; `floor` is how far the snapshot is.
Ordered(ev, state, floor) ==
    /\ \A i \in 1 .. Len(ev) : Mark(ev[i]) <= Rank(state) /\ floor <= Limit(ev[i])
    /\ \A i, j \in 1 .. Len(ev) : i < j => Mark(ev[i]) <= Limit(ev[j])
    /\ floor <= Rank(state)

\* Events that the driver answers with a failure.
Fails(e) == \/ e.kind \in {"CONTROL_OVERFLOW", "EVENT_OVERFLOW", "FORCED_DESTROY"}
            \/ e.kind = "COMPLETE" /\ ~ e.arg[2] /\ e.arg[1] \notin Maintenance

Untroubled(ev) == \A i \in 1 .. Len(ev) : ~ Fails(ev[i])
Has(ev, kind) == \E i \in 1 .. Len(ev) : ev[i].kind = kind

\* What the snapshot s shows once the events are taken: the state, and as long as the
\* allocation is not over, whether the channel is bound and the relay known.
Tells(ev, state, channel, relay, s) ==
    Untroubled(ev) =>
        /\ ~ Has(ev, "STATE") => s.state = state
        /\ \A i \in 1 .. Len(ev) :
               ev[i].kind = "STATE" /\ (\A j \in i + 1 .. Len(ev) : ev[j].kind # "STATE") => ev[i].arg = state
        /\ state <= READY => /\ channel <=> (s.channel \/ Has(ev, "CHANNEL_BOUND"))
                             /\ relay <=> (s.relay \/ Has(ev, "RELAY"))

\* `quiet`: the driver has not been told to close and has not failed.
Ring(ev, state, channel, relay, floor, s, quiet) ==
    /\ ev \in Seq(Events) /\ Len(ev) <= EventCapacity
    /\ Ordered(ev, state, floor)
    /\ quiet => Tells(ev, state, channel, relay, s)

\* PushEvent, on the ring alone.
Pushed(ev, e) == IF Len(ev) = EventCapacity THEN Append(Tail(ev), Event("EVENT_OVERFLOW", 0)) ELSE Append(ev, e)

LEMMA Ranks == \A x : Rank(x) \in 0 .. 2
    BY DEF Rank

LEMMA Marks == \A e : Mark(e) \in 0 .. 2 /\ Limit(e) \in 0 .. 2
    BY Ranks DEF Mark, Limit

\* What is in the ring afterwards: the old events and the new one, or the overflow marker.
LEMMA PushedIs ==
    ASSUME NEW ev \in Seq(Events), Len(ev) <= EventCapacity, NEW e \in Events
    PROVE  /\ Pushed(ev, e) \in Seq(Events) /\ Len(Pushed(ev, e)) <= EventCapacity
           /\ \/ /\ Len(ev) = EventCapacity /\ Len(Pushed(ev, e)) = Len(ev)
                 /\ \A i \in 1 .. Len(ev) - 1 : i + 1 \in 1 .. Len(ev) /\ Pushed(ev, e)[i] = ev[i + 1]
                 /\ Pushed(ev, e)[Len(ev)] = Event("EVENT_OVERFLOW", 0)
              \/ /\ Len(Pushed(ev, e)) = Len(ev) + 1
                 /\ \A i \in 1 .. Len(ev) : Pushed(ev, e)[i] = ev[i]
                 /\ Pushed(ev, e)[Len(ev) + 1] = e
<1> DEFINE o == Event("EVENT_OVERFLOW", 0)
<1>0. Len(ev) \in Nat /\ EventCapacity \in Nat \ {0}
    BY TurnBounds
<1>1. CASE Len(ev) = EventCapacity
    <2>1. o \in Events
        BY DEF Event, Events
    <2>2. ev # << >>
        BY <1>0, <1>1
    <2>3. /\ Tail(ev) \in Seq(Events) /\ Len(Tail(ev)) = Len(ev) - 1
          /\ \A i \in 1 .. Len(ev) - 1 : Tail(ev)[i] = ev[i + 1]
        BY <2>2
    <2> HIDE DEF o
    <2>4. /\ Append(Tail(ev), o) \in Seq(Events) /\ Len(Append(Tail(ev), o)) = Len(ev)
          /\ \A i \in 1 .. Len(ev) - 1 : Append(Tail(ev), o)[i] = Tail(ev)[i]
          /\ Append(Tail(ev), o)[Len(ev)] = o
        BY <1>0, <2>1, <2>3
    <2>5. Pushed(ev, e) = Append(Tail(ev), o)
        BY <1>1 DEF Pushed, o
    <2>6. \A i \in 1 .. Len(ev) - 1 : i + 1 \in 1 .. Len(ev)
        BY <1>0
    <2> QED
        BY <1>1, <2>3, <2>4, <2>5, <2>6 DEF o
<1>2. CASE Len(ev) # EventCapacity
    <2>1. Pushed(ev, e) = Append(ev, e)
        BY <1>2 DEF Pushed
    <2> QED
        BY <1>0, <1>2, <2>1
<1> QED
    BY <1>1, <1>2

\* An event may be pushed when nothing in the ring, and no snapshot, is past it.
LEMMA PushOrdered ==
    ASSUME NEW ev \in Seq(Events), Len(ev) <= EventCapacity, NEW e \in Events, NEW state, NEW state2,
           NEW floor \in 0 .. 2, Ordered(ev, state, floor),
           Rank(state) <= Rank(state2), Mark(e) <= Rank(state2), Rank(state) <= Limit(e)
    PROVE  Ordered(Pushed(ev, e), state2, floor)
<1> DEFINE new == Pushed(ev, e)
           M(i) == Mark(new[i])
           L(i) == Limit(new[i])
           o == Event("EVENT_OVERFLOW", 0)
<1>0. Len(ev) \in Nat /\ Rank(state) \in 0 .. 2 /\ Rank(state2) \in 0 .. 2 /\ floor <= Rank(state)
    BY Ranks DEF Ordered
<1>1. Mark(o) = 0 /\ Limit(o) = 2
    BY DEF Mark, Limit, Event
<1>2. /\ \A i \in 1 .. Len(ev) : Mark(ev[i]) <= Rank(state) /\ floor <= Limit(ev[i])
      /\ \A i, j \in 1 .. Len(ev) : i < j => Mark(ev[i]) <= Limit(ev[j])
      /\ \A i \in 1 .. Len(ev) : Mark(ev[i]) \in 0 .. 2 /\ Limit(ev[i]) \in 0 .. 2
    BY Marks DEF Ordered
<1>3. Mark(e) \in 0 .. 2 /\ Limit(e) \in 0 .. 2
    BY Marks
<1> HIDE DEF o
<1>4. SUFFICES /\ \A i \in 1 .. Len(new) : M(i) <= Rank(state2) /\ floor <= L(i)
               /\ \A i, j \in 1 .. Len(new) : i < j => M(i) <= L(j)
    BY <1>0 DEF Ordered
<1>5. CASE /\ Len(new) = Len(ev)
           /\ \A i \in 1 .. Len(ev) - 1 : i + 1 \in 1 .. Len(ev) /\ new[i] = ev[i + 1]
           /\ new[Len(ev)] = o
    <2> HIDE DEF new
    <2>1. ASSUME NEW i \in 1 .. Len(new), i # Len(ev)
          PROVE  i \in 1 .. Len(ev) - 1 /\ i + 1 \in 1 .. Len(ev) /\ M(i) = Mark(ev[i + 1]) /\ L(i) = Limit(ev[i + 1])
        <3>1. i \in 1 .. Len(ev) - 1
            BY <1>0, <1>5, <2>1
        <3> QED
            BY <1>5, <3>1
    <2>2. M(Len(ev)) = 0 /\ L(Len(ev)) = 2
        BY <1>1, <1>5
    <2>3. ASSUME NEW i \in 1 .. Len(new) PROVE M(i) \in 0 .. 2 /\ L(i) \in 0 .. 2 /\ M(i) <= Rank(state) /\ floor <= L(i)
        <3>1. CASE i = Len(ev)
            BY <1>0, <2>2, <3>1
        <3>2. CASE i # Len(ev)
            BY <1>2, <2>1, <3>2
        <3> QED
            BY <3>1, <3>2
    <2>4. ASSUME NEW i \in 1 .. Len(new), NEW j \in 1 .. Len(new), i < j PROVE M(i) <= L(j)
        <3>1. CASE j = Len(ev)
            BY <2>2, <2>3, <3>1
        <3>2. CASE j # Len(ev)
            <4>1. i # Len(ev) /\ i + 1 < j + 1
                BY <1>0, <1>5, <2>4, <3>2
            <4> QED
                BY <1>2, <2>1, <3>2, <4>1
        <3> QED
            BY <3>1, <3>2
    <2> HIDE DEF M, L
    <2> QED
        BY <1>0, <2>3, <2>4
<1>6. CASE /\ Len(new) = Len(ev) + 1
           /\ \A i \in 1 .. Len(ev) : new[i] = ev[i]
           /\ new[Len(ev) + 1] = e
    <2> HIDE DEF new
    <2>1. ASSUME NEW i \in 1 .. Len(new), i # Len(ev) + 1
          PROVE  i \in 1 .. Len(ev) /\ M(i) = Mark(ev[i]) /\ L(i) = Limit(ev[i])
        <3>1. i \in 1 .. Len(ev)
            BY <1>0, <1>6, <2>1
        <3> QED
            BY <1>6, <3>1
    <2>2. M(Len(ev) + 1) = Mark(e) /\ L(Len(ev) + 1) = Limit(e)
        BY <1>6
    <2>3. ASSUME NEW i \in 1 .. Len(new)
          PROVE  M(i) \in 0 .. 2 /\ L(i) \in 0 .. 2 /\ M(i) <= Rank(state2) /\ floor <= L(i)
        <3>1. CASE i = Len(ev) + 1
            BY <1>0, <1>3, <2>2, <3>1
        <3>2. CASE i # Len(ev) + 1
            BY <1>0, <1>2, <2>1, <3>2
        <3> QED
            BY <3>1, <3>2
    <2>4. ASSUME NEW i \in 1 .. Len(new), NEW j \in 1 .. Len(new), i < j PROVE M(i) <= L(j)
        <3>1. i # Len(ev) + 1
            BY <1>0, <1>6, <2>4
        <3>2. CASE j = Len(ev) + 1
            BY <1>0, <1>2, <1>3, <2>1, <2>2, <3>1, <3>2
        <3>3. CASE j # Len(ev) + 1
            BY <1>2, <2>1, <2>4, <3>1, <3>3
        <3> QED
            BY <3>2, <3>3
    <2> HIDE DEF M, L
    <2> QED
        BY <1>0, <2>3, <2>4
<1> QED
    BY <1>5, <1>6, PushedIs DEF o

\* The new event says what changes: the state, the channel or the relay.
Announces(e, state, channel, relay, state2, channel2, relay2) ==
    \/ Fails(e)
    \/ /\ IF e.kind = "STATE" THEN state2 = e.arg ELSE state2 = state
       /\ state2 <= READY => /\ state <= READY
                             /\ channel2 <=> (channel \/ e.kind = "CHANNEL_BOUND")
                             /\ relay2 <=> (relay \/ e.kind = "RELAY")

LEMMA PushTells ==
    ASSUME NEW ev \in Seq(Events), Len(ev) <= EventCapacity, NEW e \in Events, NEW s,
           NEW state, NEW channel, NEW relay, NEW state2, NEW channel2, NEW relay2,
           Tells(ev, state, channel, relay, s),
           Announces(e, state, channel, relay, state2, channel2, relay2)
    PROVE  Tells(Pushed(ev, e), state2, channel2, relay2, s)
<1> DEFINE new == Pushed(ev, e)
<1>0. Len(ev) \in Nat /\ EventCapacity \in Nat \ {0}
    BY TurnBounds
<1>1. CASE /\ Len(ev) = EventCapacity /\ Len(new) = Len(ev)
           /\ new[Len(ev)] = Event("EVENT_OVERFLOW", 0)
    <2>1. Len(ev) \in 1 .. Len(new)
        BY <1>0, <1>1
    <2>2. Fails(new[Len(ev)])
        BY <1>1 DEF Fails, Event
    <2> QED
        BY <2>1, <2>2 DEF Tells, Untroubled
<1>2. CASE /\ Len(new) = Len(ev) + 1
           /\ \A i \in 1 .. Len(ev) : new[i] = ev[i]
           /\ new[Len(ev) + 1] = e
    <2> HIDE DEF new
    <2> SUFFICES ASSUME Untroubled(new) PROVE Tells(new, state2, channel2, relay2, s)
        BY DEF Tells, new
    <2>0. /\ Len(ev) + 1 \in 1 .. Len(new) /\ 1 .. Len(ev) \subseteq 1 .. Len(new)
          /\ \A i \in 1 .. Len(new) : i \in 1 .. Len(ev) \/ i = Len(ev) + 1
        BY <1>0, <1>2
    <2>1. ~ Fails(e) /\ Untroubled(ev)
        BY <1>2, <2>0 DEF Untroubled
    <2>2. ASSUME NEW kind PROVE Has(new, kind) <=> Has(ev, kind) \/ e.kind = kind
        BY <1>2, <2>0, Zenon DEF Has
    <2>3. /\ IF e.kind = "STATE" THEN state2 = e.arg ELSE state2 = state
          /\ state2 <= READY => /\ state <= READY
                                /\ channel2 <=> (channel \/ e.kind = "CHANNEL_BOUND")
                                /\ relay2 <=> (relay \/ e.kind = "RELAY")
        BY <2>1, Zenon DEF Announces
    <2>4. /\ ~ Has(ev, "STATE") => s.state = state
          /\ \A i \in 1 .. Len(ev) :
                 ev[i].kind = "STATE" /\ (\A j \in i + 1 .. Len(ev) : ev[j].kind # "STATE") => ev[i].arg = state
          /\ state <= READY => /\ channel <=> (s.channel \/ Has(ev, "CHANNEL_BOUND"))
                               /\ relay <=> (s.relay \/ Has(ev, "RELAY"))
        BY <2>1 DEF Tells
    <2>5. ~ Has(new, "STATE") => s.state = state2
        BY <2>2, <2>3, <2>4
    <2>6. ASSUME NEW i \in 1 .. Len(new), new[i].kind = "STATE", \A j \in i + 1 .. Len(new) : new[j].kind # "STATE"
          PROVE  new[i].arg = state2
        <3>1. CASE i = Len(ev) + 1
            BY <1>2, <2>3, <2>6, <3>1
        <3>2. CASE i \in 1 .. Len(ev)
            <4>1. Len(ev) + 1 \in i + 1 .. Len(new)
                BY <1>0, <1>2, <3>2
            <4>2. e.kind # "STATE"
                BY <1>2, <2>6, <4>1
            <4>3. ASSUME NEW j \in i + 1 .. Len(ev) PROVE ev[j].kind # "STATE"
                <5>1. j \in i + 1 .. Len(new) /\ j \in 1 .. Len(ev)
                    BY <1>0, <1>2, <3>2
                <5> QED
                    BY <1>2, <2>6, <5>1
            <4> QED
                BY <1>2, <2>3, <2>4, <2>6, <3>2, <4>2, <4>3
        <3> QED
            BY <2>0, <3>1, <3>2
    <2>7. state2 <= READY => /\ channel2 <=> (s.channel \/ Has(new, "CHANNEL_BOUND"))
                             /\ relay2 <=> (s.relay \/ Has(new, "RELAY"))
        BY <2>2, <2>3, <2>4
    <2> QED
        BY <2>5, <2>6, <2>7 DEF Tells
<1> QED
    BY <1>1, <1>2, PushedIs

\* An event that is in order, and announces what changes, keeps the ring.
InOrder(e, state, state2) == Rank(state) <= Rank(state2) /\ Mark(e) <= Rank(state2) /\ Rank(state) <= Limit(e)

LEMMA PushRing ==
    ASSUME NEW ev, NEW e \in Events, NEW s, NEW quiet, NEW floor \in 0 .. 2,
           NEW state, NEW channel, NEW relay, NEW state2, NEW channel2, NEW relay2,
           Ring(ev, state, channel, relay, floor, s, quiet),
           InOrder(e, state, state2),
           quiet => Announces(e, state, channel, relay, state2, channel2, relay2)
    PROVE  Ring(Pushed(ev, e), state2, channel2, relay2, floor, s, quiet)
<1>1. ev \in Seq(Events) /\ Len(ev) <= EventCapacity /\ Ordered(ev, state, floor)
    BY DEF Ring
<1>2. Pushed(ev, e) \in Seq(Events) /\ Len(Pushed(ev, e)) <= EventCapacity
    BY <1>1, PushedIs
<1>3. Ordered(Pushed(ev, e), state2, floor)
    BY <1>1, PushOrdered DEF InOrder
<1>4. quiet => Tells(Pushed(ev, e), state2, channel2, relay2, s)
    BY <1>1, PushTells DEF Ring
<1> QED
    BY <1>2, <1>3, <1>4 DEF Ring

\* The snapshot s2 is s after the driver has taken e.
Takes(e, state, s, s2) ==
    /\ ~ Fails(e)
    /\ IF e.kind = "STATE" THEN s2.state = e.arg ELSE s2.state = s.state
    /\ state <= READY => /\ s2.channel <=> (s.channel \/ e.kind = "CHANNEL_BOUND")
                         /\ s2.relay <=> (s.relay \/ e.kind = "RELAY")

LEMMA TakeTells ==
    ASSUME NEW ev \in Seq(Events), ev # << >>, NEW state, NEW channel, NEW relay, NEW s, NEW s2,
           Tells(ev, state, channel, relay, s), Takes(Head(ev), state, s, s2)
    PROVE  Tells(Tail(ev), state, channel, relay, s2)
<1> DEFINE e == ev[1]
           rest == Tail(ev)
<1>0. /\ Len(ev) \in Nat /\ Len(ev) >= 1 /\ e = Head(ev) /\ Len(rest) = Len(ev) - 1
      /\ \A i \in 1 .. Len(rest) : rest[i] = ev[i + 1]
    OBVIOUS
<1> HIDE DEF e, rest
<1> SUFFICES ASSUME Untroubled(rest) PROVE Tells(rest, state, channel, relay, s2)
    BY DEF Tells, rest
<1>1. \A i \in 1 .. Len(ev) : i = 1 \/ (i - 1 \in 1 .. Len(rest) /\ rest[i - 1] = ev[i])
    <2>1. ASSUME NEW i \in 1 .. Len(ev), i # 1 PROVE i - 1 \in 1 .. Len(rest) /\ (i - 1) + 1 = i
        BY <1>0, <2>1
    <2> QED
        BY <1>0, <2>1
<1>2. \A i \in 1 .. Len(rest) : i + 1 \in 1 .. Len(ev)
    BY <1>0
<1>3. 1 \in 1 .. Len(ev)
    BY <1>0
<1>4. Untroubled(ev)
    <2>1. ~ Fails(e)
        BY <1>0 DEF Takes
    <2> QED
        BY <1>1, <2>1 DEF Untroubled, e
<1>5. ASSUME NEW kind PROVE Has(ev, kind) <=> Has(rest, kind) \/ e.kind = kind
    <2>1. Has(ev, kind) => Has(rest, kind) \/ e.kind = kind
        BY <1>1 DEF Has, e
    <2>2. Has(rest, kind) => Has(ev, kind)
        BY <1>0, <1>2 DEF Has
    <2>3. e.kind = kind => Has(ev, kind)
        BY <1>3 DEF Has, e
    <2> QED
        BY <2>1, <2>2, <2>3
<1>6. /\ ~ Has(ev, "STATE") => s.state = state
      /\ \A i \in 1 .. Len(ev) :
             ev[i].kind = "STATE" /\ (\A j \in i + 1 .. Len(ev) : ev[j].kind # "STATE") => ev[i].arg = state
      /\ state <= READY => /\ channel <=> (s.channel \/ Has(ev, "CHANNEL_BOUND"))
                           /\ relay <=> (s.relay \/ Has(ev, "RELAY"))
    BY <1>4 DEF Tells
<1>7. /\ IF e.kind = "STATE" THEN s2.state = e.arg ELSE s2.state = s.state
      /\ state <= READY => /\ s2.channel <=> (s.channel \/ e.kind = "CHANNEL_BOUND")
                           /\ s2.relay <=> (s.relay \/ e.kind = "RELAY")
    BY <1>0 DEF Takes
<1>8. ASSUME ~ Has(rest, "STATE") PROVE s2.state = state
    <2>1. CASE e.kind = "STATE"
        <3>1. ASSUME NEW j \in 1 + 1 .. Len(ev) PROVE ev[j].kind # "STATE"
            <4>1. j \in 1 .. Len(ev) /\ j # 1
                BY <1>0
            <4> QED
                BY <1>1, <1>8, <4>1 DEF Has
        <3>2. ev[1].arg = state
            BY <1>3, <1>6, <2>1, <3>1 DEF e
        <3> QED
            BY <1>7, <2>1, <3>2 DEF e
    <2>2. CASE e.kind # "STATE"
        BY <1>5, <1>6, <1>7, <1>8, <2>2
    <2> QED
        BY <2>1, <2>2
<1>9. ASSUME NEW i \in 1 .. Len(rest), rest[i].kind = "STATE", \A j \in i + 1 .. Len(rest) : rest[j].kind # "STATE"
      PROVE  rest[i].arg = state
    <2>1. ASSUME NEW j \in (i + 1) + 1 .. Len(ev) PROVE ev[j].kind # "STATE"
        <3>1. j \in 1 .. Len(ev) /\ j # 1 /\ j - 1 \in i + 1 .. Len(rest)
            BY <1>0
        <3> QED
            BY <1>1, <1>9, <3>1
    <2> QED
        BY <1>0, <1>2, <1>6, <1>9, <2>1
<1>10. state <= READY => /\ channel <=> (s2.channel \/ Has(rest, "CHANNEL_BOUND"))
                         /\ relay <=> (s2.relay \/ Has(rest, "RELAY"))
    BY <1>5, <1>6, <1>7
<1> QED
    BY <1>8, <1>9, <1>10 DEF Tells

LEMMA TakeRing ==
    ASSUME NEW ev, ev # << >>, NEW state, NEW channel, NEW relay, NEW s, NEW quiet, NEW s2, NEW quiet2,
           NEW floor \in 0 .. 2, NEW floor2 \in 0 .. 2, floor2 <= floor \/ floor2 <= Mark(Head(ev)),
           Ring(ev, state, channel, relay, floor, s, quiet),
           quiet2 => quiet /\ Takes(Head(ev), state, s, s2)
    PROVE  Ring(Tail(ev), state, channel, relay, floor2, s2, quiet2)
<1> DEFINE rest == Tail(ev)
<1>0. /\ ev \in Seq(Events) /\ Len(ev) <= EventCapacity /\ EventCapacity \in Nat
      /\ Len(ev) \in Nat /\ Len(ev) >= 1 /\ ev[1] = Head(ev) /\ rest \in Seq(Events) /\ Len(rest) = Len(ev) - 1
      /\ \A i \in 1 .. Len(rest) : rest[i] = ev[i + 1]
    BY TurnBounds DEF Ring
<1> HIDE DEF rest
<1>1. /\ \A i \in 1 .. Len(ev) : Mark(ev[i]) <= Rank(state) /\ floor <= Limit(ev[i])
      /\ \A i, j \in 1 .. Len(ev) : i < j => Mark(ev[i]) <= Limit(ev[j])
      /\ floor <= Rank(state)
    BY DEF Ring, Ordered
<1>2. /\ \A i \in 1 .. Len(ev) : Mark(ev[i]) \in 0 .. 2 /\ Limit(ev[i]) \in 0 .. 2
      /\ Rank(state) \in 0 .. 2
    BY Marks, Ranks
<1>3. 1 \in 1 .. Len(ev)
    BY <1>0
<1>4. ASSUME NEW i \in 1 .. Len(rest)
      PROVE  /\ i + 1 \in 1 .. Len(ev) /\ 1 < i + 1
             /\ Mark(rest[i]) = Mark(ev[i + 1]) /\ Limit(rest[i]) = Limit(ev[i + 1])
    BY <1>0
<1>5. ASSUME NEW i \in 1 .. Len(rest) PROVE Mark(rest[i]) <= Rank(state) /\ floor2 <= Limit(rest[i])
    <2>1. floor <= Limit(ev[i + 1]) /\ Mark(ev[1]) <= Limit(ev[i + 1])
        BY <1>1, <1>3, <1>4
    <2> QED
        BY <1>0, <1>1, <1>2, <1>3, <1>4, <2>1
<1>6. ASSUME NEW i \in 1 .. Len(rest), NEW j \in 1 .. Len(rest), i < j PROVE Mark(rest[i]) <= Limit(rest[j])
    <2>1. i + 1 < j + 1
        BY <1>0, <1>6
    <2> QED
        BY <1>1, <1>4, <2>1
<1>7. floor2 <= Rank(state)
    BY <1>0, <1>1, <1>2, <1>3
<1>8. Ordered(rest, state, floor2)
    BY <1>5, <1>6, <1>7 DEF Ordered
<1>9. quiet2 => Tells(rest, state, channel, relay, s2)
    BY <1>0, TakeTells DEF Ring, rest
<1>10. Len(rest) <= EventCapacity
    BY <1>0
<1> QED
    BY <1>0, <1>8, <1>9, <1>10 DEF Ring, rest

\* The ring stays as it is; the snapshot may fall behind, and an allocation that is over
\* has no channel and no relay to tell of.
Tolerates(state, channel, relay, s, quiet, channel2, relay2, s2, quiet2) ==
    quiet2 => /\ quiet /\ s2.state = s.state
              /\ state <= READY => /\ channel2 <=> channel
                                   /\ relay2 <=> relay
                                   /\ s2.channel = s.channel /\ s2.relay = s.relay

LEMMA KeepRing ==
    ASSUME NEW ev, NEW state, NEW channel, NEW relay, NEW s, NEW quiet, NEW channel2, NEW relay2, NEW s2, NEW quiet2,
           NEW floor \in 0 .. 2, NEW floor2 \in 0 .. 2, floor2 <= floor,
           Ring(ev, state, channel, relay, floor, s, quiet),
           Tolerates(state, channel, relay, s, quiet, channel2, relay2, s2, quiet2)
    PROVE  Ring(ev, state, channel2, relay2, floor2, s2, quiet2)
<1>1. Rank(state) \in 0 .. 2 /\ \A i \in 1 .. Len(ev) : Limit(ev[i]) \in 0 .. 2
    BY Ranks, Marks
<1>2. Ordered(ev, state, floor2)
    BY <1>1 DEF Ring, Ordered
<1>3. quiet2 => Tells(ev, state, channel2, relay2, s2)
    BY DEF Ring, Tells, Tolerates
<1> QED
    BY <1>2, <1>3 DEF Ring

-----------------------------------------------------------------------------
(***************************************************************************)
(* The core                                                                *)
(***************************************************************************)
\* The state an operation is pending in.
Home(op) == IF op = "Allocate" THEN ALLOCATING ELSE IF op = "Deallocate" THEN DEALLOCATING ELSE READY

\* Every request that waits to be sent has its transaction, and an operation has one.
Owned(c) ==
    /\ \A k \in Range(c.controls) : k.op # "Keepalive" => \E p \in c.pending : p.txn = k.txn
    /\ \A p, q \in c.pending : p.op = q.op => p = q

Shape(c) ==
    /\ c \in Cores /\ Len(c.controls) <= ControlCapacity
    /\ Owned(c)
    /\ \A p \in c.pending : c.state = Home(p.op)
    /\ c.channel => c.state = READY \/ c.destroyed
    /\ c.relay => c.state >= READY
    /\ c.state = READY => c.relay /\ ~ c.shutting
    /\ c.state \in {DEALLOCATING, DEALLOCATED} => c.shutting
    /\ c.state = DESTROYING /\ c.relay /\ ~ c.destroyed => "expires" \in c.armed
    /\ c.destroyed => c.pending = {} /\ c.state = DESTROYING

\* A shutdown releases what the server has granted.
Released(c) == c.shutting /\ c.relay /\ ~ c.destroyed => HasOperation(c, "Deallocate")

RingOf(c, floor, s, quiet) == Ring(c.events, c.state, c.channel, c.relay, floor, s, quiet)

\* Only the events, or only the events and the state, differ.
KeptButState(c, d) ==
    /\ d.auth = c.auth /\ d.relay = c.relay /\ d.channel = c.channel /\ d.controls = c.controls
    /\ d.pending = c.pending /\ d.armed = c.armed /\ d.refreshFailed = c.refreshFailed
    /\ d.channelFailures = c.channelFailures /\ d.shutting = c.shutting /\ d.destroyed = c.destroyed
    /\ d.transport = c.transport

Kept(c, d) == KeptButState(c, d) /\ d.state = c.state

LEMMA PushFields ==
    ASSUME NEW c \in Cores, Len(c.events) <= EventCapacity, NEW e \in Events
    PROVE  LET d == PushEvent(c, e) IN d \in Cores /\ d.events = Pushed(c.events, e) /\ Kept(c, d)
<1> DEFINE new == Pushed(c.events, e)
           d == [c EXCEPT !.events = new]
<1>1. c.events \in Seq(Events)
    BY DEF Cores
<1>2. new \in Seq(Events)
    BY <1>1, PushedIs
<1>3. PushEvent(c, e) = d
    BY DEF PushEvent, Pushed
<1> HIDE DEF new
<1>4. d \in Cores /\ d.events = new /\ Kept(c, d)
    BY <1>2 DEF Cores, Kept, KeptButState
<1> QED
    BY <1>3, <1>4 DEF new

LEMMA ShapeKept ==
    ASSUME NEW c, Shape(c), NEW d \in Cores, Kept(c, d)
    PROVE  Shape(d) /\ (Released(c) => Released(d)) /\ (\A op : HasOperation(c, op) <=> HasOperation(d, op))
<1>1. Shape(d)
    BY DEF Shape, Kept, KeptButState, Owned
<1>2. \A op : HasOperation(c, op) <=> HasOperation(d, op)
    BY DEF HasOperation, Kept, KeptButState
<1>3. Released(c) => Released(d)
    BY <1>2 DEF Released, Kept, KeptButState
<1> QED
    BY <1>1, <1>2, <1>3

\* Events that tell of no state, channel or relay.
Plain(e) == e \in Events /\ e.kind \notin {"STATE", "CHANNEL_BOUND", "RELAY"}

LEMMA PushPlain ==
    ASSUME NEW c \in Cores, NEW e, Plain(e), NEW s, NEW quiet, NEW floor \in 0 .. 2, NEW channel, NEW relay,
           Ring(c.events, c.state, channel, relay, floor, s, quiet)
    PROVE  LET d == PushEvent(c, e)
           IN  d \in Cores /\ Kept(c, d) /\ Ring(d.events, d.state, channel, relay, floor, s, quiet)
<1> DEFINE d == PushEvent(c, e)
<1>1. e \in Events /\ Mark(e) = 0 /\ Limit(e) = 2
    BY DEF Plain, Mark, Limit
<1>2. d \in Cores /\ Kept(c, d) /\ d.events = Pushed(c.events, e)
    BY <1>1, PushFields DEF Ring
<1>3. d.state = c.state
    BY <1>2 DEF Kept
<1>4. InOrder(e, c.state, c.state)
    BY <1>1, Ranks DEF InOrder
<1>5. c.state <= READY => c.state <= READY
    OBVIOUS
<1>6. Announces(e, c.state, channel, relay, c.state, channel, relay)
    BY DEF Plain, Announces
<1> HIDE DEF d
<1>7. Ring(Pushed(c.events, e), c.state, channel, relay, floor, s, quiet)
    BY <1>1, <1>4, <1>6, PushRing
<1> QED
    BY <1>2, <1>3, <1>7 DEF d

\* set_state, towards a state that is not behind.  Nothing is told of the channel and the
\* relay of an allocation that is over.
LEMMA SetStateRing ==
    ASSUME NEW c \in Cores, NEW st \in TurnStates, NEW s, NEW quiet, NEW floor \in 0 .. 2,
           NEW channel, NEW relay, NEW channel2, NEW relay2,
           Ring(c.events, c.state, channel, relay, floor, s, quiet),
           Rank(c.state) <= Rank(st),
           quiet /\ st <= READY => (channel2 <=> channel) /\ (relay2 <=> relay)
    PROVE  LET d == SetState(c, st)
           IN  /\ d \in Cores /\ d.state = st /\ KeptButState(c, d)
               /\ Ring(d.events, st, channel2, relay2, floor, s, quiet)
<1> DEFINE d == SetState(c, st)
<1>0. c.state \in TurnStates /\ c.events \in Seq(Events)
    BY DEF Cores
<1>1. CASE c.state = st
    <2>1. d = c
        BY <1>1 DEF SetState
    <2>2. Ring(c.events, st, channel2, relay2, floor, s, quiet)
        <3>1. Ring(c.events, st, channel, relay, floor, s, quiet)
            BY <1>1
        <3>2. Tolerates(st, channel, relay, s, quiet, channel2, relay2, s, quiet)
            BY DEF Tolerates
        <3>3. floor <= floor
            OBVIOUS
        <3> QED
            BY <3>1, <3>2, <3>3, KeepRing
    <2> QED
        BY <1>1, <2>1, <2>2 DEF KeptButState
<1>2. CASE c.state # st
    <2> DEFINE b == [c EXCEPT !.state = st]
               e == Event("STATE", st)
    <2>1. d = PushEvent(b, e)
        BY <1>2 DEF SetState
    <2>2. b \in Cores /\ b.events = c.events /\ KeptButState(c, b) /\ b.state = st
        BY DEF Cores, KeptButState
    <2>3. e \in Events /\ e.kind = "STATE" /\ e.arg = st /\ Mark(e) = Rank(st) /\ Limit(e) = Rank(st)
        BY DEF Events, Event, Mark, Limit
    <2> HIDE DEF b, e
    <2>4. Len(b.events) <= EventCapacity
        BY <2>2 DEF Ring
    <2>5. PushEvent(b, e) \in Cores /\ PushEvent(b, e).events = Pushed(b.events, e) /\ Kept(b, PushEvent(b, e))
        BY <2>2, <2>3, <2>4, PushFields
    <2>6. InOrder(e, c.state, st)
        BY <2>3, Ranks DEF InOrder
    <2>7. st <= READY => c.state <= READY
        BY <1>0 DEF Rank, TurnStates, READY, NULL, ALLOCATING, DEALLOCATING, DEALLOCATED, DESTROYING
    <2>8. quiet => Announces(e, c.state, channel, relay, st, channel2, relay2)
        BY <2>3, <2>7 DEF Announces
    <2>9. Ring(Pushed(c.events, e), st, channel2, relay2, floor, s, quiet)
        BY <2>3, <2>6, <2>8, PushRing
    <2> HIDE DEF d
    <2>10. KeptButState(c, d) /\ d.state = st
        BY <2>1, <2>2, <2>5 DEF Kept, KeptButState
    <2> QED
        BY <2>1, <2>2, <2>5, <2>9, <2>10 DEF d
<1> QED
    BY <1>1, <1>2

-----------------------------------------------------------------------------
(***************************************************************************)
(* Requests                                                                *)
(***************************************************************************)
Good(c, floor, s, quiet) == Shape(c) /\ RingOf(c, floor, s, quiet)

\* Only the events and the queue differ.
KeptButControls(c, d) ==
    /\ d.state = c.state /\ d.auth = c.auth /\ d.relay = c.relay /\ d.channel = c.channel
    /\ d.pending = c.pending /\ d.armed = c.armed /\ d.refreshFailed = c.refreshFailed
    /\ d.channelFailures = c.channelFailures /\ d.shutting = c.shutting /\ d.destroyed = c.destroyed
    /\ d.transport = c.transport

\* A full queue loses its oldest packet.
LEMMA QueueFields ==
    ASSUME NEW c \in Cores, Len(c.controls) <= ControlCapacity, NEW packet \in Packets,
           NEW s, NEW quiet, NEW floor \in 0 .. 2, RingOf(c, floor, s, quiet)
    PROVE  LET d == QueuePacket(c, packet)
           IN  /\ d \in Cores /\ Len(d.controls) <= ControlCapacity /\ KeptButControls(c, d)
               /\ \A k \in Range(d.controls) : k \in Range(c.controls) \/ k = packet
               /\ RingOf(d, floor, s, quiet)
<1> DEFINE e == Event("CONTROL_OVERFLOW", 0)
           b == [c EXCEPT !.controls = Tail(@)]
           room == IF Len(c.controls) = ControlCapacity THEN PushEvent(b, e) ELSE c
           d == [room EXCEPT !.controls = Append(@, packet)]
<1>0. /\ c.controls \in Seq(Packets) /\ Len(c.controls) \in Nat /\ ControlCapacity \in Nat \ {0}
    BY TurnBounds DEF Cores
<1>1. /\ room \in Cores /\ KeptButControls(c, room) /\ RingOf(room, floor, s, quiet)
      /\ Len(room.controls) < ControlCapacity /\ \A k \in Range(room.controls) : k \in Range(c.controls)
    <2>1. CASE Len(c.controls) = ControlCapacity
        <3>1. c.controls # << >>
            BY <1>0, <2>1
        <3>2. /\ Tail(c.controls) \in Seq(Packets) /\ Len(Tail(c.controls)) = Len(c.controls) - 1
              /\ \A i \in 1 .. Len(c.controls) - 1 : Tail(c.controls)[i] = c.controls[i + 1]
            BY <1>0, <3>1
        <3>3. b \in Cores /\ b.events = c.events /\ KeptButControls(c, b) /\ b.controls = Tail(c.controls)
            BY <3>2 DEF Cores, KeptButControls
        <3>4. Plain(e)
            BY DEF Plain, Events, Event
        <3> HIDE DEF b, e
        <3>5. Ring(b.events, b.state, c.channel, c.relay, floor, s, quiet)
            BY <3>3 DEF RingOf, KeptButControls
        <3> DEFINE r == PushEvent(b, e)
        <3>6. r \in Cores /\ Kept(b, r) /\ Ring(r.events, r.state, c.channel, c.relay, floor, s, quiet)
            BY <3>3, <3>4, <3>5, PushPlain
        <3>7. room = r
            BY <2>1
        <3> HIDE DEF r, room
        <3>8. KeptButControls(c, r) /\ r.controls = Tail(c.controls)
            BY <3>3, <3>6 DEF Kept, KeptButState, KeptButControls
        <3>9. RingOf(r, floor, s, quiet)
            BY <3>6, <3>8 DEF RingOf, KeptButControls
        <3>10. \A k \in Range(Tail(c.controls)) : k \in Range(c.controls)
            BY <1>0, <3>2 DEF Range
        <3>11. Len(Tail(c.controls)) < ControlCapacity
            BY <1>0, <2>1, <3>2
        <3> QED
            BY <3>6, <3>7, <3>8, <3>9, <3>10, <3>11
    <2>2. CASE Len(c.controls) # ControlCapacity
        <3>1. room = c
            BY <2>2
        <3> HIDE DEF room
        <3> QED
            BY <1>0, <2>2, <3>1 DEF KeptButControls
    <2> QED
        BY <2>1, <2>2
<1>2. QueuePacket(c, packet) = d
    BY DEF QueuePacket
<1> HIDE DEF room
<1>3. /\ room.controls \in Seq(Packets) /\ Append(room.controls, packet) \in Seq(Packets)
      /\ Len(Append(room.controls, packet)) = Len(room.controls) + 1
      /\ \A k \in Range(Append(room.controls, packet)) : k \in Range(room.controls) \/ k = packet
    <2>1. room.controls \in Seq(Packets)
        BY <1>1 DEF Cores
    <2> QED
        BY <2>1 DEF Range
<1>4. d \in Cores /\ d.controls = Append(room.controls, packet) /\ KeptButControls(room, d) /\ d.events = room.events
    BY <1>1, <1>3 DEF Cores, KeptButControls
<1> HIDE DEF d
<1>5. KeptButControls(c, d)
    BY <1>1, <1>4 DEF KeptButControls
<1>6. RingOf(d, floor, s, quiet)
    BY <1>1, <1>4 DEF RingOf, KeptButControls
<1>7. Len(d.controls) <= ControlCapacity
    BY <1>0, <1>1, <1>3, <1>4
<1>8. \A k \in Range(d.controls) : k \in Range(c.controls) \/ k = packet
    BY <1>1, <1>3, <1>4
<1> QED
    BY <1>2, <1>4, <1>5, <1>6, <1>7, <1>8

LEMMA QueueGood ==
    ASSUME NEW c, NEW packet \in Packets, NEW s, NEW quiet, NEW floor \in 0 .. 2, Good(c, floor, s, quiet),
           packet.op # "Keepalive" => \E p \in c.pending : p.txn = packet.txn
    PROVE  LET d == QueuePacket(c, packet)
           IN  Good(d, floor, s, quiet) /\ KeptButControls(c, d)
<1> DEFINE d == QueuePacket(c, packet)
<1>1. c \in Cores /\ Len(c.controls) <= ControlCapacity /\ RingOf(c, floor, s, quiet)
    BY DEF Good, Shape
<1>2. /\ d \in Cores /\ Len(d.controls) <= ControlCapacity /\ KeptButControls(c, d)
      /\ \A k \in Range(d.controls) : k \in Range(c.controls) \/ k = packet
      /\ RingOf(d, floor, s, quiet)
    BY <1>1, QueueFields
<1> HIDE DEF d
<1>3. Owned(d)
    BY <1>2 DEF Good, Shape, Owned, KeptButControls
<1>4. Shape(d)
    BY <1>2, <1>3 DEF Good, Shape, KeptButControls
<1> QED
    BY <1>2, <1>4 DEF Good, d

\* remove_pending leaves nothing of the transaction in the queue.
LEMMA RemoveGood ==
    ASSUME NEW c, NEW p \in c.pending, NEW s, NEW quiet, NEW floor \in 0 .. 2, Good(c, floor, s, quiet)
    PROVE  LET d == RemovePending(c, p)
           IN  /\ Good(d, floor, s, quiet) /\ d.pending = c.pending \ {p}
               /\ d.state = c.state /\ d.relay = c.relay /\ d.channel = c.channel /\ d.armed = c.armed
               /\ d.shutting = c.shutting /\ d.destroyed = c.destroyed
<1> DEFINE kept == Without(c.controls, p.txn)
           d == [c EXCEPT !.pending = @ \ {p}, !.controls = kept]
<1>0. c \in Cores /\ c.controls \in Seq(Packets) /\ Len(c.controls) <= ControlCapacity /\ p \in Requests
    BY DEF Good, Shape, Cores
<1>1. /\ kept \in Seq(Packets) /\ Len(kept) <= Len(c.controls)
      /\ \A k \in Range(kept) : k \in Range(c.controls) /\ k.txn # p.txn
    BY <1>0, WithoutKeeps
<1>2. RemovePending(c, p) = d
    BY <1>0 DEF RemovePending, RemoveQueuedTransaction, Cores
<1> HIDE DEF kept
<1>3. /\ d \in Cores /\ d.controls = kept /\ d.pending = c.pending \ {p} /\ d.events = c.events
      /\ d.state = c.state /\ d.relay = c.relay /\ d.channel = c.channel /\ d.armed = c.armed
      /\ d.shutting = c.shutting /\ d.destroyed = c.destroyed
    BY <1>0, <1>1 DEF Cores
<1> HIDE DEF d
<1>4. Owned(d)
    <2>1. ASSUME NEW k \in Range(kept), k.op # "Keepalive" PROVE \E q \in d.pending : q.txn = k.txn
        <3>1. k \in Range(c.controls) /\ k.txn # p.txn
            BY <1>1
        <3>2. PICK q \in c.pending : q.txn = k.txn
            BY <2>1, <3>1 DEF Good, Shape, Owned
        <3> QED
            BY <1>3, <3>1, <3>2
    <2>2. \A q, r \in d.pending : q.op = r.op => q = r
        BY <1>3 DEF Good, Shape, Owned
    <2> QED
        BY <1>3, <2>1, <2>2 DEF Owned
<1>5. Len(kept) \in Nat /\ Len(c.controls) \in Nat /\ ControlCapacity \in Nat
    BY <1>0, <1>1, TurnBounds
<1>6. Len(d.controls) <= ControlCapacity
    BY <1>0, <1>1, <1>3, <1>5
<1>7. Shape(d)
    BY <1>3, <1>4, <1>6 DEF Good, Shape
<1>8. RingOf(d, floor, s, quiet)
    BY <1>3 DEF Good, RingOf
<1> QED
    BY <1>2, <1>3, <1>7, <1>8 DEF Good

\* Nothing changes but requests and events.
SameStanding(c, d) ==
    /\ d.state = c.state /\ d.relay = c.relay /\ d.channel = c.channel /\ d.armed = c.armed
    /\ d.shutting = c.shutting /\ d.destroyed = c.destroyed

LEMMA StartGood ==
    ASSUME NEW c, NEW op \in Operations, NEW authenticated \in BOOLEAN, NEW nonceRetries \in Nat,
           NEW s, NEW quiet, NEW floor \in 0 .. 2, Good(c, floor, s, quiet), c.state = Home(op), ~ c.destroyed
    PROVE  LET d == StartOperation(c, op, authenticated, nonceRetries)
           IN  /\ Good(d, floor, s, quiet) /\ SameStanding(c, d) /\ HasOperation(d, op)
               /\ \A o : HasOperation(c, o) => HasOperation(d, o)
<1> DEFINE d == StartOperation(c, op, authenticated, nonceRetries)
<1>0. c \in Cores /\ Len(c.controls) <= ControlCapacity /\ RingOf(c, floor, s, quiet) /\ c.pending \in SUBSET Requests
    BY DEF Good, Shape, Cores
<1>1. CASE HasOperation(c, op) /\ op = "Channel"
    <2> DEFINE p == CHOOSE q \in c.pending : q.op = op
               packet == BuildRequest(op, p.txn)
    <2>1. p \in c.pending
        BY <1>1, Zenon DEF HasOperation
    <2> HIDE DEF p
    <2>2. packet \in Packets /\ packet.txn = p.txn
        BY <1>0, <2>1 DEF BuildRequest, Packets, Requests
    <2> HIDE DEF packet
    <2> DEFINE b == QueuePacket(c, packet)
    <2>3. d = b
        BY <1>1 DEF StartOperation, p, packet
    <2>4. Good(b, floor, s, quiet) /\ KeptButControls(c, b)
        BY <2>1, <2>2, QueueGood
    <2> HIDE DEF b, d
    <2>5. SameStanding(c, b) /\ \A o : HasOperation(c, o) => HasOperation(b, o)
        BY <2>4 DEF SameStanding, KeptButControls, HasOperation
    <2> QED
        BY <1>1, <2>3, <2>4, <2>5 DEF d
<1>2. CASE HasOperation(c, op) /\ op # "Channel"
    <2>1. d = c
        BY <1>2 DEF StartOperation
    <2> QED
        BY <1>2, <2>1 DEF SameStanding
<1>3. CASE ~ HasOperation(c, op)
    <2> DEFINE txn == FreshTransaction(c, op)
               packet == BuildRequest(op, txn)
               new == [op |-> op, txn |-> txn, transmissions |-> 1, nonceRetries |-> nonceRetries,
                       authenticated |-> authenticated]
               b == QueuePacket(c, packet)
               e == [b EXCEPT !.pending = @ \cup {new}]
    <2>1. txn \in Transactions
        BY <1>0, FreshTransactionIs
    <2>2. d = e
        BY <1>3 DEF StartOperation
    <2> HIDE DEF txn
    <2>3. packet \in Packets /\ new \in Requests /\ packet.txn = txn /\ new.txn = txn /\ new.op = op
        BY <2>1 DEF BuildRequest, Packets, Requests
    <2> HIDE DEF packet, new
    <2>4. /\ b \in Cores /\ Len(b.controls) <= ControlCapacity /\ KeptButControls(c, b)
          /\ \A k \in Range(b.controls) : k \in Range(c.controls) \/ k = packet
          /\ RingOf(b, floor, s, quiet)
        BY <1>0, <2>3, QueueFields
    <2> HIDE DEF b
    <2>5. /\ e \in Cores /\ e.controls = b.controls /\ e.pending = c.pending \cup {new} /\ e.events = b.events
          /\ SameStanding(c, e)
        BY <2>3, <2>4 DEF Cores, SameStanding, KeptButControls
    <2> HIDE DEF e
    <2>6. Owned(e)
        <3>1. ASSUME NEW k \in Range(e.controls), k.op # "Keepalive" PROVE \E q \in e.pending : q.txn = k.txn
            <4>1. CASE k = packet
                BY <2>3, <2>5, <4>1
            <4>2. CASE k \in Range(c.controls)
                BY <2>5, <3>1, <4>2 DEF Good, Shape, Owned
            <4> QED
                BY <2>4, <2>5, <4>1, <4>2
        <3>2. ASSUME NEW q \in e.pending, NEW r \in e.pending, q.op = r.op PROVE q = r
            BY <1>3, <2>3, <2>5, <3>2 DEF Good, Shape, Owned, HasOperation
        <3> QED
            BY <3>1, <3>2 DEF Owned
    <2>7. \A q \in e.pending : e.state = Home(q.op)
        BY <2>3, <2>5 DEF Good, Shape, SameStanding
    <2>8. Shape(e)
        BY <2>4, <2>5, <2>6, <2>7 DEF Good, Shape, SameStanding
    <2>9. RingOf(e, floor, s, quiet)
        BY <2>4, <2>5 DEF RingOf, SameStanding, KeptButControls
    <2>10. HasOperation(e, op) /\ \A o : HasOperation(c, o) => HasOperation(e, o)
        BY <2>3, <2>5 DEF HasOperation
    <2> QED
        BY <2>2, <2>5, <2>8, <2>9, <2>10 DEF Good
<1> QED
    BY <1>1, <1>2, <1>3

-----------------------------------------------------------------------------
(***************************************************************************)
(* How an operation ends                                                   *)
(***************************************************************************)
LEMMA CompletePlain ==
    ASSUME NEW op \in Operations, NEW ok \in BOOLEAN
    PROVE  Plain(Event("COMPLETE", <<Method(op), ok>>))
<1>1. Method(op) \in Operations
    BY DEF Method, Operations
<1> QED
    BY <1>1 DEF Plain, Events, Event

LEMMA PlainGood ==
    ASSUME NEW c, NEW e, Plain(e), NEW s, NEW quiet, NEW floor \in 0 .. 2, Good(c, floor, s, quiet)
    PROVE  LET d == PushEvent(c, e)
           IN  /\ Good(d, floor, s, quiet) /\ Kept(c, d) /\ (Released(c) => Released(d))
               /\ \A op : HasOperation(c, op) <=> HasOperation(d, op)
<1> DEFINE d == PushEvent(c, e)
<1>1. c \in Cores /\ Ring(c.events, c.state, c.channel, c.relay, floor, s, quiet)
    BY DEF Good, Shape, RingOf
<1>2. d \in Cores /\ Kept(c, d) /\ Ring(d.events, d.state, c.channel, c.relay, floor, s, quiet)
    BY <1>1, PushPlain
<1> HIDE DEF d
<1>3. RingOf(d, floor, s, quiet)
    BY <1>2 DEF RingOf, Kept, KeptButState
<1>4. Shape(d) /\ (Released(c) => Released(d)) /\ \A op : HasOperation(c, op) <=> HasOperation(d, op)
    BY <1>2, ShapeKept DEF Good
<1> QED
    BY <1>2, <1>3, <1>4 DEF Good, d

LEMMA CompleteGood ==
    ASSUME NEW c, NEW op \in Operations, NEW ok \in BOOLEAN, NEW s, NEW quiet, NEW floor \in 0 .. 2,
           Good(c, floor, s, quiet)
    PROVE  LET d == Complete(c, op, ok)
           IN  /\ Good(d, floor, s, quiet) /\ Kept(c, d) /\ (Released(c) => Released(d))
               /\ \A o : HasOperation(c, o) <=> HasOperation(d, o)
    BY CompletePlain, PlainGood DEF Complete

\* destroy_allocation: a Deallocate ends in DEALLOCATED, any other operation in DESTROYING.
LEMMA DestroyGood ==
    ASSUME NEW c, NEW op \in Operations, NEW ok \in BOOLEAN, NEW s, NEW quiet, NEW floor \in 0 .. 2,
           Good(c, floor, s, quiet), ~ c.destroyed, op = "Deallocate" => c.shutting
    PROVE  LET d == DestroyAllocation(c, op, ok)
           IN  Good(d, floor, s, quiet) /\ Released(d) /\ ~ d.destroyed /\ d.pending = {} /\ d.shutting = c.shutting
<1> DEFINE done1 == Complete(c, op, ok)
           st == IF op = "Deallocate" THEN DEALLOCATED ELSE DESTROYING
           b == [done1 EXCEPT !.controls = <<>>, !.pending = {}, !.channel = FALSE, !.relay = FALSE, !.armed = {}]
           d == SetState(b, st)
<1>0. DestroyAllocation(c, op, ok) = d
    BY DEF DestroyAllocation
<1>1. Good(done1, floor, s, quiet) /\ Kept(c, done1)
    BY CompleteGood
<1>2. st \in TurnStates /\ st > READY /\ Rank(st) = 2
    BY DEF TurnStates, READY, DEALLOCATED, DESTROYING, Rank
<1> HIDE DEF done1
<1>3. done1 \in Cores /\ Ring(done1.events, done1.state, done1.channel, done1.relay, floor, s, quiet)
    BY <1>1 DEF Good, Shape, RingOf
<1>4. /\ b \in Cores /\ b.events = done1.events /\ b.state = done1.state /\ b.controls = <<>> /\ b.pending = {}
      /\ b.channel = FALSE /\ b.relay = FALSE /\ b.shutting = done1.shutting /\ b.destroyed = done1.destroyed
    <2>1. <<>> \in Seq(Packets) /\ {} \in SUBSET Requests /\ {} \in SUBSET Deadlines
        OBVIOUS
    <2>2. b \in Cores
        BY <1>3, <2>1 DEF Cores
    <2> QED
        BY <1>3, <2>2 DEF Cores
<1> HIDE DEF b
<1>5. Ring(b.events, b.state, done1.channel, done1.relay, floor, s, quiet)
    BY <1>3, <1>4
<1>6. Rank(b.state) <= Rank(st)
    BY <1>2, Ranks
<1>7. ~ (st <= READY)
    BY <1>2 DEF READY, TurnStates, NULL, ALLOCATING, DEALLOCATING, DEALLOCATED, DESTROYING
<1>8. d \in Cores /\ d.state = st /\ KeptButState(b, d) /\ Ring(d.events, st, FALSE, FALSE, floor, s, quiet)
    <2> HIDE DEF st
    <2> QED
        BY <1>2, <1>4, <1>5, <1>6, <1>7, SetStateRing
<1> HIDE DEF d
<1>9. /\ d.controls = <<>> /\ d.pending = {} /\ d.channel = FALSE /\ d.relay = FALSE
      /\ d.shutting = c.shutting /\ d.destroyed = c.destroyed
    <2>1. done1.shutting = c.shutting /\ done1.destroyed = c.destroyed
        BY <1>1 DEF Kept, KeptButState
    <2>2. d.channel \in BOOLEAN /\ d.relay \in BOOLEAN
        BY <1>8 DEF Cores
    <2> QED
        BY <1>4, <1>8, <2>1, <2>2 DEF KeptButState
<1>10. Shape(d)
    <2>1. Range(d.controls) = {} /\ Len(d.controls) = 0
        BY <1>9 DEF Range
    <2>2. Owned(d)
        BY <1>9, <2>1 DEF Owned
    <2>3. ControlCapacity \in Nat
        BY TurnBounds
    <2> QED
        BY <1>2, <1>8, <1>9, <2>1, <2>2, <2>3
        DEF Shape, READY, DEALLOCATING, DEALLOCATED, DESTROYING
<1>11. RingOf(d, floor, s, quiet)
    BY <1>8, <1>9 DEF RingOf
<1> QED
    BY <1>0, <1>9, <1>10, <1>11 DEF Good, Released

\* The relay, and the deadline a shutdown looks for, stay.
LEMMA ExhaustedGood ==
    ASSUME NEW c, NEW s, NEW quiet, NEW floor \in 0 .. 2, Good(c, floor, s, quiet),
           ~ c.destroyed, c.state = READY, "expires" \in c.armed
    PROVE  LET d == DestroyAfterChannelRebindExhausted(c)
           IN  Good(d, floor, s, quiet) /\ Released(d) /\ ~ d.destroyed /\ d.shutting = c.shutting
<1> DEFINE b == [c EXCEPT !.controls = <<>>, !.pending = {}, !.channel = FALSE, !.armed = @ \cap {"refresh", "expires"}]
           e == Event("REBIND_EXHAUSTED", 0)
           f == PushEvent(b, e)
           d == SetState(f, DESTROYING)
<1>0. DestroyAfterChannelRebindExhausted(c) = d
    BY DEF DestroyAfterChannelRebindExhausted
<1>1. c \in Cores /\ Ring(c.events, c.state, c.channel, c.relay, floor, s, quiet) /\ ~ c.shutting
    BY DEF Good, Shape, RingOf
<1>2. /\ b \in Cores /\ b.events = c.events /\ b.state = c.state /\ b.controls = <<>> /\ b.pending = {}
      /\ b.channel = FALSE /\ "expires" \in b.armed /\ b.shutting = c.shutting /\ b.destroyed = c.destroyed
    <2>1. <<>> \in Seq(Packets) /\ {} \in SUBSET Requests
        OBVIOUS
    <2> QED
        BY <1>1, <2>1 DEF Cores
<1>3. Plain(e)
    BY DEF Plain, Events, Event
<1> HIDE DEF b, e
<1>4. f \in Cores /\ Kept(b, f) /\ Ring(f.events, f.state, c.channel, c.relay, floor, s, quiet)
    BY <1>1, <1>2, <1>3, PushPlain
<1> HIDE DEF f
<1>5. DESTROYING \in TurnStates /\ ~ (DESTROYING <= READY) /\ Rank(DESTROYING) = 2
    BY DEF DESTROYING, READY, TurnStates, Rank
<1>6. Rank(f.state) <= Rank(DESTROYING)
    BY <1>5, Ranks
<1>7. /\ d \in Cores /\ d.state = DESTROYING /\ KeptButState(f, d)
      /\ Ring(d.events, DESTROYING, FALSE, f.relay, floor, s, quiet)
    BY <1>4, <1>5, <1>6, SetStateRing
<1> HIDE DEF d
<1>8. /\ d.controls = <<>> /\ d.pending = {} /\ d.channel = FALSE /\ d.relay = f.relay /\ "expires" \in d.armed
      /\ d.shutting = c.shutting /\ d.destroyed = c.destroyed
    BY <1>2, <1>4, <1>7 DEF Kept, KeptButState
<1>9. Shape(d)
    <2>1. Range(d.controls) = {} /\ Len(d.controls) = 0
        BY <1>8 DEF Range
    <2>2. Owned(d)
        BY <1>8, <2>1 DEF Owned
    <2>3. ControlCapacity \in Nat
        BY TurnBounds
    <2> QED
        BY <1>7, <1>8, <2>1, <2>2, <2>3 DEF Shape, READY, DEALLOCATING, DEALLOCATED, DESTROYING
<1>10. RingOf(d, floor, s, quiet)
    BY <1>7, <1>8 DEF RingOf
<1> QED
    BY <1>0, <1>1, <1>8, <1>9, <1>10 DEF Good, Released

\* Counters and deadlines matter to no part of the invariant, but for the one of the lifetime.
LEMMA CountersGood ==
    ASSUME NEW c, NEW d \in Cores, NEW s, NEW quiet, NEW floor \in 0 .. 2, Good(c, floor, s, quiet),
           d.state = c.state, d.relay = c.relay, d.channel = c.channel, d.controls = c.controls, d.events = c.events,
           d.pending = c.pending, d.shutting = c.shutting, d.destroyed = c.destroyed,
           "expires" \in c.armed => "expires" \in d.armed
    PROVE  /\ Good(d, floor, s, quiet) /\ (Released(c) => Released(d))
           /\ \A op : HasOperation(c, op) <=> HasOperation(d, op)
<1>1. Shape(d)
    BY DEF Good, Shape, Owned
<1>2. RingOf(d, floor, s, quiet)
    BY DEF Good, RingOf
<1>3. \A op : HasOperation(c, op) <=> HasOperation(d, op)
    BY DEF HasOperation
<1>4. Released(c) => Released(d)
    BY <1>3 DEF Released
<1> QED
    BY <1>1, <1>2, <1>3, <1>4 DEF Good

LEMMA RetryGood ==
    ASSUME NEW c, NEW op \in Maintenance, NEW s, NEW quiet, NEW floor \in 0 .. 2, Good(c, floor, s, quiet)
    PROVE  LET d == ScheduleMaintenanceRetry(c, op)
           IN  /\ Good(d, floor, s, quiet) /\ (Released(c) => Released(d))
               /\ d.shutting = c.shutting /\ d.destroyed = c.destroyed
<1> DEFINE failed == CASE op = "Refresh" -> [c EXCEPT !.refreshFailed = TRUE]
                       [] op = "Channel" -> [c EXCEPT !.channelFailures = @ + 1]
                       [] OTHER -> c
           d == [failed EXCEPT !.armed = @ \cup {RetryDeadline[op]}]
<1>0. ScheduleMaintenanceRetry(c, op) = d
    BY DEF ScheduleMaintenanceRetry
<1>1. c \in Cores
    BY DEF Good, Shape
<1>2. RetryDeadline[op] \in Deadlines
    BY DEF RetryDeadline, Deadlines, Maintenance
<1>3. /\ failed \in Cores /\ failed.state = c.state /\ failed.relay = c.relay /\ failed.channel = c.channel
      /\ failed.controls = c.controls /\ failed.events = c.events /\ failed.pending = c.pending
      /\ failed.shutting = c.shutting /\ failed.destroyed = c.destroyed /\ failed.armed = c.armed
    <2>1. CASE op = "Refresh"
        BY <1>1, <2>1 DEF Cores
    <2>2. CASE op = "Channel"
        <3> DEFINE n == c.channelFailures + 1
        <3>1. n \in Nat
            BY <1>1 DEF Cores
        <3>2. failed = [c EXCEPT !.channelFailures = n]
            BY <2>2
        <3> HIDE DEF n, failed
        <3> QED
            BY <1>1, <3>1, <3>2 DEF Cores
    <2>3. CASE op \notin {"Refresh", "Channel"}
        BY <1>1, <2>3
    <2> QED
        BY <2>1, <2>2, <2>3
<1> HIDE DEF failed
<1>4. /\ d \in Cores /\ d.state = c.state /\ d.relay = c.relay /\ d.channel = c.channel
      /\ d.controls = c.controls /\ d.events = c.events /\ d.pending = c.pending
      /\ d.shutting = c.shutting /\ d.destroyed = c.destroyed /\ ("expires" \in c.armed => "expires" \in d.armed)
    BY <1>2, <1>3 DEF Cores
<1> HIDE DEF d
<1> QED
    BY <1>0, <1>4, CountersGood

\* complete_failure.  The transaction of op is gone already.
LEMMA FailureGood ==
    ASSUME NEW c, NEW op \in Operations, NEW lapsed, NEW s, NEW quiet, NEW floor \in 0 .. 2,
           Good(c, floor, s, quiet), ~ c.destroyed,
           IF op = "Deallocate" THEN c.shutting ELSE Released(c)
    PROVE  LET d == CompleteFailure(c, op, lapsed)
           IN  Good(d, floor, s, quiet) /\ Released(d) /\ ~ d.destroyed /\ d.shutting = c.shutting
<1> DEFINE d == CompleteFailure(c, op, lapsed)
           done1 == Complete(c, op, FALSE)
           Lasts == op \in Maintenance /\ c.state = READY /\ "expires" \in c.armed /\ ~ lapsed
<1>1. CASE ~ Lasts
    <2>1. d = DestroyAllocation(c, op, FALSE)
        BY <1>1 DEF CompleteFailure
    <2> QED
        <3>1. op = "Deallocate" => c.shutting
            OBVIOUS
        <3> DEFINE g == DestroyAllocation(c, op, FALSE)
        <3>2. Good(g, floor, s, quiet) /\ Released(g) /\ ~ g.destroyed /\ g.pending = {} /\ g.shutting = c.shutting
            BY <3>1, DestroyGood
        <3> HIDE DEF g, d
        <3> QED
            BY <2>1, <3>2 DEF g, d
<1>2. CASE Lasts
    <2>1. Good(done1, floor, s, quiet) /\ Kept(c, done1) /\ Released(done1)
        <3>1. Released(c)
            BY <1>2 DEF Maintenance
        <3> QED
            BY <3>1, CompleteGood
    <2>2. /\ done1.state = READY /\ "expires" \in done1.armed /\ ~ done1.destroyed
          /\ done1.shutting = c.shutting /\ done1 \in Cores
        BY <1>2, <2>1 DEF Kept, KeptButState, Good, Shape
    <2> DEFINE more == [done1 EXCEPT !.channelFailures = @ + 1]
    <2>3. CASE op = "Channel" /\ c.channelFailures + 1 >= MaxChannelFailures
        <3>1. d = DestroyAfterChannelRebindExhausted(more)
            BY <1>2, <2>3 DEF CompleteFailure
        <3> HIDE DEF done1
        <3>2. /\ more \in Cores /\ more.state = done1.state /\ more.relay = done1.relay /\ more.channel = done1.channel
              /\ more.controls = done1.controls /\ more.events = done1.events /\ more.pending = done1.pending
              /\ more.shutting = done1.shutting /\ more.destroyed = done1.destroyed /\ more.armed = done1.armed
            <4> DEFINE n == done1.channelFailures + 1
            <4>1. n \in Nat
                BY <2>2 DEF Cores
            <4> HIDE DEF n
            <4>2. more = [done1 EXCEPT !.channelFailures = n]
                BY DEF n
            <4> HIDE DEF more
            <4> QED
                BY <2>2, <4>1, <4>2 DEF Cores
        <3> HIDE DEF more
        <3>3. Good(more, floor, s, quiet)
            BY <2>1, <3>2, CountersGood
        <3> QED
            BY <2>2, <3>1, <3>2, <3>3, ExhaustedGood
    <2>4. CASE ~ (op = "Channel" /\ c.channelFailures + 1 >= MaxChannelFailures)
        <3>1. d = ScheduleMaintenanceRetry(done1, op)
            BY <1>2, <2>4 DEF CompleteFailure
        <3> HIDE DEF done1
        <3> QED
            BY <1>2, <2>1, <2>2, <3>1, RetryGood
    <2> QED
        BY <2>3, <2>4
<1> QED
    BY <1>1, <1>2

\* What a method of the core leaves: the invariant, and the shutdown's request.
Fine(c, d, floor, s, quiet) ==
    Good(d, floor, s, quiet) /\ Released(d) /\ ~ d.destroyed /\ d.shutting = c.shutting

\* The Allocate was answered: the relay is granted, also when a shutdown has begun.
LEMMA AllocatedGood ==
    ASSUME NEW c, NEW s, NEW quiet, NEW floor \in 0 .. 2, Good(c, floor, s, quiet), ~ c.destroyed,
           c.state = ALLOCATING, c.pending = {}
    PROVE  Fine(c, Allocated(c), floor, s, quiet)
<1> DEFINE b == [c EXCEPT !.relay = TRUE, !.refreshFailed = FALSE,
                          !.armed = @ \cup {"refresh", "expires", "maintenance", "keepalive"}]
           e == Event("RELAY", 0)
           live == PushEvent(b, e)
           st == IF c.shutting THEN DEALLOCATING ELSE READY
           f == SetState(live, st)
<1>0. Allocated(c) = IF c.shutting THEN StartOperation(f, "Deallocate", TRUE, 0) ELSE Complete(f, "Allocate", TRUE)
    BY DEF Allocated
<1>1. /\ c \in Cores /\ Ring(c.events, c.state, c.channel, c.relay, floor, s, quiet) /\ ~ c.channel
      /\ Owned(c) /\ Len(c.controls) <= ControlCapacity
    BY DEF Good, Shape, RingOf, ALLOCATING, READY
<1>2. /\ b \in Cores /\ b.events = c.events /\ b.state = ALLOCATING /\ b.relay = TRUE /\ b.channel = c.channel
      /\ b.controls = c.controls /\ b.pending = {} /\ b.shutting = c.shutting /\ b.destroyed = c.destroyed
    BY <1>1 DEF Cores, Deadlines
<1>3. e \in Events /\ e.kind = "RELAY" /\ Mark(e) = 0 /\ Limit(e) = 0
    BY DEF Events, Event, Mark, Limit
<1> HIDE DEF b, e
<1>4. Len(b.events) <= EventCapacity
    BY <1>1, <1>2 DEF Ring
<1>5. live \in Cores /\ live.events = Pushed(c.events, e) /\ Kept(b, live)
    BY <1>2, <1>3, <1>4, PushFields
<1> HIDE DEF live
<1>6. Rank(ALLOCATING) = 0 /\ ALLOCATING <= READY
    BY DEF Rank, ALLOCATING, READY
<1>7. InOrder(e, c.state, ALLOCATING)
    BY <1>3, <1>6 DEF InOrder
<1>8. Announces(e, c.state, c.channel, c.relay, ALLOCATING, c.channel, TRUE)
    BY <1>3, <1>6 DEF Announces
<1>9. Ring(live.events, live.state, c.channel, TRUE, floor, s, quiet)
    <2>1. Ring(Pushed(c.events, e), ALLOCATING, c.channel, TRUE, floor, s, quiet)
        BY <1>1, <1>3, <1>7, <1>8, PushRing
    <2> QED
        BY <1>2, <1>5, <2>1 DEF Kept
<1>10. st \in TurnStates /\ Rank(live.state) <= Rank(st)
    <2>1. live.state = ALLOCATING
        BY <1>2, <1>5 DEF Kept
    <2> QED
        BY <1>6, <2>1, Ranks DEF TurnStates
<1>11. f \in Cores /\ f.state = st /\ KeptButState(live, f) /\ Ring(f.events, st, c.channel, TRUE, floor, s, quiet)
    <2> HIDE DEF st
    <2> QED
        BY <1>5, <1>9, <1>10, SetStateRing
<1> HIDE DEF f
<1>12. /\ f.relay = TRUE /\ f.channel = c.channel /\ f.controls = c.controls /\ f.pending = {}
       /\ f.shutting = c.shutting /\ f.destroyed = c.destroyed
    BY <1>2, <1>5, <1>11 DEF Kept, KeptButState
<1>13. RingOf(f, floor, s, quiet)
    BY <1>11, <1>12 DEF RingOf
<1>14. Shape(f)
    <2>1. Owned(f) /\ Len(f.controls) <= ControlCapacity
        BY <1>1, <1>12 DEF Owned
    <2> QED
        BY <1>1, <1>11, <1>12, <2>1 DEF Shape, READY, DEALLOCATING, DEALLOCATED, DESTROYING
<1>15. CASE c.shutting
    <2> DEFINE d == StartOperation(f, "Deallocate", TRUE, 0)
    <2>1. f.state = Home("Deallocate")
        BY <1>11, <1>15 DEF Home
    <2>2. "Deallocate" \in Operations
        BY DEF Operations
    <2>3. Good(f, floor, s, quiet) /\ ~ f.destroyed
        BY <1>12, <1>13, <1>14 DEF Good
    <2>4. Good(d, floor, s, quiet) /\ SameStanding(f, d) /\ HasOperation(d, "Deallocate")
        BY <2>1, <2>2, <2>3, StartGood
    <2> HIDE DEF d
    <2>5. Fine(c, d, floor, s, quiet)
        BY <1>12, <2>3, <2>4 DEF Fine, Released, SameStanding
    <2> QED
        BY <1>0, <1>15, <2>5 DEF d
<1>16. CASE ~ c.shutting
    <2> DEFINE d == Complete(f, "Allocate", TRUE)
    <2>1. Good(f, floor, s, quiet) /\ "Allocate" \in Operations
        BY <1>13, <1>14 DEF Good, Operations
    <2>2. Good(d, floor, s, quiet) /\ Kept(f, d)
        BY <2>1, CompleteGood
    <2> HIDE DEF d
    <2>3. Fine(c, d, floor, s, quiet)
        BY <1>12, <1>16, <2>2 DEF Fine, Released, Kept, KeptButState
    <2> QED
        BY <1>0, <1>16, <2>3 DEF d
<1> QED
    BY <1>15, <1>16

\* complete_success.  The transaction of op is gone already.
LEMMA SuccessGood ==
    ASSUME NEW c, NEW op \in Operations, NEW s, NEW quiet, NEW floor \in 0 .. 2,
           Good(c, floor, s, quiet), ~ c.destroyed, c.state = Home(op), op \notin Maintenance => c.pending = {},
           op # "Deallocate" => Released(c)
    PROVE  Fine(c, CompleteSuccess(c, op), floor, s, quiet)
<1>0. c \in Cores /\ Ring(c.events, c.state, c.channel, c.relay, floor, s, quiet)
    BY DEF Good, Shape, RingOf
<1>1. CASE op = "Allocate"
    <2>1. CompleteSuccess(c, op) = Allocated(c)
        BY <1>1 DEF CompleteSuccess
    <2>2. c.state = ALLOCATING /\ c.pending = {}
        BY <1>1 DEF Home, Maintenance
    <2> QED
        BY <2>1, <2>2, AllocatedGood
<1>2. CASE op = "Refresh"
    <2> DEFINE b == [c EXCEPT !.armed = @ \cup {"refresh", "expires"}, !.refreshFailed = FALSE]
               d == Complete(b, op, TRUE)
    <2>1. CompleteSuccess(c, op) = d
        BY <1>2 DEF CompleteSuccess
    <2>2. /\ b \in Cores /\ b.state = c.state /\ b.relay = c.relay /\ b.channel = c.channel
          /\ b.controls = c.controls /\ b.events = c.events /\ b.pending = c.pending
          /\ b.shutting = c.shutting /\ b.destroyed = c.destroyed /\ ("expires" \in c.armed => "expires" \in b.armed)
        BY <1>0 DEF Cores, Deadlines
    <2> HIDE DEF b
    <2>3. Good(b, floor, s, quiet) /\ Released(b)
        BY <1>2, <2>2, CountersGood
    <2>4. Good(d, floor, s, quiet) /\ Kept(b, d) /\ Released(d)
        BY <2>3, CompleteGood
    <2> QED
        BY <2>1, <2>2, <2>4 DEF Fine, Kept, KeptButState
<1>3. CASE op = "Deallocate"
    <2> DEFINE b == [c EXCEPT !.relay = FALSE, !.armed = @ \ {"refresh", "expires"}]
               f == Complete(b, op, TRUE)
               d == SetState(f, DEALLOCATED)
    <2>1. CompleteSuccess(c, op) = d
        BY <1>3 DEF CompleteSuccess
    <2>2. c.state = DEALLOCATING /\ c.pending = {} /\ c.shutting /\ ~ c.channel
        BY <1>3 DEF Home, Maintenance, Good, Shape, DEALLOCATING, READY
    <2>3. /\ b \in Cores /\ b.events = c.events /\ b.state = DEALLOCATING /\ b.relay = FALSE /\ b.channel = c.channel
          /\ b.controls = c.controls /\ b.pending = {} /\ b.shutting = c.shutting /\ b.destroyed = c.destroyed
        BY <1>0, <2>2 DEF Cores
    <2> HIDE DEF b
    <2>4. Shape(b)
        BY <2>2, <2>3 DEF Good, Shape, Owned, READY, DEALLOCATING, DEALLOCATED, DESTROYING
    <2>5. RingOf(b, floor, s, quiet)
        <3>1. ~ (DEALLOCATING <= READY)
            BY DEF DEALLOCATING, READY
        <3>2. Tolerates(DEALLOCATING, c.channel, c.relay, s, quiet, c.channel, FALSE, s, quiet)
            BY <3>1 DEF Tolerates
        <3>3. floor <= floor
            OBVIOUS
        <3>4. Ring(c.events, DEALLOCATING, c.channel, FALSE, floor, s, quiet)
            BY <1>0, <2>2, <3>2, <3>3, KeepRing
        <3> QED
            BY <2>3, <3>4 DEF RingOf
    <2>6. Good(f, floor, s, quiet) /\ Kept(b, f)
        BY <2>4, <2>5, CompleteGood DEF Good
    <2> HIDE DEF f
    <2>7. DEALLOCATED \in TurnStates /\ Rank(f.state) <= Rank(DEALLOCATED)
        <3>1. DEALLOCATED \in TurnStates /\ Rank(DEALLOCATED) = 2
            BY DEF TurnStates, DEALLOCATED, READY, Rank
        <3> QED
            BY <3>1, Ranks
    <2>8. f \in Cores /\ Ring(f.events, f.state, f.channel, f.relay, floor, s, quiet)
        BY <2>6 DEF Good, Shape, RingOf
    <2>9. /\ d \in Cores /\ d.state = DEALLOCATED /\ KeptButState(f, d)
          /\ Ring(d.events, DEALLOCATED, f.channel, f.relay, floor, s, quiet)
        BY <2>7, <2>8, SetStateRing
    <2> HIDE DEF d
    <2>10. /\ d.controls = c.controls /\ d.pending = {} /\ d.channel = c.channel /\ d.relay = FALSE
           /\ d.shutting = c.shutting /\ d.destroyed = c.destroyed /\ d.channel = f.channel /\ d.relay = f.relay
        BY <2>3, <2>6, <2>9 DEF Kept, KeptButState
    <2>11. Shape(d)
        <3>1. Owned(d) /\ Len(d.controls) <= ControlCapacity
            BY <2>2, <2>10 DEF Good, Shape, Owned
        <3> QED
            BY <2>2, <2>9, <2>10, <3>1 DEF Shape, READY, DEALLOCATING, DEALLOCATED, DESTROYING
    <2>12. RingOf(d, floor, s, quiet)
        BY <2>9, <2>10 DEF RingOf
    <2> QED
        BY <2>1, <2>10, <2>11, <2>12 DEF Fine, Good, Released
<1>4. CASE op = "Permission"
    <2> DEFINE d == Complete(c, op, TRUE)
    <2>1. CompleteSuccess(c, op) = d
        BY <1>4 DEF CompleteSuccess
    <2>2. Good(d, floor, s, quiet) /\ Kept(c, d) /\ Released(d)
        BY <1>4, CompleteGood
    <2> QED
        BY <2>1, <2>2 DEF Fine, Kept, KeptButState
<1>5. CASE op = "Channel"
    <2> DEFINE b == [c EXCEPT !.channel = TRUE, !.channelFailures = 0]
               e == Event("CHANNEL_BOUND", 0)
               f == PushEvent(b, e)
               d == Complete(f, op, TRUE)
    <2>1. CompleteSuccess(c, op) = d
        BY <1>5 DEF CompleteSuccess
    <2>2. c.state = READY
        BY <1>5 DEF Home
    <2>3. /\ b \in Cores /\ b.events = c.events /\ b.state = READY /\ b.channel = TRUE /\ b.relay = c.relay
          /\ b.controls = c.controls /\ b.pending = c.pending /\ b.armed = c.armed
          /\ b.shutting = c.shutting /\ b.destroyed = c.destroyed
        BY <1>0, <2>2 DEF Cores
    <2>4. e \in Events /\ e.kind = "CHANNEL_BOUND" /\ Mark(e) = 1 /\ Limit(e) = 1
        BY DEF Events, Event, Mark, Limit
    <2> HIDE DEF b, e
    <2>5. Len(b.events) <= EventCapacity
        BY <1>0, <2>3 DEF Ring
    <2>6. f \in Cores /\ f.events = Pushed(c.events, e) /\ Kept(b, f)
        BY <2>3, <2>4, <2>5, PushFields
    <2> HIDE DEF f
    <2>7. InOrder(e, c.state, READY)
        BY <2>2, <2>4 DEF InOrder, Rank, READY
    <2>8. Announces(e, c.state, c.channel, c.relay, READY, TRUE, c.relay)
        BY <2>2, <2>4 DEF Announces
    <2>9. Ring(f.events, READY, TRUE, c.relay, floor, s, quiet)
        BY <1>0, <2>4, <2>6, <2>7, <2>8, PushRing
    <2>10. /\ f.state = READY /\ f.channel = TRUE /\ f.relay = c.relay /\ f.controls = c.controls
           /\ f.pending = c.pending /\ f.armed = c.armed /\ f.shutting = c.shutting /\ f.destroyed = c.destroyed
        BY <2>3, <2>6 DEF Kept, KeptButState
    <2>11. Shape(f)
        BY <2>2, <2>6, <2>10 DEF Good, Shape, Owned
    <2>12. Good(f, floor, s, quiet)
        BY <2>9, <2>10, <2>11 DEF Good, RingOf
    <2>13. Released(f)
        BY <1>5, <2>10 DEF Released, HasOperation
    <2>14. Good(d, floor, s, quiet) /\ Kept(f, d) /\ Released(d)
        BY <2>12, <2>13, CompleteGood
    <2> HIDE DEF d
    <2> QED
        BY <2>1, <2>10, <2>14 DEF Fine, Kept, KeptButState
<1> QED
    BY <1>1, <1>2, <1>3, <1>4, <1>5 DEF Operations

-----------------------------------------------------------------------------
(***************************************************************************)
(* input_stun, poll and the calls of the owner                             *)
(***************************************************************************)
\* An operation whose transaction was just removed.
Ending(c, op) ==
    /\ op \in Operations /\ ~ c.destroyed /\ c.state = Home(op)
    /\ op \notin Maintenance => c.pending = {}
    /\ IF op = "Deallocate" THEN c.shutting ELSE Released(c)

LEMMA RemovedEnds ==
    ASSUME NEW c, NEW p \in c.pending, NEW s, NEW quiet, NEW floor \in 0 .. 2, Good(c, floor, s, quiet), Released(c)
    PROVE  LET d == RemovePending(c, p)
           IN  Good(d, floor, s, quiet) /\ Ending(d, p.op) /\ d.shutting = c.shutting
<1> DEFINE d == RemovePending(c, p)
<1>0. /\ Good(d, floor, s, quiet) /\ d.pending = c.pending \ {p}
      /\ d.state = c.state /\ d.relay = c.relay /\ d.channel = c.channel /\ d.armed = c.armed
      /\ d.shutting = c.shutting /\ d.destroyed = c.destroyed
    BY RemoveGood
<1> HIDE DEF d
<1>1. p \in Requests /\ p.op \in Operations
    BY DEF Good, Shape, Cores, Requests
<1>2. ~ c.destroyed /\ (\A q \in c.pending : c.state = Home(q.op)) /\ (\A q \in c.pending : q.op = p.op => q = p)
    BY DEF Good, Shape, Owned
<1>3. ASSUME p.op \notin Maintenance, NEW q \in d.pending PROVE FALSE
    <2>1. q \in c.pending /\ q # p
        BY <1>0, <1>3
    <2>2. Home(q.op) = Home(p.op)
        BY <1>2, <2>1
    <2>3. q.op = p.op
        BY <1>1, <1>3, <2>2 DEF Home, Maintenance, Operations, ALLOCATING, DEALLOCATING, READY
    <2> QED
        BY <1>2, <2>1, <2>3
<1>4. p.op = "Deallocate" => d.shutting
    BY <1>0, <1>2 DEF Good, Shape, Home
<1>5. p.op # "Deallocate" => Released(d)
    BY <1>0 DEF Released, HasOperation
<1>6. d.state = Home(p.op) /\ ~ d.destroyed
    BY <1>0, <1>2
<1>7. Ending(d, p.op)
    BY <1>1, <1>3, <1>4, <1>5, <1>6 DEF Ending
<1> QED
    BY <1>0, <1>7 DEF d

LEMMA StunErrorFields ==
    ASSUME NEW c, NEW s, NEW quiet, NEW floor \in 0 .. 2, Good(c, floor, s, quiet)
    PROVE  LET d == StunError(c)
           IN  /\ Good(d, floor, s, quiet) /\ (Released(c) => Released(d))
               /\ d.shutting = c.shutting /\ d.destroyed = c.destroyed
<1> DEFINE d == PushEvent(c, Event("STUN_ERROR", 0))
<1>1. Plain(Event("STUN_ERROR", 0))
    BY DEF Plain, Events, Event
<1>2. Good(d, floor, s, quiet) /\ Kept(c, d) /\ (Released(c) => Released(d))
    BY <1>1, PlainGood
<1>3. d = StunError(c)
    BY DEF StunError
<1> HIDE DEF d
<1> QED
    BY <1>2, <1>3 DEF Kept, KeptButState

LEMMA ErrorGood ==
    ASSUME NEW c, NEW p \in Requests, NEW r, NEW lapsed, NEW s, NEW quiet, NEW floor \in 0 .. 2,
           Good(c, floor, s, quiet), Ending(c, p.op)
    PROVE  Fine(c, ErrorResponse(c, p, r, lapsed), floor, s, quiet)
<1> DEFINE d == ErrorResponse(c, p, r, lapsed)
           e == StunError(c)
           Again == r.code = 401 /\ p.nonceRetries < MaxNonceRetries /\ r.challenge
<1>1. /\ Good(e, floor, s, quiet) /\ (Released(c) => Released(e))
      /\ e.shutting = c.shutting /\ e.destroyed = c.destroyed
    BY StunErrorFields
<1>2. /\ p.op \in Operations /\ ~ e.destroyed /\ (p.op = "Deallocate" => e.shutting)
      /\ IF p.op = "Deallocate" THEN e.shutting ELSE Released(e)
    BY <1>1 DEF Ending
<1>3. CASE RequiresAllocationRecreate(p.op, r.code)
    <2> DEFINE g == DestroyAllocation(e, p.op, FALSE)
    <2>1. d = g
        BY <1>3 DEF ErrorResponse
    <2> HIDE DEF e
    <2>2. Good(g, floor, s, quiet) /\ Released(g) /\ ~ g.destroyed /\ g.shutting = e.shutting
        BY <1>1, <1>2, DestroyGood
    <2> HIDE DEF g, d
    <2> QED
        BY <1>1, <2>1, <2>2 DEF Fine, d
<1>4. CASE ~ RequiresAllocationRecreate(p.op, r.code) /\ Again
    <2> DEFINE b == [c EXCEPT !.auth = TRUE]
               n == p.nonceRetries + 1
               g == StartOperation(b, p.op, TRUE, n)
    <2>1. d = g
        BY <1>4 DEF ErrorResponse
    <2>2. c \in Cores
        BY DEF Good, Shape
    <2>3. /\ b \in Cores /\ b.state = c.state /\ b.relay = c.relay /\ b.channel = c.channel
          /\ b.controls = c.controls /\ b.events = c.events /\ b.pending = c.pending
          /\ b.shutting = c.shutting /\ b.destroyed = c.destroyed /\ b.armed = c.armed
        BY <2>2 DEF Cores
    <2> HIDE DEF b
    <2>4. Good(b, floor, s, quiet) /\ (Released(c) => Released(b))
        BY <2>3, CountersGood
    <2>5. n \in Nat
        BY DEF Requests
    <2> HIDE DEF n
    <2>6. b.state = Home(p.op) /\ ~ b.destroyed
        BY <2>3 DEF Ending
    <2>7. /\ Good(g, floor, s, quiet) /\ SameStanding(b, g) /\ HasOperation(g, p.op)
          /\ \A o : HasOperation(b, o) => HasOperation(g, o)
        BY <1>2, <2>4, <2>5, <2>6, StartGood
    <2> HIDE DEF g, d
    <2>8. g.shutting = c.shutting /\ ~ g.destroyed /\ g.relay = b.relay /\ g.shutting = b.shutting /\ b.destroyed = g.destroyed
        BY <2>3, <2>6, <2>7 DEF SameStanding
    <2>9. Released(g)
        <3>1. CASE p.op = "Deallocate"
            BY <2>7, <3>1 DEF Released
        <3>2. CASE p.op # "Deallocate"
            BY <2>4, <2>7, <2>8, <3>2 DEF Released, Ending
        <3> QED
            BY <3>1, <3>2
    <2> QED
        BY <2>1, <2>7, <2>8, <2>9 DEF Fine, d
<1>5. CASE ~ RequiresAllocationRecreate(p.op, r.code) /\ ~ Again
    <2> DEFINE g == CompleteFailure(e, p.op, lapsed)
    <2>1. d = g
        BY <1>5 DEF ErrorResponse
    <2> HIDE DEF e
    <2>2. Good(g, floor, s, quiet) /\ Released(g) /\ ~ g.destroyed /\ g.shutting = e.shutting
        BY <1>1, <1>2, FailureGood
    <2> HIDE DEF g, d
    <2> QED
        BY <1>1, <2>1, <2>2 DEF Fine, d
<1> QED
    BY <1>3, <1>4, <1>5

LEMMA InputGood ==
    ASSUME NEW c, NEW p \in c.pending, NEW r, NEW lapsed, NEW s, NEW quiet, NEW floor \in 0 .. 2,
           Good(c, floor, s, quiet), Released(c)
    PROVE  Fine(c, InputStun(c, p, r, lapsed), floor, s, quiet)
<1> DEFINE d == InputStun(c, p, r, lapsed)
           rest == RemovePending(c, p)
<1>0. p \in Requests /\ ~ c.destroyed
    BY DEF Good, Shape, Cores
<1>1. Good(rest, floor, s, quiet) /\ Ending(rest, p.op) /\ rest.shutting = c.shutting
    BY RemovedEnds
<1>2. CASE Rejected(p, r) /\ r.class = "Error" /\ r.code # 0
    <2>1. d = StunError(c)
        BY <1>2 DEF InputStun
    <2>2. /\ Good(StunError(c), floor, s, quiet) /\ Released(StunError(c))
          /\ StunError(c).shutting = c.shutting /\ StunError(c).destroyed = c.destroyed
        BY StunErrorFields
    <2> HIDE DEF d
    <2> QED
        BY <1>0, <2>1, <2>2 DEF Fine, d
<1>3. CASE Rejected(p, r) /\ ~ (r.class = "Error" /\ r.code # 0)
    <2>1. d = c
        BY <1>3 DEF InputStun
    <2> HIDE DEF d
    <2> QED
        BY <1>0, <2>1 DEF Fine, d
<1>4. CASE ~ Rejected(p, r) /\ r.class = "Success" /\ p.authenticated /\ r.body
    <2>1. d = CompleteSuccess(rest, p.op)
        BY <1>4 DEF InputStun
    <2> HIDE DEF rest, d
    <2>2. Fine(rest, CompleteSuccess(rest, p.op), floor, s, quiet)
        BY <1>1, SuccessGood DEF Ending
    <2> QED
        BY <1>1, <2>1, <2>2 DEF Fine, d
<1>5. CASE ~ Rejected(p, r) /\ r.class = "Success" /\ ~ (p.authenticated /\ r.body)
    <2> DEFINE g == CompleteFailure(rest, p.op, lapsed)
    <2>1. d = g
        BY <1>5 DEF InputStun
    <2> HIDE DEF rest, d
    <2>2. Good(g, floor, s, quiet) /\ Released(g) /\ ~ g.destroyed /\ g.shutting = rest.shutting
        BY <1>1, FailureGood DEF Ending
    <2> HIDE DEF g
    <2> QED
        BY <1>1, <2>1, <2>2 DEF Fine, d
<1>6. CASE ~ Rejected(p, r) /\ r.class # "Success"
    <2>1. d = ErrorResponse(rest, p, r, lapsed)
        BY <1>6 DEF InputStun
    <2> HIDE DEF rest, d
    <2>2. Fine(rest, ErrorResponse(rest, p, r, lapsed), floor, s, quiet)
        BY <1>0, <1>1, ErrorGood
    <2> QED
        BY <1>1, <2>1, <2>2 DEF Fine, d
<1> QED
    BY <1>2, <1>3, <1>4, <1>5, <1>6

LEMMA FineOnceMore ==
    ASSUME NEW c, NEW d, NEW e, NEW s, NEW quiet, NEW floor, Fine(c, d, floor, s, quiet), Fine(d, e, floor, s, quiet)
    PROVE  Fine(c, e, floor, s, quiet)
    BY DEF Fine

\* A transaction that has timed out fails or is sent again.
LEMMA ExpireGood ==
    ASSUME NEW c, NEW op, NEW lapsed, NEW s, NEW quiet, NEW floor \in 0 .. 2,
           Good(c, floor, s, quiet), Released(c), ~ c.destroyed
    PROVE  Fine(c, ExpireTransaction(c, op, lapsed), floor, s, quiet)
<1> DEFINE d == ExpireTransaction(c, op, lapsed)
           p == CHOOSE q \in c.pending : q.op = op
<1>1. CASE ~ HasOperation(c, op)
    <2>1. d = c
        BY <1>1 DEF ExpireTransaction
    <2> HIDE DEF d
    <2> QED
        BY <2>1 DEF Fine, d
<1>2. CASE HasOperation(c, op)
    <2>1. p \in c.pending /\ p.op = op
        BY <1>2, Zenon DEF HasOperation
    <2>2. c \in Cores /\ p \in Requests /\ op \in Operations /\ p.txn \in Transactions
        BY <2>1 DEF Good, Shape, Cores, Requests
    <2>3. CASE p.transmissions >= MaxTransmissions \/ c.transport = "Stream"
        <3> DEFINE rest == RemovePending(c, p)
                   g == CompleteFailure(rest, op, lapsed)
        <3>1. d = g
            BY <1>2, <2>3 DEF ExpireTransaction
        <3> HIDE DEF p
        <3>2. Good(rest, floor, s, quiet) /\ Ending(rest, p.op) /\ rest.shutting = c.shutting
            BY <2>1, RemovedEnds
        <3> HIDE DEF rest, d
        <3>3. Good(g, floor, s, quiet) /\ Released(g) /\ ~ g.destroyed /\ g.shutting = rest.shutting
            BY <2>1, <3>2, FailureGood DEF Ending
        <3> HIDE DEF g
        <3> QED
            BY <3>1, <3>2, <3>3 DEF Fine, d
    <2>4. CASE ~ (p.transmissions >= MaxTransmissions \/ c.transport = "Stream")
        <3> DEFINE packet == BuildRequest(op, p.txn)
                   p2 == [p EXCEPT !.transmissions = @ + 1]
                   b == QueuePacket(c, packet)
                   g == [b EXCEPT !.pending = (@ \ {p}) \cup {p2}]
        <3>1. d = SendAgain(c, p)
            BY <1>2, <2>4 DEF ExpireTransaction
        <3> HIDE DEF p, d
        <3>2. packet \in Packets /\ packet.txn = p.txn
            BY <2>2 DEF BuildRequest, Packets
        <3>3. p2 \in Requests /\ p2.op = p.op /\ p2.txn = p.txn
            BY <2>2 DEF Requests
        <3> HIDE DEF packet, p2
        <3>4. Good(b, floor, s, quiet) /\ KeptButControls(c, b)
            BY <2>1, <3>2, QueueGood
        <3>13. SendAgain(c, p) = g
            BY <2>1 DEF SendAgain, packet, p2
        <3> HIDE DEF b
        <3>5. b \in Cores /\ b.pending = c.pending
            BY <3>4 DEF Good, Shape, KeptButControls
        <3>6. /\ g \in Cores /\ g.pending = (b.pending \ {p}) \cup {p2} /\ g.controls = b.controls /\ g.events = b.events
              /\ SameStanding(b, g)
            BY <3>3, <3>5 DEF Cores, SameStanding
        <3> HIDE DEF g
        <3>7. Owned(g)
            <4>1. ASSUME NEW k \in Range(g.controls), k.op # "Keepalive" PROVE \E q \in g.pending : q.txn = k.txn
                <5>1. PICK q \in b.pending : q.txn = k.txn
                    BY <3>4, <3>6, <4>1 DEF Good, Shape, Owned
                <5> QED
                    BY <3>3, <3>6, <5>1
            <4>2. ASSUME NEW q \in g.pending, NEW r \in g.pending, q.op = r.op PROVE q = r
                BY <2>1, <3>3, <3>4, <3>5, <3>6, <4>2 DEF Good, Shape, Owned
            <4> QED
                BY <4>1, <4>2 DEF Owned
        <3>8. \A q \in g.pending : g.state = Home(q.op)
            BY <2>1, <3>3, <3>4, <3>5, <3>6 DEF Good, Shape, SameStanding
        <3>9. ~ g.destroyed /\ g.shutting = c.shutting /\ g.relay = c.relay
            BY <3>4, <3>6 DEF SameStanding, KeptButControls
        <3>10. Shape(g)
            BY <3>4, <3>6, <3>7, <3>8, <3>9 DEF Good, Shape, SameStanding
        <3>11. RingOf(g, floor, s, quiet)
            BY <3>4, <3>6 DEF Good, RingOf, SameStanding
        <3>12. Released(g)
            <4>1. ASSUME HasOperation(c, "Deallocate") PROVE HasOperation(g, "Deallocate")
                BY <2>1, <3>3, <3>5, <3>6, <4>1 DEF HasOperation
            <4> QED
                BY <3>9, <4>1 DEF Released
        <3> QED
            BY <3>1, <3>9, <3>10, <3>11, <3>12, <3>13 DEF Fine, Good, d
    <2> QED
        BY <2>3, <2>4
<1> QED
    BY <1>1, <1>2

LEMMA ExpireAllGood ==
    ASSUME NEW c, NEW order, NEW lapsed, NEW s, NEW quiet, NEW floor \in 0 .. 2,
           Good(c, floor, s, quiet), Released(c), ~ c.destroyed
    PROVE  Fine(c, ExpireTransactions(c, order, lapsed), floor, s, quiet)
<1> DEFINE Expire(d, i) == IF i <= Len(order) THEN ExpireTransaction(d, order[i], lapsed) ELSE d
           c1 == Expire(c, 1)
           c2 == Expire(c1, 2)
           c3 == Expire(c2, 3)
           c4 == Expire(c3, 4)
           c5 == Expire(c4, 5)
<1>1. ASSUME NEW d, NEW i, Good(d, floor, s, quiet), Released(d), ~ d.destroyed
      PROVE  Fine(d, Expire(d, i), floor, s, quiet)
    <2>1. CASE i <= Len(order)
        BY <1>1, <2>1, ExpireGood
    <2>2. CASE ~ (i <= Len(order))
        BY <1>1, <2>2 DEF Fine
    <2> QED
        BY <2>1, <2>2
<1>2. ExpireTransactions(c, order, lapsed) = c5
    BY DEF ExpireTransactions
<1> HIDE DEF Expire
<1>3. ASSUME NEW d, NEW i, Fine(c, d, floor, s, quiet) PROVE Fine(c, Expire(d, i), floor, s, quiet)
    BY <1>1, <1>3, FineOnceMore DEF Fine
<1>4. Fine(c, c1, floor, s, quiet)
    BY <1>1
<1> HIDE DEF c1
<1>5. Fine(c, c2, floor, s, quiet)
    BY <1>3, <1>4
<1> HIDE DEF c2
<1>6. Fine(c, c3, floor, s, quiet)
    BY <1>3, <1>5
<1> HIDE DEF c3
<1>7. Fine(c, c4, floor, s, quiet)
    BY <1>3, <1>6
<1> HIDE DEF c4
<1>8. Fine(c, c5, floor, s, quiet)
    BY <1>3, <1>7
<1> QED
    BY <1>2, <1>8

LEMMA StartDueGood ==
    ASSUME NEW c, NEW due, NEW op \in Maintenance, NEW s, NEW quiet, NEW floor \in 0 .. 2,
           Good(c, floor, s, quiet), Released(c), ~ c.destroyed, c.state = READY
    PROVE  Fine(c, StartDue(c, due, op), floor, s, quiet) /\ StartDue(c, due, op).state = READY
<1> DEFINE d == StartDue(c, due, op)
           b == [c EXCEPT !.armed = @ \ {RetryDeadline[op]}]
           g == StartOperation(b, op, TRUE, 0)
<1>1. d = c \/ d = g
    BY DEF StartDue
<1>2. c \in Cores /\ op \in Operations
    BY DEF Good, Shape, Maintenance, Operations
<1>3. RetryDeadline[op] # "expires"
    BY DEF RetryDeadline, Maintenance
<1>4. /\ b \in Cores /\ b.state = c.state /\ b.relay = c.relay /\ b.channel = c.channel
      /\ b.controls = c.controls /\ b.events = c.events /\ b.pending = c.pending
      /\ b.shutting = c.shutting /\ b.destroyed = c.destroyed /\ ("expires" \in c.armed => "expires" \in b.armed)
    BY <1>2, <1>3 DEF Cores
<1> HIDE DEF b
<1>5. Good(b, floor, s, quiet) /\ Released(b)
    BY <1>4, CountersGood
<1>6. b.state = Home(op) /\ ~ b.destroyed
    BY <1>4 DEF Home, Maintenance
<1>7. /\ Good(g, floor, s, quiet) /\ SameStanding(b, g) /\ HasOperation(g, op)
      /\ \A o : HasOperation(b, o) => HasOperation(g, o)
    BY <1>2, <1>5, <1>6, StartGood
<1> HIDE DEF g, d
<1>8. Fine(c, g, floor, s, quiet) /\ g.state = READY
    BY <1>4, <1>5, <1>6, <1>7 DEF Fine, Released, SameStanding
<1>9. Fine(c, c, floor, s, quiet)
    BY DEF Fine
<1> QED
    BY <1>1, <1>8, <1>9 DEF d

LEMMA MaintenanceGood ==
    ASSUME NEW c, NEW due, NEW s, NEW quiet, NEW floor \in 0 .. 2,
           Good(c, floor, s, quiet), Released(c), ~ c.destroyed, c.state = READY
    PROVE  Fine(c, StartMaintenance(c, due), floor, s, quiet)
<1> DEFINE c1 == StartDue(c, due, "Refresh")
           c2 == StartDue(c1, due, "Permission")
           c3 == StartDue(c2, due, "Channel")
           packet == [op |-> "Keepalive", txn |-> <<>>]
           g == QueuePacket(c3, packet)
<1>0. {"Refresh", "Permission", "Channel"} \subseteq Maintenance
    BY DEF Maintenance
<1>1. StartMaintenance(c, due) = c3 \/ StartMaintenance(c, due) = g
    BY DEF StartMaintenance, QueueKeepalive
<1>2. Fine(c, c1, floor, s, quiet) /\ c1.state = READY
    BY <1>0, StartDueGood
<1> HIDE DEF c1
<1>3. Fine(c1, c2, floor, s, quiet) /\ c2.state = READY
    BY <1>0, <1>2, StartDueGood DEF Fine
<1> HIDE DEF c2
<1>4. Fine(c2, c3, floor, s, quiet)
    BY <1>0, <1>3, StartDueGood DEF Fine
<1> HIDE DEF c3
<1>5. Fine(c, c3, floor, s, quiet)
    BY <1>2, <1>3, <1>4, FineOnceMore
<1>6. packet \in Packets /\ packet.op = "Keepalive"
    BY DEF Packets, Transactions
<1> HIDE DEF packet
<1>7. Good(g, floor, s, quiet) /\ KeptButControls(c3, g)
    BY <1>5, <1>6, QueueGood DEF Fine
<1> HIDE DEF g
<1>8. Fine(c, g, floor, s, quiet)
    BY <1>5, <1>7 DEF Fine, Released, HasOperation, KeptButControls
<1> QED
    BY <1>1, <1>5, <1>8

LEMMA PollGood ==
    ASSUME NEW c, NEW due, NEW order, NEW s, NEW quiet, NEW floor \in 0 .. 2, Good(c, floor, s, quiet), Released(c)
    PROVE  LET d == Poll(c, due, order)
           IN  Good(d, floor, s, quiet) /\ Released(d) /\ d.destroyed = c.destroyed /\ d.shutting = c.shutting
<1> DEFINE d == Poll(c, due, order)
           expired == ExpireTransactions(c, order, "expires" \in due)
           lapsed == IF Open(expired) /\ "expires" \in due
                     THEN DestroyAllocation(expired, "Refresh", FALSE) ELSE expired
           over == (due \cap lapsed.armed) \ {RetryDeadline[op] : op \in Range(order) \cap Maintenance}
<1>1. CASE c.destroyed
    <2>1. d = c
        BY <1>1 DEF Poll
    <2> HIDE DEF d
    <2> QED
        BY <2>1 DEF d
<1>2. CASE ~ c.destroyed
    <2>1. d = IF Open(lapsed) THEN StartMaintenance(lapsed, over) ELSE lapsed
        BY <1>2 DEF Poll
    <2> HIDE DEF over, d
    <2>2. Fine(c, expired, floor, s, quiet)
        BY <1>2, ExpireAllGood
    <2> HIDE DEF expired
    <2>3. Fine(c, lapsed, floor, s, quiet)
        <3> DEFINE g == DestroyAllocation(expired, "Refresh", FALSE)
        <3>1. "Refresh" \in Operations /\ Good(expired, floor, s, quiet) /\ ~ expired.destroyed
            BY <2>2 DEF Operations, Fine
        <3>2. Good(g, floor, s, quiet) /\ Released(g) /\ ~ g.destroyed /\ g.shutting = expired.shutting
            BY <3>1, DestroyGood
        <3> HIDE DEF g
        <3>3. Fine(c, g, floor, s, quiet)
            BY <2>2, <3>2 DEF Fine
        <3>4. lapsed = g \/ lapsed = expired
            BY DEF g
        <3> HIDE DEF lapsed
        <3> QED
            BY <2>2, <3>3, <3>4
    <2> HIDE DEF lapsed
    <2>4. CASE Open(lapsed)
        <3>1. Fine(lapsed, StartMaintenance(lapsed, over), floor, s, quiet)
            BY <2>3, <2>4, MaintenanceGood DEF Fine, Open
        <3>2. Fine(c, d, floor, s, quiet)
            BY <2>1, <2>3, <2>4, <3>1, FineOnceMore
        <3>3. d.destroyed \in BOOLEAN /\ c.destroyed \in BOOLEAN
            BY <3>2 DEF Fine, Good, Shape, Cores
        <3> QED
            BY <1>2, <3>2, <3>3 DEF Fine, d
    <2>5. CASE ~ Open(lapsed)
        <3>1. d = lapsed
            BY <2>1, <2>5
        <3>2. d.destroyed \in BOOLEAN /\ c.destroyed \in BOOLEAN
            BY <2>3, <3>1 DEF Fine, Good, Shape, Cores
        <3> QED
            BY <1>2, <2>3, <3>1, <3>2 DEF Fine, d
    <2> QED
        BY <2>4, <2>5
<1> QED
    BY <1>1, <1>2

LEMMA AllocationGood ==
    ASSUME NEW c, NEW s, NEW quiet, NEW floor \in 0 .. 2, Good(c, floor, s, quiet), RequireOpen(c), c.state = NULL
    PROVE  Fine(c, StartAllocation(c), floor, s, quiet)
<1> DEFINE f == SetState(c, ALLOCATING)
           d == StartOperation(f, "Allocate", FALSE, 0)
<1>0. /\ c \in Cores /\ Ring(c.events, c.state, c.channel, c.relay, floor, s, quiet)
      /\ ~ c.channel /\ ~ c.relay /\ ~ c.shutting /\ ~ c.destroyed
    BY DEF Good, Shape, RingOf, RequireOpen, NULL, READY
<1>1. c.pending = {}
    BY DEF Good, Shape, Home, NULL, ALLOCATING, DEALLOCATING, READY
<1>2. ALLOCATING \in TurnStates /\ Rank(c.state) <= Rank(ALLOCATING)
    BY DEF TurnStates, Rank, NULL, ALLOCATING, READY
<1>3. /\ f \in Cores /\ f.state = ALLOCATING /\ KeptButState(c, f)
      /\ Ring(f.events, ALLOCATING, c.channel, c.relay, floor, s, quiet)
    BY <1>0, <1>2, SetStateRing
<1> HIDE DEF f
<1>4. /\ f.relay = c.relay /\ f.channel = c.channel /\ f.controls = c.controls /\ f.pending = {}
      /\ f.shutting = c.shutting /\ f.destroyed = c.destroyed
    BY <1>1, <1>3 DEF KeptButState
<1>5. Shape(f)
    <2>1. Owned(f) /\ Len(f.controls) <= ControlCapacity
        BY <1>1, <1>4 DEF Owned, Good, Shape
    <2> QED
        BY <1>0, <1>3, <1>4, <2>1 DEF Shape, ALLOCATING, READY, DEALLOCATING, DEALLOCATED, DESTROYING
<1>6. Good(f, floor, s, quiet)
    BY <1>3, <1>4, <1>5 DEF Good, RingOf
<1>7. f.state = Home("Allocate") /\ ~ f.destroyed /\ "Allocate" \in Operations
    BY <1>0, <1>3, <1>4 DEF Home, Operations
<1>8. Good(d, floor, s, quiet) /\ SameStanding(f, d)
    BY <1>6, <1>7, StartGood
<1> HIDE DEF d
<1>9. Fine(c, d, floor, s, quiet)
    BY <1>0, <1>4, <1>8 DEF Fine, Released, SameStanding
<1> QED
    BY <1>9 DEF StartAllocation, d, f

\* graceful_shutdown, called once the owner closes: the snapshot is of no interest then.
LEMMA ShutdownGood ==
    ASSUME NEW c, NEW s, NEW quiet, ~ quiet, NEW floor \in 0 .. 2, Good(c, floor, s, quiet), Released(c)
    PROVE  LET d == GracefulShutdown(c)
           IN  Good(d, floor, s, quiet) /\ Released(d) /\ d.destroyed = c.destroyed
<1> DEFINE d == GracefulShutdown(c)
           b == [c EXCEPT !.shutting = TRUE, !.channel = FALSE, !.armed = @ \cap {"refresh", "expires"}, !.controls = <<>>]
           e == [b EXCEPT !.pending = {}]
           f == SetState(e, DEALLOCATING)
           g == StartOperation(f, "Deallocate", TRUE, 0)
           Granted == c.state = READY \/ (c.state = DESTROYING /\ "expires" \in c.armed)
<1>0. c \in Cores /\ Ring(c.events, c.state, c.channel, c.relay, floor, s, quiet)
    BY DEF Good, Shape, RingOf
<1>1. CASE c.destroyed \/ c.shutting
    <2>1. d = c
        BY <1>1 DEF GracefulShutdown
    <2> HIDE DEF d
    <2> QED
        BY <2>1 DEF d
<1>2. CASE ~ c.destroyed /\ ~ c.shutting
    <2>0. d = IF Granted THEN g ELSE IF c.state = ALLOCATING THEN b ELSE e
        BY <1>2 DEF GracefulShutdown
    <2> HIDE DEF d
    <2>1. /\ b \in Cores /\ b.events = c.events /\ b.state = c.state /\ b.relay = c.relay /\ b.channel = FALSE
          /\ b.controls = <<>> /\ b.pending = c.pending /\ b.shutting = TRUE /\ b.destroyed = c.destroyed
        <3>1. <<>> \in Seq(Packets)
            OBVIOUS
        <3> QED
            BY <1>0, <3>1 DEF Cores
    <2> HIDE DEF b
    <2>2. /\ e \in Cores /\ e.events = c.events /\ e.state = c.state /\ e.relay = c.relay /\ e.channel = FALSE
          /\ e.controls = <<>> /\ e.pending = {} /\ e.shutting = TRUE /\ e.destroyed = c.destroyed
        BY <2>1 DEF Cores
    <2> HIDE DEF e
    <2>3. Range(<<>>) = {} /\ Len(<<>>) = 0 /\ ControlCapacity \in Nat
        BY TurnBounds DEF Range
    <2>4. Ring(c.events, c.state, FALSE, c.relay, floor, s, quiet)
        <3>1. Tolerates(c.state, c.channel, c.relay, s, quiet, FALSE, c.relay, s, quiet)
            BY DEF Tolerates
        <3>2. floor <= floor
            OBVIOUS
        <3> QED
            BY <1>0, <3>1, <3>2, KeepRing
    <2>5. CASE Granted
        <3>1. DEALLOCATING \in TurnStates /\ Rank(e.state) <= Rank(DEALLOCATING)
            <4>1. DEALLOCATING \in TurnStates /\ Rank(DEALLOCATING) = 2
                BY DEF TurnStates, Rank, DEALLOCATING, READY
            <4> QED
                BY <4>1, Ranks
        <3>2. /\ f \in Cores /\ f.state = DEALLOCATING /\ KeptButState(e, f)
              /\ Ring(f.events, DEALLOCATING, FALSE, c.relay, floor, s, quiet)
            BY <2>2, <2>4, <3>1, SetStateRing
        <3> HIDE DEF f
        <3>3. /\ f.relay = c.relay /\ f.channel = FALSE /\ f.controls = <<>> /\ f.pending = {}
              /\ f.shutting = TRUE /\ f.destroyed = c.destroyed
            BY <2>2, <3>2 DEF KeptButState
        <3>4. Shape(f)
            <4>1. Owned(f) /\ Len(f.controls) <= ControlCapacity
                BY <2>3, <3>3 DEF Owned
            <4> QED
                BY <1>2, <3>2, <3>3, <4>1 DEF Shape, READY, DEALLOCATING, DEALLOCATED, DESTROYING
        <3>5. Good(f, floor, s, quiet) /\ ~ f.destroyed
            BY <1>2, <3>2, <3>3, <3>4 DEF Good, RingOf
        <3>6. f.state = Home("Deallocate") /\ "Deallocate" \in Operations
            BY <3>2 DEF Home, Operations
        <3>7. Good(g, floor, s, quiet) /\ SameStanding(f, g) /\ HasOperation(g, "Deallocate")
            BY <3>5, <3>6, StartGood
        <3> HIDE DEF g
        <3> QED
            BY <2>0, <2>5, <3>3, <3>7 DEF Released, SameStanding, d
    <2>6. CASE ~ Granted /\ c.state = ALLOCATING
        <3>1. Owned(b) /\ Len(b.controls) <= ControlCapacity
            BY <2>1, <2>3 DEF Good, Shape, Owned
        <3>2. Shape(b) /\ ~ b.relay
            BY <1>2, <2>1, <2>6, <3>1 DEF Good, Shape, ALLOCATING, READY, DEALLOCATING, DEALLOCATED, DESTROYING
        <3>3. RingOf(b, floor, s, quiet)
            BY <2>1, <2>4 DEF RingOf
        <3> QED
            BY <2>0, <2>1, <2>6, <3>2, <3>3 DEF Good, Released, d
    <2>7. CASE ~ Granted /\ c.state # ALLOCATING
        <3>1. Owned(e) /\ Len(e.controls) <= ControlCapacity
            BY <2>2, <2>3 DEF Owned
        <3>2. c.state \in {NULL, DESTROYING} /\ ~ c.relay
            BY <1>0, <1>2, <2>7
            DEF Good, Shape, Cores, TurnStates, NULL, ALLOCATING, READY, DEALLOCATING, DEALLOCATED, DESTROYING
        <3>3. Shape(e) /\ ~ e.relay
            BY <1>2, <2>2, <3>1, <3>2 DEF Shape, NULL, ALLOCATING, READY, DEALLOCATING, DEALLOCATED, DESTROYING
        <3>4. RingOf(e, floor, s, quiet)
            BY <2>2, <2>4 DEF RingOf
        <3> QED
            BY <2>0, <2>2, <2>7, <3>3, <3>4 DEF Good, Released, d
    <2> QED
        BY <2>5, <2>6, <2>7
<1> QED
    BY <1>1, <1>2

LEMMA ForceGood ==
    ASSUME NEW c, NEW s, NEW quiet, ~ quiet, NEW floor \in 0 .. 2, Good(c, floor, s, quiet), Released(c)
    PROVE  LET d == ForceDestroy(c)
           IN  Good(d, floor, s, quiet) /\ Released(d) /\ d.shutting = c.shutting
<1> DEFINE d == ForceDestroy(c)
           b == [c EXCEPT !.destroyed = TRUE, !.controls = <<>>, !.pending = {}]
           f == SetState(b, DESTROYING)
           e == Event("FORCED_DESTROY", 0)
           g == PushEvent(f, e)
<1>1. CASE c.destroyed
    <2>1. d = c
        BY <1>1 DEF ForceDestroy
    <2> HIDE DEF d
    <2> QED
        BY <2>1 DEF d
<1>2. CASE ~ c.destroyed
    <2>0. d = g
        BY <1>2 DEF ForceDestroy
    <2> HIDE DEF d
    <2>1. c \in Cores /\ Ring(c.events, c.state, c.channel, c.relay, floor, s, quiet)
        BY DEF Good, Shape, RingOf
    <2>2. /\ b \in Cores /\ b.events = c.events /\ b.state = c.state /\ b.relay = c.relay /\ b.channel = c.channel
          /\ b.controls = <<>> /\ b.pending = {} /\ b.shutting = c.shutting /\ b.destroyed = TRUE
        <3>1. <<>> \in Seq(Packets)
            OBVIOUS
        <3> QED
            BY <2>1, <3>1 DEF Cores
    <2> HIDE DEF b
    <2>3. DESTROYING \in TurnStates /\ Rank(b.state) <= Rank(DESTROYING)
        <3>1. DESTROYING \in TurnStates /\ Rank(DESTROYING) = 2
            BY DEF TurnStates, Rank, DESTROYING, READY
        <3> QED
            BY <3>1, Ranks
    <2>4. /\ f \in Cores /\ f.state = DESTROYING /\ KeptButState(b, f)
          /\ Ring(f.events, DESTROYING, c.channel, c.relay, floor, s, quiet)
        BY <2>1, <2>2, <2>3, SetStateRing
    <2> HIDE DEF f
    <2>5. /\ f.relay = c.relay /\ f.channel = c.channel /\ f.controls = <<>> /\ f.pending = {}
          /\ f.shutting = c.shutting /\ f.destroyed = TRUE
        BY <2>2, <2>4 DEF KeptButState
    <2>6. Shape(f)
        <3>1. Range(<<>>) = {} /\ Len(<<>>) = 0 /\ ControlCapacity \in Nat
            BY TurnBounds DEF Range
        <3>2. Owned(f) /\ Len(f.controls) <= ControlCapacity
            BY <2>5, <3>1 DEF Owned
        <3> QED
            BY <2>4, <2>5, <3>2 DEF Shape, READY, DEALLOCATING, DEALLOCATED, DESTROYING
    <2>7. Good(f, floor, s, quiet)
        BY <2>4, <2>5, <2>6 DEF Good, RingOf
    <2>8. Plain(e)
        BY DEF Plain, Events, Event
    <2> HIDE DEF e
    <2>9. Good(g, floor, s, quiet) /\ Kept(f, g)
        BY <2>7, <2>8, PlainGood
    <2> HIDE DEF g
    <2> QED
        BY <2>0, <2>5, <2>9 DEF Released, Kept, KeptButState, d
<1> QED
    BY <1>1, <1>2

-----------------------------------------------------------------------------
(***************************************************************************)
(* The invariant                                                           *)
(***************************************************************************)
\* How far the snapshot and the flags of DriverShared are.
Floor == IF snap.state > READY THEN 2 ELSE IF shared.channel THEN 1 ELSE 0

\* The driver runs, has not failed and was not told to close.
Quiet == drv.at # "ended" /\ EnsureOpen

Snapshots == [state : TurnStates, relay : BOOLEAN, channel : BOOLEAN, terminal : BOOLEAN]
Flags == [closing : BOOLEAN, controlSent : BOOLEAN, channel : BOOLEAN]
Drivers == [at : DriverAt, pump : BOOLEAN, requested : BOOLEAN, destroy : BOOLEAN, burst : Nat]

Typed ==
    /\ snap \in Snapshots /\ shared \in Flags /\ drv \in Drivers
    /\ done \in {"none", "ok", "error"} /\ app \in OwnerAt /\ receiver \in {"held", "dropped"}

\* The core is told to shut down, and destroyed, only by those who have said so before.
Told ==
    /\ core.shutting \/ app \in {"closing", "waiting", "gone"} => shared.closing
    /\ core.destroyed => drv.at = "ended"

\* The flags follow the snapshot, and a snapshot of an allocation that is over shows
\* nothing; the driver has noticed when it is.
Consistent ==
    /\ ~ shared.closing => shared.channel = snap.channel
    /\ snap.state > READY => ~ snap.channel
    /\ snap.state >= DEALLOCATED => ~ snap.relay
    /\ Quiet /\ snap.state = DESTROYING => drv.at = "events" /\ drv.destroy

TurnInv ==
    /\ Good(core, Floor, snap, Quiet) /\ Released(core)
    /\ Typed
    /\ Told
    /\ Consistent

LEMMA Initially == Init => TurnInv
<1> SUFFICES ASSUME Init PROVE TurnInv
    OBVIOUS
<1>1. PICK t \in Transports : core = CreateCore(t)
    BY DEF Init, ConnectTransport
<1>2. /\ core \in Cores /\ core.state = NULL /\ ~ core.relay /\ ~ core.channel /\ core.controls = << >>
      /\ core.events = << >> /\ core.pending = {} /\ ~ core.shutting /\ ~ core.destroyed
    BY <1>1 DEF CreateCore, Cores, TurnStates, Deadlines
<1>3. snap.state = NULL /\ ~ snap.channel /\ ~ snap.relay /\ ~ shared.channel /\ Typed
    BY DEF Init, Typed, Snapshots, Flags, Drivers, TurnStates, DriverAt, OwnerAt
<1>4. Shape(core)
    <2>1. Range(<< >>) = {} /\ Len(<< >>) = 0 /\ ControlCapacity \in Nat
        BY TurnBounds DEF Range
    <2>2. Owned(core) /\ Len(core.controls) <= ControlCapacity
        BY <1>2, <2>1 DEF Owned
    <2> QED
        BY <1>2, <2>2 DEF Shape, NULL, READY, DEALLOCATING, DEALLOCATED, DESTROYING
<1>5. RingOf(core, Floor, snap, Quiet)
    <2>1. << >> \in Seq(Events) /\ Len(<< >>) = 0 /\ EventCapacity \in Nat /\ 1 .. 0 = {}
        BY TurnBounds
    <2>2. Floor = 0 /\ Rank(NULL) = 0
        BY <1>3 DEF Floor, NULL, READY, Rank
    <2>3. Ordered(<< >>, NULL, 0)
        BY <2>1, <2>2 DEF Ordered
    <2>4. Tells(<< >>, NULL, core.channel, core.relay, snap)
        BY <1>2, <1>3, <2>1 DEF Tells, Has
    <2> QED
        BY <1>2, <2>1, <2>2, <2>3, <2>4 DEF RingOf, Ring
<1>6. Told /\ Consistent
    BY <1>2, <1>3 DEF Init, Told, Consistent, NULL, READY, DEALLOCATED, DESTROYING
<1> QED
    BY <1>2, <1>3, <1>4, <1>5, <1>6 DEF TurnInv, Good, Released

LEMMA GoodKept ==
    ASSUME NEW c, NEW s, NEW quiet, NEW s2, NEW quiet2, NEW floor \in 0 .. 2, NEW floor2 \in 0 .. 2, floor2 <= floor,
           Good(c, floor, s, quiet), Tolerates(c.state, c.channel, c.relay, s, quiet, c.channel, c.relay, s2, quiet2)
    PROVE  Good(c, floor2, s2, quiet2)
    BY KeepRing DEF Good, RingOf

LEMMA Floors == Floor \in 0 .. 2
    BY DEF Floor

\* A step that publishes nothing.  Whoever fails, closes or ends, does so for good.
Fades ==
    /\ shared.closing => shared'.closing
    /\ snap.terminal => snap'.terminal
    /\ drv.at = "ended" => drv'.at = "ended"

Calm ==
    /\ Good(core', Floor, snap, Quiet') /\ Released(core')
    /\ Fades /\ Typed' /\ Told'
    /\ snap'.state = snap.state /\ snap'.relay = snap.relay /\ snap'.channel = snap.channel
    /\ shared'.channel => shared.channel
    /\ ~ shared'.closing => shared'.channel = shared.channel
    /\ Quiet' /\ snap.state = DESTROYING => drv'.at = "events" /\ drv'.destroy

LEMMA FadesQuietly ==
    ASSUME TurnInv, Fades
    PROVE  (Quiet' => Quiet) /\ Good(core, Floor, snap, Quiet')
<1>1. Quiet' => Quiet
    BY DEF Fades, Quiet, EnsureOpen
<1>2. Tolerates(core.state, core.channel, core.relay, snap, Quiet, core.channel, core.relay, snap, Quiet')
    BY <1>1 DEF Tolerates
<1>3. Floor <= Floor
    BY Floors
<1>4. Good(core, Floor, snap, Quiet)
    BY DEF TurnInv
<1> QED
    BY <1>1, <1>2, <1>3, <1>4, Floors, GoodKept

LEMMA CalmSteps ==
    ASSUME TurnInv, Calm
    PROVE  TurnInv'
<1>0. snap \in Snapshots /\ snap' \in Snapshots /\ shared \in Flags /\ shared' \in Flags
    BY DEF TurnInv, Typed, Calm
<1>1. Floor' <= Floor /\ Floor' \in 0 .. 2
    BY <1>0 DEF Calm, Floor
<1>2. Tolerates(core'.state, core'.channel, core'.relay, snap, Quiet', core'.channel, core'.relay, snap', Quiet')
    BY DEF Tolerates, Calm
<1>3. Good(core', Floor', snap', Quiet')
    BY <1>1, <1>2, Floors, GoodKept DEF Calm
<1>4. Consistent'
    BY <1>0 DEF TurnInv, Consistent, Calm, Fades
<1> QED
    BY <1>3, <1>4 DEF TurnInv, Calm

\* Calm, but for the core.
Gentle ==
    /\ Fades /\ Typed'
    /\ snap'.state = snap.state /\ snap'.relay = snap.relay /\ snap'.channel = snap.channel
    /\ shared'.channel => shared.channel
    /\ ~ shared'.closing => shared'.channel = shared.channel
    /\ Quiet' /\ snap.state = DESTROYING => drv'.at = "events" /\ drv'.destroy
    /\ app' \in {"closing", "waiting", "gone"} => shared'.closing

LEMMA MethodSteps ==
    ASSUME TurnInv, Gentle, Good(core', Floor, snap, Quiet'), Released(core'),
           core'.shutting => shared'.closing, core'.destroyed => drv'.at = "ended"
    PROVE  TurnInv'
<1>1. Calm
    BY DEF Calm, Gentle, Told
<1> QED
    BY <1>1, CalmSteps

LEMMA IdleSteps ==
    ASSUME TurnInv, Gentle, core' = core
    PROVE  TurnInv'
<1>1. Good(core, Floor, snap, Quiet')
    BY FadesQuietly DEF Gentle
<1>2. core.shutting => shared'.closing
    BY DEF TurnInv, Told, Gentle, Fades
<1>3. core.destroyed => drv'.at = "ended"
    BY DEF TurnInv, Told, Gentle, Fades
<1> QED
    BY <1>1, <1>2, <1>3, MethodSteps DEF TurnInv

LEMMA FineSteps ==
    ASSUME TurnInv, Gentle, Fine(core, core', Floor, snap, Quiet')
    PROVE  TurnInv'
<1>1. core'.shutting => shared'.closing
    BY DEF TurnInv, Told, Gentle, Fades, Fine
<1> QED
    BY <1>1, MethodSteps DEF Fine

\* A part of the queue is sent or lost.
LEMMA CutGood ==
    ASSUME NEW c, NEW q \in Seq(Packets), NEW s, NEW quiet, NEW floor \in 0 .. 2, Good(c, floor, s, quiet), Released(c),
           Len(q) <= ControlCapacity, \A k \in Range(q) : k \in Range(c.controls)
    PROVE  LET d == [c EXCEPT !.controls = q]
           IN  Good(d, floor, s, quiet) /\ Released(d) /\ d.shutting = c.shutting /\ d.destroyed = c.destroyed
<1> DEFINE d == [c EXCEPT !.controls = q]
<1>0. c \in Cores
    BY DEF Good, Shape
<1>1. d \in Cores /\ KeptButControls(c, d) /\ d.events = c.events /\ d.controls = q
    BY <1>0 DEF Cores, KeptButControls
<1> HIDE DEF d
<1>2. Owned(d)
    BY <1>1 DEF Good, Shape, Owned, KeptButControls
<1>3. Shape(d)
    BY <1>1, <1>2 DEF Good, Shape, KeptButControls
<1>4. RingOf(d, floor, s, quiet)
    BY <1>1 DEF Good, RingOf, KeptButControls
<1>5. Released(d) /\ d.shutting = c.shutting /\ d.destroyed = c.destroyed
    BY <1>1 DEF Released, HasOperation, KeptButControls
<1> QED
    BY <1>3, <1>4, <1>5 DEF Good, d

\* An error out of pump_native.
LEMMA PumpFailsGently ==
    ASSUME TurnInv, NEW c, NEW sent \in BOOLEAN, PumpFails(c, sent), drv.at # "ended"
    PROVE  Gentle /\ shared'.closing /\ ~ Quiet'
<1>0. Typed /\ Told /\ ~ core.destroyed
    BY DEF TurnInv, Told
<1>1. shared'.closing /\ ~ Quiet'
    BY <1>0 DEF PumpFails, Cleaning, Typed, Flags, Quiet, EnsureOpen
<1>2. Gentle
    BY <1>0, <1>1
    DEF Gentle, Fades, Typed, Snapshots, Flags, Drivers, DriverAt, PumpFails, Failed, Cleaning
<1> QED
    BY <1>1, <1>2

LEMMA PumpFailsSteps ==
    ASSUME TurnInv, NEW c, NEW sent \in BOOLEAN, PumpFails(c, sent), drv.at # "ended",
           Good(c, Floor, snap, FALSE), Released(c), c.shutting = core.shutting, c.destroyed = core.destroyed
    PROVE  TurnInv'
<1>0. Typed /\ ~ core.destroyed
    BY DEF TurnInv, Told
<1>1. Gentle /\ shared'.closing /\ ~ Quiet'
    BY PumpFailsGently
<1>2. Tolerates(c.state, c.channel, c.relay, snap, FALSE, c.channel, c.relay, snap, Quiet')
    BY <1>1 DEF Tolerates
<1>3. Floor <= Floor
    BY Floors
<1>4. Good(c, Floor, snap, Quiet')
    BY <1>2, <1>3, Floors, GoodKept
<1>5. CASE core' = c
    BY <1>0, <1>1, <1>4, <1>5, MethodSteps
<1>6. CASE core' = ForceDestroy(c) /\ drv' = [drv EXCEPT !.at = "ended"]
    <2>1. Good(ForceDestroy(c), Floor, snap, Quiet') /\ Released(ForceDestroy(c))
        BY <1>1, <1>4, Floors, ForceGood
    <2>2. drv'.at = "ended"
        BY <1>0, <1>6 DEF Typed, Drivers
    <2> QED
        BY <1>1, <1>6, <2>1, <2>2, MethodSteps
<1> QED
    BY <1>5, <1>6 DEF PumpFails

-----------------------------------------------------------------------------
(***************************************************************************)
(* The driver takes an event                                               *)
(***************************************************************************)
\* What the ring says about its first event, and how far the snapshot is.
LEMMA FirstEvent ==
    ASSUME TurnInv, core.events # << >>
    PROVE  /\ Head(core.events) \in Events
           /\ Mark(Head(core.events)) <= Rank(core.state) /\ Floor <= Limit(Head(core.events))
<1>1. core.events \in Seq(Events) /\ Ordered(core.events, core.state, Floor)
    BY DEF TurnInv, Good, RingOf, Ring
<1>2. 1 \in 1 .. Len(core.events) /\ Head(core.events) = core.events[1] /\ Head(core.events) \in Events
    BY <1>1
<1> QED
    BY <1>1, <1>2 DEF Ordered

\* The core with the first event taken.
LEMMA TakenGood ==
    ASSUME NEW c, c.events # << >>, NEW s, NEW quiet, NEW s2, NEW quiet2, NEW floor \in 0 .. 2, NEW floor2 \in 0 .. 2,
           Good(c, floor, s, quiet), Released(c),
           floor2 <= floor \/ floor2 <= Mark(Head(c.events)),
           quiet2 => quiet /\ Takes(Head(c.events), c.state, s, s2)
    PROVE  LET d == [c EXCEPT !.events = Tail(@)]
           IN  Good(d, floor2, s2, quiet2) /\ Released(d) /\ Kept(c, d)
<1> DEFINE d == [c EXCEPT !.events = Tail(@)]
           rest == Tail(c.events)
<1>0. c \in Cores /\ c.events \in Seq(Events) /\ rest \in Seq(Events)
    BY DEF Good, Shape, Cores
<1>1. Ring(c.events, c.state, c.channel, c.relay, floor, s, quiet)
    BY DEF Good, RingOf
<1>2. Ring(rest, c.state, c.channel, c.relay, floor2, s2, quiet2)
    BY <1>1, TakeRing
<1>3. d = [c EXCEPT !.events = rest]
    OBVIOUS
<1> HIDE DEF rest, d
<1>4. d \in Cores /\ Kept(c, d) /\ d.events = rest
    BY <1>0, <1>3 DEF Cores, Kept, KeptButState
<1>5. Shape(d) /\ Released(d)
    BY <1>4, ShapeKept DEF Good
<1>6. RingOf(d, floor2, s2, quiet2)
    BY <1>2, <1>4 DEF RingOf, Kept, KeptButState
<1> QED
    BY <1>4, <1>5, <1>6 DEF Good, d

\* An event is taken and published.
Publishes ==
    LET e == Head(core.events)
    IN  /\ core.events # << >> /\ drv.at = "events"
        /\ core' = [core EXCEPT !.events = Tail(@)]
        /\ snap' = Publish(snap, e)
        /\ done' = IF e.kind = "COMPLETE" /\ e.arg[1] = Awaited THEN (IF e.arg[2] THEN "ok" ELSE "error") ELSE done
        /\ shared' = [shared EXCEPT !.channel =
                          CASE e.kind = "STATE" -> @ /\ e.arg = READY
                            [] e.kind = "CHANNEL_BOUND" -> TRUE
                            [] OTHER -> @]
        /\ drv' = [drv EXCEPT !.destroy = @ \/ (e.kind = "STATE" /\ e.arg = DESTROYING /\ ~ shared.closing)]
        /\ UNCHANGED <<wake, app, receiver, passed>>

\* What taking it comes to: how far the snapshot is, and that it shows what it should.
Taken(e) ==
    /\ Floor' <= Floor \/ Floor' <= Mark(e)
    /\ Quiet' => Quiet /\ Takes(e, core.state, snap, snap')
    /\ Typed' /\ Consistent'
    /\ shared'.closing = shared.closing /\ drv'.at = drv.at /\ app' = app

LEMMA TakenSteps ==
    ASSUME TurnInv, core.events # << >>, core' = [core EXCEPT !.events = Tail(@)], Taken(Head(core.events))
    PROVE  TurnInv'
<1>1. Good(core, Floor, snap, Quiet) /\ Released(core) /\ Told
    BY DEF TurnInv
<1>2. Floor \in 0 .. 2 /\ Floor' \in 0 .. 2
    BY DEF Floor
<1>3. Good(core', Floor', snap', Quiet') /\ Released(core') /\ Kept(core, core')
    BY <1>1, <1>2, TakenGood DEF Taken
<1>4. Told'
    BY <1>1, <1>3 DEF Told, Taken, Kept, KeptButState
<1> QED
    BY <1>3, <1>4 DEF TurnInv, Taken

LEMMA PublishSteps ==
    ASSUME TurnInv, Publishes
    PROVE  TurnInv'
<1> DEFINE e == Head(core.events)
<1>0. /\ snap \in Snapshots /\ shared \in Flags /\ drv \in Drivers
      /\ done \in {"none", "ok", "error"} /\ app \in OwnerAt /\ receiver \in {"held", "dropped"}
      /\ Consistent /\ core.state \in TurnStates
    BY DEF TurnInv, Typed, Good, Shape, Cores
<1>1. /\ core.events # << >> /\ drv.at = "events"
      /\ core' = [core EXCEPT !.events = Tail(@)]
      /\ snap' = Publish(snap, e)
      /\ done' = IF e.kind = "COMPLETE" /\ e.arg[1] = Awaited THEN (IF e.arg[2] THEN "ok" ELSE "error") ELSE done
      /\ shared' = [shared EXCEPT !.channel = CASE e.kind = "STATE" -> @ /\ e.arg = READY
                                                [] e.kind = "CHANNEL_BOUND" -> TRUE
                                                [] OTHER -> @]
      /\ drv' = [drv EXCEPT !.destroy = @ \/ (e.kind = "STATE" /\ e.arg = DESTROYING /\ ~ shared.closing)]
      /\ app' = app /\ receiver' = receiver
    BY DEF Publishes
<1>2. e \in Events /\ Mark(e) <= Rank(core.state) /\ Floor <= Limit(e)
    BY <1>1, FirstEvent
<1> HIDE DEF e
<1>3. /\ drv' \in Drivers /\ drv'.at = "events" /\ (drv.destroy => drv'.destroy)
      /\ (e.kind = "STATE" /\ e.arg = DESTROYING /\ ~ shared.closing => drv'.destroy)
    BY <1>0, <1>1 DEF Drivers
<1>4. done' \in {"none", "ok", "error"}
    BY <1>0, <1>1
<1>5. SUFFICES Taken(e)
    BY <1>1, TakenSteps DEF e
<1>6. CASE e.kind = "STATE"
    <2>1. e.arg \in TurnStates /\ Mark(e) = Rank(e.arg) /\ Limit(e) = Rank(e.arg) /\ ~ Fails(e)
        BY <1>2, <1>6 DEF Events, Mark, Limit, Fails
    <2>2. snap' = [snap EXCEPT !.state = e.arg, !.channel = @ /\ e.arg = READY, !.relay = @ /\ e.arg < DEALLOCATED]
        BY <1>1, <1>6 DEF Publish
    <2>3. /\ snap' \in Snapshots /\ snap'.state = e.arg /\ snap'.terminal = snap.terminal
          /\ (snap'.channel <=> (snap.channel /\ e.arg = READY)) /\ (snap'.relay <=> (snap.relay /\ e.arg < DEALLOCATED))
        BY <1>0, <2>1, <2>2 DEF Snapshots
    <2>4. /\ shared' \in Flags /\ shared'.closing = shared.closing
          /\ (shared'.channel <=> (shared.channel /\ e.arg = READY))
        BY <1>0, <1>1, <1>6 DEF Flags
    <2>5. Floor' <= Mark(e)
        BY <2>1, <2>3, <2>4 DEF Floor, Rank, READY
    <2>6. Quiet' => Quiet
        BY <1>1, <2>3, <2>4 DEF Quiet, EnsureOpen
    <2>7. ASSUME Quiet, core.state <= READY PROVE (snap'.channel <=> snap.channel) /\ (snap'.relay <=> snap.relay)
        <3>1. e.arg <= READY
            BY <1>0, <1>2, <2>1, <2>7
            DEF Rank, TurnStates, NULL, ALLOCATING, READY, DEALLOCATING, DEALLOCATED, DESTROYING
        <3>2. ASSUME snap.channel PROVE e.arg = READY
            <4>1. Floor >= 1
                <5>1. shared.channel
                    BY <1>0, <2>7, <3>2 DEF Consistent, Quiet, EnsureOpen
                <5> QED
                    BY <5>1 DEF Floor
            <4>2. 1 <= Rank(e.arg)
                BY <1>2, <2>1, <4>1, Ranks, Floors
            <4> QED
                BY <2>1, <3>1, <4>2
                DEF Rank, TurnStates, NULL, ALLOCATING, READY, DEALLOCATING, DEALLOCATED, DESTROYING
        <3>3. e.arg < DEALLOCATED
            BY <2>1, <3>1 DEF TurnStates, NULL, ALLOCATING, READY, DEALLOCATING, DEALLOCATED, DESTROYING
        <3> QED
            BY <2>3, <3>2, <3>3
    <2>8. Quiet' => Takes(e, core.state, snap, snap')
        BY <1>6, <2>1, <2>3, <2>6, <2>7 DEF Takes
    <2>9. Consistent'
        <3>1. ~ shared'.closing => shared'.channel = snap'.channel
            BY <1>0, <2>3, <2>4 DEF Consistent, Flags, Snapshots
        <3>2. snap'.state > READY => ~ snap'.channel
            BY <2>1, <2>3 DEF READY
        <3>3. snap'.state >= DEALLOCATED => ~ snap'.relay
            BY <2>1, <2>3 DEF DEALLOCATED, TurnStates, NULL, ALLOCATING, READY, DEALLOCATING, DESTROYING
        <3>4. Quiet' /\ snap'.state = DESTROYING => drv'.at = "events" /\ drv'.destroy
            BY <1>3, <1>6, <2>3, <2>4 DEF Quiet, EnsureOpen
        <3> QED
            BY <3>1, <3>2, <3>3, <3>4 DEF Consistent
    <2> QED
        BY <1>0, <1>1, <1>3, <1>4, <2>3, <2>4, <2>5, <2>6, <2>8, <2>9 DEF Taken, Typed
<1>7. CASE e.kind = "CHANNEL_BOUND"
    <2>1. Mark(e) = 1 /\ Limit(e) = 1 /\ ~ Fails(e)
        BY <1>7 DEF Mark, Limit, Fails
    <2>2. snap' = [snap EXCEPT !.channel = TRUE]
        BY <1>1, <1>7 DEF Publish
    <2>3. /\ snap' \in Snapshots /\ snap'.state = snap.state /\ snap'.terminal = snap.terminal
          /\ snap'.channel = TRUE /\ snap'.relay = snap.relay
        BY <1>0, <2>2 DEF Snapshots
    <2>4. shared' \in Flags /\ shared'.closing = shared.closing /\ shared'.channel = TRUE
        BY <1>0, <1>1, <1>7 DEF Flags
    <2>5. ~ (snap.state > READY)
        BY <1>2, <2>1 DEF Floor
    <2>6. Floor' <= Mark(e)
        BY <2>1, <2>3, <2>5 DEF Floor
    <2>7. Quiet' => Quiet
        BY <1>1, <2>3, <2>4 DEF Quiet, EnsureOpen
    <2>8. Takes(e, core.state, snap, snap')
        BY <1>7, <2>1, <2>3 DEF Takes
    <2>9. Consistent'
        BY <1>0, <1>3, <2>3, <2>4, <2>5, <2>7 DEF Consistent
    <2> QED
        BY <1>0, <1>1, <1>3, <1>4, <2>3, <2>4, <2>6, <2>7, <2>8, <2>9 DEF Taken, Typed
<1>8. CASE e.kind = "RELAY"
    <2>1. Limit(e) = 0 /\ ~ Fails(e)
        BY <1>8 DEF Limit, Fails
    <2>2. snap' = [snap EXCEPT !.relay = TRUE]
        BY <1>1, <1>8 DEF Publish
    <2>3. /\ snap' \in Snapshots /\ snap'.state = snap.state /\ snap'.terminal = snap.terminal
          /\ snap'.channel = snap.channel /\ snap'.relay = TRUE
        BY <1>0, <2>2 DEF Snapshots
    <2>4. shared' \in Flags /\ shared'.closing = shared.closing /\ shared'.channel = shared.channel
        BY <1>0, <1>1, <1>8 DEF Flags
    <2>5. ~ (snap.state > READY) /\ ~ (snap.state >= DEALLOCATED)
        BY <1>0, <1>2, <2>1
        DEF Floor, Snapshots, TurnStates, NULL, ALLOCATING, READY, DEALLOCATING, DEALLOCATED, DESTROYING
    <2>6. Floor' <= Floor
        BY <2>3, <2>4 DEF Floor
    <2>7. Quiet' => Quiet
        BY <1>1, <2>3, <2>4 DEF Quiet, EnsureOpen
    <2>8. Takes(e, core.state, snap, snap')
        BY <1>8, <2>1, <2>3 DEF Takes
    <2>9. Consistent'
        BY <1>0, <1>3, <2>3, <2>4, <2>5, <2>7 DEF Consistent
    <2> QED
        BY <1>0, <1>1, <1>3, <1>4, <2>3, <2>4, <2>6, <2>7, <2>8, <2>9 DEF Taken, Typed
<1>9. CASE e.kind \notin {"STATE", "CHANNEL_BOUND", "RELAY"}
    <2>1. shared' \in Flags /\ shared'.closing = shared.closing /\ shared'.channel = shared.channel
        BY <1>0, <1>1, <1>9 DEF Flags
    <2>2. snap' = IF Fails(e) THEN Failed(snap, shared) ELSE snap
        BY <1>1, <1>9 DEF Publish, Fails
    <2>3. /\ snap' \in Snapshots /\ snap'.state = snap.state /\ snap'.channel = snap.channel /\ snap'.relay = snap.relay
          /\ (snap.terminal => snap'.terminal) /\ (Fails(e) /\ ~ shared.closing => snap'.terminal)
        <3>1. CASE Fails(e)
            BY <1>0, <2>2, <3>1 DEF Failed, Snapshots, Flags
        <3>2. CASE ~ Fails(e)
            BY <1>0, <2>2, <3>2
        <3> QED
            BY <3>1, <3>2
    <2>4. Floor' <= Floor
        BY <2>1, <2>3 DEF Floor
    <2>5. Quiet' => Quiet /\ ~ Fails(e)
        BY <1>1, <2>1, <2>3 DEF Quiet, EnsureOpen
    <2>6. Quiet' => Takes(e, core.state, snap, snap')
        BY <1>9, <2>3, <2>5 DEF Takes
    <2>7. Consistent'
        BY <1>0, <1>3, <2>1, <2>3, <2>5 DEF Consistent
    <2> QED
        BY <1>0, <1>1, <1>3, <1>4, <2>1, <2>3, <2>4, <2>5, <2>6, <2>7 DEF Taken, Typed
<1> QED
    BY <1>6, <1>7, <1>8, <1>9

-----------------------------------------------------------------------------
(***************************************************************************)
(* The steps                                                               *)
(***************************************************************************)
\* A response for a pending transaction, or a message the core ignores.
LEMMA ReceivedFine ==
    ASSUME TurnInv, Gentle, ReceiveStun
    PROVE  TurnInv'
<1>1. CASE core' = core
    BY <1>1, IdleSteps
<1>2. CASE \E p \in core.pending : Sent(p) /\ Answered(p)
    <2>1. PICK p \in core.pending : Answered(p)
        BY <1>2
    <2>2. PICK r \in Responses, lapsed \in BOOLEAN : core' = InputStun(core, p, r, lapsed)
        BY <2>1 DEF Answered
    <2>3. Good(core, Floor, snap, Quiet') /\ Released(core)
        BY FadesQuietly DEF Gentle, TurnInv
    <2>4. Fine(core, core', Floor, snap, Quiet')
        BY <2>2, <2>3, Floors, InputGood
    <2> QED
        BY <2>4, FineSteps
<1> QED
    BY <1>1, <1>2 DEF ReceiveStun

\* The core is destroyed and the driver ended.
LEMMA ForcedSteps ==
    ASSUME TurnInv, Gentle, core' = ForceDestroy(core), drv'.at = "ended"
    PROVE  TurnInv'
<1>1. Good(core, Floor, snap, Quiet') /\ Released(core) /\ ~ Quiet'
    BY FadesQuietly DEF Gentle, TurnInv, Quiet
<1>2. Good(core', Floor, snap, Quiet') /\ Released(core') /\ core'.shutting = core.shutting
    BY <1>1, Floors, ForceGood
<1>3. core.shutting => shared'.closing
    BY DEF TurnInv, Told, Gentle, Fades
<1> QED
    BY <1>2, <1>3, MethodSteps

\* The core is told to shut down while the owner closes.
LEMMA ShutSteps ==
    ASSUME TurnInv, Gentle, core' = GracefulShutdown(core), shared'.closing
    PROVE  TurnInv'
<1>1. Good(core, Floor, snap, Quiet') /\ Released(core) /\ ~ Quiet'
    BY FadesQuietly DEF Gentle, TurnInv, Quiet, EnsureOpen
<1>2. Good(core', Floor, snap, Quiet') /\ Released(core') /\ core'.destroyed = core.destroyed
    BY <1>1, Floors, ShutdownGood
<1>3. core.destroyed => drv'.at = "ended"
    BY DEF TurnInv, Told, Gentle, Fades
<1> QED
    BY <1>2, <1>3, MethodSteps

\* A step of the driver publishes an event, or nothing.
LEMMA DriverPublishes ==
    ASSUME TurnInv, Driver
    PROVE  Gentle \/ Publishes
<1>0. /\ snap \in Snapshots /\ shared \in Flags /\ drv \in Drivers
      /\ done \in {"none", "ok", "error"} /\ app \in OwnerAt /\ receiver \in {"held", "dropped"}
      /\ Quiet /\ snap.state = DESTROYING => drv.at = "events" /\ drv.destroy
      /\ app \in {"closing", "waiting", "gone"} => shared.closing
    BY DEF TurnInv, Typed, Consistent, Told
<1>1. CASE PumpSendFails
    <2>1. PumpFails(core, shared.controlSent) /\ drv.at # "ended" /\ shared.controlSent \in BOOLEAN
        BY <1>0, <1>1 DEF PumpSendFails, Flags
    <2> QED
        BY <2>1, PumpFailsGently
<1>2. CASE PumpEvent
    <2> DEFINE e == Head(core.events)
               rest == [core EXCEPT !.events = Tail(@)]
    <2>1. CASE e.kind = "RELAY" /\ ~ core.relay
        <3>1. PumpFails(rest, shared.controlSent) /\ drv.at # "ended"
            BY <1>2, <2>1 DEF PumpEvent
        <3>2. shared.controlSent \in BOOLEAN
            BY <1>0 DEF Flags
        <3> HIDE DEF rest
        <3> QED
            BY <3>1, <3>2, PumpFailsGently
    <2>2. CASE ~ (e.kind = "RELAY" /\ ~ core.relay)
        BY <1>2, <2>2 DEF PumpEvent, Publishes
    <2> QED
        BY <2>1, <2>2
<1>3. CASE BurstStun
    <2> DEFINE n == IF drv.at = "recv" THEN drv.burst + 1 ELSE drv.burst
    <2>1. drv' = [drv EXCEPT !.pump = TRUE, !.burst = n] /\ n \in Nat
        BY <1>0, <1>3 DEF BurstStun, Drivers
    <2> HIDE DEF n
    <2> QED
        BY <1>0, <1>3, <2>1 DEF BurstStun, Gentle, Fades, Typed, Drivers, DriverAt, Quiet, EnsureOpen
<1> USE DEF Gentle, Fades, Typed, Snapshots, Flags, Drivers, DriverAt, Quiet, EnsureOpen, Failed, Cleaning, RequestCleanup, Go
<1>4. CASE CleanupEnds
    BY <1>0, <1>4 DEF CleanupEnds, EndDriver
<1>5. CASE CleanupStarts
    BY <1>0, <1>5 DEF CleanupStarts
<1>6. CASE PumpPoll
    BY <1>0, <1>6 DEF PumpPoll
<1>7. CASE TopWaits
    BY <1>0, <1>7 DEF TopWaits
<1>8. CASE PumpPull \/ PumpSent \/ PumpAllSent
    BY <1>0, <1>8 DEF PumpPull, PumpSent, PumpAllSent
<1>9. CASE PumpDone
    BY <1>0, <1>9 DEF PumpDone
<1>10. CASE BurstOwnerClosed
    BY <1>0, <1>10 DEF BurstOwnerClosed
<1>11. CASE BurstEnds
    BY <1>0, <1>11 DEF BurstEnds
<1>12. CASE DrainEnds
    BY <1>0, <1>12 DEF DrainEnds
<1>13. CASE ReceiveFails
    BY <1>0, <1>13 DEF ReceiveFails, AtSelect
<1>14. CASE ParkWake
    BY <1>0, <1>14 DEF ParkWake, AtSelect
<1>15. CASE ParkTimer
    BY <1>0, <1>15 DEF ParkTimer, AtSelect
<1>16. CASE ParkOwnerClosed
    BY <1>0, <1>16 DEF ParkOwnerClosed
<1>17. CASE ParkStun
    BY <1>0, <1>17 DEF ParkStun
<1>18. CASE StreamControl
    BY <1>0, <1>18 DEF StreamControl
<1>19. CASE StreamWriteFails
    BY <1>0, <1>19 DEF StreamWriteFails
<1>20. CASE ParkData
    BY <1>0, <1>20 DEF ParkData, AtSelect
<1> QED
    BY <1>1, <1>2, <1>3, <1>4, <1>5, <1>6, <1>7, <1>8, <1>9, <1>10, <1>11, <1>12, <1>13, <1>14, <1>15, <1>16,
       <1>17, <1>18, <1>19, <1>20
    DEF Driver, Unaided, Served

LEMMA DriverSteps ==
    ASSUME TurnInv, Driver
    PROVE  TurnInv'
<1>1. CASE Publishes
    BY <1>1, PublishSteps
<1>2. CASE Gentle
    <2>0. drv \in Drivers /\ shared \in Flags /\ Good(core, Floor, snap, Quiet') /\ Released(core) /\ Told
        BY <1>2, FadesQuietly DEF Gentle, TurnInv, Typed
    <2>1. CASE CleanupEnds
        <3>1. drv'.at = "ended" /\ core' = ForceDestroy(core)
            BY <2>0, <2>1 DEF CleanupEnds, EndDriver, Go, Drivers
        <3> QED
            BY <1>2, <3>1, ForcedSteps
    <2>2. CASE CleanupStarts
        <3>1. shared'.closing /\ core' = GracefulShutdown(core)
            BY <2>2 DEF CleanupStarts
        <3> QED
            BY <1>2, <3>1, ShutSteps
    <2>3. CASE PumpPoll
        <3>1. PICK due, order : core' = Poll(core, due, order)
            BY <2>3 DEF PumpPoll
        <3>2. /\ Good(core', Floor, snap, Quiet') /\ Released(core')
              /\ core'.destroyed = core.destroyed /\ core'.shutting = core.shutting
            BY <2>0, <3>1, Floors, PollGood
        <3>3. (core'.shutting => shared'.closing) /\ (core'.destroyed => drv'.at = "ended")
            BY <1>2, <2>0, <3>2 DEF Told, Gentle, Fades
        <3> QED
            BY <1>2, <3>2, <3>3, MethodSteps
    <2>4. CASE PumpPull
        <3> DEFINE q == Tail(core.controls)
        <3>1. core.controls # <<>> /\ core' = [core EXCEPT !.controls = q]
            BY <2>4 DEF PumpPull
        <3>2. core.controls \in Seq(Packets) /\ Len(core.controls) <= ControlCapacity
            BY DEF TurnInv, Good, Shape, Cores
        <3>3. q \in Seq(Packets) /\ Len(q) <= ControlCapacity /\ \A k \in Range(q) : k \in Range(core.controls)
            <4>1. q \in Seq(Packets) /\ Len(q) = Len(core.controls) - 1
                BY <3>1, <3>2
            <4>2. \A i \in 1 .. Len(q) : q[i] = core.controls[i + 1] /\ i + 1 \in 1 .. Len(core.controls)
                BY <3>1, <3>2
            <4> QED
                BY <3>2, <4>1, <4>2, TurnBounds DEF Range
        <3> HIDE DEF q
        <3>4. /\ Good(core', Floor, snap, Quiet') /\ Released(core')
              /\ core'.destroyed = core.destroyed /\ core'.shutting = core.shutting
            BY <2>0, <3>1, <3>3, Floors, CutGood
        <3>5. (core'.shutting => shared'.closing) /\ (core'.destroyed => drv'.at = "ended")
            BY <1>2, <2>0, <3>4 DEF Told, Gentle, Fades
        <3> QED
            BY <1>2, <3>4, <3>5, MethodSteps
    <2>5. CASE PumpSendFails
        <3>1. PumpFails(core, shared.controlSent) /\ drv.at # "ended"
            BY <2>5 DEF PumpSendFails
        <3>2. Good(core, Floor, snap, FALSE) /\ Released(core)
            <4>1. Tolerates(core.state, core.channel, core.relay, snap, Quiet, core.channel, core.relay, snap, FALSE)
                BY DEF Tolerates
            <4>2. Floor <= Floor
                BY Floors
            <4> QED
                BY <4>1, <4>2, Floors, GoodKept DEF TurnInv
        <3>3. shared.controlSent \in BOOLEAN
            BY <2>0 DEF Flags
        <3> QED
            BY <3>1, <3>2, <3>3, PumpFailsSteps
    <2>6. CASE PumpEvent
        <3> DEFINE e == Head(core.events)
                   rest == [core EXCEPT !.events = Tail(@)]
        <3>1. CASE e.kind = "RELAY" /\ ~ core.relay
            <4>1. PumpFails(rest, shared.controlSent) /\ drv.at # "ended" /\ core.events # << >>
                BY <2>6, <3>1 DEF PumpEvent
            <4>2. Good(core, Floor, snap, Quiet) /\ Released(core) /\ Floor <= Floor
                BY Floors DEF TurnInv
            <4>3. Good(rest, Floor, snap, FALSE) /\ Released(rest) /\ Kept(core, rest)
                BY <4>1, <4>2, Floors, TakenGood
            <4>4. shared.controlSent \in BOOLEAN
                BY <2>0 DEF Flags
            <4> HIDE DEF rest
            <4> QED
                BY <4>1, <4>3, <4>4, PumpFailsSteps DEF Kept, KeptButState
        <3>2. CASE ~ (e.kind = "RELAY" /\ ~ core.relay)
            <4>1. Publishes
                BY <2>6, <3>2 DEF PumpEvent, Publishes
            <4> QED
                BY <4>1, PublishSteps
        <3> QED
            BY <3>1, <3>2
    <2>7. CASE BurstStun \/ ParkStun \/ StreamControl
        BY <1>2, <2>7, ReceivedFine DEF BurstStun, ParkStun, StreamControl
    <2>8. CASE \/ TopWaits \/ PumpSent \/ PumpAllSent \/ PumpDone \/ BurstOwnerClosed \/ BurstEnds \/ DrainEnds
               \/ ReceiveFails \/ StreamWriteFails \/ ParkWake \/ ParkTimer \/ ParkOwnerClosed \/ ParkData
        <3>1. core' = core
            BY <2>8
            DEF TopWaits, PumpSent, PumpAllSent, PumpDone, BurstOwnerClosed, BurstEnds, DrainEnds, ReceiveFails,
                StreamWriteFails, ParkWake, ParkTimer, ParkOwnerClosed, ParkData
        <3> QED
            BY <1>2, <3>1, IdleSteps
    <2> QED
        BY <2>1, <2>2, <2>3, <2>4, <2>5, <2>6, <2>7, <2>8 DEF Driver, Unaided, Served
<1> QED
    BY <1>1, <1>2, DriverPublishes

\* The owner publishes nothing.
LEMMA OwnerIsGentle ==
    ASSUME TurnInv, Owner
    PROVE  Gentle
<1>0. /\ snap \in Snapshots /\ shared \in Flags /\ drv \in Drivers
      /\ done \in {"none", "ok", "error"} /\ app \in OwnerAt /\ receiver \in {"held", "dropped"}
      /\ Quiet /\ snap.state = DESTROYING => drv.at = "events" /\ drv.destroy
      /\ app \in {"closing", "waiting", "gone"} => shared.closing
    BY DEF TurnInv, Typed, Consistent, Told
<1> USE DEF Gentle, Fades, Typed, Snapshots, Flags, OwnerAt, Quiet, EnsureOpen, Failed, Cleaning, RequestCleanup
<1>1. CASE ConnectStart
    BY <1>0, <1>1 DEF ConnectStart
<1>2. CASE ConnectDone
    BY <1>0, <1>2 DEF ConnectDone
<1>3. CASE ConnectFails
    BY <1>0, <1>3 DEF ConnectFails
<1>4. CASE PrepareStart
    BY <1>0, <1>4 DEF PrepareStart
<1>5. CASE PrepareChannel
    BY <1>0, <1>5 DEF PrepareChannel
<1>6. CASE PrepareDone
    BY <1>0, <1>6 DEF PrepareDone
<1>7. CASE PrepareFails
    BY <1>0, <1>7 DEF PrepareFails
<1>8. CASE DropReceiver
    BY <1>0, <1>8 DEF DropReceiver
<1>9. CASE CloseRequest
    BY <1>0, <1>9 DEF CloseRequest
<1>10. CASE CloseCore
    BY <1>0, <1>10 DEF CloseCore
<1>11. CASE CloseDone
    BY <1>0, <1>11 DEF CloseDone
<1>12. CASE CloseAborts
    BY <1>0, <1>12 DEF CloseAborts, Go, Drivers, DriverAt
<1> QED
    BY <1>1, <1>2, <1>3, <1>4, <1>5, <1>6, <1>7, <1>8, <1>9, <1>10, <1>11, <1>12 DEF Owner

LEMMA OwnerSteps ==
    ASSUME TurnInv, Owner
    PROVE  TurnInv'
<1>0. Gentle /\ Good(core, Floor, snap, Quiet') /\ Released(core) /\ Told /\ drv \in Drivers
    BY OwnerIsGentle, FadesQuietly DEF Gentle, TurnInv, Typed
<1>1. CASE core' = core
    BY <1>0, <1>1, IdleSteps
<1>2. CASE RequireOpen(core) /\ core.state = NULL /\ core' = StartAllocation(core)
    <2>1. Fine(core, core', Floor, snap, Quiet')
        BY <1>0, <1>2, Floors, AllocationGood
    <2> QED
        BY <1>0, <2>1, FineSteps
<1>3. ASSUME NEW op \in {"Permission", "Channel"}, RequireReady(core), core' = StartOperation(core, op, TRUE, 0)
      PROVE  TurnInv'
    <2>1. op \in Operations /\ core.state = Home(op) /\ ~ core.destroyed
        BY <1>3 DEF Operations, Home, RequireReady, RequireOpen
    <2> DEFINE d == StartOperation(core, op, TRUE, 0)
    <2>2. Good(d, Floor, snap, Quiet') /\ SameStanding(core, d) /\ \A o : HasOperation(core, o) => HasOperation(d, o)
        BY <1>0, <2>1, Floors, StartGood
    <2> HIDE DEF d
    <2>3. Fine(core, d, Floor, snap, Quiet')
        BY <1>0, <2>1, <2>2 DEF Fine, Released, SameStanding
    <2> QED
        BY <1>0, <1>3, <2>3, FineSteps DEF d
<1>4. CASE CloseCore
    <2>1. shared'.closing /\ core' = GracefulShutdown(core)
        BY <1>0, <1>4 DEF CloseCore, Told
    <2> QED
        BY <1>0, <2>1, ShutSteps
<1>5. CASE CloseAborts
    <2>1. drv'.at = "ended" /\ core' = ForceDestroy(core)
        BY <1>0, <1>5 DEF CloseAborts, Go, Drivers
    <2> QED
        BY <1>0, <2>1, ForcedSteps
<1>6. CASE ConnectStart \/ PrepareStart \/ PrepareChannel
    <2>1. \/ core' = core
          \/ RequireOpen(core) /\ core.state = NULL /\ core' = StartAllocation(core)
          \/ RequireReady(core) /\ core' = StartOperation(core, "Permission", TRUE, 0)
          \/ RequireReady(core) /\ core' = StartOperation(core, "Channel", TRUE, 0)
        BY <1>6 DEF ConnectStart, PrepareStart, PrepareChannel
    <2> QED
        BY <1>1, <1>2, <1>3, <2>1
<1>7. CASE ConnectDone \/ ConnectFails \/ PrepareDone \/ PrepareFails \/ DropReceiver \/ CloseRequest \/ CloseDone
    BY <1>1, <1>7 DEF ConnectDone, ConnectFails, PrepareDone, PrepareFails, DropReceiver, CloseRequest, CloseDone
<1> QED
    BY <1>4, <1>5, <1>6, <1>7 DEF Owner

LEMMA StutterSteps ==
    ASSUME TurnInv, UNCHANGED vars
    PROVE  TurnInv'
    BY DEF TurnInv, vars, Floor, Quiet, EnsureOpen, Typed, Told, Consistent

LEMMA StepKeeps == TurnInv /\ [Next]_vars => TurnInv'
    BY DriverSteps, OwnerSteps, StutterSteps DEF Next, Terminated

-----------------------------------------------------------------------------
(***************************************************************************)
(* Results                                                                 *)
(***************************************************************************)
\* The invariant of the core, the driver and the owner holds for every capacity of the
\* queues, every limit of transmissions and retries, and every bound on time.
THEOREM TurnInvariant == Spec => []TurnInv
    BY Initially, StepKeeps, PTL DEF Spec

\* The types of the core's queues and states and of what the driver and the owner keep.
THEOREM TurnTypeCorrect == Spec => []TypeOK
<1>1. TurnInv => TypeOK
    BY DEF TurnInv, Good, Shape, RingOf, Ring, Cores, Typed, Snapshots, Drivers, TypeOK
<1> QED
    BY <1>1, TurnInvariant, PTL

\* remove_queued_transaction: a request that waits to be sent belongs to the one pending
\* transaction of its operation, also after a full queue has lost packets.
THEOREM RequestsHaveOwners == Spec => []NoOrphanRequest
<1>1. TurnInv => NoOrphanRequest
    BY DEF TurnInv, Good, Shape, Owned, NoOrphanRequest
<1> QED
    BY <1>1, TurnInvariant, PTL

\* graceful_shutdown and complete_success: the Deallocate of a granted allocation is pending
\* until the allocation is released or the core given up.
THEOREM GrantsAreReleased == Spec => []ShutdownReleases
<1>1. TurnInv => ShutdownReleases
    BY DEF TurnInv, Released, ShutdownReleases
<1> QED
    BY <1>1, TurnInvariant, PTL

\* The events the core pushes and the driver publishes carry its whole state to the snapshot,
\* whatever the capacity of the ring; where the ring lost one, the allocation has failed.
THEOREM SnapshotIsTrue == Spec => []SnapshotMirrorsCore
<1>1. TurnInv => SnapshotMirrorsCore
    <2> SUFFICES ASSUME TurnInv, core.events = <<>>, drv.at # "ended", ~ shared.closing, ~ snap.terminal
                 PROVE  /\ snap.state = core.state
                        /\ snap.relay = (core.relay /\ core.state < DEALLOCATED)
                        /\ snap.channel = core.channel
                        /\ shared.channel = core.channel
                        /\ core.state = DESTROYING => drv.at = "events"
        BY DEF SnapshotMirrorsCore
    <2>1. Quiet
        BY DEF Quiet, EnsureOpen
    <2>2. Tells(<<>>, core.state, core.channel, core.relay, snap)
        BY <2>1 DEF TurnInv, Good, RingOf, Ring
    <2>3. Untroubled(<<>>) /\ \A kind : ~ Has(<<>>, kind)
        BY DEF Untroubled, Has
    <2>4. /\ snap.state = core.state
          /\ core.state <= READY => (core.channel <=> snap.channel) /\ (core.relay <=> snap.relay)
        BY <2>2, <2>3 DEF Tells
    <2>5. /\ core.state \in TurnStates /\ core.channel \in BOOLEAN /\ core.relay \in BOOLEAN
          /\ snap.channel \in BOOLEAN /\ snap.relay \in BOOLEAN /\ ~ core.shutting /\ ~ core.destroyed
          /\ shared.channel = snap.channel
        BY DEF TurnInv, Good, Shape, Cores, Typed, Snapshots, Told, Consistent
    <2>6. CASE core.state <= READY
        <3>1. core.state < DEALLOCATED /\ core.state # DESTROYING
            BY <2>5, <2>6 DEF READY, DEALLOCATED, DESTROYING, TurnStates, NULL, ALLOCATING, DEALLOCATING
        <3> QED
            BY <2>4, <2>5, <2>6, <3>1
    <2>7. CASE ~ (core.state <= READY)
        <3>1. core.state = DESTROYING
            BY <2>5, <2>7
            DEF TurnInv, Good, Shape, READY, DEALLOCATED, DESTROYING, TurnStates, NULL, ALLOCATING, DEALLOCATING
        <3>2. ~ snap.channel /\ ~ snap.relay /\ drv.at = "events"
            BY <2>1, <2>4, <3>1 DEF TurnInv, Consistent, DESTROYING, READY, DEALLOCATED
        <3>3. ~ core.channel /\ ~ (core.state < DEALLOCATED)
            BY <2>5, <3>1 DEF TurnInv, Good, Shape, DESTROYING, READY, DEALLOCATED
        <3> QED
            BY <2>4, <2>5, <3>2, <3>3
    <2> QED
        BY <2>6, <2>7
<1> QED
    BY <1>1, TurnInvariant, PTL

\* What the sender sees.
Phase == IF Dead THEN "over" ELSE IF Sendable THEN "usable" ELSE "opening"

\* Over is over, and what is usable stays usable until then.
LEMMA PhaseSteps ==
    ASSUME TurnInv, [Next]_vars
    PROVE  (Dead => Dead') /\ (~ Dead' /\ Sendable => Sendable')
<1>0. snap \in Snapshots /\ shared \in Flags
    BY DEF TurnInv, Typed
<1>1. CASE Gentle
    BY <1>1 DEF Gentle, Fades, Dead, Sendable, EnsureOpen
<1>2. CASE Publishes
    <2> DEFINE e == Head(core.events)
    <2>1. e \in Events /\ Mark(e) <= Rank(core.state) /\ Floor <= Limit(e)
        BY <1>2, FirstEvent DEF Publishes
    <2>2. snap' = Publish(snap, e)
        BY <1>2 DEF Publishes
    <2>3. shared' = [shared EXCEPT !.channel = CASE e.kind = "STATE" -> @ /\ e.arg = READY
                                                 [] e.kind = "CHANNEL_BOUND" -> TRUE
                                                 [] OTHER -> @]
        BY <1>2 DEF Publishes
    <2> HIDE DEF e
    <2>4. CASE e.kind = "STATE"
        <3>1. e.arg \in TurnStates /\ Limit(e) = Rank(e.arg)
            BY <2>1, <2>4 DEF Events, Limit
        <3>2. snap'.state = e.arg /\ snap'.terminal = snap.terminal /\ shared'.closing = shared.closing
            BY <1>0, <2>2, <2>3, <2>4 DEF Publish, Snapshots, Flags
        <3>3. shared'.channel <=> (shared.channel /\ e.arg = READY)
            BY <1>0, <2>3, <2>4 DEF Flags
        <3>4. snap.state > READY => e.arg > READY
            BY <2>1, <3>1 DEF Floor, Rank
        <3>5. shared.channel => e.arg >= READY
            BY <2>1, <3>1 DEF Floor, Rank, TurnStates, NULL, ALLOCATING, READY, DEALLOCATING, DEALLOCATED, DESTROYING
        <3>6. shared.channel /\ ~ (e.arg > READY) => e.arg = READY
            BY <3>1, <3>5 DEF TurnStates, NULL, ALLOCATING, READY, DEALLOCATING, DEALLOCATED, DESTROYING
        <3> QED
            BY <3>2, <3>3, <3>4, <3>6 DEF Dead, Sendable, EnsureOpen
    <2>5. CASE e.kind # "STATE"
        <3>1. snap'.state = snap.state /\ (snap.terminal => snap'.terminal)
            BY <1>0, <2>2, <2>5 DEF Publish, Failed, Snapshots, Flags
        <3>2. shared'.closing = shared.closing /\ (shared.channel => shared'.channel)
            BY <1>0, <2>3, <2>5 DEF Flags
        <3> QED
            BY <3>1, <3>2 DEF Dead, Sendable, EnsureOpen
    <2> QED
        BY <2>4, <2>5
<1>3. CASE UNCHANGED vars
    BY <1>3 DEF vars, Dead, Sendable, EnsureOpen
<1> QED
    BY <1>1, <1>2, <1>3, DriverPublishes, OwnerIsGentle DEF Next, Terminated

LEMMA LeaseSteps ==
    ASSUME TurnInv, [Next]_vars
    PROVE  [Lease!Next]_Phase
<1>1. (Dead => Dead') /\ (~ Dead' /\ Sendable => Sendable')
    BY PhaseSteps
<1>2. /\ Phase = IF Dead THEN "over" ELSE IF Sendable THEN "usable" ELSE "opening"
      /\ Phase' = IF Dead' THEN "over" ELSE IF Sendable' THEN "usable" ELSE "opening"
    BY DEF Phase
<1>3. \/ Phase' = Phase
      \/ Phase = "opening" /\ Phase' = "usable"
      \/ Phase \in {"opening", "usable"} /\ Phase' = "over"
    BY <1>1, <1>2
<1> QED
    BY <1>3 DEF Lease!Next, Lease!Opens, Lease!Ends, Phase

\* The allocation implements the lease of TurnLease: it becomes usable at most once, and what
\* the driver publishes later, in whatever order answers came, never revives it.
THEOREM AllocationIsALease == Spec => LeaseIsKept
<1>1. Init => Lease!Init
    <2>1. Init => ~ Dead /\ ~ Sendable
        BY DEF Init, Dead, Sendable, EnsureOpen, NULL, READY
    <2> QED
        BY <2>1 DEF Lease!Init
<1>2. TurnInv /\ [Next]_vars => [Lease!Next]_Phase
    BY LeaseSteps
<1> QED
    BY <1>1, <1>2, TurnInvariant, PTL DEF Spec, LeaseIsKept, Lease!Spec, Phase
=============================================================================
