-------------------------- MODULE DispatcherProofs --------------------------
(***************************************************************************)
(* The registry and the scheduler for any workers, TURN paths, packet      *)
(* classes and chunks; and the flow frames the dispatcher wraps TCP        *)
(* packets in, for any flows, sequence space and caps.                     *)
(*                                                                         *)
(* The list that is published is always the one interleave_turn_paths      *)
(* makes of the streams in it.  That it loses none and repeats none, and   *)
(* that neighbours run over different paths, are facts about that          *)
(* function; the first half of the module proves them, by counting.        *)
(*                                                                         *)
(* The second half is about FlowFrame.  The receiver sees numbers modulo   *)
(* the sequence space, so the invariant gives every flow the number it     *)
(* began at and the number its release point stands for: as long as both   *)
(* are near enough, what is_forward says of the wire holds of the numbers. *)
(***************************************************************************)
EXTENDS Dispatcher, FlowFrame, Integers, FiniteSetTheorems, TLAPS

(***************************************************************************)
(* Ranks                                                                   *)
(***************************************************************************)
\* B gives what comes before an element in a strict total order of S.
Precede(S, B) ==
    /\ B \in [S -> SUBSET S]
    /\ \A x \in S : x \notin B[x]
    /\ \A x, y \in S : x # y => x \in B[y] \/ y \in B[x]
    /\ \A x, y \in S : y \in B[x] => B[y] \subseteq B[x]

\* The number of elements before it is the place of an element, and every place is taken.
LEMMA Ranks ==
    ASSUME NEW S, IsFiniteSet(S), NEW B, Precede(S, B)
    PROVE  /\ Cardinality(S) \in Nat
           /\ \A x \in S : Cardinality(B[x]) \in 0 .. Cardinality(S) - 1
           /\ \A x, y \in S : y \in B[x] <=> Cardinality(B[y]) < Cardinality(B[x])
           /\ \A k \in 0 .. Cardinality(S) - 1 : \E x \in S : Cardinality(B[x]) = k
<1> DEFINE n == Cardinality(S)
           T == 0 .. n - 1
           f == [x \in S |-> Cardinality(B[x])]
<1>1. n \in Nat
    BY FS_CardinalityType
<1>2. \A x \in S : IsFiniteSet(B[x]) /\ Cardinality(B[x]) \in Nat
    BY FS_Subset, FS_CardinalityType DEF Precede
<1>3. ASSUME NEW x \in S PROVE Cardinality(B[x]) < n
    <2>1. B[x] \in SUBSET S /\ B[x] # S
        BY DEF Precede
    <2>2. Cardinality(B[x]) <= n /\ Cardinality(B[x]) # n
        BY <2>1, FS_Subset
    <2> QED
        BY <1>1, <1>2, <2>2
<1>4. ASSUME NEW x \in S, NEW y \in S, y \in B[x] PROVE Cardinality(B[y]) < Cardinality(B[x])
    <2>1. B[y] \in SUBSET B[x] /\ B[y] # B[x]
        BY <1>4 DEF Precede
    <2>2. Cardinality(B[y]) <= Cardinality(B[x]) /\ Cardinality(B[y]) # Cardinality(B[x])
        BY <1>2, <2>1, FS_Subset
    <2> QED
        BY <1>2, <2>2
<1>5. ASSUME NEW x \in S, NEW y \in S, Cardinality(B[y]) < Cardinality(B[x]) PROVE y \in B[x]
    <2>1. x # y
        BY <1>2, <1>5
    <2>2. ~ (x \in B[y])
        BY <1>2, <1>4, <1>5
    <2> QED
        BY <2>1, <2>2 DEF Precede
<1>6. \A x \in S : f[x] \in T
    BY <1>1, <1>2, <1>3
<1>7. \A x, y \in S : x # y => f[x] # f[y]
    BY <1>2, <1>4 DEF Precede
<1>8. f \in Injection(S, T)
    <2>1. f \in [S -> T]
        BY <1>6
    <2> HIDE DEF f
    <2> QED
        BY <1>7, <2>1 DEF Injection, IsInjective
<1>9. IsFiniteSet(T) /\ Cardinality(T) = n
    BY <1>1, FS_Interval
<1>10. f \in Surjection(S, T)
    <2> HIDE DEF f, T
    <2> QED
        BY <1>8, <1>9, FS_Injection
<1>11. \A k \in T : \E x \in S : f[x] = k
    <2> HIDE DEF f, T
    <2> QED
        BY <1>10 DEF Surjection
<1> QED
    BY <1>1, <1>4, <1>5, <1>6, <1>11

-----------------------------------------------------------------------------
(***************************************************************************)
(* interleave_turn_paths                                                   *)
(***************************************************************************)
\* A set of streams of different workers.
StreamSet(S) ==
    /\ IsFiniteSet(S) /\ S \subseteq Streams
    /\ \A x, y \in S : x.id = y.id => x = y

LEMMA StreamFields ==
    ASSUME NEW x \in Streams
    PROVE  x.id \in Nat /\ x.turn_path \in Nat /\ x.id \in WorkerIds /\ x.incarnation_id \in Nat
<1>1. x.id \in WorkerIds /\ x.turn_path \in TurnPaths /\ x.incarnation_id \in 0 .. MaxIncarnations
    BY DEF Streams
<1>2. WorkerIds \subseteq Nat /\ TurnPaths \subseteq Nat /\ MaxIncarnations \in Nat
    BY DispatcherConstants
<1>3. x.id \in Nat /\ x.turn_path \in Nat
    BY <1>1, <1>2
<1>4. \A n \in 0 .. MaxIncarnations : n \in Nat
    BY <1>2
<1>5. x.incarnation_id \in Nat
    BY <1>1, <1>4
<1> QED
    BY <1>1, <1>3, <1>5

\* The streams of a path, by their ids.
LEMMA Offsets ==
    ASSUME NEW S, StreamSet(S)
    PROVE  /\ \A x \in S : Offset(S, x) \in Nat
           /\ \A x, y \in S : x.turn_path = y.turn_path /\ x # y => Offset(S, x) # Offset(S, y)
           /\ \A x \in S : \A k \in 0 .. Offset(S, x) :
                  \E y \in S : y.turn_path = x.turn_path /\ Offset(S, y) = k
<1> SUFFICES ASSUME NEW p
             PROVE  LET G == {x \in S : x.turn_path = p}
                    IN  /\ \A x \in G : Offset(S, x) \in Nat
                        /\ \A x, y \in G : x # y => Offset(S, x) # Offset(S, y)
                        /\ \A x \in G : \A k \in 0 .. Offset(S, x) : \E y \in G : Offset(S, y) = k
    <2>1. ASSUME NEW x \in S PROVE Offset(S, x) \in Nat
        OBVIOUS
    <2>2. ASSUME NEW x \in S, NEW y \in S, x.turn_path = y.turn_path, x # y
          PROVE  Offset(S, x) # Offset(S, y)
        BY <2>2
    <2>3. ASSUME NEW x \in S, NEW k \in 0 .. Offset(S, x)
          PROVE  \E y \in S : y.turn_path = x.turn_path /\ Offset(S, y) = k
        OBVIOUS
    <2> QED
        BY <2>1, <2>2, <2>3
<1> DEFINE G == {x \in S : x.turn_path = p}
           B == [x \in G |-> {y \in G : y.id < x.id}]
<1>1. IsFiniteSet(G) /\ \A x \in G : x \in S /\ x.id \in Nat
    BY FS_Subset, StreamFields DEF StreamSet
<1>2. Precede(G, B)
    <2>1. B \in [G -> SUBSET G]
        OBVIOUS
    <2>2. \A x \in G : x \notin B[x]
        BY <1>1
    <2>3. \A x, y \in G : x # y => x \in B[y] \/ y \in B[x]
        BY <1>1 DEF StreamSet
    <2>4. \A x, y \in G : y \in B[x] => B[y] \subseteq B[x]
        BY <1>1
    <2> QED
        BY <2>1, <2>2, <2>3, <2>4 DEF Precede
<1>3. \A x \in G : Offset(S, x) = Cardinality(B[x])
    <2> SUFFICES ASSUME NEW x \in G PROVE Offset(S, x) = Cardinality(B[x])
        OBVIOUS
    <2>1. {y \in S : y.turn_path = x.turn_path /\ y.id < x.id} = B[x]
        OBVIOUS
    <2> QED
        BY <2>1 DEF Offset
<1>4. /\ Cardinality(G) \in Nat
      /\ \A x \in G : Cardinality(B[x]) \in 0 .. Cardinality(G) - 1
      /\ \A x, y \in G : y \in B[x] <=> Cardinality(B[y]) < Cardinality(B[x])
      /\ \A k \in 0 .. Cardinality(G) - 1 : \E x \in G : Cardinality(B[x]) = k
    <2> HIDE DEF B, G
    <2> QED
        BY <1>1, <1>2, Ranks
<1> HIDE DEF B, G
<1>5. \A x, y \in G : x # y => Cardinality(B[x]) # Cardinality(B[y])
    <2>1. \A x \in G : Cardinality(B[x]) \in Nat
        BY <1>4
    <2> QED
        BY <1>2, <1>4, <2>1 DEF Precede
<1>6. \A x \in G : \A k \in 0 .. Offset(S, x) : \E y \in G : Offset(S, y) = k
    BY <1>3, <1>4
<1> QED
    BY <1>3, <1>4, <1>5, <1>6 DEF G

\* What comes before what in the list.
LEMMA Dealing ==
    ASSUME NEW S, StreamSet(S)
    PROVE  Precede(S, [x \in S |-> DealtBefore(S, x)])
<1> DEFINE B == [x \in S |-> DealtBefore(S, x)]
<1>1. \A x \in S : Offset(S, x) \in Nat /\ x.turn_path \in Nat
    BY Offsets, StreamFields DEF StreamSet
<1>2. \A x, y \in S : x.turn_path = y.turn_path /\ x # y => Offset(S, x) # Offset(S, y)
    BY Offsets
<1>3. ASSUME NEW x \in S, NEW y \in S
      PROVE  y \in B[x] <=> \/ Offset(S, y) < Offset(S, x)
                            \/ Offset(S, y) = Offset(S, x) /\ y.turn_path < x.turn_path
    BY DEF DealtBefore
<1>4. B \in [S -> SUBSET S]
    BY DEF DealtBefore
<1> HIDE DEF B
<1>5. \A x \in S : x \notin B[x]
    BY <1>1, <1>3
<1>6. \A x, y \in S : x # y => x \in B[y] \/ y \in B[x]
    BY <1>1, <1>2, <1>3
<1>7. ASSUME NEW x \in S, NEW y \in S, y \in B[x], NEW z \in B[y] PROVE z \in B[x]
    <2>1. z \in S
        BY <1>4
    <2> QED
        BY <1>1, <1>3, <1>7, <2>1
<1>8. \A x, y \in S : y \in B[x] => B[y] \subseteq B[x]
    BY <1>7
<1>9. Precede(S, B)
    BY <1>4, <1>5, <1>6, <1>8 DEF Precede
<1> QED
    BY <1>9 DEF B

\* The list has every stream of S once, and what stands before a stream was dealt before it.
Lists(list, S) ==
    /\ list \in Seq(S) /\ Len(list) = Cardinality(S) /\ Range(list) = S
    /\ \A i \in 1 .. Len(list) : Cardinality(DealtBefore(S, list[i])) = i - 1

LEMMA Interleaved ==
    ASSUME NEW S, StreamSet(S)
    PROVE  Lists(InterleaveTurnPaths(S), S)
<1> DEFINE n == Cardinality(S)
           B == [x \in S |-> DealtBefore(S, x)]
           At(x) == Cardinality(DealtBefore(S, x))
           list == InterleaveTurnPaths(S)
<1>1. /\ n \in Nat
      /\ \A x \in S : Cardinality(B[x]) \in 0 .. n - 1
      /\ \A x, y \in S : y \in B[x] <=> Cardinality(B[y]) < Cardinality(B[x])
      /\ \A k \in 0 .. n - 1 : \E x \in S : Cardinality(B[x]) = k
    <2>1. Precede(S, B) /\ IsFiniteSet(S)
        BY Dealing DEF StreamSet
    <2> HIDE DEF B
    <2> QED
        BY <2>1, Ranks
<1>2. \A x \in S : Cardinality(B[x]) = At(x)
    OBVIOUS
<1>3. \A x, y \in S : At(x) = At(y) => x = y
    <2>1. Precede(S, B)
        BY Dealing
    <2>2. \A x, y \in S : x # y => x \in B[y] \/ y \in B[x]
        BY <2>1 DEF Precede
    <2> HIDE DEF B, At
    <2> QED
        BY <1>1, <1>2, <2>2
<1>4. \A k \in 0 .. n - 1 : \E x \in S : At(x) = k
    BY <1>1, <1>2
<1>5. \A x \in S : At(x) \in 0 .. n - 1
    BY <1>1, <1>2
<1> HIDE DEF B, n
<1>6. list = [i \in 1 .. n |-> CHOOSE x \in S : At(x) = i - 1]
    BY DEF InterleaveTurnPaths, n
<1> HIDE DEF At, list
<1>7. ASSUME NEW i \in 1 .. n PROVE list[i] \in S /\ At(list[i]) = i - 1
    <2>1. i - 1 \in 0 .. n - 1
        BY <1>1
    <2>2. \E x \in S : At(x) = i - 1
        BY <1>4, <2>1
    <2>3. (CHOOSE x \in S : At(x) = i - 1) \in S /\ At(CHOOSE x \in S : At(x) = i - 1) = i - 1
        BY <2>2, Zenon
    <2>4. list[i] = CHOOSE x \in S : At(x) = i - 1
        BY <1>6
    <2> QED
        BY <2>3, <2>4
<1>8. list \in [1 .. n -> S] /\ DOMAIN list = 1 .. n
    BY <1>6, <1>7
<1>9. list \in Seq(S) /\ Len(list) = n
    BY <1>1, <1>8
<1>10. Range(list) = S
    <2>1. \A x \in S : \E i \in 1 .. n : list[i] = x
        <3> SUFFICES ASSUME NEW x \in S PROVE \E i \in 1 .. n : list[i] = x
            OBVIOUS
        <3> DEFINE k == At(x)
        <3>1. k \in 0 .. n - 1
            BY <1>5
        <3> HIDE DEF k
        <3>2. k + 1 \in 1 .. n /\ k + 1 - 1 = k
            BY <1>1, <3>1
        <3>3. list[k + 1] \in S /\ At(list[k + 1]) = k
            <4> DEFINE i == k + 1
            <4>1. i \in 1 .. n /\ i - 1 = k
                BY <1>1, <3>1
            <4> HIDE DEF i
            <4>2. list[i] \in S /\ At(list[i]) = i - 1
                BY <1>7, <4>1
            <4> QED
                BY <4>1, <4>2 DEF i
        <3>4. list[k + 1] = x
            BY <1>3, <3>3 DEF k
        <3> QED
            BY <3>2, <3>4
    <2> QED
        BY <1>7, <1>8, <2>1 DEF Range
<1> QED
    BY <1>7, <1>9, <1>10 DEF Lists, list, At, n

\* The order of the list is that of the dealing.
LEMMA ListOrder ==
    ASSUME NEW S, StreamSet(S), NEW list, Lists(list, S)
    PROVE  /\ \A i \in 1 .. Len(list) : list[i] \in S
           /\ \A i, j \in 1 .. Len(list) : list[i] \in DealtBefore(S, list[j]) <=> i < j
<1> DEFINE B == [x \in S |-> DealtBefore(S, x)]
<1>1. Precede(S, B) /\ IsFiniteSet(S)
    BY Dealing DEF StreamSet
<1>2. \A x, y \in S : y \in B[x] <=> Cardinality(B[y]) < Cardinality(B[x])
    <2> HIDE DEF B
    <2> QED
        BY <1>1, Ranks
<1>3. \A i \in 1 .. Len(list) : list[i] \in S /\ i \in Nat
    BY DEF Lists
<1>4. \A i \in 1 .. Len(list) : Cardinality(B[list[i]]) = i - 1
    BY <1>3 DEF Lists
<1>5. ASSUME NEW i \in 1 .. Len(list), NEW j \in 1 .. Len(list)
      PROVE  list[i] \in B[list[j]] <=> i < j
    <2> HIDE DEF B
    <2>1. list[i] \in B[list[j]] <=> i - 1 < j - 1
        BY <1>2, <1>3, <1>4
    <2> QED
        BY <1>3, <2>1
<1> QED
    BY <1>3, <1>5

\* Two neighbours on one path: the others are on it too.
LEMMA Alternating ==
    ASSUME NEW S, StreamSet(S), NEW list, Lists(list, S),
           NEW i \in 1 .. Len(list) - 1, list[i].turn_path = list[i + 1].turn_path,
           NEW j \in i + 1 .. Len(list)
    PROVE  list[j].turn_path = list[i].turn_path
<1> DEFINE a == list[i]
           b == list[i + 1]
           z == list[j]
           F(x) == Offset(S, x)
           P(x) == x.turn_path
           Before(x, y) == F(x) < F(y) \/ (F(x) = F(y) /\ P(x) < P(y))
<1>1. /\ Len(list) \in Nat /\ i \in 1 .. Len(list) /\ i + 1 \in 1 .. Len(list) /\ j \in 1 .. Len(list)
      /\ i \in Nat /\ j \in Nat
    BY DEF Lists
<1>2. a \in S /\ b \in S /\ z \in S
    BY <1>1, ListOrder
<1>3. \A x \in S : F(x) \in Nat /\ P(x) \in Nat
    BY Offsets, StreamFields DEF StreamSet
<1>4. \A x, y \in S : x \in DealtBefore(S, y) <=> Before(x, y)
    BY DEF DealtBefore
<1>5. a \in DealtBefore(S, b) /\ (z = b \/ b \in DealtBefore(S, z))
    BY <1>1, ListOrder
<1>6. ASSUME NEW y \in S, y \in DealtBefore(S, b), a \in DealtBefore(S, y) PROVE FALSE
    <2>1. PICK m \in 1 .. Len(list) : list[m] = y
        BY DEF Lists, Range
    <2>2. m < i + 1 /\ i < m
        BY <1>1, <1>6, <2>1, ListOrder
    <2> QED
        BY <1>1, <2>2
<1>7. P(a) = P(b)
    OBVIOUS
<1>8. \A x \in S : \A k \in 0 .. F(x) : \E y \in S : P(y) = P(x) /\ F(y) = k
    BY Offsets
<1> SUFFICES ASSUME P(z) # P(a) PROVE FALSE
    OBVIOUS
<1> HIDE DEF a, b, z, F, P
<1>9. F(a) < F(b) /\ F(b) <= F(z)
    BY <1>2, <1>3, <1>4, <1>5, <1>7
<1>10. F(a) \in 0 .. F(z) /\ F(b) \in 0 .. F(z)
    BY <1>2, <1>3, <1>9
<1>11. CASE P(a) < P(z)
    <2>1. PICK y \in S : P(y) = P(z) /\ F(y) = F(a)
        BY <1>2, <1>8, <1>10
    <2>2. Before(a, y) /\ Before(y, b)
        BY <1>9, <1>11, <2>1
    <2> QED
        BY <1>2, <1>4, <1>6, <2>1, <2>2
<1>12. CASE P(z) < P(a)
    <2>1. PICK y \in S : P(y) = P(z) /\ F(y) = F(b)
        BY <1>2, <1>8, <1>10
    <2>2. Before(a, y) /\ Before(y, b)
        BY <1>7, <1>9, <1>12, <2>1
    <2> QED
        BY <1>2, <1>4, <1>6, <2>1, <2>2
<1> QED
    BY <1>2, <1>3, <1>11, <1>12

-----------------------------------------------------------------------------
(***************************************************************************)
(* The invariant                                                           *)
(***************************************************************************)
\* A worker's stream is in the list from the swap of register to that of unregister.
Registered(w) == session[w] \in {"up", "unregister", "unregistering"}
Listed == {stream[w] : w \in {v \in WorkerIds : Registered(v)}}

\* The stream of an incarnation whose session has ended.
Past(s) ==
    \/ s.incarnation_id < stream[s.id].incarnation_id
    \/ s.incarnation_id = stream[s.id].incarnation_id /\ session[s.id] = "down"

\* The scheduler's list names streams that are registered, or were once.
SnapshotKnown ==
    \A s \in Range(snapshot) : Past(s) \/ (s = stream[s.id] /\ Registered(s.id))

\* Only a stream that is past is sent to in vain ...
StaleIsPast == \A c \in Classes, s \in Streams : stale[c][s] # 0 => Past(s)

\* ... and that, its ticket and the rest of the chunk make one chunk at most: the list
\* it is still in is replaced when the next chunk starts.
InHand(c) == IF ticket # NoTicket /\ ticket.class = c THEN 1 ELSE 0

ChunkBounds ==
    \A c \in Classes : \A s \in Range(snapshot) :
        stale[c][s] + InHand(c) + cursors[c].remaining <= StreamChunk[c]

DispatcherTypes ==
    /\ workers \in Seq(Streams) /\ snapshot \in Seq(Streams)
    /\ session \in [WorkerIds -> SessionSteps]
    /\ stream \in [WorkerIds -> Streams] /\ \A w \in WorkerIds : stream[w].id = w
    /\ loaded \in [WorkerIds -> Seq(Streams)]
    /\ worker_count = Len(snapshot)
    /\ cursors \in [Classes -> [current_worker : Nat, remaining : Nat]]
    /\ \A c \in Classes : cursors[c].remaining <= StreamChunk[c] - 1
    /\ ticket \in [class : Classes, start_slot : Nat] \union {NoTicket}
    /\ stale \in [Classes -> [Streams -> Nat]]

DispatcherInv ==
    /\ DispatcherTypes
    /\ Range(workers) = Listed /\ IsFiniteSet(Listed) /\ Lists(workers, Listed)
    /\ SnapshotKnown /\ StaleIsPast /\ ChunkBounds /\ StaleSendsBounded

LEMMA ListedStreams ==
    ASSUME stream \in [WorkerIds -> Streams], \A w \in WorkerIds : stream[w].id = w, IsFiniteSet(Listed)
    PROVE  /\ StreamSet(Listed)
           /\ \A s \in Streams : s \in Listed <=> s = stream[s.id] /\ Registered(s.id)
<1>1. \A s \in Listed : s \in Streams /\ s = stream[s.id] /\ s.id \in WorkerIds /\ Registered(s.id)
    BY DEF Listed
<1>2. ASSUME NEW s \in Streams, s = stream[s.id], Registered(s.id) PROVE s \in Listed
    BY <1>2, StreamFields DEF Listed
<1> QED
    BY <1>1, <1>2 DEF StreamSet

-----------------------------------------------------------------------------
(***************************************************************************)
(* Sessions                                                                *)
(***************************************************************************)
\* A session's step leaves the scheduler alone; its stream only goes on to be past.
LEMMA SessionKeeps ==
    ASSUME DispatcherInv, UNCHANGED <<schedulerVars, stale>>, DispatcherTypes',
           \A s \in Streams : Past(s) => Past(s)',
           \A s \in Streams : s = stream[s.id] /\ Registered(s.id) =>
               Past(s)' \/ (s = stream'[s.id] /\ Registered(s.id)'),
           IsFiniteSet(Listed'), Lists(workers', Listed')
    PROVE  DispatcherInv'
<1>1. /\ snapshot' = snapshot /\ ticket' = ticket /\ cursors' = cursors /\ stale' = stale
    BY DEF schedulerVars
<1>2. Range(workers') = Listed'
    BY DEF Lists
<1>3. \A s \in Range(snapshot) : s \in Streams
    BY DEF DispatcherInv, DispatcherTypes, Range
<1>4. SnapshotKnown'
    BY <1>1, <1>3 DEF DispatcherInv, SnapshotKnown
<1>5. StaleIsPast'
    BY <1>1 DEF DispatcherInv, StaleIsPast
<1>6. ChunkBounds' /\ StaleSendsBounded'
    BY <1>1 DEF DispatcherInv, ChunkBounds, InHand, StaleSendsBounded
<1>7. Range(workers)' = Listed' /\ IsFiniteSet(Listed)' /\ Lists(workers, Listed)'
    <2>1. Lists(workers, Listed)'
        BY DEF Lists, DealtBefore, Offset
    <2> QED
        BY <1>2, <2>1
<1> QED
    BY <1>4, <1>5, <1>6, <1>7 DEF DispatcherInv

\* Steps that do not change the list.
LEMMA QuietSession ==
    ASSUME DispatcherInv, NEW w \in WorkerIds, NEW to \in SessionSteps,
           session' = [session EXCEPT ![w] = to], UNCHANGED <<workers, schedulerVars, stale>>,
           \/ to # "down" /\ (Registered(w) <=> to \in {"up", "unregister", "unregistering"})
              /\ session[w] # "down" /\ stream' = stream
           \/ /\ session[w] = "down" /\ to = "register"
              /\ \E p \in TurnPaths : stream' = [stream EXCEPT
                     ![w] = [id |-> w, incarnation_id |-> @.incarnation_id + 1, turn_path |-> p]]
              /\ stream[w].incarnation_id < MaxIncarnations,
           loaded' \in [WorkerIds -> Seq(Streams)]
    PROVE  DispatcherInv'
<1> USE DEF DispatcherInv
<1>1. /\ workers' = workers /\ snapshot' = snapshot /\ worker_count' = worker_count /\ cursors' = cursors
      /\ ticket' = ticket /\ stale' = stale
    BY DEF schedulerVars
<1>2. session \in [WorkerIds -> SessionSteps] /\ stream \in [WorkerIds -> Streams]
      /\ \A v \in WorkerIds : stream[v].id = v
    BY DEF DispatcherTypes
<1>3. /\ stream' \in [WorkerIds -> Streams] /\ \A v \in WorkerIds : stream'[v].id = v
      /\ \A v \in WorkerIds : v # w => stream'[v] = stream[v]
      /\ stream'[w] = stream[w] \/ stream'[w].incarnation_id = stream[w].incarnation_id + 1
    <2>1. CASE stream' = stream
        BY <1>2, <2>1
    <2>2. ASSUME NEW p \in TurnPaths, stream[w].incarnation_id < MaxIncarnations,
                 stream' = [stream EXCEPT ![w] =
                     [id |-> w, incarnation_id |-> @.incarnation_id + 1, turn_path |-> p]]
          PROVE  /\ stream' \in [WorkerIds -> Streams] /\ \A v \in WorkerIds : stream'[v].id = v
                 /\ \A v \in WorkerIds : v # w => stream'[v] = stream[v]
                 /\ stream'[w].incarnation_id = stream[w].incarnation_id + 1
        <3> DEFINE n == stream[w].incarnation_id
                   r == [id |-> w, incarnation_id |-> n + 1, turn_path |-> p]
        <3>1. n \in Nat /\ n < MaxIncarnations /\ MaxIncarnations \in Nat
            BY <1>2, <2>2, StreamFields, DispatcherConstants
        <3>2. stream' = [stream EXCEPT ![w] = r]
            BY <2>2
        <3> HIDE DEF n
        <3>3. n + 1 \in 0 .. MaxIncarnations
            BY <3>1
        <3>4. r \in Streams /\ r.id = w /\ r.incarnation_id = n + 1
            BY <3>3 DEF Streams
        <3> HIDE DEF r
        <3> QED
            BY <1>2, <3>2, <3>4 DEF n
    <2> QED
        BY <2>1, <2>2
<1>4. session' \in [WorkerIds -> SessionSteps] /\ session'[w] = to
      /\ \A v \in WorkerIds : v # w => session'[v] = session[v]
    BY <1>2
<1>5. DispatcherTypes'
    BY <1>1, <1>3, <1>4 DEF DispatcherTypes
<1>6. \A v \in WorkerIds : Registered(v)' <=> Registered(v)
    BY <1>2, <1>4 DEF Registered
<1>7. \A v \in WorkerIds : Registered(v) => stream'[v] = stream[v]
    BY <1>3 DEF Registered
<1>8. Listed' = Listed
    BY <1>6, <1>7 DEF Listed
<1>9. ASSUME NEW s \in Streams, Past(s) PROVE Past(s)'
    <2>1. s.id \in WorkerIds /\ s.incarnation_id \in Nat
        BY StreamFields
    <2>2. stream[s.id].incarnation_id \in Nat
        BY <1>2, <2>1, StreamFields
    <2>3. CASE s.id # w
        BY <1>3, <1>4, <1>9, <2>1, <2>3 DEF Past
    <2>4. CASE s.id = w /\ stream' = stream /\ session[w] # "down"
        BY <1>9, <2>4 DEF Past
    <2>5. CASE s.id = w /\ session[w] = "down"
        <3> DEFINE m == s.incarnation_id
                   n == stream[w].incarnation_id
                   k == stream'[w].incarnation_id
        <3>1. m <= n
            BY <1>9, <2>1, <2>2, <2>5 DEF Past
        <3>2. k = n + 1
            BY <1>2, <2>5, DispatcherConstants
        <3>3. m \in Nat /\ n \in Nat
            BY <2>1, <2>2, <2>5
        <3> HIDE DEF m, n, k
        <3>4. m < k
            BY <3>1, <3>2, <3>3
        <3> QED
            BY <2>5, <3>4 DEF Past, m, k
    <2> QED
        BY <2>3, <2>4, <2>5
<1>10. \A s \in Streams : s = stream[s.id] /\ Registered(s.id) => s = stream'[s.id] /\ Registered(s.id)'
    BY <1>6, <1>7, StreamFields
<1>11. IsFiniteSet(Listed') /\ Lists(workers', Listed')
    BY <1>1, <1>8
<1> QED
    BY <1>5, <1>9, <1>10, <1>11, SessionKeeps

\* A swap that goes through was built from the list it replaces.
LEMMA ListChanges ==
    ASSUME DispatcherInv, NEW w \in WorkerIds, NEW to \in SessionSteps,
           session' = [session EXCEPT ![w] = to], UNCHANGED <<stream, schedulerVars, stale>>,
           \/ session[w] = "registering" /\ to = "up" /\ workers' = Added(workers, stream[w])
           \/ session[w] = "unregistering" /\ to = "down" /\ workers' = Removed(workers, stream[w]),
           loaded' \in [WorkerIds -> Seq(Streams)]
    PROVE  DispatcherInv'
<1> USE DEF DispatcherInv
<1>1. /\ snapshot' = snapshot /\ worker_count' = worker_count /\ cursors' = cursors
      /\ ticket' = ticket /\ stale' = stale /\ stream' = stream
    BY DEF schedulerVars
<1>2. session \in [WorkerIds -> SessionSteps] /\ stream \in [WorkerIds -> Streams]
      /\ \A v \in WorkerIds : stream[v].id = v
    BY DEF DispatcherTypes
<1>3. session' \in [WorkerIds -> SessionSteps] /\ session'[w] = to
      /\ \A v \in WorkerIds : v # w => session'[v] = session[v]
    BY <1>2
<1>4. \A v \in WorkerIds : v # w => (Registered(v)' <=> Registered(v))
    BY <1>3 DEF Registered
<1> DEFINE st == stream[w]
           L == Listed
<1>5. st \in Streams /\ st.id = w
    BY <1>2
<1>6. \A x \in L : x = stream[x.id] /\ x.id \in WorkerIds /\ Registered(x.id) /\ x \in Streams
    BY <1>2 DEF Listed
<1>7. IsFiniteSet(Listed') /\ workers' = InterleaveTurnPaths(Listed')
    <2>1. CASE session[w] = "registering" /\ to = "up" /\ workers' = Added(workers, st)
        <3>1. ~ Registered(w) /\ Registered(w)'
            BY <1>3, <2>1 DEF Registered
        <3>2. {x \in L : x.id # st.id} = L
            BY <1>5, <1>6, <3>1
        <3>3. Listed' = L \union {st}
            BY <1>1, <1>4, <3>1 DEF Listed
        <3>4. workers' = InterleaveTurnPaths({x \in L : x.id # st.id} \union {st})
            BY <2>1 DEF Added
        <3>5. IsFiniteSet(L \union {st})
            BY FS_AddElement
        <3> HIDE DEF L
        <3> QED
            BY <3>2, <3>3, <3>4, <3>5
    <2>2. CASE session[w] = "unregistering" /\ to = "down" /\ workers' = Removed(workers, st)
        <3>1. Registered(w) /\ ~ Registered(w)'
            BY <1>3, <2>2 DEF Registered
        <3> DEFINE R == {x \in L : x.id # st.id \/ x.incarnation_id # st.incarnation_id}
        <3>2. R = L \ {st}
            BY <1>5, <1>6
        <3>3. Listed' = L \ {st}
            <4>1. ASSUME NEW x \in Listed' PROVE x \in L \ {st}
                BY <1>1, <1>2, <1>4, <3>1 DEF Listed
            <4>2. ASSUME NEW x \in L, x # st PROVE x \in Listed'
                <5>1. x = stream[x.id] /\ x.id \in WorkerIds /\ Registered(x.id)
                    BY <1>6
                <5>2. x.id # w
                    BY <4>2, <5>1
                <5>3. Registered(x.id)'
                    BY <1>4, <5>1, <5>2
                <5> QED
                    BY <1>1, <5>1, <5>3 DEF Listed
            <4> QED
                BY <4>1, <4>2
        <3>4. workers' = InterleaveTurnPaths(R)
            BY <2>2 DEF Removed
        <3>5. IsFiniteSet(L \ {st})
            BY FS_RemoveElement
        <3> HIDE DEF L, R
        <3> QED
            BY <3>2, <3>3, <3>4, <3>5
    <2> QED
        BY <2>1, <2>2
<1>8. StreamSet(Listed')
    <2>1. \A x \in Listed' : x \in Streams /\ x = stream[x.id]
        BY <1>1, <1>2 DEF Listed
    <2> QED
        BY <1>7, <2>1 DEF StreamSet
<1>9. Lists(workers', Listed')
    BY <1>7, <1>8, Interleaved
<1>10. workers' \in Seq(Streams)
    <2>1. workers' \in Seq(Listed') /\ Listed' \subseteq Streams
        BY <1>8, <1>9 DEF Lists, StreamSet
    <2> QED
        BY <2>1
<1>11. DispatcherTypes'
    BY <1>1, <1>3, <1>10 DEF DispatcherTypes
<1>12. \A s \in Streams : Past(s) => Past(s)'
    <2> SUFFICES ASSUME NEW s \in Streams, Past(s) PROVE Past(s)'
        OBVIOUS
    <2>1. s.id \in WorkerIds
        BY StreamFields
    <2> QED
        BY <1>1, <1>3, <2>1 DEF Past
<1>13. ASSUME NEW s \in Streams, s = stream[s.id], Registered(s.id)
       PROVE  Past(s)' \/ (s = stream'[s.id] /\ Registered(s.id)')
    <2>1. s.id \in WorkerIds
        BY StreamFields
    <2>2. CASE s.id # w
        BY <1>1, <1>4, <1>13, <2>1, <2>2
    <2>3. CASE s.id = w
        BY <1>1, <1>3, <1>13, <2>3 DEF Past, Registered
    <2> QED
        BY <2>2, <2>3
<1> QED
    BY <1>7, <1>9, <1>11, <1>12, <1>13, SessionKeeps

LEMMA SessionStepKeeps ==
    ASSUME DispatcherInv, NEW w \in WorkerIds, SessionStep(w)
    PROVE  DispatcherInv'
<1>1. /\ loaded \in [WorkerIds -> Seq(Streams)] /\ workers \in Seq(Streams) /\ << >> \in Seq(Streams)
      /\ session \in [WorkerIds -> SessionSteps]
    BY DEF DispatcherInv, DispatcherTypes
<1>2. CASE Connect(w)
    <2>1. "register" \in SessionSteps /\ loaded' \in [WorkerIds -> Seq(Streams)]
        BY <1>1, <1>2 DEF Connect, SessionSteps
    <2> QED
        BY <1>2, <2>1, QuietSession DEF Connect
<1>3. CASE RegisterLoad(w) \/ UnregisterLoad(w) \/ Disconnect(w)
    <2>1. loaded' \in [WorkerIds -> Seq(Streams)]
        BY <1>1, <1>3 DEF RegisterLoad, UnregisterLoad, Disconnect, LoadList
    <2>2. PICK to \in {"registering", "unregistering", "unregister"} :
              /\ session' = [session EXCEPT ![w] = to]
              /\ Registered(w) <=> to \in {"up", "unregister", "unregistering"}
              /\ session[w] # "down"
        BY <1>3 DEF RegisterLoad, UnregisterLoad, Disconnect, LoadList, Registered
    <2>3. UNCHANGED <<workers, stream, schedulerVars, stale>>
        BY <1>3 DEF RegisterLoad, UnregisterLoad, Disconnect
    <2>4. to \in SessionSteps /\ to # "down"
        BY DEF SessionSteps
    <2> QED
        BY <2>1, <2>2, <2>3, <2>4, QuietSession
<1>4. CASE (RegisterSwap(w) \/ UnregisterSwap(w)) /\ ~ NobodyElseSwapped(w)
    <2>1. loaded' \in [WorkerIds -> Seq(Streams)]
        BY <1>1, <1>4 DEF RegisterSwap, UnregisterSwap, SwapList
    <2>2. PICK to \in {"register", "unregister"} :
              /\ session' = [session EXCEPT ![w] = to]
              /\ Registered(w) <=> to \in {"up", "unregister", "unregistering"}
              /\ session[w] # "down"
        BY <1>4 DEF RegisterSwap, UnregisterSwap, SwapList, Registered
    <2>3. UNCHANGED <<workers, stream, schedulerVars, stale>>
        BY <1>4 DEF RegisterSwap, UnregisterSwap, SwapList
    <2>4. to \in SessionSteps /\ to # "down"
        BY DEF SessionSteps
    <2> QED
        BY <2>1, <2>2, <2>3, <2>4, QuietSession
<1>5. CASE (RegisterSwap(w) \/ UnregisterSwap(w)) /\ NobodyElseSwapped(w)
    <2>1. loaded' \in [WorkerIds -> Seq(Streams)]
        BY <1>1, <1>5 DEF RegisterSwap, UnregisterSwap, SwapList
    <2>2. UNCHANGED <<stream, schedulerVars, stale>> /\ loaded[w] = workers
        BY <1>5 DEF RegisterSwap, UnregisterSwap, NobodyElseSwapped
    <2>3. "up" \in SessionSteps /\ "down" \in SessionSteps
        BY DEF SessionSteps
    <2>4. CASE RegisterSwap(w)
        <3>1. session[w] = "registering" /\ session' = [session EXCEPT ![w] = "up"]
              /\ workers' = Added(workers, stream[w])
            BY <1>5, <2>2, <2>4 DEF RegisterSwap, SwapList
        <3> QED
            BY <2>1, <2>2, <2>3, <3>1, ListChanges
    <2>5. CASE UnregisterSwap(w)
        <3>1. session[w] = "unregistering" /\ session' = [session EXCEPT ![w] = "down"]
              /\ workers' = Removed(workers, stream[w])
            BY <1>5, <2>2, <2>5 DEF UnregisterSwap, SwapList
        <3> QED
            BY <2>1, <2>2, <2>3, <3>1, ListChanges
    <2> QED
        BY <1>5, <2>4, <2>5
<1> QED
    BY <1>2, <1>3, <1>4, <1>5 DEF SessionStep

-----------------------------------------------------------------------------
(***************************************************************************)
(* The scheduler                                                           *)
(***************************************************************************)
LEMMA SchedulerKeeps ==
    ASSUME DispatcherInv, UNCHANGED sessionVars, DispatcherTypes', ChunkBounds', StaleSendsBounded',
           \A s \in Range(snapshot') : Past(s) \/ (s = stream[s.id] /\ Registered(s.id)),
           \A c \in Classes, s \in Streams : stale'[c][s] # 0 => Past(s)
    PROVE  DispatcherInv'
<1>1. workers' = workers /\ session' = session /\ stream' = stream
    BY DEF sessionVars
<1>2. Listed' = Listed
    BY <1>1 DEF Listed, Registered
<1>3. \A s : (Past(s)' <=> Past(s)) /\ (Registered(s.id)' <=> Registered(s.id))
    BY <1>1 DEF Past, Registered
<1>4. SnapshotKnown' /\ StaleIsPast'
    BY <1>1, <1>3 DEF SnapshotKnown, StaleIsPast
<1>5. Range(workers)' = Listed' /\ IsFiniteSet(Listed)' /\ Lists(workers, Listed)'
    BY <1>1, <1>2 DEF DispatcherInv, Lists
<1> QED
    BY <1>4, <1>5 DEF DispatcherInv

\* A registered stream has not been sent to in vain.
LEMMA ListedNotPast ==
    ASSUME DispatcherInv, NEW s \in Range(workers)
    PROVE  /\ s \in Streams /\ ~ Past(s) /\ s = stream[s.id] /\ Registered(s.id)
           /\ \A c \in Classes : stale[c][s] = 0
<1>1. s \in Streams /\ s = stream[s.id] /\ Registered(s.id)
    BY DEF DispatcherInv, DispatcherTypes, Listed
<1>2. s.incarnation_id \in Nat
    BY <1>1, StreamFields
<1>3. ~ Past(s)
    BY <1>1, <1>2 DEF Past, Registered
<1> QED
    BY <1>1, <1>3 DEF DispatcherInv, StaleIsPast

LEMMA BeginKeeps ==
    ASSUME DispatcherInv, NEW c \in Classes, Begin(c)
    PROVE  DispatcherInv'
<1> DEFINE list == IF Reload(c) THEN workers ELSE snapshot
           synced == SyncedCursors(Len(list))
           slot == synced[c].current_worker
           left == Left(synced[c].remaining, c)
           next == IF left # 0 THEN slot ELSE IF slot + 1 = Len(list) THEN 0 ELSE slot + 1
           moved == [synced EXCEPT ![c] = [current_worker |-> next, remaining |-> left]]
           Chunk(d) == StreamChunk[d]
           Rest(d) == cursors[d].remaining
<1>1. /\ ticket = NoTicket /\ snapshot' = list /\ worker_count' = Len(list)
      /\ \/ Len(list) = 0 /\ cursors' = synced /\ ticket' = ticket
         \/ Len(list) # 0 /\ cursors' = moved /\ ticket' = [class |-> c, start_slot |-> slot]
      /\ UNCHANGED sessionVars /\ stale' = stale
    BY DEF Begin
<1>2. /\ workers \in Seq(Streams) /\ snapshot \in Seq(Streams) /\ worker_count = Len(snapshot)
      /\ cursors \in [Classes -> [current_worker : Nat, remaining : Nat]]
      /\ stale \in [Classes -> [Streams -> Nat]]
    BY DEF DispatcherInv, DispatcherTypes
<1>3. list \in Seq(Streams) /\ Len(list) \in Nat
    BY <1>2
<1>4. \A d \in Classes : Chunk(d) \in Nat /\ Chunk(d) >= 1 /\ Rest(d) \in Nat /\ Rest(d) <= Chunk(d) - 1
    BY <1>2, DispatcherConstants DEF DispatcherInv, DispatcherTypes
<1>5. /\ synced \in [Classes -> [current_worker : Nat, remaining : Nat]]
      /\ \A d \in Classes : synced[d].remaining \in Nat /\ synced[d].remaining <= Chunk(d) - 1
    <2>1. CASE synced = cursors
        BY <1>2, <1>4, <2>1
    <2>2. CASE synced = FreshCursors
        <3>1. \A d \in Classes : FreshCursors[d].remaining = 0
            BY DEF FreshCursors
        <3>2. FreshCursors \in [Classes -> [current_worker : Nat, remaining : Nat]]
            BY DEF FreshCursors
        <3> HIDE DEF Chunk
        <3> QED
            BY <1>4, <2>2, <3>1, <3>2
    <2> QED
        BY <2>1, <2>2 DEF SyncedCursors
<1>6. ~ Reload(c) => synced = cursors /\ Rest(c) >= 1
    <2> SUFFICES ASSUME ~ Reload(c) PROVE synced = cursors /\ Rest(c) >= 1
        OBVIOUS
    <2>1. list = snapshot /\ Rest(c) # 0
        BY DEF Reload
    <2> QED
        BY <1>2, <1>4, <2>1 DEF SyncedCursors
<1>7. Reload(c) => synced[c].remaining = 0
    BY DEF SyncedCursors, FreshCursors, Reload
<1>8. /\ left \in Nat /\ left <= Chunk(c) - 1
      /\ ~ Reload(c) => left = Rest(c) - 1
    <2> DEFINE r == synced[c].remaining
    <2>1. r \in Nat /\ r <= Chunk(c) - 1 /\ left = (IF r = 0 THEN Chunk(c) ELSE r) - 1
        BY <1>5 DEF Left
    <2>2. ~ Reload(c) => r = Rest(c) /\ Rest(c) >= 1
        BY <1>6
    <2> HIDE DEF r, left, synced, Chunk, Rest
    <2> QED
        BY <1>4, <2>1, <2>2
<1>9. slot \in Nat /\ next \in Nat
    BY <1>3, <1>5
<1> HIDE DEF list, synced, slot, left, next
<1>10. /\ moved \in [Classes -> [current_worker : Nat, remaining : Nat]]
       /\ moved[c].remaining = left /\ \A d \in Classes : d # c => moved[d] = synced[d]
    BY <1>5, <1>8, <1>9
<1>11. [class |-> c, start_slot |-> slot] # NoTicket
       /\ [class |-> c, start_slot |-> slot] \in [class : Classes, start_slot : Nat]
    BY <1>9 DEF NoTicket
<1> HIDE DEF moved, Chunk, Rest
<1>12. DispatcherTypes'
    <2>1. cursors' \in [Classes -> [current_worker : Nat, remaining : Nat]]
        BY <1>1, <1>5, <1>10
    <2>2. \A d \in Classes : cursors'[d].remaining <= Chunk(d) - 1
        BY <1>1, <1>5, <1>8, <1>10
    <2>3. ticket' \in [class : Classes, start_slot : Nat] \union {NoTicket}
        BY <1>1, <1>11
    <2>4. snapshot' \in Seq(Streams) /\ worker_count' = Len(snapshot')
        BY <1>1, <1>3
    <2> QED
        BY <1>1, <2>1, <2>2, <2>3, <2>4 DEF DispatcherInv, DispatcherTypes, sessionVars, Chunk
<1>13. \A s \in Range(snapshot') : Past(s) \/ (s = stream[s.id] /\ Registered(s.id))
    <2>1. CASE Reload(c)
        BY <1>1, <2>1, ListedNotPast DEF list
    <2>2. CASE ~ Reload(c)
        BY <1>1, <2>2 DEF list, DispatcherInv, SnapshotKnown
    <2> QED
        BY <2>1, <2>2
<1>14. ASSUME NEW d \in Classes, NEW s \in Range(snapshot')
       PROVE  stale'[d][s] + InHand(d)' + cursors'[d].remaining <= StreamChunk[d]
    <2>1. Len(list) # 0
        <3>1. DOMAIN list = 1 .. Len(list) /\ s \in Range(list)
            BY <1>1, <1>3
        <3> QED
            BY <3>1 DEF Range
    <2>2. cursors' = moved /\ ticket' = [class |-> c, start_slot |-> slot]
        BY <1>1, <2>1
    <2>3. s \in Streams
        BY <1>1, <1>3 DEF Range
    <2> DEFINE x == stale[d][s]
               y == cursors'[d].remaining
               z == synced[d].remaining
    <2>4. x \in Nat /\ stale'[d][s] = x
        BY <1>1, <1>2, <2>3
    <2>5. InHand(d)' = (IF d = c THEN 1 ELSE 0)
        BY <1>11, <2>2 DEF InHand
    <2>6. d = c => y = left
        BY <1>10, <2>2
    <2>7. d # c => y = z
        BY <1>10, <2>2
    <2>8. z \in Nat /\ z <= Chunk(d) - 1
        BY <1>5
    <2>9. CASE Reload(c)
        <3>1. x = 0
            BY <1>1, <2>9, ListedNotPast DEF list
        <3>2. 0 + InHand(d)' + y <= Chunk(d)
            <4> HIDE DEF y, z
            <4>1. CASE d = c
                BY <1>4, <1>8, <2>5, <2>6, <4>1
            <4>2. CASE d # c
                BY <1>4, <2>5, <2>7, <2>8, <4>2
            <4> QED
                BY <4>1, <4>2
        <3> QED
            BY <2>4, <3>1, <3>2 DEF Chunk
    <2>10. CASE ~ Reload(c)
        <3>1. s \in Range(snapshot) /\ synced = cursors
            BY <1>1, <1>6, <2>10 DEF list
        <3>2. InHand(d) = 0
            BY <1>1 DEF InHand
        <3>3. x + 0 + Rest(d) <= Chunk(d)
            BY <3>1, <3>2 DEF DispatcherInv, ChunkBounds, Rest, Chunk
        <3>4. z = Rest(d)
            BY <3>1 DEF Rest
        <3>5. x + InHand(d)' + y <= Chunk(d)
            <4> HIDE DEF x, y, z
            <4>1. CASE d = c
                BY <1>4, <1>8, <2>4, <2>5, <2>6, <2>10, <3>3, <4>1
            <4>2. CASE d # c
                BY <1>4, <2>4, <2>5, <2>7, <3>3, <3>4, <4>2
            <4> QED
                BY <4>1, <4>2
        <3> QED
            BY <2>4, <3>5 DEF Chunk
    <2> QED
        BY <2>9, <2>10
<1>15. ChunkBounds'
    BY <1>14 DEF ChunkBounds
<1>16. StaleSendsBounded' /\ \A d \in Classes, s \in Streams : stale'[d][s] # 0 => Past(s)
    BY <1>1 DEF DispatcherInv, StaleSendsBounded, StaleIsPast
<1> QED
    BY <1>1, <1>12, <1>13, <1>15, <1>16, SchedulerKeeps

LEMMA EnqueueKeeps ==
    ASSUME DispatcherInv, Enqueue
    PROVE  DispatcherInv'
<1> DEFINE c == ticket.class
           s == Chosen
<1>1. /\ ticket # NoTicket /\ ticket' = NoTicket /\ UNCHANGED <<sessionVars, snapshot, worker_count, cursors>>
      /\ \/ InRange /\ s \notin Range(workers) /\ stale' = [stale EXCEPT ![c][s] = @ + 1]
         \/ stale' = stale
    BY DEF Enqueue
<1>2. ticket \in [class : Classes, start_slot : Nat] /\ c \in Classes
    BY <1>1 DEF DispatcherInv, DispatcherTypes
<1>3. snapshot \in Seq(Streams) /\ stale \in [Classes -> [Streams -> Nat]]
    BY DEF DispatcherInv, DispatcherTypes
<1>4. InRange => s \in Range(snapshot) /\ s \in Streams
    <2> DEFINE k == ticket.start_slot
    <2>1. k \in Nat /\ s = snapshot[k + 1] /\ DOMAIN snapshot = 1 .. Len(snapshot) /\ Len(snapshot) \in Nat
        BY <1>2, <1>3 DEF Chosen
    <2>2. InRange => k < Len(snapshot)
        BY DEF InRange
    <2> HIDE DEF k
    <2>3. InRange => k + 1 \in 1 .. Len(snapshot)
        BY <2>1, <2>2
    <2> QED
        BY <1>3, <2>1, <2>3 DEF Range
<1> HIDE DEF s
<1>5. InHand(c) = 1 /\ \A d \in Classes : (d # c => InHand(d) = 0) /\ InHand(d)' = 0
    BY <1>1 DEF InHand
<1> HIDE DEF c
<1>6. \A d \in Classes : cursors'[d].remaining = cursors[d].remaining /\ cursors[d].remaining \in Nat
    BY <1>1 DEF DispatcherInv, DispatcherTypes
<1>7. \A d \in Classes : StreamChunk[d] \in Nat
    BY DispatcherConstants
<1>8. CASE stale' = stale
    <2>1. DispatcherTypes'
        BY <1>1, <1>8 DEF DispatcherInv, DispatcherTypes, sessionVars
    <2>2. ASSUME NEW d \in Classes, NEW t \in Range(snapshot)
          PROVE  stale'[d][t] + InHand(d)' + cursors'[d].remaining <= StreamChunk[d]
        <3> DEFINE x == stale[d][t]
                   r == cursors[d].remaining
                   h == InHand(d)
        <3>1. x + h + r <= StreamChunk[d]
            BY DEF DispatcherInv, ChunkBounds
        <3>2. x \in Nat /\ r \in Nat /\ h \in Nat
            <4>1. t \in Streams
                BY <1>3 DEF Range
            <4> QED
                BY <1>3, <1>6, <4>1 DEF InHand
        <3>3. stale'[d][t] = x /\ InHand(d)' = 0 /\ cursors'[d].remaining = r
            BY <1>5, <1>6, <1>8
        <3> HIDE DEF x, r, h
        <3>4. x + 0 + r <= StreamChunk[d]
            BY <1>7, <3>1, <3>2
        <3> QED
            BY <3>3, <3>4
    <2>3. ChunkBounds'
        BY <1>1, <2>2 DEF ChunkBounds
    <2>4. StaleSendsBounded' /\ \A d \in Classes, t \in Streams : stale'[d][t] # 0 => Past(t)
        BY <1>8 DEF DispatcherInv, StaleSendsBounded, StaleIsPast
    <2>5. \A t \in Range(snapshot') : Past(t) \/ (t = stream[t.id] /\ Registered(t.id))
        BY <1>1 DEF DispatcherInv, SnapshotKnown
    <2> QED
        BY <1>1, <2>1, <2>3, <2>4, <2>5, SchedulerKeeps
<1>9. CASE InRange /\ s \notin Range(workers) /\ stale' = [stale EXCEPT ![c][s] = @ + 1]
    <2>1. s \in Range(snapshot) /\ s \in Streams
        BY <1>4, <1>9
    <2>2. Past(s)
        <3>1. s \notin Listed
            BY <1>9 DEF DispatcherInv
        <3>2. ~ (s = stream[s.id] /\ Registered(s.id))
            BY <2>1, <3>1, StreamFields DEF Listed
        <3> QED
            BY <2>1, <3>2 DEF DispatcherInv, SnapshotKnown
    <2>3. /\ stale' \in [Classes -> [Streams -> Nat]] /\ stale'[c][s] = stale[c][s] + 1
          /\ \A d \in Classes, t \in Streams : d # c \/ t # s => stale'[d][t] = stale[d][t]
        BY <1>2, <1>3, <1>9, <2>1
    <2>4. DispatcherTypes'
        BY <1>1, <2>3 DEF DispatcherInv, DispatcherTypes, sessionVars
    <2>5. ASSUME NEW d \in Classes, NEW t \in Range(snapshot)
          PROVE  /\ stale'[d][t] + InHand(d)' + cursors'[d].remaining <= StreamChunk[d]
                 /\ stale'[d][t] <= StreamChunk[d]
        <3> DEFINE x == stale[d][t]
                   y == stale'[d][t]
                   r == cursors[d].remaining
                   h == InHand(d)
        <3>1. x + h + r <= StreamChunk[d]
            BY DEF DispatcherInv, ChunkBounds
        <3>2. t \in Streams
            BY <1>3 DEF Range
        <3>3. x \in Nat /\ y \in Nat /\ r \in Nat /\ h \in Nat
            BY <1>3, <1>6, <2>3, <3>2 DEF InHand
        <3>4. y = x \/ (y = x + 1 /\ h = 1)
            BY <1>5, <2>3, <3>2
        <3>5. InHand(d)' = 0 /\ cursors'[d].remaining = r
            BY <1>5, <1>6
        <3> HIDE DEF x, y, r, h
        <3>6. y + 0 + r <= StreamChunk[d] /\ y <= StreamChunk[d]
            BY <1>7, <3>1, <3>3, <3>4
        <3> QED
            BY <3>5, <3>6 DEF y
    <2>6. ChunkBounds'
        BY <1>1, <2>5 DEF ChunkBounds
    <2>7. StaleSendsBounded'
        <3>1. ASSUME NEW d \in Classes, NEW t \in Streams PROVE stale'[d][t] <= StreamChunk[d]
            <4>1. CASE d = c /\ t = s
                BY <2>1, <2>5, <4>1
            <4>2. CASE d # c \/ t # s
                BY <2>3, <4>2 DEF DispatcherInv, StaleSendsBounded
            <4> QED
                BY <4>1, <4>2
        <3> QED
            BY <3>1 DEF StaleSendsBounded
    <2>8. \A d \in Classes, t \in Streams : stale'[d][t] # 0 => Past(t)
        BY <2>2, <2>3 DEF DispatcherInv, StaleIsPast
    <2>9. \A t \in Range(snapshot') : Past(t) \/ (t = stream[t.id] /\ Registered(t.id))
        BY <1>1 DEF DispatcherInv, SnapshotKnown
    <2> QED
        BY <1>1, <2>4, <2>6, <2>7, <2>8, <2>9, SchedulerKeeps
<1> QED
    BY <1>1, <1>8, <1>9

-----------------------------------------------------------------------------
(***************************************************************************)
(* The theorems                                                            *)
(***************************************************************************)
LEMMA DispatcherInit == Init => DispatcherInv
<1> SUFFICES ASSUME Init PROVE DispatcherInv
    OBVIOUS
<1> DEFINE path == CHOOSE p \in TurnPaths : TRUE
<1>1. path \in TurnPaths
    BY DispatcherConstants, Zenon
<1> HIDE DEF path
<1>2. /\ workers = << >> /\ session = [w \in WorkerIds |-> "down"]
      /\ stream = [w \in WorkerIds |-> [id |-> w, incarnation_id |-> 0, turn_path |-> path]]
      /\ loaded = [w \in WorkerIds |-> << >>] /\ snapshot = << >> /\ worker_count = 0
      /\ cursors = FreshCursors /\ ticket = NoTicket /\ stale = [c \in Classes |-> [s \in Streams |-> 0]]
    BY DEF Init, path
<1>3. \A c \in Classes : StreamChunk[c] \in Nat /\ StreamChunk[c] >= 1
    BY DispatcherConstants
<1>4. DispatcherTypes
    <2>1. session \in [WorkerIds -> SessionSteps] /\ loaded \in [WorkerIds -> Seq(Streams)]
        BY <1>2 DEF SessionSteps
    <2>2. stream \in [WorkerIds -> Streams] /\ \A w \in WorkerIds : stream[w].id = w
        BY <1>1, <1>2, DispatcherConstants DEF Streams
    <2>3. cursors \in [Classes -> [current_worker : Nat, remaining : Nat]]
          /\ \A c \in Classes : cursors[c].remaining = 0
        BY <1>2 DEF FreshCursors
    <2>4. \A c \in Classes : cursors[c].remaining <= StreamChunk[c] - 1
        BY <1>3, <2>3
    <2>5. workers \in Seq(Streams) /\ snapshot \in Seq(Streams) /\ worker_count = Len(snapshot)
        BY <1>2
    <2>6. stale \in [Classes -> [Streams -> Nat]] /\ ticket = NoTicket
        BY <1>2
    <2> QED
        BY <2>1, <2>2, <2>3, <2>4, <2>5, <2>6 DEF DispatcherTypes
<1>5. Listed = {} /\ IsFiniteSet(Listed) /\ Cardinality(Listed) = 0
    <2>1. Listed = {}
        BY <1>2 DEF Listed, Registered
    <2> QED
        BY <2>1, FS_EmptySet
<1>6. Range(<< >>) = {}
    BY DEF Range
<1>7. Lists(workers, Listed)
    <2>1. workers \in Seq({}) /\ Len(workers) = 0 /\ \A i \in 1 .. 0 : FALSE
        BY <1>2
    <2> QED
        BY <1>2, <1>5, <1>6, <2>1 DEF Lists
<1>8. SnapshotKnown /\ ChunkBounds
    BY <1>2, <1>6 DEF SnapshotKnown, ChunkBounds
<1>9. StaleIsPast /\ StaleSendsBounded
    BY <1>2, <1>3 DEF StaleIsPast, StaleSendsBounded
<1> QED
    BY <1>2, <1>4, <1>5, <1>6, <1>7, <1>8, <1>9 DEF DispatcherInv

LEMMA DispatcherNext == DispatcherInv /\ [Next]_vars => DispatcherInv'
<1> SUFFICES ASSUME DispatcherInv, [Next]_vars PROVE DispatcherInv'
    OBVIOUS
<1>1. ASSUME NEW w \in WorkerIds, SessionStep(w) PROVE DispatcherInv'
    BY <1>1, SessionStepKeeps
<1>2. ASSUME NEW c \in Classes, Begin(c) PROVE DispatcherInv'
    BY <1>2, BeginKeeps
<1>3. CASE Enqueue
    BY <1>3, EnqueueKeeps
<1>4. CASE UNCHANGED vars
    <2>1. UNCHANGED <<sessionVars, snapshot, worker_count, cursors, ticket, stale>>
        BY <1>4 DEF vars, schedulerVars
    <2>2. DispatcherTypes'
        BY <2>1 DEF DispatcherInv, DispatcherTypes, sessionVars
    <2>3. ChunkBounds' /\ StaleSendsBounded'
        BY <2>1 DEF DispatcherInv, ChunkBounds, InHand, StaleSendsBounded
    <2>4. /\ \A s \in Range(snapshot') : Past(s) \/ (s = stream[s.id] /\ Registered(s.id))
          /\ \A c \in Classes, s \in Streams : stale'[c][s] # 0 => Past(s)
        BY <2>1 DEF DispatcherInv, SnapshotKnown, StaleIsPast
    <2> QED
        BY <2>1, <2>2, <2>3, <2>4, SchedulerKeeps
<1> QED
    BY <1>1, <1>2, <1>3, <1>4 DEF Next

\* The invariant of Dispatcher and FastPathScheduler: the published list is the dealt-out
\* list of the registered streams, and what the scheduler may still do with an old one.
THEOREM DispatcherInvariant == Spec => []DispatcherInv
<1> QED
    BY DispatcherInit, DispatcherNext, PTL DEF Spec

\* register and unregister through rcu lose no stream, keep none and list none twice,
\* however many sessions come and go at once.
THEOREM RegistryAlwaysExact == Spec => []RegistryIsExact
<1>1. DispatcherInv => RegistryIsExact
    <2> SUFFICES ASSUME DispatcherInv PROVE RegistryIsExact
        OBVIOUS
    <2>1. Range(workers) = Listed /\ Len(workers) = Cardinality(Listed)
        BY DEF DispatcherInv, Lists
    <2> QED
        BY <2>1 DEF RegistryIsExact, Listed, Registered
<1> QED
    BY <1>1, DispatcherInvariant, PTL

\* interleave_turn_paths: consecutive streams of the published list run over one TURN
\* path only when no stream of another path is left.
THEOREM PathsAlwaysAlternate == Spec => []PathsAlternate
<1>1. DispatcherInv => PathsAlternate
    <2> SUFFICES ASSUME DispatcherInv PROVE PathsAlternate
        OBVIOUS
    <2>1. StreamSet(Listed) /\ Lists(workers, Listed)
        BY ListedStreams DEF DispatcherInv, DispatcherTypes
    <2> QED
        BY <2>1, Alternating DEF PathsAlternate
<1> QED
    BY <1>1, DispatcherInvariant, PTL

\* begin and dispatch_now: a stream that has been unregistered gets at most one chunk of
\* each class, whatever the chunks of the other classes do to the shared snapshot.
THEOREM StaleSendsAreBounded == Spec => []StaleSendsBounded
<1>1. DispatcherInv => StaleSendsBounded
    BY DEF DispatcherInv
<1> QED
    BY <1>1, DispatcherInvariant, PTL

\* Lists, tickets and cursors keep their types and a cursor never more than a chunk.
THEOREM DispatcherTypeCorrect == Spec => []TypeOK
<1>1. DispatcherInv => TypeOK
    <2> SUFFICES ASSUME DispatcherInv PROVE TypeOK
        OBVIOUS
    <2>1. \A c \in Classes : cursors[c].current_worker \in Nat /\ cursors[c].remaining \in 0 .. StreamChunk[c] - 1
        BY DispatcherConstants DEF DispatcherInv, DispatcherTypes
    <2>2. worker_count \in Nat
        BY DEF DispatcherInv, DispatcherTypes
    <2> QED
        BY <2>1, <2>2 DEF DispatcherInv, DispatcherTypes, TypeOK
<1> QED
    BY <1>1, DispatcherInvariant, PTL

(***************************************************************************)
(* Flow frames: the numbers behind the wire                                *)
(***************************************************************************)
\* Half the sequence space is a number, and more than the frames in flight.
LEMMA HalfSpace ==
    /\ Half \in Nat \ {0} /\ SeqSpace = 2 * Half /\ SeqSpace \in Nat \ {0}
    /\ MaxFrames \in Nat /\ MaxFrames < Half
<1>1. ASSUME NEW m \in Nat, m % 2 = 0 PROVE m \div 2 \in Nat /\ m = 2 * (m \div 2)
    BY <1>1
<1> QED
    BY <1>1, FlowFrameConstants DEF Half

\* What travels of a number is its remainder; the rest is the laps it has made.
LEMMA WireDivision ==
    ASSUME NEW n \in Nat
    PROVE  /\ Wire(n) \in 0 .. SeqSpace - 1
           /\ \E q \in Nat : n = SeqSpace * q + Wire(n)
<1>1. ASSUME NEW m \in Nat \ {0} PROVE n \div m \in Nat /\ n % m \in 0 .. m - 1 /\ n = m * (n \div m) + (n % m)
    OBVIOUS
<1> QED
    BY <1>1, HalfSpace DEF Wire

\* The lap of a number is fixed by where in the sequence space it lies.
LEMMA SameLap ==
    ASSUME NEW m \in Nat \ {0}, NEW p \in Int, NEW q \in Int, NEW d \in Int,
           m * p = m * q + d, d < m, d > -m
    PROVE  p = q /\ d = 0
<1>1. m * (p - q) = d
    OBVIOUS
<1>2. p - q >= 1 => m * (p - q) >= m
    OBVIOUS
<1>3. q - p >= 1 => m * (q - p) >= m
    OBVIOUS
<1> QED
    BY <1>1, <1>2, <1>3

\* Numbers less than the sequence space apart are told apart on the wire.
LEMMA WireInjective ==
    ASSUME NEW a \in Nat, NEW b \in Nat, Wire(a) = Wire(b), a - b < SeqSpace, b - a < SeqSpace
    PROVE  a = b
<1>1. PICK p \in Nat : a = SeqSpace * p + Wire(a)
    BY WireDivision
<1>2. PICK q \in Nat : b = SeqSpace * q + Wire(b)
    BY WireDivision
<1>3. Wire(a) \in Int /\ Wire(b) \in Int /\ SeqSpace \in Nat \ {0}
    BY WireDivision, HalfSpace
<1>4. SeqSpace * p = SeqSpace * q + (a - b)
    <2> DEFINE x == SeqSpace * p
               y == SeqSpace * q
    <2>1. x \in Int /\ y \in Int
        BY <1>3
    <2>2. a = x + Wire(a) /\ b = y + Wire(a)
        BY <1>1, <1>2
    <2> HIDE DEF x, y
    <2>3. x = y + (a - b)
        BY <1>3, <2>1, <2>2
    <2> QED
        BY <2>3 DEF x, y
<1>5. a - b = 0
    BY <1>3, <1>4, SameLap
<1> QED
    BY <1>5

\* Counting on from a wire number is counting on from the number itself.
LEMMA WireStep ==
    ASSUME NEW n \in Nat, NEW i \in Nat
    PROVE  Wire(Wire(n) + i) = Wire(n + i)
<1>1. PICK p \in Nat : n = SeqSpace * p + Wire(n)
    BY WireDivision
<1>2. Wire(n) \in Nat /\ SeqSpace \in Nat \ {0}
    BY WireDivision, HalfSpace
<1>3. PICK q \in Nat : Wire(n) + i = SeqSpace * q + Wire(Wire(n) + i)
    <2>1. Wire(n) + i \in Nat
        BY <1>2
    <2> QED
        BY <2>1, WireDivision
<1>4. PICK r \in Nat : n + i = SeqSpace * r + Wire(n + i)
    BY WireDivision
<1>5. Wire(Wire(n) + i) \in 0 .. SeqSpace - 1 /\ Wire(n + i) \in 0 .. SeqSpace - 1
    BY <1>2, WireDivision
<1>6. SeqSpace * r = SeqSpace * (p + q) + (Wire(Wire(n) + i) - Wire(n + i))
    <2> DEFINE x == SeqSpace * p
               y == SeqSpace * q
               z == SeqSpace * r
    <2>1. x \in Int /\ y \in Int /\ z \in Int /\ SeqSpace * (p + q) = x + y
        BY <1>2
    <2>2. /\ n = x + Wire(n) /\ Wire(n) + i = y + Wire(Wire(n) + i) /\ n + i = z + Wire(n + i)
          /\ Wire(Wire(n) + i) \in Int /\ Wire(n + i) \in Int
        BY <1>1, <1>3, <1>4, <1>5
    <2> HIDE DEF x, y, z
    <2>3. z = x + y + (Wire(Wire(n) + i) - Wire(n + i))
        BY <1>2, <2>1, <2>2
    <2> QED
        BY <2>1, <2>3 DEF z
<1>7. Wire(Wire(n) + i) - Wire(n + i) = 0
    <2>1. /\ r \in Int /\ p + q \in Int /\ Wire(Wire(n) + i) - Wire(n + i) \in Int
          /\ Wire(Wire(n) + i) - Wire(n + i) < SeqSpace
          /\ Wire(Wire(n) + i) - Wire(n + i) > -SeqSpace
        BY <1>2, <1>5
    <2> QED
        BY <2>1, <1>2, <1>6, SameLap
<1> QED
    BY <1>5, <1>7

\* is_forward compares the numbers themselves, as long as they lie less than a
\* sequence space ahead of the release point or at most half a space behind it.
LEMMA WireForward ==
    ASSUME NEW p \in Nat, NEW e \in Nat, p - e < SeqSpace, e - p <= Half,
           IsForward(Wire(p), Wire(e))
    PROVE  p > e /\ Distance(Wire(p), Wire(e)) = p - e
<1>1. PICK j \in Nat : p = SeqSpace * j + Wire(p)
    BY WireDivision
<1>2. PICK k \in Nat : e = SeqSpace * k + Wire(e)
    BY WireDivision
<1>3. /\ Wire(p) \in 0 .. SeqSpace - 1 /\ Wire(e) \in 0 .. SeqSpace - 1
      /\ Half \in Nat \ {0} /\ SeqSpace = 2 * Half /\ SeqSpace \in Nat \ {0}
    BY WireDivision, HalfSpace
<1> DEFINE x == Wire(p) + SeqSpace - Wire(e)
<1>4. x \in Nat /\ x = (p - e) + SeqSpace * (k + 1 - j)
    <2> DEFINE a == SeqSpace * j
               c == SeqSpace * k
               y == SeqSpace * (k + 1 - j)
    <2>1. a \in Int /\ c \in Int /\ y = c + SeqSpace - a
        BY <1>3
    <2>2. p = a + Wire(p) /\ e = c + Wire(e)
        BY <1>1, <1>2
    <2> HIDE DEF a, c, y
    <2>3. x \in Nat /\ x = (p - e) + y
        BY <1>3, <2>1, <2>2
    <2> QED
        BY <2>3 DEF y
<1>5. PICK t \in Nat : x = SeqSpace * t + (x % SeqSpace)
    BY <1>4, WireDivision DEF Wire
<1>6. x % SeqSpace \in 0 .. SeqSpace - 1
    BY <1>4, WireDivision DEF Wire
<1>7. p # e
    BY DEF IsForward
<1>8. Distance(Wire(p), Wire(e)) = x % SeqSpace
    BY DEF Distance
<1>9. x % SeqSpace < Half
    BY <1>8 DEF IsForward
<1>12. SeqSpace \in Nat \ {0}
    BY <1>3
<1> HIDE DEF x
<1>10. CASE p > e
    <2>1. SeqSpace * t = SeqSpace * (k + 1 - j) + ((p - e) - (x % SeqSpace))
        <3> DEFINE a == SeqSpace * t
                   y == SeqSpace * (k + 1 - j)
                   z == x % SeqSpace
        <3>1. a \in Int /\ y \in Int /\ z \in Int /\ x = a + z /\ x = (p - e) + y
            BY <1>3, <1>4, <1>5, <1>6
        <3> HIDE DEF a, y, z
        <3>2. a = y + ((p - e) - z)
            BY <3>1
        <3> QED
            BY <3>2 DEF a, y, z
    <2>2. (p - e) - (x % SeqSpace) = 0
        <3>1. t \in Int /\ k + 1 - j \in Int /\ (p - e) - (x % SeqSpace) \in Int
            BY <1>6
        <3>2. (p - e) - (x % SeqSpace) < SeqSpace /\ (p - e) - (x % SeqSpace) > -SeqSpace
            BY <1>10, <1>6, <1>3
        <3> QED
            BY <2>1, <3>1, <3>2, <1>12, SameLap
    <2>3. x % SeqSpace = p - e
        BY <2>2, <1>6
    <2> QED
        BY <2>3, <1>8, <1>10
<1>11. CASE p < e
    <2>1. SeqSpace * t = SeqSpace * (k - j) + ((SeqSpace - (e - p)) - (x % SeqSpace))
        <3> DEFINE a == SeqSpace * t
                   y == SeqSpace * (k - j)
                   z == x % SeqSpace
        <3>1. SeqSpace * (k + 1 - j) = y + SeqSpace
            BY <1>3
        <3>2. a \in Int /\ y \in Int /\ z \in Int /\ x = a + z /\ x = (p - e) + (y + SeqSpace)
            BY <1>3, <1>4, <1>5, <1>6, <3>1
        <3> HIDE DEF a, y, z
        <3>3. a = y + ((SeqSpace - (e - p)) - z)
            BY <1>12, <3>2
        <3> QED
            BY <3>3 DEF a, y, z
    <2>2. (SeqSpace - (e - p)) - (x % SeqSpace) = 0
        <3>1. t \in Int /\ k - j \in Int /\ (SeqSpace - (e - p)) - (x % SeqSpace) \in Int
            BY <1>6, <1>3
        <3>2. /\ (SeqSpace - (e - p)) - (x % SeqSpace) < SeqSpace
              /\ (SeqSpace - (e - p)) - (x % SeqSpace) > -SeqSpace
            BY <1>11, <1>6, <1>3
        <3> QED
            BY <2>1, <3>1, <3>2, <1>12, SameLap
    <2>3. x % SeqSpace = SeqSpace - (e - p)
        BY <2>2, <1>3, <1>6
    <2> QED
        BY <2>3, <1>9, <1>3, <1>11
<1> QED
    BY <1>7, <1>10, <1>11

\* A strict total order of a finite set has a first element.
LEMMA FirstElement ==
    ASSUME NEW S, IsFiniteSet(S), S # {}, NEW B, Precede(S, B)
    PROVE  \E x \in S : B[x] = {}
<1>1. /\ Cardinality(S) \in Nat
      /\ \A x \in S : Cardinality(B[x]) \in 0 .. Cardinality(S) - 1
      /\ \A x, y \in S : y \in B[x] <=> Cardinality(B[y]) < Cardinality(B[x])
      /\ \A k \in 0 .. Cardinality(S) - 1 : \E x \in S : Cardinality(B[x]) = k
    BY Ranks
<1>2. Cardinality(S) # 0
    BY FS_EmptySet
<1>3. PICK x \in S : Cardinality(B[x]) = 0
    BY <1>1, <1>2
<1>4. B[x] \in SUBSET S
    BY DEF Precede
<1> QED
    BY <1>3, <1>4, FS_Subset, FS_EmptySet

\* A set of naturals that is finite and not empty has a least element.
LEMMA LeastElement ==
    ASSUME NEW S \in SUBSET Nat, IsFiniteSet(S), S # {}
    PROVE  \E x \in S : \A y \in S : x <= y
<1> DEFINE B == [x \in S |-> {y \in S : y < x}]
<1>1. Precede(S, B)
    <2>1. B \in [S -> SUBSET S]
        OBVIOUS
    <2>2. \A x \in S : x \notin B[x]
        OBVIOUS
    <2>3. \A x, y \in S : x # y => x \in B[y] \/ y \in B[x]
        OBVIOUS
    <2>4. ASSUME NEW x \in S, NEW y \in S, y \in B[x], NEW z \in B[y] PROVE z \in B[x]
        <3>1. x \in Nat /\ y \in Nat /\ z \in S /\ z \in Nat /\ y < x /\ z < y
            BY <2>4
        <3> QED
            BY <3>1
    <2> HIDE DEF B
    <2> QED
        BY <2>1, <2>2, <2>3, <2>4 DEF Precede
<1>2. PICK x \in S : B[x] = {}
    <2> HIDE DEF B
    <2> QED
        BY <1>1, FirstElement, Zenon
<1>3. ASSUME NEW y \in S PROVE x <= y
    <2>1. y \notin {z \in S : z < x}
        BY <1>2
    <2> QED
        BY <2>1
<1> QED
    BY <1>3

(***************************************************************************)
(* One flow under push_at                                                  *)
(***************************************************************************)
\* The numbers of a flow that began at b.
Span(b) == b .. b + MaxFrames - 1

OutputOf(s) == {s[i] : i \in DOMAIN s}

Ascending(s) == \A i, j \in DOMAIN s : i < j => s[i] < s[j]

\* All numbers in s lie from lo up to, and not including, hi.
Between(s, lo, hi) == \A i \in DOMAIN s : lo <= s[i] /\ s[i] < hi

\* The len numbers from e on.
Run(e, len) == [i \in 1 .. len |-> e + i - 1]

\* A working record whose release point, the number `expected` stands for, is e
\* and was e0 when the packet came in: what it has put out lies between the two.
Working(w, b, e0, e) ==
    /\ w \in [expected : 0 .. SeqSpace - 1, gap : {"none", "running", "expired"},
              pending : SUBSET Span(b), total : Nat, out : Seq(Span(b))]
    /\ w.expected = Wire(e)
    /\ e0 <= e /\ e <= b + Half /\ b + MaxFrames <= e + SeqSpace
    /\ Ascending(w.out)
    /\ Between(w.out, e0, e)

\* The frames of the flow that are held or have just gone out.
Frames(w) == w.pending \union OutputOf(w.out)

\* Giving up gaps moves held frames to the output, and that is all it does with them.
GivesUp(w, v) == v.pending \subseteq w.pending /\ Frames(v) = Frames(w)

\* The counter counts the frames held here and the r frames held by the other flows.
Balanced(w, r) == w.total = r + Cardinality(w.pending)

\* The numbers of a flow are finitely many, MaxFrames at most.
LEMMA SpanFacts ==
    ASSUME NEW b \in Nat, NEW P \in SUBSET Span(b)
    PROVE  /\ IsFiniteSet(P) /\ Cardinality(P) \in Nat /\ Cardinality(P) <= MaxFrames
           /\ \A p \in P : p \in Nat /\ b <= p /\ p < b + MaxFrames
<1>1. b + MaxFrames - 1 \in Int /\ MaxFrames \in Nat
    BY HalfSpace
<1>2. IsFiniteSet(Span(b)) /\ Cardinality(Span(b)) = MaxFrames
    BY <1>1, FS_Interval DEF Span
<1>3. IsFiniteSet(P) /\ Cardinality(P) <= Cardinality(Span(b))
    BY <1>2, FS_Subset
<1> QED
    BY <1>1, <1>2, <1>3, FS_CardinalityType DEF Span

\* The first number from e on that is not held is found among as many numbers as
\* there are frames held, and one more.
LEMMA FirstMissing ==
    ASSUME NEW b \in Nat, NEW P \in SUBSET Span(b), NEW e \in Nat
    PROVE  \E k \in 0 .. Cardinality(P) :
               e + k \notin P /\ \A i \in 0 .. k - 1 : e + i \in P
<1> DEFINE c == Cardinality(P)
           K == {k \in 0 .. c : e + k \notin P}
<1>1. IsFiniteSet(P) /\ c \in Nat /\ P \subseteq Nat
    BY SpanFacts
<1>2. K # {}
    <2>1. SUFFICES ASSUME \A k \in 0 .. c : e + k \in P PROVE FALSE
        OBVIOUS
    <2>2. (e .. e + c) \subseteq P
        <3>1. ASSUME NEW p \in e .. e + c PROVE p \in P
            <4>1. p - e \in 0 .. c /\ p = e + (p - e)
                BY <1>1
            <4> QED
                BY <4>1, <2>1
        <3> QED
            BY <3>1
    <2>3. Cardinality(e .. e + c) = c + 1
        BY <1>1, FS_Interval
    <2>4. Cardinality(e .. e + c) <= c
        BY <1>1, <2>2, FS_Subset
    <2> QED
        BY <1>1, <2>3, <2>4
<1>3. K \in SUBSET Nat /\ IsFiniteSet(K)
    <2>1. IsFiniteSet(0 .. c)
        BY <1>1, FS_Interval
    <2>2. K \subseteq 0 .. c
        OBVIOUS
    <2> QED
        BY <1>1, <2>1, <2>2, FS_Subset
<1>4. PICK k \in K : \A j \in K : k <= j
    <2> HIDE DEF K
    <2> QED
        BY <1>2, <1>3, LeastElement
<1>5. ASSUME NEW i \in 0 .. k - 1 PROVE e + i \in P
    <2>1. i \in 0 .. c /\ ~ (k <= i)
        BY <1>1, <1>3
    <2> QED
        BY <2>1, <1>4
<1> QED
    BY <1>4, <1>5

\* What two outputs put out together.
LEMMA OutputOfAppend ==
    ASSUME NEW S, NEW s \in Seq(S), NEW t \in Seq(S)
    PROVE  OutputOf(s \o t) = OutputOf(s) \union OutputOf(t)
<1>1. /\ Len(s) \in Nat /\ Len(t) \in Nat /\ DOMAIN s = 1 .. Len(s) /\ DOMAIN t = 1 .. Len(t)
      /\ DOMAIN (s \o t) = 1 .. Len(s) + Len(t)
    OBVIOUS
<1>2. \A i \in 1 .. Len(s) : (s \o t)[i] = s[i]
    OBVIOUS
<1>3. \A i \in 1 .. Len(s) + Len(t) : i > Len(s) => (s \o t)[i] = t[i - Len(s)] /\ i - Len(s) \in 1 .. Len(t)
    OBVIOUS
<1>4. ASSUME NEW i \in 1 .. Len(t) PROVE t[i] = (s \o t)[Len(s) + i] /\ Len(s) + i \in 1 .. Len(s) + Len(t)
    BY <1>1, <1>3
<1>5. OutputOf(s \o t) \subseteq OutputOf(s) \union OutputOf(t)
    BY <1>1, <1>2, <1>3 DEF OutputOf
<1>6. OutputOf(s) \subseteq OutputOf(s \o t)
    BY <1>1, <1>2 DEF OutputOf
<1>7. OutputOf(t) \subseteq OutputOf(s \o t)
    BY <1>1, <1>4 DEF OutputOf
<1> QED
    BY <1>5, <1>6, <1>7

\* What one more packet adds to the output.
LEMMA OutputOfOne ==
    ASSUME NEW S, NEW s \in Seq(S), NEW x \in S
    PROVE  OutputOf(Append(s, x)) = OutputOf(s) \union {x}
<1>1. /\ Len(s) \in Nat /\ DOMAIN s = 1 .. Len(s)
      /\ DOMAIN Append(s, x) = 1 .. Len(s) + 1
    OBVIOUS
<1>2. \A i \in 1 .. Len(s) : Append(s, x)[i] = s[i]
    OBVIOUS
<1>3. Append(s, x)[Len(s) + 1] = x
    OBVIOUS
<1> QED
    BY <1>1, <1>2, <1>3 DEF OutputOf

\* A run of frames behind an output is itself ascending.
LEMMA AppendRun ==
    ASSUME NEW b \in Nat, NEW s \in Seq(Span(b)), NEW e0 \in Nat, NEW e \in Nat, NEW len \in Nat,
           e0 <= e, Ascending(s), Between(s, e0, e), \A i \in 1 .. len : e + i - 1 \in Span(b)
    PROVE  /\ s \o Run(e, len) \in Seq(Span(b)) /\ Ascending(s \o Run(e, len))
           /\ Between(s \o Run(e, len), e0, e + len)
           /\ Run(e, len) \in Seq(Span(b))
<1> DEFINE r == Run(e, len)
<1>0. r = [i \in 1 .. len |-> e + i - 1]
    BY DEF Run
<1> HIDE DEF r
<1>1. r \in Seq(Span(b)) /\ Len(r) = len /\ DOMAIN r = 1 .. len
    <2>1. r \in [1 .. len -> Span(b)]
        BY <1>0
    <2> QED
        BY <2>1
<1> DEFINE t == s \o r
<1>2. t \in Seq(Span(b))
    BY <1>1
<1>3. Len(s) \in Nat /\ DOMAIN s = 1 .. Len(s) /\ DOMAIN t = 1 .. Len(s) + len
    BY <1>1
<1>4. \A i \in 1 .. Len(s) : t[i] = s[i]
    BY <1>1
<1>5. \A i \in 1 .. Len(s) + len : i > Len(s) => t[i] = r[i - Len(s)] /\ i - Len(s) \in 1 .. len
    BY <1>1
<1>6. \A i \in 1 .. len : r[i] = e + i - 1
    BY <1>0
<1>7. \A i \in 1 .. Len(s) + len : i > Len(s) => t[i] = e + (i - Len(s)) - 1
    BY <1>5, <1>6
<1>8. \A i \in DOMAIN s : s[i] \in Nat /\ e0 <= s[i] /\ s[i] < e
    BY HalfSpace DEF Span, Between
<1> HIDE DEF t
<1>9. Ascending(t)
    <2>1. ASSUME NEW i \in DOMAIN t, NEW j \in DOMAIN t, i < j PROVE t[i] < t[j]
        <3>1. CASE j <= Len(s)
            BY <2>1, <3>1, <1>3, <1>4 DEF Ascending
        <3>2. CASE i <= Len(s) /\ j > Len(s)
            BY <2>1, <3>2, <1>3, <1>4, <1>7, <1>8
        <3>3. CASE i > Len(s)
            BY <2>1, <3>3, <1>3, <1>7
        <3> QED
            BY <2>1, <3>1, <3>2, <3>3, <1>3
    <2> QED
        BY <2>1 DEF Ascending
<1>10. ASSUME NEW i \in DOMAIN t PROVE e0 <= t[i] /\ t[i] < e + len
    <2>1. CASE i <= Len(s)
        BY <2>1, <1>3, <1>4, <1>8
    <2>2. CASE i > Len(s)
        BY <2>2, <1>3, <1>7
    <2> QED
        BY <2>1, <2>2, <1>3
<1> QED
    BY <1>1, <1>2, <1>9, <1>10 DEF t, r, Between

\* drain_contiguous hands out the frames that follow the release point without a gap.
LEMMA Drains ==
    ASSUME NEW b \in Nat, NEW e0 \in Nat, NEW e \in Nat, NEW w, Working(w, b, e0, e)
    PROVE  \E f \in Nat : LET v == DrainContiguous(w) IN
              /\ e <= f /\ Working(v, b, e0, f) /\ GivesUp(w, v)
              /\ v.total = w.total /\ v.gap = w.gap
<1> DEFINE P == w.pending
           At(i) == {p \in w.pending : Wire(p) = Wire(w.expected + i)}
           len == CHOOSE k \in 0 .. Cardinality(w.pending) :
                     At(k) = {} /\ \A i \in 0 .. k - 1 : At(i) # {}
           run == [i \in 1 .. len |-> CHOOSE p \in At(i - 1) : TRUE]
           v == [w EXCEPT !.expected = Wire(@ + len),
                          !.pending  = @ \ {run[i] : i \in 1 .. len},
                          !.out      = @ \o run]
<1>1. DrainContiguous(w) = v
    BY DEF DrainContiguous
<1>2. /\ P \in SUBSET Span(b) /\ Cardinality(P) \in Nat /\ Cardinality(P) <= MaxFrames
      /\ \A p \in P : p \in Nat /\ b <= p /\ p < b + MaxFrames
    <2>1. P \in SUBSET Span(b)
        BY DEF Working
    <2> QED
        BY <2>1, SpanFacts
<1>3. /\ w.expected = Wire(e) /\ e0 <= e /\ e <= b + Half /\ b + MaxFrames <= e + SeqSpace
      /\ Ascending(w.out) /\ w.out \in Seq(Span(b))
      /\ Between(w.out, e0, e)
    BY DEF Working
<1>4. ASSUME NEW i \in 0 .. Cardinality(P) PROVE At(i) = {p \in {e + i} : p \in P}
    <2>1. Wire(w.expected + i) = Wire(e + i)
        BY <1>2, <1>3, WireStep
    <2>2. ASSUME NEW p \in P, Wire(p) = Wire(e + i) PROVE p = e + i
        <3>1. p \in Nat /\ e + i \in Nat /\ p - (e + i) < SeqSpace /\ (e + i) - p < SeqSpace
            BY <1>2, <1>3, HalfSpace
        <3> QED
            BY <2>2, <3>1, WireInjective
    <2> QED
        BY <2>1, <2>2
<1> HIDE DEF At
<1>5. /\ len \in 0 .. Cardinality(P)
      /\ e + len \notin P
      /\ \A i \in 0 .. len - 1 : e + i \in P
    <2>1. PICK k \in 0 .. Cardinality(P) : e + k \notin P /\ \A i \in 0 .. k - 1 : e + i \in P
        BY <1>2, FirstMissing
    <2>2. At(k) = {} /\ \A i \in 0 .. k - 1 : At(i) # {}
        BY <1>2, <1>4, <2>1
    <2>3. len \in 0 .. Cardinality(w.pending) /\ At(len) = {} /\ \A i \in 0 .. len - 1 : At(i) # {}
        BY <2>2
    <2> HIDE DEF len
    <2>4. \A i \in 0 .. len - 1 : i \in 0 .. Cardinality(P)
        BY <1>2, <2>3
    <2> QED
        BY <1>2, <1>4, <2>3, <2>4
<1> HIDE DEF len
<1>6. ASSUME NEW i \in 1 .. len PROVE run[i] = e + i - 1
    <2>1. i - 1 \in 0 .. Cardinality(P) /\ i - 1 \in 0 .. len - 1 /\ e + (i - 1) = e + i - 1
        BY <1>2, <1>5
    <2>2. At(i - 1) = {e + i - 1}
        BY <1>4, <1>5, <2>1
    <2>3. run[i] = CHOOSE p \in At(i - 1) : TRUE
        OBVIOUS
    <2> QED
        BY <2>2, <2>3
<1>7. run = Run(e, len)
    BY <1>6 DEF Run
<1>8. \A i \in 1 .. len : e + i - 1 \in P
    <2>1. \A i \in 1 .. len : i - 1 \in 0 .. len - 1 /\ e + (i - 1) = e + i - 1
        BY <1>2, <1>5
    <2> QED
        BY <1>5, <2>1
<1> HIDE DEF run
<1>0. OutputOf(run) = {run[i] : i \in 1 .. len} /\ OutputOf(run) \subseteq P
    BY <1>6, <1>7, <1>8 DEF OutputOf, Run
<1>9. /\ w.out \o run \in Seq(Span(b)) /\ Ascending(w.out \o run)
      /\ Between(w.out \o run, e0, e + len)
      /\ OutputOf(w.out \o run) = OutputOf(w.out) \union OutputOf(run)
    <2>1. len \in Nat
        BY <1>2, <1>5
    <2>2. \A i \in 1 .. len : e + i - 1 \in Span(b)
        BY <1>2, <1>8
    <2> DEFINE s == w.out
    <2>3. s \in Seq(Span(b)) /\ e0 <= e /\ Ascending(s) /\ Between(s, e0, e)
        BY <1>3
    <2> HIDE DEF s
    <2>4. /\ s \o Run(e, len) \in Seq(Span(b)) /\ Ascending(s \o Run(e, len))
          /\ Between(s \o Run(e, len), e0, e + len)
          /\ Run(e, len) \in Seq(Span(b))
        BY <2>1, <2>2, <2>3, AppendRun
    <2>5. OutputOf(s \o Run(e, len)) = OutputOf(s) \union OutputOf(Run(e, len))
        BY <2>3, <2>4, OutputOfAppend
    <2> QED
        BY <2>4, <2>5, <1>7 DEF s
<1>10. e + len \in Nat /\ e <= e + len /\ e + len <= b + Half
    <2>1. len \in Nat
        BY <1>2, <1>5
    <2>2. len > 0 => e + len - 1 < b + MaxFrames
        BY <1>2, <1>8, <2>1
    <2>3. e + len <= b + Half
        BY <1>3, <2>1, <2>2, HalfSpace
    <2> QED
        BY <2>1, <2>3
<1>11. Wire(w.expected + len) = Wire(e + len) /\ Wire(e + len) \in 0 .. SeqSpace - 1
    BY <1>2, <1>3, <1>5, <1>10, WireStep, WireDivision
<1>12. /\ v.expected = Wire(e + len) /\ v.gap = w.gap /\ v.total = w.total
       /\ v.pending = P \ OutputOf(run) /\ v.out = w.out \o run
       /\ v \in [expected : 0 .. SeqSpace - 1, gap : {"none", "running", "expired"},
                 pending : SUBSET Span(b), total : Nat, out : Seq(Span(b))]
    BY <1>0, <1>9, <1>11 DEF Working
<1> HIDE DEF v, P
<1>14. Working(v, b, e0, e + len)
    BY <1>3, <1>9, <1>10, <1>12, HalfSpace DEF Working
<1>15. GivesUp(w, v)
    BY <1>0, <1>9, <1>12 DEF GivesUp, Frames, P
<1> QED
    BY <1>1, <1>10, <1>12, <1>14, <1>15

\* A packet past all that was put out keeps the output in order.
LEMMA AppendOne ==
    ASSUME NEW b \in Nat, NEW s \in Seq(Span(b)), NEW e0 \in Nat, NEW e \in Nat, NEW n \in Span(b),
           Ascending(s), Between(s, e0, e), e0 <= e, e <= n
    PROVE  /\ Append(s, n) \in Seq(Span(b)) /\ Ascending(Append(s, n))
           /\ Between(Append(s, n), e0, n + 1)
<1> DEFINE t == Append(s, n)
<1>1. /\ t \in Seq(Span(b)) /\ Len(s) \in Nat
      /\ DOMAIN s = 1 .. Len(s) /\ DOMAIN t = 1 .. Len(s) + 1
    OBVIOUS
<1>2. (\A i \in 1 .. Len(s) : t[i] = s[i]) /\ t[Len(s) + 1] = n
    OBVIOUS
<1>3. n \in Nat /\ \A i \in 1 .. Len(s) : s[i] \in Nat
    BY <1>1, HalfSpace DEF Span
<1>4. \A i \in 1 .. Len(s) : e0 <= s[i] /\ s[i] < e
    BY <1>1 DEF Between
<1> HIDE DEF t
<1>5. ASSUME NEW i \in DOMAIN t, NEW j \in DOMAIN t, i < j PROVE t[i] < t[j]
    <2>1. CASE j <= Len(s)
        BY <1>1, <1>2, <1>5, <2>1 DEF Ascending
    <2>2. CASE j = Len(s) + 1
        BY <1>1, <1>2, <1>3, <1>4, <1>5, <2>2
    <2> QED
        BY <1>1, <2>1, <2>2
<1>6. ASSUME NEW i \in DOMAIN t PROVE e0 <= t[i] /\ t[i] < n + 1
    <2>1. CASE i <= Len(s)
        BY <1>1, <1>2, <1>3, <1>4, <2>1
    <2>2. CASE i = Len(s) + 1
        BY <1>1, <1>2, <1>3, <2>2
    <2> QED
        BY <1>1, <2>1, <2>2
<1> QED
    BY <1>1, <1>5, <1>6 DEF t, Ascending, Between

\* A frame at or past the release point goes out, and the release point moves behind it.
LEMMA Advances ==
    ASSUME NEW b \in Nat, NEW e0 \in Nat, NEW e \in Nat, NEW w, Working(w, b, e0, e),
           NEW n \in Span(b), e <= n,
           NEW v, v \in [expected : {Wire(n + 1)}, gap : {"none"}, pending : SUBSET Span(b),
                         total : {w.total}, out : {Append(w.out, n)}]
    PROVE  n + 1 \in Nat /\ Working(v, b, e0, n + 1)
<1>1. n \in Nat /\ b <= n /\ n < b + MaxFrames
    BY HalfSpace DEF Span
<1>2. /\ w.out \in Seq(Span(b)) /\ w.total \in Nat /\ Ascending(w.out) /\ Between(w.out, e0, e)
      /\ e0 <= e /\ e <= b + Half /\ b + MaxFrames <= e + SeqSpace
    BY DEF Working
<1>3. /\ Append(w.out, n) \in Seq(Span(b)) /\ Ascending(Append(w.out, n))
      /\ Between(Append(w.out, n), e0, n + 1)
    BY <1>2, AppendOne
<1>4. Wire(n + 1) \in 0 .. SeqSpace - 1
    BY <1>1, WireDivision
<1>5. v \in [expected : 0 .. SeqSpace - 1, gap : {"none", "running", "expired"},
             pending : SUBSET Span(b), total : Nat, out : Seq(Span(b))]
    BY <1>2, <1>3, <1>4
<1>6. e0 <= n + 1 /\ n + 1 <= b + Half /\ b + MaxFrames <= n + 1 + SeqSpace
    BY <1>1, <1>2, HalfSpace
<1>7. v.expected = Wire(n + 1) /\ v.out = Append(w.out, n)
    OBVIOUS
<1> QED
    BY <1>1, <1>3, <1>5, <1>6, <1>7 DEF Working

\* Where a held or arriving frame lies relative to the release point.
LEMMA SpanForward ==
    ASSUME NEW b \in Nat, NEW e \in Nat, e <= b + Half, b + MaxFrames <= e + SeqSpace,
           NEW p \in Span(b)
    PROVE  /\ Wire(p) = Wire(e) => p = e
           /\ IsForward(Wire(p), Wire(e)) => p > e /\ Distance(Wire(p), Wire(e)) = p - e
<1>1. p \in Nat /\ b <= p /\ p < b + MaxFrames
    BY HalfSpace DEF Span
<1>2. p - e < SeqSpace /\ e - p <= Half /\ e - p < SeqSpace
    BY <1>1, HalfSpace
<1> QED
    BY <1>1, <1>2, WireInjective, WireForward

\* release_lowest: either a held frame goes out, or none was ahead and only the
\* clock of the gap stops.
LEMMA ReleasesLowest ==
    ASSUME NEW b \in Nat, NEW e0 \in Nat, NEW e \in Nat, NEW w, Working(w, b, e0, e)
    PROVE  \E f \in Nat : LET v == ReleaseLowest(w) IN
              /\ e <= f /\ Working(v, b, e0, f) /\ GivesUp(w, v) /\ v.total = w.total
              /\ \/ \E p \in w.pending : p \notin v.pending
                 \/ /\ f = e /\ v = [w EXCEPT !.gap = "none"]
                    /\ \A p \in w.pending : ~ IsForward(Wire(p), w.expected)
<1> DEFINE ahead == Ahead(w)
           lowest == NearestAhead(w)
           moved == [w EXCEPT !.expected = Wire(lowest + 1), !.pending = @ \ {lowest},
                              !.out = Append(@, lowest), !.gap = "none"]
           drained == DrainContiguous(moved)
           idle == [w EXCEPT !.gap = "none"]
           next == [drained EXCEPT !.gap = IF drained.pending = {} THEN @ ELSE "running"]
<1>0. ReleaseLowest(w) = IF ahead = {} THEN idle ELSE next
    BY ZenonT(60) DEF ReleaseLowest
<1> HIDE DEF idle, next
<1>1. /\ w.expected = Wire(e) /\ e0 <= e /\ e <= b + Half /\ b + MaxFrames <= e + SeqSpace
      /\ w.pending \in SUBSET Span(b)
      /\ w \in [expected : 0 .. SeqSpace - 1, gap : {"none", "running", "expired"},
                pending : SUBSET Span(b), total : Nat, out : Seq(Span(b))]
    BY DEF Working
<1>2. CASE ahead = {}
    <2>1. ReleaseLowest(w) = idle
        BY <1>0, <1>2
    <2>2. Working(idle, b, e0, e)
        BY <1>1 DEF Working, idle
    <2>3. GivesUp(w, idle) /\ idle.total = w.total
        BY <1>1 DEF GivesUp, Frames, idle
    <2>4. \A p \in w.pending : ~ IsForward(Wire(p), w.expected)
        BY <1>2 DEF Ahead
    <2> HIDE DEF ahead
    <2> QED
        BY <2>1, <2>2, <2>3, <2>4 DEF idle
<1>3. CASE ahead # {}
    <2>1. ReleaseLowest(w) = next
        BY <1>0, <1>3
    <2>17. ahead = {p \in w.pending : IsForward(Wire(p), w.expected)}
        BY DEF Ahead
    <2>18. lowest = CHOOSE p \in ahead : \A q \in ahead :
                        Distance(Wire(p), w.expected) <= Distance(Wire(q), w.expected)
        BY DEF NearestAhead
    <2> HIDE DEF ahead, lowest
    <2>2. IsFiniteSet(ahead) /\ ahead \in SUBSET Nat /\ ahead \subseteq w.pending
        BY <1>1, <2>17, SpanFacts, FS_Subset
    <2>3. \A p \in ahead : p \in Span(b) /\ p \in Nat /\ p > e /\ Distance(Wire(p), w.expected) = p - e
        BY <1>1, <2>2, <2>17, SpanForward
    <2>4. PICK low \in ahead : \A q \in ahead : low <= q
        <3> HIDE DEF ahead
        <3> QED
            BY <1>3, <2>2, LeastElement
    <2>5. \A q \in ahead : Distance(Wire(low), w.expected) <= Distance(Wire(q), w.expected)
        BY <2>3, <2>4
    <2>6. lowest \in ahead
        <3> HIDE DEF ahead
        <3> QED
            BY <2>5, <2>18
    <2>7. lowest \in w.pending /\ lowest \in Span(b) /\ lowest \in Nat /\ e <= lowest
        BY <2>2, <2>3, <2>6
    <2> HIDE DEF lowest, ahead
    <2>8. /\ moved \in [expected : {Wire(lowest + 1)}, gap : {"none"}, pending : SUBSET Span(b),
                        total : {w.total}, out : {Append(w.out, lowest)}]
          /\ moved.pending = w.pending \ {lowest} /\ moved.out = Append(w.out, lowest)
          /\ moved.total = w.total
        BY <1>1
    <2>9. lowest + 1 \in Nat /\ Working(moved, b, e0, lowest + 1)
        BY <2>7, <2>8, Advances
    <2>10. GivesUp(w, moved) /\ moved.total = w.total /\ lowest \notin moved.pending
        <3>1. OutputOf(Append(w.out, lowest)) = OutputOf(w.out) \union {lowest}
            BY <1>1, <2>7, OutputOfOne
        <3> QED
            BY <2>7, <2>8, <3>1 DEF GivesUp, Frames
    <2> HIDE DEF moved
    <2>11. PICK f \in Nat : /\ lowest + 1 <= f /\ Working(drained, b, e0, f) /\ GivesUp(moved, drained)
                            /\ drained.total = moved.total
        BY <2>9, Drains
    <2> HIDE DEF drained
    <2>12. next \in [expected : {drained.expected}, gap : {"none", "running", "expired"},
                  pending : {drained.pending}, total : {drained.total}, out : {drained.out}]
        BY <2>11 DEF Working, next
    <2>13. Working(next, b, e0, f)
        BY <2>11, <2>12 DEF Working
    <2>14. GivesUp(w, next) /\ next.total = w.total /\ lowest \notin next.pending
        BY <2>10, <2>11, <2>12 DEF GivesUp, Frames
    <2>15. e <= f
        BY <2>7, <2>11
    <2> QED
        BY <2>1, <2>7, <2>13, <2>14, <2>15
<1> QED
    BY <1>2, <1>3

\* pending_total follows a release: it counts what is held before and after.
LEMMA SettlesAccounts ==
    ASSUME NEW b \in Nat, NEW e0 \in Nat, NEW e \in Nat, NEW f \in Nat, NEW r \in Nat,
           NEW w, Working(w, b, e0, e), Balanced(w, r),
           NEW v, Working(v, b, e0, f), GivesUp(w, v), v.total = w.total
    PROVE  LET x == Accounted(w, v) IN
              /\ Working(x, b, e0, f) /\ Balanced(x, r) /\ GivesUp(w, x) /\ x.total <= w.total
              /\ x.pending = v.pending /\ x.expected = v.expected
              /\ (\E p \in w.pending : p \notin v.pending) => x.total < w.total
              /\ v.pending = w.pending => x.total = w.total
<1> DEFINE x == Accounted(w, v)
           cw == Cardinality(w.pending)
           cv == Cardinality(v.pending)
<1>1. /\ w.pending \in SUBSET Span(b) /\ v.pending \in SUBSET Span(b)
      /\ w.total \in Nat /\ v.total \in Nat
    BY DEF Working
<1>2. cw \in Nat /\ cv \in Nat /\ IsFiniteSet(w.pending) /\ IsFiniteSet(v.pending)
    BY <1>1, SpanFacts
<1>3. v.pending \subseteq w.pending
    BY DEF GivesUp
<1>4. cv <= cw /\ (cv = cw => v.pending = w.pending)
    BY <1>2, <1>3, FS_Subset
<1>5. w.total = r + cw
    BY DEF Balanced
<1> HIDE DEF cw, cv
<1>6. SatSub(w.total, SatSub(cw, cv)) = r + cv
    BY <1>1, <1>2, <1>4, <1>5 DEF SatSub
<1>7. x = [v EXCEPT !.total = r + cv]
    BY <1>6 DEF Accounted, cw, cv
<1>8. /\ x \in [expected : {v.expected}, gap : {v.gap}, pending : {v.pending}, total : {r + cv},
                out : {v.out}]
      /\ v \in [expected : 0 .. SeqSpace - 1, gap : {"none", "running", "expired"},
                pending : SUBSET Span(b), total : Nat, out : Seq(Span(b))]
    BY <1>7 DEF Working
<1> HIDE DEF x
<1>9. Working(x, b, e0, f)
    <2>1. x \in [expected : 0 .. SeqSpace - 1, gap : {"none", "running", "expired"},
                 pending : SUBSET Span(b), total : Nat, out : Seq(Span(b))]
        BY <1>2, <1>8
    <2>2. x.expected = v.expected /\ x.out = v.out
        BY <1>8
    <2> QED
        BY <2>1, <2>2 DEF Working
<1>10. x.pending = v.pending /\ x.expected = v.expected /\ x.out = v.out /\ x.total = r + cv
    BY <1>8
<1>11. Balanced(x, r)
    BY <1>10 DEF Balanced, cv
<1>12. GivesUp(w, x)
    BY <1>10 DEF GivesUp, Frames
<1>13. x.total <= w.total /\ (v.pending = w.pending => x.total = w.total)
    BY <1>2, <1>4, <1>5, <1>10 DEF cw, cv
<1>14. (\E p \in w.pending : p \notin v.pending) => x.total < w.total
    BY <1>2, <1>4, <1>5, <1>10
<1> QED
    BY <1>9, <1>10, <1>11, <1>12, <1>13, <1>14 DEF x

\* Giving up the oldest gap frees a frame, or no held frame is ahead of the release point.
LEMMA Relieves ==
    ASSUME NEW b \in Nat, NEW e0 \in Nat, NEW e \in Nat, NEW r \in Nat,
           NEW w, Working(w, b, e0, e), Balanced(w, r)
    PROVE  \E f \in Nat : LET v == Accounted(w, ReleaseLowest(w)) IN
              /\ e <= f /\ Working(v, b, e0, f) /\ Balanced(v, r) /\ GivesUp(w, v)
              /\ v.total <= w.total
              /\ \/ v.total < w.total
                 \/ /\ f = e /\ v.pending = w.pending /\ v.expected = w.expected /\ v.total = w.total
                    /\ \A p \in w.pending : ~ IsForward(Wire(p), w.expected)
<1> DEFINE y == ReleaseLowest(w)
           v == Accounted(w, y)
<1>1. PICK f \in Nat : /\ e <= f /\ Working(y, b, e0, f) /\ GivesUp(w, y) /\ y.total = w.total
                       /\ \/ \E p \in w.pending : p \notin y.pending
                          \/ /\ f = e /\ y = [w EXCEPT !.gap = "none"]
                             /\ \A p \in w.pending : ~ IsForward(Wire(p), w.expected)
    BY ReleasesLowest
<1> HIDE DEF y
<1>2. /\ Working(v, b, e0, f) /\ Balanced(v, r) /\ GivesUp(w, v) /\ v.total <= w.total
      /\ v.pending = y.pending /\ v.expected = y.expected
      /\ (\E p \in w.pending : p \notin y.pending) => v.total < w.total
      /\ y.pending = w.pending => v.total = w.total
    BY <1>1, SettlesAccounts
<1> HIDE DEF v
<1>3. y = [w EXCEPT !.gap = "none"] => y.pending = w.pending /\ y.expected = w.expected
    BY DEF Working
<1>4. \/ v.total < w.total
      \/ /\ f = e /\ v.pending = w.pending /\ v.expected = w.expected /\ v.total = w.total
         /\ \A p \in w.pending : ~ IsForward(Wire(p), w.expected)
    BY <1>1, <1>2, <1>3
<1> QED
    BY <1>1, <1>2, <1>4 DEF v, y

\* The same after a gap deadline, which need not have passed.
LEMMA Expires ==
    ASSUME NEW b \in Nat, NEW e0 \in Nat, NEW e \in Nat, NEW r \in Nat,
           NEW w, Working(w, b, e0, e), Balanced(w, r)
    PROVE  \E f \in Nat : LET v == Accounted(w, ReleaseExpired(w)) IN
              /\ e <= f /\ Working(v, b, e0, f) /\ Balanced(v, r) /\ GivesUp(w, v)
              /\ v.total <= w.total
              /\ w.gap # "expired" => v.pending = w.pending /\ v.expected = w.expected
<1>1. CASE w.gap = "expired"
    <2>1. ReleaseExpired(w) = ReleaseLowest(w)
        BY <1>1 DEF ReleaseExpired
    <2> QED
        BY <1>1, <2>1, Relieves
<1>2. CASE w.gap # "expired"
    <2>1. ReleaseExpired(w) = w
        BY <1>2 DEF ReleaseExpired
    <2>2. GivesUp(w, w)
        BY DEF GivesUp
    <2> DEFINE v == Accounted(w, w)
    <2>3. /\ Working(v, b, e0, e) /\ Balanced(v, r) /\ GivesUp(w, v) /\ v.total <= w.total
          /\ v.pending = w.pending /\ v.expected = w.expected
        BY <2>2, SettlesAccounts
    <2> HIDE DEF v
    <2>4. e <= e
        OBVIOUS
    <2> QED
        BY <2>1, <2>3, <2>4 DEF v
<1> QED
    BY <1>1, <1>2

\* One frame has come in, and no other has come or gone.
Gains(w, v, n) == Frames(v) = Frames(w) \union {n}

\* A record that only differs in its clock is still one of the same flow.
LEMMA Clocked ==
    ASSUME NEW b \in Nat, NEW e0 \in Nat, NEW e \in Nat, NEW r \in Nat,
           NEW w, Working(w, b, e0, e), Balanced(w, r), NEW g \in {"none", "running", "expired"},
           NEW v, v = [w EXCEPT !.gap = g]
    PROVE  /\ Working(v, b, e0, e) /\ Balanced(v, r) /\ Frames(v) = Frames(w)
           /\ v.pending = w.pending /\ v.total = w.total
<1>1. /\ v \in [expected : {w.expected}, gap : {g}, pending : {w.pending}, total : {w.total},
                out : {w.out}]
      /\ w \in [expected : 0 .. SeqSpace - 1, gap : {"none", "running", "expired"},
                pending : SUBSET Span(b), total : Nat, out : Seq(Span(b))]
    BY DEF Working
<1>2. /\ v.expected = w.expected /\ v.pending = w.pending /\ v.total = w.total /\ v.out = w.out
      /\ v \in [expected : 0 .. SeqSpace - 1, gap : {"none", "running", "expired"},
                pending : SUBSET Span(b), total : Nat, out : Seq(Span(b))]
    BY <1>1
<1>3. Working(v, b, e0, e)
    BY <1>2 DEF Working
<1>4. Balanced(v, r) /\ Frames(v) = Frames(w)
    BY <1>2 DEF Balanced, Frames
<1> QED
    BY <1>2, <1>3, <1>4

\* push_at holds a frame ahead of a gap: both caps are kept and no frame is lost.
LEMMA Holds ==
    ASSUME NEW b \in Nat, NEW e0 \in Nat, NEW e \in Nat, NEW r \in Nat,
           NEW w, Working(w, b, e0, e), Balanced(w, r), w.total <= MaxPendingTotal,
           NEW n \in Span(b), IsForward(Wire(n), w.expected), n \notin w.pending
    PROVE  \E f \in Nat : LET v == Hold(w, n) IN
              /\ e <= f /\ Working(v, b, e0, f) /\ Balanced(v, r) /\ v.total <= MaxPendingTotal
              /\ Frames(v) = Frames(w) \union {n}
<1> DEFINE Release(x) == Accounted(x, ReleaseLowest(x))
           full == Cardinality(w.pending) = MaxPendingPerFlow
           room == IF full THEN Release(w) ELSE w
           atCap == room.total = MaxPendingTotal
           roomy == IF atCap THEN Release(room) ELSE room
           held == [roomy EXCEPT !.pending = @ \union {n}, !.total = @ + 1]
           bounded == IF held.total > MaxPendingTotal THEN Release(held) ELSE held
           timed == [bounded EXCEPT !.gap = IF @ = "none" THEN "running" ELSE @]
           direct == [room EXCEPT !.out = Append(@, n), !.expected = Wire(n + 1), !.gap = "none"]
           kept == Accounted(timed, ReleaseExpired(timed))
<1>1. Hold(w, n) = IF atCap /\ room.pending = {} THEN direct ELSE kept
    BY DEF Hold
<1>2. /\ MaxPendingTotal \in Nat \ {0} /\ MaxPendingPerFlow \in Nat \ {0}
    BY FlowFrameConstants
<1>3. PICK e1 \in Nat : /\ e <= e1 /\ Working(room, b, e0, e1) /\ Balanced(room, r) /\ GivesUp(w, room)
                        /\ room.total <= w.total
                        /\ \/ room.total < w.total
                           \/ /\ e1 = e /\ room.pending = w.pending /\ room.expected = w.expected
                              /\ full => \A p \in w.pending : ~ IsForward(Wire(p), w.expected)
    <2>1. CASE full
        <3> DEFINE v == Release(w)
        <3>1. \E f \in Nat : /\ e <= f /\ Working(v, b, e0, f) /\ Balanced(v, r) /\ GivesUp(w, v)
                             /\ v.total <= w.total
                             /\ \/ v.total < w.total
                                \/ /\ f = e /\ v.pending = w.pending /\ v.expected = w.expected
                                   /\ v.total = w.total
                                   /\ \A p \in w.pending : ~ IsForward(Wire(p), w.expected)
            BY Relieves
        <3>2. room = v
            BY <2>1
        <3> HIDE DEF v, room
        <3> QED
            BY <3>1, <3>2
    <2>2. CASE ~ full
        <3>1. room = w /\ GivesUp(w, w) /\ e <= e /\ w.total <= w.total
            BY <2>2 DEF GivesUp, Working
        <3> HIDE DEF room
        <3> QED
            BY <2>2, <3>1
    <2> QED
        BY <2>1, <2>2
<1>4. /\ room.total \in Nat /\ w.total \in Nat /\ w.pending \in SUBSET Span(b)
      /\ w.expected = Wire(e) /\ e0 <= e /\ e <= b + Half /\ b + MaxFrames <= e + SeqSpace
    BY <1>3 DEF Working
<1> HIDE DEF room
<1>5. CASE atCap /\ room.pending = {}
    <2>1. room.total = w.total /\ e1 = e /\ room.pending = w.pending
        BY <1>2, <1>3, <1>4, <1>5
    <2>2. n > e
        BY <1>4, SpanForward
    <2>3. direct \in [expected : {Wire(n + 1)}, gap : {"none"}, pending : SUBSET Span(b),
                      total : {room.total}, out : {Append(room.out, n)}]
        BY <1>3 DEF Working
    <2>4. direct.pending = room.pending /\ direct.total = room.total /\ direct.out = Append(room.out, n)
        BY <1>3 DEF Working
    <2> HIDE DEF direct
    <2>5. n \in Nat /\ e1 <= n
        BY <2>1, <2>2, HalfSpace DEF Span
    <2>6. n + 1 \in Nat /\ Working(direct, b, e0, n + 1)
        BY <1>3, <2>3, <2>5, Advances
    <2>7. Balanced(direct, r) /\ direct.total <= MaxPendingTotal
        BY <1>3, <2>1, <2>4 DEF Balanced
    <2>8. Frames(direct) = Frames(w) \union {n}
        <3>1. room.out \in Seq(Span(b))
            BY <1>3 DEF Working
        <3>2. OutputOf(Append(room.out, n)) = OutputOf(room.out) \union {n}
            BY <3>1, OutputOfOne
        <3> QED
            BY <1>3, <2>4, <3>2 DEF GivesUp, Frames
    <2>9. e <= n + 1
        BY <2>2, <2>5
    <2>10. Hold(w, n) = direct
        BY <1>1, <1>5
    <2> QED
        BY <2>6, <2>7, <2>8, <2>9, <2>10
<1>6. CASE ~ (atCap /\ room.pending = {})
    <2>1. Hold(w, n) = kept
        BY <1>1, <1>6
    <2>2. PICK e2 \in Nat : /\ e1 <= e2 /\ Working(roomy, b, e0, e2) /\ Balanced(roomy, r)
                            /\ GivesUp(room, roomy) /\ roomy.total <= room.total
                            /\ \/ roomy.total < MaxPendingTotal
                               \/ /\ roomy.total = MaxPendingTotal /\ roomy.expected = w.expected
        <3>1. CASE atCap
            <4> DEFINE v == Release(room)
            <4>1. \E f \in Nat : /\ e1 <= f /\ Working(v, b, e0, f) /\ Balanced(v, r) /\ GivesUp(room, v)
                                 /\ v.total <= room.total
                                 /\ \/ v.total < room.total
                                    \/ /\ f = e1 /\ v.pending = room.pending /\ v.expected = room.expected
                                       /\ v.total = room.total
                                       /\ \A p \in room.pending : ~ IsForward(Wire(p), room.expected)
                BY <1>3, Relieves
            <4>2. roomy = v
                BY <3>1
            <4>3. room.total = w.total /\ room.total = MaxPendingTotal
                BY <1>2, <1>3, <1>4, <3>1
            <4>4. room.expected = w.expected
                BY <1>3, <1>4, <4>3
            <4> HIDE DEF v, roomy
            <4> QED
                BY <4>1, <4>2, <4>3, <4>4
        <3>2. CASE ~ atCap
            <4>1. roomy = room /\ GivesUp(room, room) /\ e1 <= e1
                BY <3>2 DEF GivesUp
            <4>2. room.total < MaxPendingTotal
                BY <1>2, <1>3, <1>4, <3>2
            <4>3. room.total <= room.total
                BY <1>4
            <4> HIDE DEF roomy
            <4> QED
                BY <1>3, <4>1, <4>2, <4>3
        <3> QED
            BY <3>1, <3>2
    <2> HIDE DEF roomy
    <2>3. n \notin roomy.pending
        BY <1>3, <2>2 DEF GivesUp
    <2>4. /\ Working(held, b, e0, e2) /\ Balanced(held, r) /\ Gains(roomy, held, n)
          /\ n \in held.pending /\ held.total = roomy.total + 1 /\ held.expected = roomy.expected
        <3>1. /\ held \in [expected : {roomy.expected}, gap : {roomy.gap},
                           pending : {roomy.pending \union {n}}, total : {roomy.total + 1},
                           out : {roomy.out}]
              /\ roomy \in [expected : 0 .. SeqSpace - 1, gap : {"none", "running", "expired"},
                            pending : SUBSET Span(b), total : Nat, out : Seq(Span(b))]
            BY <2>2 DEF Working
        <3> HIDE DEF held
        <3>2. /\ held.expected = roomy.expected /\ held.pending = roomy.pending \union {n}
              /\ held.total = roomy.total + 1 /\ held.out = roomy.out
              /\ held \in [expected : 0 .. SeqSpace - 1, gap : {"none", "running", "expired"},
                           pending : SUBSET Span(b), total : Nat, out : Seq(Span(b))]
            BY <3>1
        <3>3. Working(held, b, e0, e2)
            BY <2>2, <3>2 DEF Working
        <3>4. Cardinality(held.pending) = Cardinality(roomy.pending) + 1
            BY <2>3, <3>1, <3>2, SpanFacts, FS_AddElement
        <3>5. Balanced(held, r)
            <4>1. roomy.total = r + Cardinality(roomy.pending) /\ roomy.pending \in SUBSET Span(b)
                BY <2>2, <3>1 DEF Balanced
            <4>2. Cardinality(roomy.pending) \in Nat
                BY <4>1, SpanFacts
            <4> QED
                BY <3>2, <3>4, <4>1, <4>2 DEF Balanced
        <3>6. Frames(held) = Frames(roomy) \union {n}
            BY <3>2 DEF Frames
        <3> QED
            BY <3>2, <3>3, <3>5, <3>6 DEF Gains
    <2>5. roomy.total \in Nat /\ held.total \in Nat
        BY <2>2, <2>4 DEF Working
    <2> HIDE DEF held
    <2>6. PICK e3 \in Nat : /\ e2 <= e3 /\ Working(bounded, b, e0, e3) /\ Balanced(bounded, r)
                            /\ Frames(bounded) = Frames(held) /\ bounded.total <= MaxPendingTotal
        <3>1. CASE held.total > MaxPendingTotal
            <4> DEFINE v == Release(held)
            <4>1. PICK f \in Nat : /\ e2 <= f /\ Working(v, b, e0, f) /\ Balanced(v, r) /\ GivesUp(held, v)
                                   /\ v.total <= held.total
                                   /\ \/ v.total < held.total
                                      \/ \A p \in held.pending : ~ IsForward(Wire(p), held.expected)
                BY <2>4, Relieves
            <4>2. bounded = v
                BY <3>1
            <4> HIDE DEF v, bounded
            <4>3. roomy.total = MaxPendingTotal /\ roomy.expected = w.expected
                BY <1>2, <2>2, <2>4, <2>5, <3>1
            <4>4. v.total < held.total
                BY <2>4, <4>1, <4>3
            <4>5. v.total \in Nat
                BY <4>1 DEF Working
            <4>6. v.total <= MaxPendingTotal
                BY <1>2, <2>4, <2>5, <4>3, <4>4, <4>5
            <4> QED
                BY <4>1, <4>2, <4>6 DEF GivesUp
        <3>2. CASE ~ (held.total > MaxPendingTotal)
            <4>1. bounded = held /\ e2 <= e2 /\ held.total <= MaxPendingTotal
                BY <1>2, <2>5, <3>2
            <4> HIDE DEF bounded
            <4> QED
                BY <2>4, <4>1
        <3> QED
            BY <3>1, <3>2
    <2> HIDE DEF bounded
    <2>7. /\ Working(timed, b, e0, e3) /\ Balanced(timed, r) /\ Frames(timed) = Frames(bounded)
          /\ timed.total = bounded.total
        <3> DEFINE g == IF bounded.gap = "none" THEN "running" ELSE bounded.gap
        <3>1. g \in {"none", "running", "expired"}
            BY <2>6 DEF Working
        <3>2. timed = [bounded EXCEPT !.gap = g]
            OBVIOUS
        <3> HIDE DEF g, timed
        <3> QED
            BY <2>6, <3>1, <3>2, Clocked
    <2> HIDE DEF timed
    <2>8. PICK f \in Nat : /\ e3 <= f /\ Working(kept, b, e0, f) /\ Balanced(kept, r)
                           /\ GivesUp(timed, kept) /\ kept.total <= timed.total
        BY <2>7, Expires
    <2>9. kept.total \in Nat /\ bounded.total \in Nat
        BY <2>6, <2>8 DEF Working
    <2> HIDE DEF kept
    <2>10. kept.total <= MaxPendingTotal
        BY <1>2, <2>6, <2>7, <2>8, <2>9
    <2>11. Frames(kept) = Frames(w) \union {n}
        BY <1>3, <2>2, <2>4, <2>6, <2>7, <2>8 DEF GivesUp, Gains
    <2>12. e <= f
        BY <1>3, <2>2, <2>6, <2>8
    <2> QED
        BY <2>1, <2>8, <2>10, <2>11, <2>12
<1> QED
    BY <1>5, <1>6

\* Nothing is lost or made up, and the frame is taken in if it is due or ahead
\* and no gap deadline had passed.
TakesIn(w, v, n) ==
    /\ Frames(w) \subseteq Frames(v) /\ Frames(v) \subseteq Frames(w) \union {n}
    /\ (w.gap # "expired" /\ (Wire(n) = w.expected \/ IsForward(Wire(n), w.expected)))
          => n \in Frames(v)

\* push_at on the flow of a frame: it puts out or keeps what was held, takes in
\* no more than the frame, and takes that in unless it is old or a duplicate.
LEMMA Pushes ==
    ASSUME NEW b \in Nat, NEW e0 \in Nat, NEW e \in Nat, NEW r \in Nat,
           NEW w, Working(w, b, e0, e), Balanced(w, r), w.total <= MaxPendingTotal,
           NEW n \in Span(b)
    PROVE  \E f \in Nat : LET v == PushToFlow(w, n) IN
              /\ e <= f /\ Working(v, b, e0, f) /\ Balanced(v, r) /\ v.total <= MaxPendingTotal
              /\ TakesIn(w, v, n)
<1> DEFINE x == Accounted(w, ReleaseExpired(w))
           next == [x EXCEPT !.out = Append(@, n), !.expected = Wire(@ + 1), !.gap = "none"]
           same == Wire(n) = x.expected
           ahead == IsForward(Wire(n), x.expected)
           double == \E p \in x.pending : Wire(p) = Wire(n)
           run == Accounted(next, DrainContiguous(next))
<1>1. PushToFlow(w, n) = IF same THEN run ELSE IF ~ ahead \/ double THEN x ELSE Hold(x, n)
    BY DEF PushToFlow
<1>2. PICK e1 \in Nat : /\ e <= e1 /\ Working(x, b, e0, e1) /\ Balanced(x, r) /\ GivesUp(w, x)
                        /\ x.total <= w.total
                        /\ w.gap # "expired" => x.pending = w.pending /\ x.expected = w.expected
    BY Expires
<1> HIDE DEF x
<1>3. /\ x.total \in Nat /\ w.total \in Nat /\ MaxPendingTotal \in Nat
      /\ x.pending \in SUBSET Span(b) /\ x.out \in Seq(Span(b))
      /\ x.expected = Wire(e1) /\ e0 <= e1 /\ e1 <= b + Half /\ b + MaxFrames <= e1 + SeqSpace
    BY <1>2, FlowFrameConstants DEF Working
<1>4. x.total <= MaxPendingTotal
    BY <1>2, <1>3
<1>5. n \in Nat
    BY HalfSpace DEF Span
<1>6. CASE same
    <2>1. n = e1
        BY <1>3, <1>6, SpanForward
    <2>2. Wire(x.expected + 1) = Wire(n + 1)
        BY <1>3, <2>1, WireStep
    <2>3. /\ next \in [expected : {Wire(n + 1)}, gap : {"none"}, pending : SUBSET Span(b),
                       total : {x.total}, out : {Append(x.out, n)}]
          /\ next.pending = x.pending /\ next.total = x.total /\ next.out = Append(x.out, n)
        BY <1>2, <2>2 DEF Working
    <2> HIDE DEF next
    <2>4. n + 1 \in Nat /\ Working(next, b, e0, n + 1)
        <3>1. e1 <= n
            BY <2>1
        <3> QED
            BY <1>2, <2>3, <3>1, Advances
    <2>5. Balanced(next, r)
        BY <1>2, <2>3 DEF Balanced
    <2>6. Frames(next) = Frames(w) \union {n}
        <3>1. OutputOf(Append(x.out, n)) = OutputOf(x.out) \union {n}
            BY <1>3, OutputOfOne
        <3> QED
            BY <1>2, <2>3, <3>1 DEF GivesUp, Frames
    <2> DEFINE drained == DrainContiguous(next)
    <2>7. PICK f \in Nat : /\ n + 1 <= f /\ Working(drained, b, e0, f) /\ GivesUp(next, drained)
                           /\ drained.total = next.total
        BY <2>4, Drains
    <2> HIDE DEF drained
    <2> DEFINE v == Accounted(next, drained)
    <2>8. Working(v, b, e0, f) /\ Balanced(v, r) /\ GivesUp(next, v) /\ v.total <= next.total
        BY <2>4, <2>5, <2>7, SettlesAccounts
    <2>9. PushToFlow(w, n) = v
        BY <1>1, <1>6 DEF drained
    <2> HIDE DEF v
    <2>10. v.total <= MaxPendingTotal
        <3>1. v.total \in Nat
            BY <2>8 DEF Working
        <3> QED
            BY <1>3, <1>4, <2>3, <2>8, <3>1
    <2>11. Frames(v) = Frames(w) \union {n}
        BY <2>6, <2>8 DEF GivesUp
    <2>12. e <= f
        BY <1>2, <2>1, <2>7
    <2> QED
        BY <2>8, <2>9, <2>10, <2>11, <2>12 DEF TakesIn
<1>7. CASE ~ same /\ (~ ahead \/ double)
    <2>1. PushToFlow(w, n) = x
        BY <1>1, <1>7
    <2>2. Frames(x) = Frames(w)
        BY <1>2 DEF GivesUp
    <2>3. double => n \in x.pending
        <3>1. ASSUME NEW p \in x.pending, Wire(p) = Wire(n) PROVE p = n
            <4>1. p \in Nat /\ p - n < SeqSpace /\ n - p < SeqSpace
                BY <1>3, <1>5, HalfSpace DEF Span
            <4> QED
                BY <1>5, <3>1, <4>1, WireInjective
        <3> QED
            BY <3>1
    <2>4. (w.gap # "expired" /\ (Wire(n) = w.expected \/ IsForward(Wire(n), w.expected))) => n \in Frames(x)
        BY <1>2, <1>7, <2>3 DEF Frames
    <2> QED
        BY <1>2, <1>4, <2>1, <2>2, <2>4 DEF TakesIn
<1>8. CASE ~ same /\ ahead /\ ~ double
    <2>1. PushToFlow(w, n) = Hold(x, n)
        BY <1>1, <1>8
    <2>2. n \notin x.pending
        BY <1>8
    <2> DEFINE v == Hold(x, n)
    <2>3. PICK f \in Nat : /\ e1 <= f /\ Working(v, b, e0, f) /\ Balanced(v, r)
                           /\ v.total <= MaxPendingTotal /\ Frames(v) = Frames(x) \union {n}
        BY <1>2, <1>4, <1>8, <2>2, Holds
    <2>4. PushToFlow(w, n) = v
        BY <2>1
    <2> HIDE DEF v
    <2>5. Frames(v) = Frames(w) \union {n} /\ e <= f
        BY <1>2, <2>3 DEF GivesUp
    <2> QED
        BY <2>3, <2>4, <2>5 DEF TakesIn
<1> QED
    BY <1>6, <1>7, <1>8

(***************************************************************************)
(* The inductive invariant of the flows                                    *)
(***************************************************************************)
\* The numbers a key has anywhere: on the paths, held, or put out.
Carried(k) ==
    {fr.n : fr \in {x \in net : x.key = k}} \union OutputOf(delivered[k])
        \union (IF k \in DOMAIN flows THEN flows[k].pending ELSE {})

\* base gives the number each key began at.  The sequencer is ahead of every
\* frame of a key it still numbers, and has sent none of a key it may yet take.
Numbered(base, k) ==
    /\ Carried(k) \subseteq Span(base[k])
    /\ (k[1] = sender_id /\ k[2] \in DOMAIN sequences) =>
          /\ base[k] <= sequences[k[2]] /\ sequences[k[2]] <= base[k] + sent
          /\ \A n \in Carried(k) : n < sequences[k[2]]
    /\ (k[1] > sender_id \/ (k[1] = sender_id /\ k[2] \notin DOMAIN sequences)) =>
          base[k] = 0 /\ Carried(k) = {}

\* `expected` stands for a number, the release point: all that was put out lies
\* behind it, and it is near enough to the flow's numbers for is_forward to tell
\* them apart.
Settled(t, d, k, b) ==
    IF k \in DOMAIN t
    THEN \E e \in 0 .. b + Half :
            t[k].expected = Wire(e) /\ b + MaxFrames <= e + SeqSpace /\ Between(d[k], 0, e)
    ELSE d[k] = << >>

\* The frames the table t holds, and those it holds of other flows than k.
HeldIn(t) == UNION {{j} \X t[j].pending : j \in DOMAIN t}
HeldApart(t, k) == UNION {{j} \X t[j].pending : j \in DOMAIN t \ {k}}

FlowInvFor(base) ==
    /\ FlowTypeOK
    /\ base \in [Keys -> StartAt \union {0}]
    /\ \A k \in Keys : Numbered(base, k) /\ Settled(flows, delivered, k, base[k])
    /\ OrderedOutput
    /\ IsFiniteSet(HeldFrames) /\ PendingAccounted

FlowInv == \E base \in [Keys -> StartAt \union {0}] : FlowInvFor(base)

\* A flow the receiver has not seen takes 0 for its first number.  Wherever the
\* flow has really got to, some multiple of the sequence space is near enough.
LEMMA FreshRelease ==
    ASSUME NEW b \in Nat
    PROVE  \E e \in 0 .. b + Half : Wire(e) = 0 /\ b + MaxFrames <= e + SeqSpace
<1>1. MaxFrames \in Nat /\ Half \in Nat \ {0} /\ SeqSpace = 2 * Half /\ MaxFrames < Half
      /\ SeqSpace \in Nat \ {0}
    BY HalfSpace
<1> DEFINE m == b + MaxFrames
<1>0. m \in Nat /\ m = b + MaxFrames
    BY <1>1
<1> HIDE DEF m
<1>2. PICK q \in Nat : m = SeqSpace * q + Wire(m)
    BY <1>0, WireDivision
<1>3. Wire(m) \in 0 .. SeqSpace - 1
    BY <1>0, WireDivision
<1> DEFINE e == SeqSpace * q
<1>4. e \in Nat
    BY <1>1
<1>5. Wire(e) = 0
    <2>1. PICK p \in Nat : e = SeqSpace * p + Wire(e)
        BY <1>4, WireDivision
    <2>2. Wire(e) \in 0 .. SeqSpace - 1
        BY <1>4, WireDivision
    <2>3. Wire(e) \in Int /\ Wire(e) < SeqSpace /\ Wire(e) > -SeqSpace
        BY <1>1, <2>2
    <2>4. SeqSpace * q = SeqSpace * p + Wire(e)
        BY <2>1
    <2> HIDE DEF e
    <2>5. SeqSpace \in Nat \ {0} /\ p \in Int /\ q \in Int
        BY <1>1
    <2> QED
        BY <2>3, <2>4, <2>5, SameLap
<1>6. e <= b + Half /\ b + MaxFrames <= e + SeqSpace
    BY <1>0, <1>1, <1>2, <1>3, <1>4
<1> HIDE DEF e
<1> QED
    BY <1>1, <1>4, <1>5, <1>6

\* What the table holds after one entry is written.
LEMMA HeldAfter ==
    ASSUME NEW t, NEW k, NEW v, IsFiniteSet(HeldApart(t, k)), IsFiniteSet(v.pending)
    PROVE  LET H == HeldIn(WithEntry(t, k, v)) IN
              IsFiniteSet(H) /\ Cardinality(H) = Cardinality(HeldApart(t, k)) + Cardinality(v.pending)
<1> DEFINE u == WithEntry(t, k, v)
           A == HeldApart(t, k)
           B == {k} \X v.pending
<1>1. DOMAIN u = DOMAIN t \union {k} /\ u[k] = v /\ \A j \in DOMAIN t : j # k => u[j] = t[j]
    BY DEF WithEntry
<1> HIDE DEF u
<1>2. HeldIn(u) = A \union B
    BY <1>1 DEF HeldIn, HeldApart
<1>3. IsFiniteSet(B) /\ Cardinality(B) = Cardinality(v.pending)
    <2>1. IsFiniteSet({k}) /\ Cardinality({k}) = 1
        BY FS_Singleton
    <2>2. IsFiniteSet(B) /\ Cardinality(B) = Cardinality({k}) * Cardinality(v.pending)
        BY <2>1, FS_Product
    <2>3. Cardinality(v.pending) \in Nat
        BY FS_CardinalityType
    <2> HIDE DEF B
    <2> QED
        BY <2>1, <2>2, <2>3
<1>4. A \cap B = {}
    BY DEF HeldApart
<1> HIDE DEF A, B
<1>5. IsFiniteSet(A) /\ Cardinality(A) \in Nat /\ Cardinality(B) \in Nat
    BY <1>3, FS_CardinalityType DEF A
<1>6. IsFiniteSet(A \union B) /\ Cardinality(A \union B) = Cardinality(A) + Cardinality(B)
    <2>1. Cardinality(A \cap B) = 0
        BY <1>4, FS_EmptySet
    <2>2. IsFiniteSet(A \union B)
          /\ Cardinality(A \union B) = Cardinality(A) + Cardinality(B) - Cardinality(A \cap B)
        BY <1>3, <1>5, FS_Union
    <2> QED
        BY <1>5, <2>1, <2>2
<1> QED
    BY <1>2, <1>3, <1>6 DEF u, A

\* The same table before the entry is written.
LEMMA HeldBefore ==
    ASSUME NEW t, NEW k, IsFiniteSet(HeldIn(t)), k \in DOMAIN t => IsFiniteSet(t[k].pending)
    PROVE  /\ IsFiniteSet(HeldApart(t, k))
           /\ k \in DOMAIN t => Cardinality(HeldIn(t)) = Cardinality(HeldApart(t, k)) + Cardinality(t[k].pending)
           /\ k \notin DOMAIN t => HeldApart(t, k) = HeldIn(t)
<1>1. HeldApart(t, k) \subseteq HeldIn(t)
    BY DEF HeldApart, HeldIn
<1>2. IsFiniteSet(HeldApart(t, k))
    BY <1>1, FS_Subset
<1>3. ASSUME k \in DOMAIN t
      PROVE  Cardinality(HeldIn(t)) = Cardinality(HeldApart(t, k)) + Cardinality(t[k].pending)
    <2> DEFINE P == t[k].pending
               B == {k} \X P
    <2>1. HeldIn(t) = HeldApart(t, k) \union B
        BY <1>3 DEF HeldApart, HeldIn
    <2>2. HeldApart(t, k) \cap B = {}
        BY DEF HeldApart
    <2>3. IsFiniteSet(B)
        BY <2>1, FS_Subset
    <2>4. IsFiniteSet(P) /\ Cardinality(B) = Cardinality(P)
        <3>1. IsFiniteSet({k}) /\ Cardinality({k}) = 1
            BY FS_Singleton
        <3>2. IsFiniteSet(P)
            BY <1>3
        <3> HIDE DEF P
        <3>3. Cardinality(B) = Cardinality({k}) * Cardinality(P)
            BY <3>1, <3>2, FS_Product
        <3>4. Cardinality(P) \in Nat
            BY <3>2, FS_CardinalityType
        <3> HIDE DEF B
        <3> QED
            BY <3>1, <3>2, <3>3, <3>4
    <2>5. Cardinality(HeldApart(t, k) \cap B) = 0
        BY <2>2, FS_EmptySet
    <2> HIDE DEF P, B
    <2>6. Cardinality(HeldApart(t, k) \union B)
             = Cardinality(HeldApart(t, k)) + Cardinality(B) - Cardinality(HeldApart(t, k) \cap B)
        BY <1>2, <2>3, FS_Union
    <2>7. Cardinality(HeldApart(t, k)) \in Nat /\ Cardinality(B) \in Nat
        BY <1>2, <2>3, FS_CardinalityType
    <2> QED
        BY <2>1, <2>4, <2>5, <2>6, <2>7 DEF P
<1>4. k \notin DOMAIN t => HeldApart(t, k) = HeldIn(t)
    BY DEF HeldApart, HeldIn
<1> QED
    BY <1>2, <1>3, <1>4

(***************************************************************************)
(* push_at on the whole table                                              *)
(***************************************************************************)
\* The parts push_at works with: the table and the history after a reset, the
\* flow of the frame, and what becomes of it.
TableFor(k) == IF TableReset(k) THEN << >> ELSE flows
HistoryFor(k) == IF TableReset(k) THEN [j \in Keys |-> << >>] ELSE delivered
StateFor(k) == IF k \in DOMAIN TableFor(k) THEN TableFor(k)[k] ELSE FreshFlow
Incoming(k) == [expected |-> StateFor(k).expected, gap |-> StateFor(k).gap,
                pending |-> StateFor(k).pending, total |-> TotalBefore(k), out |-> << >>]
Outcome(fr) == PushToFlow(Incoming(fr.key), fr.n)
StateAfter(fr) == [expected |-> Outcome(fr).expected, gap |-> Outcome(fr).gap,
                   pending |-> Outcome(fr).pending]

\* push_at in terms of its parts.
LEMMA PushIs ==
    ASSUME NEW fr, PushFrame(fr)
    PROVE  /\ flows' = WithEntry(TableFor(fr.key), fr.key, StateAfter(fr))
           /\ pending_total' = Outcome(fr).total
           /\ delivered' = [HistoryFor(fr.key) EXCEPT ![fr.key] = @ \o Outcome(fr).out]
           /\ UNCHANGED <<sender_id, sequences, sent>>
BY DEF PushFrame, TableFor, HistoryFor, StateFor, Incoming, Outcome, StateAfter

\* A frame on a path is one of the numbers of its flow.
LEMMA NetFacts ==
    ASSUME NEW base, FlowInvFor(base), NEW fr \in net
    PROVE  /\ fr.key \in Keys /\ fr.n \in Span(base[fr.key]) /\ base[fr.key] \in Nat
           /\ fr.n \in Carried(fr.key) /\ fr = [key |-> fr.key, n |-> fr.n]
<1>1. fr.key \in Keys /\ fr = [key |-> fr.key, n |-> fr.n]
    BY DEF FlowInvFor, FlowTypeOK
<1>2. fr.n \in Carried(fr.key)
    BY DEF Carried
<1>3. fr.n \in Span(base[fr.key])
    BY <1>1, <1>2 DEF FlowInvFor, Numbered
<1>4. base[fr.key] \in Nat
    BY <1>1, FlowFrameConstants DEF FlowInvFor
<1> QED
    BY <1>1, <1>2, <1>3, <1>4

\* The frames of a flow fit its span, so there are finitely many of them.
LEMMA FlowFacts ==
    ASSUME NEW base, FlowInvFor(base), NEW k \in Keys
    PROVE  /\ base[k] \in Nat
           /\ k \in DOMAIN flows => /\ flows[k] \in FlowStates /\ flows[k].pending \in SUBSET Span(base[k])
                                    /\ IsFiniteSet(flows[k].pending)
           /\ OutputOf(delivered[k]) \subseteq Span(base[k])
           /\ delivered[k] \in Seq(Span(base[k]))
<1>0. base[k] \in Nat
    <2>1. base[k] \in StartAt \union {0}
        BY DEF FlowInvFor
    <2>2. \A x \in StartAt : x \in Nat
        BY FlowFrameConstants
    <2> QED
        BY <2>1, <2>2
<1>1. base[k] \in Nat /\ Carried(k) \subseteq Span(base[k]) /\ delivered[k] \in Seq(FrameNumbers)
    BY <1>0 DEF FlowInvFor, Numbered, FlowTypeOK
<1>2. OutputOf(delivered[k]) \subseteq Span(base[k])
    BY <1>1 DEF Carried
<1>3. delivered[k] \in Seq(Span(base[k]))
    <2> DEFINE d == delivered[k]
    <2>1. Len(d) \in Nat /\ DOMAIN d = 1 .. Len(d) /\ d = [i \in 1 .. Len(d) |-> d[i]]
        BY <1>1
    <2>2. \A i \in 1 .. Len(d) : d[i] \in Span(base[k])
        BY <1>2, <2>1 DEF OutputOf
    <2> HIDE DEF d
    <2>3. d \in [1 .. Len(d) -> Span(base[k])]
        BY <2>1, <2>2
    <2>4. d \in Seq(Span(base[k]))
        BY <2>1, <2>3
    <2> QED
        BY <2>4 DEF d
<1>4. ASSUME k \in DOMAIN flows
      PROVE  /\ flows[k] \in FlowStates /\ flows[k].pending \in SUBSET Span(base[k])
             /\ IsFiniteSet(flows[k].pending)
    <2>1. flows[k] \in FlowStates
        BY <1>4 DEF FlowInvFor, FlowTypeOK
    <2>2. flows[k].pending \in SUBSET Span(base[k])
        BY <1>1, <1>4 DEF Carried
    <2> QED
        BY <1>1, <2>1, <2>2, SpanFacts
<1> QED
    BY <1>1, <1>2, <1>3, <1>4

\* The flow a frame finds has a release point behind which all its output lies,
\* and the counter counts it and the other flows.
LEMMA Incomes ==
    ASSUME NEW base, FlowInvFor(base), NEW k \in Keys
    PROVE  LET r == Cardinality(HeldApart(TableFor(k), k)) IN
              /\ \E e \in Nat : Working(Incoming(k), base[k], e, e) /\ Between(HistoryFor(k)[k], 0, e)
              /\ IsFiniteSet(HeldApart(TableFor(k), k)) /\ r \in Nat
              /\ Balanced(Incoming(k), r) /\ Incoming(k).total <= MaxPendingTotal
              /\ HistoryFor(k)[k] \in Seq(Span(base[k])) /\ Ascending(HistoryFor(k)[k])
<1> DEFINE b == base[k]
           w == Incoming(k)
           st == StateFor(k)
           r == Cardinality(HeldApart(TableFor(k), k))
<1>1. b \in Nat /\ MaxPendingTotal \in Nat
    BY FlowFacts, FlowFrameConstants
<1>2. /\ pending_total = Cardinality(HeldIn(flows)) /\ pending_total <= MaxPendingTotal
      /\ IsFiniteSet(HeldIn(flows)) /\ pending_total \in Nat
    BY DEF FlowInvFor, PendingAccounted, HeldFrames, HeldIn, FlowTypeOK
<1>3. /\ w.expected = st.expected /\ w.gap = st.gap /\ w.pending = st.pending
      /\ w.total = TotalBefore(k) /\ w.out = << >>
      /\ w \in [expected : {st.expected}, gap : {st.gap}, pending : {st.pending},
                total : {TotalBefore(k)}, out : {<< >>}]
    BY DEF Incoming
<1> HIDE DEF b, w, st
<1>4. ASSUME st \in FlowStates, st.pending \in SUBSET Span(b), TotalBefore(k) \in Nat,
             NEW e \in 0 .. b + Half, st.expected = Wire(e), b + MaxFrames <= e + SeqSpace
      PROVE  e \in Nat /\ Working(w, b, e, e)
    <2>1. << >> \in Seq(Span(b)) /\ Ascending(<< >>) /\ Between(<< >>, e, e)
        BY DEF Ascending, Between
    <2>2. st.expected \in 0 .. SeqSpace - 1 /\ st.gap \in {"none", "running", "expired"}
        BY <1>4 DEF FlowStates
    <2>3. w \in [expected : 0 .. SeqSpace - 1, gap : {"none", "running", "expired"},
                 pending : SUBSET Span(b), total : Nat, out : Seq(Span(b))]
        BY <1>3, <1>4, <2>1, <2>2
    <2>4. e \in Nat /\ e <= e /\ e <= b + Half
        BY <1>1, <1>4
    <2> QED
        BY <1>3, <1>4, <2>1, <2>3, <2>4 DEF Working
<1>5. FreshFlow \in FlowStates /\ FreshFlow.pending \in SUBSET Span(b) /\ FreshFlow.expected = 0
      /\ Cardinality(FreshFlow.pending) = 0
    <2>1. 0 \in 0 .. SeqSpace - 1
        BY HalfSpace
    <2> QED
        BY <2>1, FS_EmptySet DEF FreshFlow, FlowStates
<1>6. PICK e0 \in 0 .. b + Half : Wire(e0) = 0 /\ b + MaxFrames <= e0 + SeqSpace
    BY <1>1, FreshRelease
<1>7. << >> \in Seq(Span(b)) /\ Ascending(<< >>) /\ \A e \in Nat : Between(<< >>, 0, e)
    BY DEF Ascending, Between
<1>8. CASE TableReset(k)
    <2>1. TableFor(k) = << >> /\ TotalBefore(k) = 0 /\ HistoryFor(k)[k] = << >>
        BY <1>8 DEF TableFor, TotalBefore, HistoryFor
    <2>2. st = FreshFlow
        BY <2>1 DEF st, StateFor
    <2>3. HeldApart(TableFor(k), k) = {}
        BY <2>1 DEF HeldApart
    <2>4. IsFiniteSet(HeldApart(TableFor(k), k)) /\ r = 0
        BY <2>3, FS_EmptySet
    <2>5. e0 \in Nat /\ Working(w, b, e0, e0)
        BY <1>4, <1>5, <1>6, <2>1, <2>2
    <2>6. Balanced(w, r) /\ w.total <= MaxPendingTotal
        BY <1>1, <1>3, <1>5, <2>1, <2>2, <2>4 DEF Balanced
    <2> HIDE DEF r
    <2>7. \E e \in Nat : Working(w, b, e, e) /\ Between(HistoryFor(k)[k], 0, e)
        BY <1>7, <2>1, <2>5
    <2> QED
        BY <1>7, <2>1, <2>4, <2>6, <2>7 DEF b, w, r
<1>9. CASE ~ TableReset(k)
    <2>1. TableFor(k) = flows /\ TotalBefore(k) = pending_total /\ HistoryFor(k) = delivered
        BY <1>9 DEF TableFor, TotalBefore, HistoryFor
    <2>2. Settled(flows, delivered, k, b) /\ OrderedOutput
        BY DEF FlowInvFor, b
    <2>3. k \in DOMAIN flows => /\ flows[k] \in FlowStates /\ flows[k].pending \in SUBSET Span(b)
                                /\ IsFiniteSet(flows[k].pending)
        BY FlowFacts DEF b
    <2>4. delivered[k] \in Seq(Span(b))
        BY FlowFacts DEF b
    <2>5. Ascending(delivered[k])
        BY <2>2 DEF OrderedOutput, Ascending
    <2>6. /\ IsFiniteSet(HeldApart(flows, k))
          /\ k \in DOMAIN flows =>
                pending_total = Cardinality(HeldApart(flows, k)) + Cardinality(flows[k].pending)
          /\ k \notin DOMAIN flows => pending_total = Cardinality(HeldApart(flows, k))
        BY <1>2, <2>3, HeldBefore
    <2>7. IsFiniteSet(HeldApart(TableFor(k), k)) /\ r \in Nat
        BY <2>1, <2>6, FS_CardinalityType
    <2>8. CASE k \in DOMAIN flows
        <3>1. st = flows[k]
            BY <2>1, <2>8 DEF st, StateFor
        <3>2. PICK e \in 0 .. b + Half : /\ flows[k].expected = Wire(e) /\ b + MaxFrames <= e + SeqSpace
                                         /\ Between(delivered[k], 0, e)
            BY <2>2, <2>8 DEF Settled
        <3>3. e \in Nat /\ Working(w, b, e, e)
            BY <1>2, <1>4, <2>1, <2>3, <2>8, <3>1, <3>2
        <3>4. Balanced(w, r) /\ w.total <= MaxPendingTotal
            BY <1>2, <1>3, <2>1, <2>6, <2>8, <3>1 DEF Balanced
        <3> HIDE DEF r
        <3>5. \E f \in Nat : Working(w, b, f, f) /\ Between(HistoryFor(k)[k], 0, f)
            BY <2>1, <3>2, <3>3
        <3> QED
            BY <2>1, <2>4, <2>5, <2>7, <3>4, <3>5 DEF b, w, r
    <2>9. CASE k \notin DOMAIN flows
        <3>1. st = FreshFlow
            BY <2>1, <2>9 DEF st, StateFor
        <3>2. delivered[k] = << >>
            BY <2>2, <2>9 DEF Settled
        <3>3. e0 \in Nat /\ Working(w, b, e0, e0)
            BY <1>2, <1>4, <1>5, <1>6, <2>1, <3>1
        <3>4. Balanced(w, r) /\ w.total <= MaxPendingTotal
            BY <1>2, <1>3, <1>5, <2>1, <2>6, <2>7, <2>9, <3>1 DEF Balanced
        <3> HIDE DEF r
        <3>5. \E f \in Nat : Working(w, b, f, f) /\ Between(HistoryFor(k)[k], 0, f)
            BY <1>7, <2>1, <3>2, <3>3
        <3> QED
            BY <2>1, <2>4, <2>5, <2>7, <3>4, <3>5 DEF b, w, r
    <2> QED
        BY <2>8, <2>9
<1> QED
    BY <1>8, <1>9

\* What push_at leaves of a frame's flow.
LEMMA Outcomes ==
    ASSUME NEW base, FlowInvFor(base), NEW fr \in net
    PROVE  LET k == fr.key
               b == base[k]
               v == Outcome(fr)
               d == HistoryFor(k)[k] \o v.out
           IN  /\ StateAfter(fr) \in FlowStates /\ v.pending \in SUBSET Span(b)
               /\ \E e \in 0 .. b + Half : /\ StateAfter(fr).expected = Wire(e)
                                           /\ b + MaxFrames <= e + SeqSpace /\ Between(d, 0, e)
               /\ d \in Seq(Span(b)) /\ Ascending(d)
               /\ OutputOf(d) = OutputOf(HistoryFor(k)[k]) \union OutputOf(v.out)
               /\ Balanced(v, Cardinality(HeldApart(TableFor(k), k)))
               /\ v.total \in Nat /\ v.total <= MaxPendingTotal
               /\ StateFor(k).pending \subseteq v.pending \union OutputOf(v.out)
               /\ v.pending \union OutputOf(v.out) \subseteq StateFor(k).pending \union {fr.n}
               /\ (/\ StateFor(k).gap # "expired"
                   /\ Wire(fr.n) = StateFor(k).expected \/ IsForward(Wire(fr.n), StateFor(k).expected))
                     => fr.n \in v.pending \union OutputOf(v.out)
<1> DEFINE k == fr.key
           b == base[k]
           n == fr.n
           w == Incoming(k)
           v == Outcome(fr)
           p == HistoryFor(k)[k]
           d == p \o v.out
           r == Cardinality(HeldApart(TableFor(k), k))
<1>1. k \in Keys /\ n \in Span(b) /\ b \in Nat
    BY NetFacts
<1>2. /\ \E e \in Nat : Working(w, b, e, e) /\ Between(p, 0, e)
      /\ r \in Nat /\ Balanced(w, r) /\ w.total <= MaxPendingTotal
      /\ p \in Seq(Span(b)) /\ Ascending(p)
    BY <1>1, Incomes
<1>3. PICK e \in Nat : Working(w, b, e, e) /\ Between(p, 0, e)
    BY <1>2
<1>4. v = PushToFlow(w, n)
    BY DEF Outcome
<1>5. /\ w.expected = StateFor(k).expected /\ w.gap = StateFor(k).gap
      /\ w.pending = StateFor(k).pending /\ w.out = << >>
    BY DEF Incoming
<1>6. StateAfter(fr) = [expected |-> v.expected, gap |-> v.gap, pending |-> v.pending]
    BY DEF StateAfter
<1> HIDE DEF k, b, n, w, v, p, r
<1>7. PICK f \in Nat : /\ e <= f /\ Working(v, b, e, f) /\ Balanced(v, r) /\ v.total <= MaxPendingTotal
                       /\ TakesIn(w, v, n)
    BY <1>1, <1>2, <1>3, <1>4, Pushes
<1>8. /\ v \in [expected : 0 .. SeqSpace - 1, gap : {"none", "running", "expired"},
                pending : SUBSET Span(b), total : Nat, out : Seq(Span(b))]
      /\ v.expected = Wire(f) /\ f <= b + Half /\ b + MaxFrames <= f + SeqSpace
      /\ Ascending(v.out) /\ Between(v.out, e, f)
    BY <1>7 DEF Working
<1>9. /\ v.out \in Seq(Span(b)) /\ v.pending \in SUBSET Span(b) /\ v.total \in Nat
      /\ v.expected \in 0 .. SeqSpace - 1 /\ v.gap \in {"none", "running", "expired"}
    BY <1>8
<1>10. Frames(w) = StateFor(k).pending
    BY <1>5 DEF Frames, OutputOf
<1>11. Frames(v) = v.pending \union OutputOf(v.out)
    BY DEF Frames
<1>12. OutputOf(d) = OutputOf(p) \union OutputOf(v.out) /\ d \in Seq(Span(b))
    BY <1>2, <1>9, OutputOfAppend
<1>13. Ascending(d) /\ Between(d, 0, f)
    <2> DEFINE q == v.out
    <2>1. /\ Len(p) \in Nat /\ Len(q) \in Nat /\ DOMAIN p = 1 .. Len(p) /\ DOMAIN q = 1 .. Len(q)
          /\ DOMAIN d = 1 .. Len(p) + Len(q)
          /\ \A i \in 1 .. Len(p) : d[i] = p[i] /\ p[i] \in Span(b)
          /\ \A i \in 1 .. Len(p) + Len(q) : i > Len(p) =>
                d[i] = q[i - Len(p)] /\ i - Len(p) \in 1 .. Len(q)
          /\ \A i \in 1 .. Len(q) : q[i] \in Span(b)
        BY <1>2, <1>9
    <2>2. Span(b) \subseteq Nat
        BY <1>1, HalfSpace DEF Span
    <2>3. \A i \in 1 .. Len(p) : d[i] \in Nat /\ d[i] < e
        BY <1>3, <2>1, <2>2 DEF Between
    <2>4. \A i \in 1 .. Len(q) : q[i] \in Nat /\ e <= q[i] /\ q[i] < f
        BY <1>8, <2>1, <2>2 DEF Between
    <2>5. \A i, j \in 1 .. Len(p) : i < j => p[i] < p[j]
        BY <1>2, <2>1 DEF Ascending
    <2>6. \A i, j \in 1 .. Len(q) : i < j => q[i] < q[j]
        BY <1>8, <2>1 DEF Ascending
    <2> HIDE DEF d, q
    <2>7. ASSUME NEW i \in DOMAIN d, NEW j \in DOMAIN d, i < j PROVE d[i] < d[j]
        <3>1. CASE j <= Len(p)
            BY <2>1, <2>5, <2>7, <3>1
        <3>2. CASE i <= Len(p) /\ j > Len(p)
            BY <2>1, <2>3, <2>4, <2>7, <3>2
        <3>3. CASE i > Len(p)
            BY <2>1, <2>6, <2>7, <3>3
        <3> QED
            BY <2>1, <2>7, <3>1, <3>2, <3>3
    <2>8. ASSUME NEW i \in DOMAIN d PROVE 0 <= d[i] /\ d[i] < f
        <3>1. CASE i <= Len(p)
            BY <1>7, <2>1, <2>3, <3>1
        <3>2. CASE i > Len(p)
            BY <2>1, <2>4, <3>2
        <3> QED
            BY <2>1, <3>1, <3>2
    <2> QED
        BY <2>7, <2>8 DEF Ascending, Between
<1>14. StateAfter(fr) \in FlowStates
    <2>1. Span(b) \subseteq FrameNumbers
        <3>1. b \in StartAt \union {0}
            BY <1>1 DEF FlowInvFor, b
        <3> QED
            BY <3>1 DEF FrameNumbers, Span
    <2> QED
        BY <1>6, <1>9, <2>1 DEF FlowStates
<1>15. f \in 0 .. b + Half /\ StateAfter(fr).expected = Wire(f)
    BY <1>1, <1>6, <1>8, HalfSpace
<1> HIDE DEF d
<1> QED
    BY <1>5, <1>7, <1>8, <1>9, <1>10, <1>11, <1>12, <1>13, <1>14, <1>15 DEF TakesIn, k, b, n, w, v, p, d, r

(***************************************************************************)
(* The invariant holds initially and is kept                               *)
(***************************************************************************)
\* base gives the number every flow has reached, and nothing is held.
StartsAt(base) ==
    /\ base \in [Keys -> StartAt \union {0}]
    /\ DOMAIN sequences \subseteq FlowIds /\ \A f \in DOMAIN sequences : sequences[f] \in Nat
    /\ DOMAIN flows \subseteq Keys
    /\ \A k \in DOMAIN flows : flows[k] \in FlowStates /\ flows[k].pending = {}
    /\ \A k \in Keys :
          /\ base[k] = IF k[1] = 1 /\ k[2] \in DOMAIN sequences THEN sequences[k[2]] ELSE 0
          /\ k \in DOMAIN flows => flows[k].expected = Wire(base[k])

\* A start with nothing held satisfies the invariant from the numbers the flows have reached.
LEMMA Started ==
    ASSUME FlowInit, NEW base, StartsAt(base)
    PROVE  FlowInvFor(base)
<1>1. /\ sender_id = 1 /\ net = {} /\ sent = 0 /\ pending_total = 0
      /\ delivered = [k \in Keys |-> << >>]
    BY DEF FlowInit
<1>2. MaxFrames \in Nat /\ MaxSenders \in Nat \ {0} /\ MaxPendingTotal \in Nat
      /\ Half \in Nat /\ SeqSpace \in Nat \ {0} /\ MaxFrames <= SeqSpace
    BY HalfSpace, FlowFrameConstants
<1>3. /\ base \in [Keys -> StartAt \union {0}]
      /\ DOMAIN sequences \subseteq FlowIds /\ \A f \in DOMAIN sequences : sequences[f] \in Nat
      /\ DOMAIN flows \subseteq Keys
      /\ \A k \in DOMAIN flows : flows[k] \in FlowStates /\ flows[k].pending = {}
      /\ \A k \in Keys :
            /\ base[k] = IF k[1] = 1 /\ k[2] \in DOMAIN sequences THEN sequences[k[2]] ELSE 0
            /\ k \in DOMAIN flows => flows[k].expected = Wire(base[k])
    BY DEF StartsAt
<1>4. ASSUME NEW k \in Keys PROVE base[k] \in Nat
    BY <1>3
<1>5. delivered \in [Keys -> Seq(FrameNumbers)] /\ \A k \in Keys : delivered[k] = << >>
    BY <1>1
<1>6. \A k \in Keys : Carried(k) = {}
    BY <1>1, <1>3, <1>5 DEF Carried, OutputOf
<1>7. FlowTypeOK
    BY <1>1, <1>2, <1>3, <1>5 DEF FlowTypeOK
<1>8. ASSUME NEW k \in Keys PROVE Numbered(base, k)
    <2>1. k[1] \in Nat
        BY DEF Keys
    <2>2. (k[1] = sender_id /\ k[2] \in DOMAIN sequences) =>
              base[k] <= sequences[k[2]] /\ sequences[k[2]] <= base[k] + sent
        BY <1>1, <1>3, <1>4
    <2>3. (k[1] > sender_id \/ (k[1] = sender_id /\ k[2] \notin DOMAIN sequences)) => base[k] = 0
        BY <1>1, <1>3, <2>1
    <2> QED
        BY <1>6, <2>2, <2>3 DEF Numbered
<1>9. ASSUME NEW k \in Keys PROVE Settled(flows, delivered, k, base[k])
    <2>1. k \in DOMAIN flows => /\ flows[k].expected = Wire(base[k]) /\ base[k] \in 0 .. base[k] + Half
                                /\ base[k] + MaxFrames <= base[k] + SeqSpace
        BY <1>2, <1>3, <1>4
    <2>2. Between(delivered[k], 0, base[k])
        BY <1>5 DEF Between
    <2> QED
        BY <1>5, <2>1, <2>2 DEF Settled
<1>10. OrderedOutput
    BY <1>5 DEF OrderedOutput
<1>11. HeldFrames = {}
    BY <1>3 DEF HeldFrames
<1>12. IsFiniteSet(HeldFrames) /\ PendingAccounted
    BY <1>1, <1>2, <1>11, FS_EmptySet DEF PendingAccounted
<1> QED
    BY <1>3, <1>7, <1>8, <1>9, <1>10, <1>12 DEF FlowInvFor

\* New endpoints, and a flow that has already carried packets, start in the invariant.
LEMMA FlowsStart ==
    ASSUME FlowInit PROVE FlowInv
<1>1. MaxSenders \in Nat \ {0} /\ \A x \in StartAt : x \in Nat
    BY FlowFrameConstants
<1>2. CASE sequences = << >> /\ flows = << >>
    <2> DEFINE base == [k \in Keys |-> 0]
    <2>1. base \in [Keys -> StartAt \union {0}] /\ \A k \in Keys : base[k] = 0
        OBVIOUS
    <2>2. DOMAIN sequences = {} /\ DOMAIN flows = {}
        BY <1>2
    <2> HIDE DEF base
    <2>3. StartsAt(base)
        BY <2>1, <2>2 DEF StartsAt
    <2> QED
        BY <2>1, <2>3, Started DEF FlowInv
<1>3. ASSUME NEW flow \in FlowIds, NEW n0 \in StartAt, sequences = [f \in {flow} |-> n0],
             flows = [k \in {<<1, flow>>} |-> [FreshFlow EXCEPT !.expected = Wire(n0)]]
      PROVE  FlowInv
    <2> DEFINE k1 == <<1, flow>>
               base == [k \in Keys |-> IF k = k1 THEN n0 ELSE 0]
    <2>1. base \in [Keys -> StartAt \union {0}]
        OBVIOUS
    <2>2. DOMAIN sequences = {flow} /\ sequences[flow] = n0 /\ n0 \in Nat
        BY <1>1, <1>3
    <2>3. k1 \in Keys /\ \A k \in Keys : (k[1] = 1 /\ k[2] = flow) <=> k = k1
        BY <1>1 DEF Keys
    <2>4. DOMAIN flows = {k1} /\ flows[k1] = [expected |-> Wire(n0), gap |-> "none", pending |-> {}]
        BY <1>3 DEF FreshFlow
    <2>5. Wire(n0) \in 0 .. SeqSpace - 1
        BY <2>2, WireDivision
    <2>6. flows[k1] \in FlowStates /\ flows[k1].pending = {} /\ flows[k1].expected = Wire(n0)
        BY <2>4, <2>5 DEF FlowStates
    <2>7. \A k \in Keys : base[k] = IF k = k1 THEN n0 ELSE 0
        OBVIOUS
    <2> HIDE DEF base, k1
    <2>8. \A k \in Keys :
            /\ base[k] = IF k[1] = 1 /\ k[2] \in DOMAIN sequences THEN sequences[k[2]] ELSE 0
            /\ k \in DOMAIN flows => flows[k].expected = Wire(base[k])
        BY <2>2, <2>3, <2>4, <2>6, <2>7
    <2>9. StartsAt(base)
        BY <2>1, <2>2, <2>3, <2>4, <2>6, <2>8 DEF StartsAt
    <2> QED
        BY <2>1, <2>9, Started DEF FlowInv
<1> QED
    BY <1>2, <1>3 DEF FlowInit

\* The frame a step sends: its key, its number, and where that number stands.
LEMMA SendFacts ==
    ASSUME NEW base, FlowInvFor(base), NEW flow \in FlowIds, SendFrame(flow)
    PROVE  LET table == IF SequencerReset(flow) THEN << >> ELSE sequences
               n     == IF flow \in DOMAIN table THEN table[flow] ELSE 0
               k     == <<NextSenderId(flow), flow>>
           IN  /\ k \in Keys /\ k[1] = NextSenderId(flow) /\ k[2] = flow /\ base[k] \in Nat
               /\ n \in Span(base[k]) /\ \A m \in Carried(k) : m < n
               /\ base[k] <= n /\ n <= base[k] + sent /\ n \in Nat
               /\ net' = net \union {[key |-> k, n |-> n]}
               /\ sequences' = WithEntry(table, flow, n + 1)
<1> DEFINE table == IF SequencerReset(flow) THEN << >> ELSE sequences
           n == IF flow \in DOMAIN table THEN table[flow] ELSE 0
           sid == NextSenderId(flow)
           k == <<sid, flow>>
<1>1. /\ sid <= MaxSenders /\ sent < MaxFrames /\ net' = net \union {[key |-> k, n |-> n]}
      /\ sequences' = WithEntry(table, flow, n + 1)
    BY DEF SendFrame
<1>2. /\ sender_id \in 1 .. MaxSenders /\ sent \in 0 .. MaxFrames
      /\ \A f \in DOMAIN sequences : sequences[f] \in Nat
    BY DEF FlowInvFor, FlowTypeOK
<1>3. sid \in Nat \ {0} /\ sid = IF SequencerReset(flow) THEN sender_id + 1 ELSE sender_id
    BY <1>2 DEF NextSenderId
<1> HIDE DEF sid
<1>4. k \in Keys /\ k[1] = sid /\ k[2] = flow
    BY <1>1, <1>3 DEF Keys
<1> HIDE DEF k
<1>5. base[k] \in Nat /\ Numbered(base, k) /\ MaxFrames \in Nat
    BY <1>4, FlowFacts, HalfSpace DEF FlowInvFor
<1>6. CASE ~ SequencerReset(flow) /\ flow \in DOMAIN sequences
    <2>1. k[1] = sender_id /\ k[2] \in DOMAIN sequences /\ n = sequences[k[2]]
        BY <1>3, <1>4, <1>6
    <2>2. /\ base[k] <= n /\ n <= base[k] + sent /\ \A m \in Carried(k) : m < n
        BY <1>5, <2>1 DEF Numbered
    <2>3. n \in Nat
        BY <1>2, <1>6
    <2> HIDE DEF n
    <2>4. n \in Span(base[k])
        BY <1>1, <1>2, <1>5, <2>2, <2>3 DEF Span
    <2> QED
        BY <1>1, <1>4, <1>5, <2>2, <2>3, <2>4 DEF sid, k, n
<1>7. CASE SequencerReset(flow) \/ flow \notin DOMAIN sequences
    <2>1. flow \notin DOMAIN table
        BY <1>7
    <2>2. n = 0
        BY <2>1
    <2>3. base[k] = 0 /\ Carried(k) = {}
        BY <1>2, <1>3, <1>4, <1>5, <1>7 DEF Numbered
    <2> HIDE DEF n
    <2>4. n \in Span(base[k]) /\ base[k] <= n /\ n <= base[k] + sent /\ n \in Nat
        BY <1>1, <1>2, <1>5, <2>2, <2>3 DEF Span
    <2> QED
        BY <1>1, <1>4, <1>5, <2>3, <2>4 DEF sid, k, n
<1> QED
    BY <1>6, <1>7

\* Only a push changes what is held, and only what push_at does to the frame's own flow.
LEMMA SendKeeps ==
    ASSUME NEW base, FlowInvFor(base), NEW flow \in FlowIds, SendFrame(flow)
    PROVE  FlowInvFor(base)'
<1> DEFINE table == IF SequencerReset(flow) THEN << >> ELSE sequences
           n == IF flow \in DOMAIN table THEN table[flow] ELSE 0
           sid == NextSenderId(flow)
           k0 == <<sid, flow>>
<1>1. /\ k0 \in Keys /\ k0[1] = sid /\ k0[2] = flow /\ base[k0] \in Nat
      /\ n \in Span(base[k0]) /\ \A m \in Carried(k0) : m < n
      /\ base[k0] <= n /\ n <= base[k0] + sent /\ n \in Nat
      /\ net' = net \union {[key |-> k0, n |-> n]}
      /\ sequences' = WithEntry(table, flow, n + 1)
    BY SendFacts
<1>2. /\ sid <= MaxSenders /\ sent < MaxFrames /\ sent' = sent + 1 /\ sender_id' = sid
      /\ UNCHANGED <<flows, pending_total, delivered>>
    BY DEF SendFrame
<1>3. /\ sender_id \in 1 .. MaxSenders /\ sent \in 0 .. MaxFrames
      /\ DOMAIN sequences \subseteq FlowIds /\ \A f \in DOMAIN sequences : sequences[f] \in Nat
      /\ net \subseteq [key : Keys, n : FrameNumbers]
      /\ base \in [Keys -> StartAt \union {0}]
    BY DEF FlowInvFor, FlowTypeOK
<1>4. MaxSenders \in Nat /\ MaxFrames \in Nat
    BY FlowFrameConstants
<1>5. sid \in Nat /\ sid >= 1 /\ sid = IF SequencerReset(flow) THEN sender_id + 1 ELSE sender_id
    BY <1>3 DEF NextSenderId
<1>6. /\ DOMAIN sequences' = DOMAIN table \union {flow} /\ sequences'[flow] = n + 1
      /\ \A f \in DOMAIN table : f # flow => sequences'[f] = table[f]
    BY <1>1 DEF WithEntry
<1>7. /\ SequencerReset(flow) => DOMAIN table = {}
      /\ ~ SequencerReset(flow) => table = sequences
    OBVIOUS
<1> HIDE DEF n, table, k0, sid
<1>8. n \in FrameNumbers
    <2>1. base[k0] \in StartAt \union {0}
        BY <1>1, <1>3
    <2> QED
        BY <1>1, <2>1 DEF FrameNumbers, Span
<1>9. FlowTypeOK'
    <2>1. sender_id' \in 1 .. MaxSenders /\ sent' \in 0 .. MaxFrames
        BY <1>2, <1>3, <1>4, <1>5
    <2>2. DOMAIN sequences' \subseteq FlowIds /\ \A f \in DOMAIN sequences' : sequences'[f] \in Nat
        BY <1>1, <1>3, <1>6, <1>7
    <2>3. net' \subseteq [key : Keys, n : FrameNumbers]
        BY <1>1, <1>3, <1>8
    <2>4. /\ DOMAIN flows \subseteq Keys /\ \A k \in DOMAIN flows : flows[k] \in FlowStates
          /\ pending_total \in Nat /\ delivered \in [Keys -> Seq(FrameNumbers)]
        BY DEF FlowInvFor, FlowTypeOK
    <2> QED
        BY <1>2, <2>1, <2>2, <2>3, <2>4 DEF FlowTypeOK
<1>10. ASSUME NEW k \in Keys PROVE Numbered(base, k)'
    <2>1. /\ Numbered(base, k) /\ k[1] \in Nat /\ base[k] \in Nat /\ k = <<k[1], k[2]>>
        <3>1. Numbered(base, k)
            BY DEF FlowInvFor
        <3>2. base[k] \in Nat
            BY FlowFacts
        <3>3. k[1] \in Nat /\ k = <<k[1], k[2]>>
            BY <1>4 DEF Keys
        <3> QED
            BY <3>1, <3>2, <3>3
    <2>2. Carried(k)' = Carried(k) \union (IF k = k0 THEN {n} ELSE {})
        <3> DEFINE new == [key |-> k0, n |-> n]
        <3>1. new.key = k0 /\ new.n = n /\ net' = net \union {new}
            BY <1>1
        <3> HIDE DEF new
        <3>2. {x \in net' : x.key = k} = {x \in net : x.key = k} \union (IF k = k0 THEN {new} ELSE {})
            BY <3>1
        <3>3. {g.n : g \in {x \in net' : x.key = k}}
                 = {g.n : g \in {x \in net : x.key = k}} \union (IF k = k0 THEN {n} ELSE {})
            BY <3>1, <3>2
        <3> QED
            BY <1>2, <3>3 DEF Carried
    <2>3. k = k0 <=> k[1] = sid /\ k[2] = flow
        BY <2>1 DEF k0
    <2> DEFINE C == Carried(k)
               D == Carried(k)'
    <2>4. /\ C \subseteq Span(base[k])
          /\ (k[1] = sender_id /\ k[2] \in DOMAIN sequences) =>
                /\ base[k] <= sequences[k[2]] /\ sequences[k[2]] <= base[k] + sent
                /\ \A m \in C : m < sequences[k[2]]
          /\ (k[1] > sender_id \/ (k[1] = sender_id /\ k[2] \notin DOMAIN sequences)) =>
                base[k] = 0 /\ C = {}
        BY <2>1 DEF Numbered
    <2>5. D = C \union (IF k = k0 THEN {n} ELSE {})
        BY <2>2
    <2>6. k = k0 => \A m \in C : m < n
        BY <1>1
    <2> HIDE DEF C, D
    <2>7. D \subseteq Span(base[k])
        BY <1>1, <2>4, <2>5
    <2>8. ASSUME k[1] = sid, k[2] \in DOMAIN sequences'
          PROVE  /\ base[k] <= sequences'[k[2]] /\ sequences'[k[2]] <= base[k] + sent'
                 /\ \A m \in D : m < sequences'[k[2]]
        <3>1. CASE k[2] = flow
            <4>1. k = k0 /\ sequences'[k[2]] = n + 1
                BY <1>6, <2>3, <2>8, <3>1
            <4>2. \A m \in D : m < n \/ m = n
                BY <2>5, <2>6, <4>1
            <4>3. \A m \in D : m \in Nat
                BY <2>1, <2>7, <1>4 DEF Span
            <4>4. \A m \in D : m < n + 1
                BY <1>1, <4>2, <4>3
            <4>5. base[k] <= n + 1 /\ n + 1 <= base[k] + sent'
                BY <1>1, <1>2, <1>3, <4>1
            <4> QED
                BY <4>1, <4>4, <4>5
        <3>2. CASE k[2] # flow
            <4>1. k # k0 /\ k[2] \in DOMAIN table /\ sequences'[k[2]] = table[k[2]]
                BY <1>6, <2>3, <2>8, <3>2
            <4>2. ~ SequencerReset(flow) /\ table = sequences /\ sid = sender_id
                BY <1>5, <1>7, <4>1
            <4>3. D = C
                BY <2>5, <4>1
            <4>4. /\ base[k] <= sequences[k[2]] /\ sequences[k[2]] <= base[k] + sent
                  /\ \A m \in C : m < sequences[k[2]]
                BY <2>4, <2>8, <4>1, <4>2
            <4>5. sequences[k[2]] \in Nat
                BY <1>3, <4>1, <4>2
            <4>6. sequences'[k[2]] = sequences[k[2]]
                BY <4>1, <4>2
            <4> QED
                BY <1>2, <1>3, <2>1, <4>3, <4>4, <4>5, <4>6
        <3> QED
            BY <3>1, <3>2
    <2>9. ASSUME k[1] > sid \/ (k[1] = sid /\ k[2] \notin DOMAIN sequences')
          PROVE  base[k] = 0 /\ D = {}
        <3>1. k # k0
            BY <1>5, <1>6, <2>1, <2>3, <2>9
        <3>2. k[1] > sender_id \/ (k[1] = sender_id /\ k[2] \notin DOMAIN sequences)
            BY <1>3, <1>5, <1>6, <1>7, <2>1, <2>9
        <3> QED
            BY <2>4, <2>5, <3>1, <3>2
    <2> QED
        BY <1>2, <2>7, <2>8, <2>9 DEF Numbered, D
<1>11. \A k \in Keys : Settled(flows, delivered, k, base[k])'
    BY <1>2 DEF FlowInvFor, Settled
<1>12. OrderedOutput' /\ IsFiniteSet(HeldFrames)' /\ PendingAccounted'
    BY <1>2 DEF FlowInvFor, OrderedOutput, HeldFrames, PendingAccounted
<1> QED
    BY <1>3, <1>9, <1>10, <1>11, <1>12 DEF FlowInvFor

\* A gap deadline touches the clock of one flow.
LEMMA DeadlineKeeps ==
    ASSUME NEW base, FlowInvFor(base), NEW key \in DOMAIN flows, GapDeadline(key)
    PROVE  FlowInvFor(base)'
<1>1. /\ flows' = [flows EXCEPT ![key].gap = "expired"]
      /\ UNCHANGED <<sender_id, sequences, net, pending_total, delivered, sent>>
    BY DEF GapDeadline
<1>2. FlowTypeOK /\ \A k \in DOMAIN flows : flows[k] \in FlowStates
    BY DEF FlowInvFor, FlowTypeOK
<1>3. DOMAIN flows' = DOMAIN flows /\ \A k \in DOMAIN flows : /\ flows'[k] \in FlowStates
                                                              /\ flows'[k].pending = flows[k].pending
                                                              /\ flows'[k].expected = flows[k].expected
    BY <1>1, <1>2 DEF FlowStates
<1>4. FlowTypeOK'
    BY <1>1, <1>2, <1>3 DEF FlowTypeOK
<1>5. \A k \in Keys : Carried(k)' = Carried(k)
    BY <1>1, <1>3 DEF Carried
<1>6. \A k \in Keys : Numbered(base, k)'
    BY <1>1, <1>5 DEF FlowInvFor, Numbered
<1>7. \A k \in Keys : Settled(flows, delivered, k, base[k])'
    BY <1>1, <1>3 DEF FlowInvFor, Settled
<1>8. HeldFrames' = HeldFrames
    BY <1>3 DEF HeldFrames
<1>9. OrderedOutput' /\ IsFiniteSet(HeldFrames)' /\ PendingAccounted'
    BY <1>1, <1>8 DEF FlowInvFor, OrderedOutput, PendingAccounted
<1> QED
    BY <1>4, <1>6, <1>7, <1>9 DEF FlowInvFor

\* push_at keeps the invariant, whether its path keeps a copy of the frame or not.
LEMMA PushKeeps ==
    ASSUME NEW base, FlowInvFor(base), NEW fr \in net, PushFrame(fr), net' \subseteq net
    PROVE  FlowInvFor(base)'
<1> DEFINE key == fr.key
           t == TableFor(key)
           h == HistoryFor(key)
           v == Outcome(fr)
           d == h[key] \o v.out
           st == StateFor(key)
           s == StateAfter(fr)
           r == Cardinality(HeldApart(t, key))
<1>1. /\ flows' = WithEntry(t, key, s) /\ pending_total' = v.total
      /\ delivered' = [h EXCEPT ![key] = d]
      /\ UNCHANGED <<sender_id, sequences, sent>>
    BY PushIs
<1>2. key \in Keys /\ base[key] \in Nat /\ fr.n \in Carried(key)
    BY NetFacts
<1>3. /\ s \in FlowStates /\ v.pending \in SUBSET Span(base[key])
      /\ \E e \in 0 .. base[key] + Half : /\ s.expected = Wire(e)
                                          /\ base[key] + MaxFrames <= e + SeqSpace /\ Between(d, 0, e)
      /\ d \in Seq(Span(base[key])) /\ Ascending(d)
      /\ OutputOf(d) = OutputOf(h[key]) \union OutputOf(v.out)
      /\ Balanced(v, r) /\ v.total \in Nat /\ v.total <= MaxPendingTotal
      /\ v.pending \union OutputOf(v.out) \subseteq st.pending \union {fr.n}
    BY Outcomes
<1>4. s.pending = v.pending
    BY DEF StateAfter
<1>5. /\ DOMAIN t \subseteq DOMAIN flows /\ \A k \in DOMAIN t : t[k] = flows[k]
      /\ \A k \in Keys : h[k] = delivered[k] \/ h[k] = << >>
      /\ TableReset(key) => DOMAIN t = {} /\ \A k \in Keys : h[k] = << >>
      /\ ~ TableReset(key) => t = flows /\ h = delivered
      /\ st.pending \subseteq Carried(key)
    <2>1. CASE TableReset(key)
        <3>1. t = << >> /\ h = [k \in Keys |-> << >>]
            BY <2>1 DEF TableFor, HistoryFor
        <3>2. st.pending = {}
            BY <3>1 DEF StateFor, FreshFlow
        <3> HIDE DEF t, h, st
        <3> QED
            BY <2>1, <3>1, <3>2
    <2>2. CASE ~ TableReset(key)
        <3>1. t = flows /\ h = delivered
            BY <2>2 DEF TableFor, HistoryFor
        <3>2. st.pending \subseteq Carried(key)
            BY <3>1 DEF StateFor, FreshFlow, Carried
        <3> HIDE DEF t, h, st
        <3> QED
            BY <2>2, <3>1, <3>2
    <2> QED
        BY <2>1, <2>2
<1>6. DOMAIN h = Keys /\ h \in [Keys -> Seq(FrameNumbers)]
    BY DEF HistoryFor, FlowInvFor, FlowTypeOK
<1>7. IsFiniteSet(HeldApart(t, key)) /\ r \in Nat
    BY <1>2, Incomes
<1> HIDE DEF key, t, h, v, d, st, s
<1>8. /\ DOMAIN flows' = DOMAIN t \union {key} /\ flows'[key] = s
      /\ \A k \in DOMAIN t : k # key => flows'[k] = t[k]
    BY <1>1 DEF WithEntry
<1>9. delivered'[key] = d /\ DOMAIN delivered' = Keys /\ \A k \in Keys : k # key => delivered'[k] = h[k]
    BY <1>1, <1>2, <1>6
<1>10. OutputOf(<< >>) = {}
    BY DEF OutputOf
<1>11. ASSUME NEW k \in Keys PROVE Carried(k)' \subseteq Carried(k)
    <2>1. {g.n : g \in {x \in net' : x.key = k}} \subseteq Carried(k)
        BY DEF Carried
    <2>2. OutputOf(delivered[k]) \subseteq Carried(k) /\ OutputOf(h[k]) \subseteq Carried(k)
        <3>1. OutputOf(delivered[k]) \subseteq Carried(k)
            BY DEF Carried
        <3> QED
            BY <1>5, <1>10, <3>1
    <2>3. OutputOf(delivered'[k]) \subseteq Carried(k)
        <3>1. CASE k = key
            BY <1>2, <1>3, <1>5, <1>9, <2>2, <3>1
        <3>2. CASE k # key
            BY <1>9, <2>2, <3>2
        <3> QED
            BY <3>1, <3>2
    <2>4. k \in DOMAIN flows' => flows'[k].pending \subseteq Carried(k)
        <3>1. CASE k = key
            BY <1>2, <1>3, <1>4, <1>5, <1>8, <3>1
        <3>2. CASE k # key
            <4>1. k \in DOMAIN flows' => k \in DOMAIN flows /\ flows'[k] = flows[k]
                BY <1>5, <1>8, <3>2
            <4> QED
                BY <4>1 DEF Carried
        <3> QED
            BY <3>1, <3>2
    <2> QED
        BY <2>1, <2>3, <2>4 DEF Carried
<1>12. Span(base[key]) \subseteq FrameNumbers
    <2>1. base[key] \in StartAt \union {0}
        BY <1>2 DEF FlowInvFor
    <2> QED
        BY <2>1 DEF FrameNumbers, Span
<1>13. FlowTypeOK'
    <2>1. /\ sender_id \in 1 .. MaxSenders /\ sent \in 0 .. MaxFrames
          /\ DOMAIN sequences \subseteq FlowIds /\ \A f \in DOMAIN sequences : sequences[f] \in Nat
          /\ net \subseteq [key : Keys, n : FrameNumbers]
          /\ DOMAIN flows \subseteq Keys /\ \A k \in DOMAIN flows : flows[k] \in FlowStates
        BY DEF FlowInvFor, FlowTypeOK
    <2>2. DOMAIN flows' \subseteq Keys /\ \A k \in DOMAIN flows' : flows'[k] \in FlowStates
        BY <1>2, <1>3, <1>5, <1>8, <2>1
    <2>3. d \in Seq(FrameNumbers)
        BY <1>3, <1>12
    <2>4. delivered' \in [Keys -> Seq(FrameNumbers)]
        BY <1>1, <1>2, <1>6, <2>3
    <2>5. pending_total' \in Nat /\ net' \subseteq [key : Keys, n : FrameNumbers]
        BY <1>1, <1>3, <2>1
    <2> QED
        BY <1>1, <2>1, <2>2, <2>4, <2>5 DEF FlowTypeOK
<1>14. ASSUME NEW k \in Keys PROVE Numbered(base, k)'
    <2> DEFINE C == Carried(k)
               D == Carried(k)'
    <2>1. D \subseteq C
        BY <1>11
    <2>2. /\ C \subseteq Span(base[k])
          /\ (k[1] = sender_id /\ k[2] \in DOMAIN sequences) =>
                /\ base[k] <= sequences[k[2]] /\ sequences[k[2]] <= base[k] + sent
                /\ \A m \in C : m < sequences[k[2]]
          /\ (k[1] > sender_id \/ (k[1] = sender_id /\ k[2] \notin DOMAIN sequences)) =>
                base[k] = 0 /\ C = {}
        BY DEF FlowInvFor, Numbered
    <2> HIDE DEF C, D
    <2>3. /\ D \subseteq Span(base[k])
          /\ (k[1] = sender_id /\ k[2] \in DOMAIN sequences) =>
                /\ base[k] <= sequences[k[2]] /\ sequences[k[2]] <= base[k] + sent
                /\ \A m \in D : m < sequences[k[2]]
          /\ (k[1] > sender_id \/ (k[1] = sender_id /\ k[2] \notin DOMAIN sequences)) =>
                base[k] = 0 /\ D = {}
        BY <2>1, <2>2
    <2> QED
        BY <1>1, <2>3 DEF Numbered, D
<1>15. ASSUME NEW k \in Keys PROVE Settled(flows', delivered', k, base[k])
    <2>1. CASE k = key
        <3>1. PICK e \in 0 .. base[k] + Half : /\ s.expected = Wire(e)
                                               /\ base[k] + MaxFrames <= e + SeqSpace /\ Between(d, 0, e)
            BY <1>3, <2>1
        <3> QED
            BY <1>8, <1>9, <2>1, <3>1 DEF Settled
    <2>2. CASE k # key /\ k \in DOMAIN t
        <3>1. ~ TableReset(key) /\ flows'[k] = flows[k] /\ delivered'[k] = delivered[k]
              /\ k \in DOMAIN flows /\ k \in DOMAIN flows'
            BY <1>5, <1>8, <1>9, <2>2
        <3>2. Settled(flows, delivered, k, base[k])
            BY DEF FlowInvFor
        <3> QED
            BY <3>1, <3>2 DEF Settled
    <2>3. CASE k # key /\ k \notin DOMAIN t
        <3>1. k \notin DOMAIN flows' /\ delivered'[k] = h[k]
            BY <1>8, <1>9, <2>3
        <3>2. Settled(flows, delivered, k, base[k])
            BY DEF FlowInvFor
        <3>3. h[k] = << >>
            BY <1>5, <2>3, <3>2 DEF Settled
        <3> QED
            BY <3>1, <3>3 DEF Settled
    <2> QED
        BY <2>1, <2>2, <2>3
<1>16. OrderedOutput'
    <2>1. ASSUME NEW k \in Keys PROVE Ascending(delivered'[k])
        <3>1. CASE k = key
            BY <1>3, <1>9, <3>1
        <3>2. CASE k # key
            <4>1. Ascending(delivered[k])
                BY DEF FlowInvFor, OrderedOutput, Ascending
            <4>2. Ascending(<< >>)
                BY DEF Ascending
            <4> QED
                BY <1>5, <1>9, <3>2, <4>1, <4>2
        <3> QED
            BY <3>1, <3>2
    <2> QED
        BY <2>1 DEF OrderedOutput, Ascending
<1>17. IsFiniteSet(HeldFrames)' /\ PendingAccounted'
    <2>1. IsFiniteSet(v.pending) /\ IsFiniteSet(s.pending)
        BY <1>2, <1>3, <1>4, SpanFacts
    <2> DEFINE H == HeldIn(WithEntry(t, key, s))
    <2>2. IsFiniteSet(H) /\ Cardinality(H) = Cardinality(HeldApart(t, key)) + Cardinality(s.pending)
        BY <1>7, <2>1, HeldAfter
    <2>3. HeldFrames' = H
        BY <1>1 DEF HeldFrames, HeldIn
    <2> HIDE DEF H
    <2>4. pending_total' = Cardinality(H)
        BY <1>1, <1>3, <1>4, <2>2 DEF Balanced
    <2> QED
        BY <1>1, <1>3, <2>2, <2>3, <2>4 DEF PendingAccounted
<1>18. base \in [Keys -> StartAt \union {0}]
    BY DEF FlowInvFor
<1> QED
    BY <1>13, <1>14, <1>15, <1>16, <1>17, <1>18 DEF FlowInvFor

\* The number a flow began at never changes, so one base serves both sides of a step.
LEMMA FlowsStep == FlowInv /\ [FlowNext]_flowVars => FlowInv'
<1> SUFFICES ASSUME FlowInv, [FlowNext]_flowVars PROVE FlowInv'
    OBVIOUS
<1>1. PICK base \in [Keys -> StartAt \union {0}] : FlowInvFor(base)
    BY DEF FlowInv
<1>2. base' = base
    OBVIOUS
<1>3. ASSUME NEW flow \in FlowIds, SendFrame(flow) PROVE FlowInvFor(base)'
    BY <1>1, <1>3, SendKeeps
<1>4. ASSUME NEW fr \in net, Arrive(fr) \/ ArriveDuplicated(fr) PROVE FlowInvFor(base)'
    <2>1. PushFrame(fr) /\ net' \subseteq net
        BY <1>4 DEF Arrive, ArriveDuplicated
    <2> QED
        BY <1>1, <2>1, PushKeeps
<1>5. ASSUME NEW key \in DOMAIN flows, GapDeadline(key) PROVE FlowInvFor(base)'
    BY <1>1, <1>5, DeadlineKeeps
<1>6. ASSUME UNCHANGED flowVars PROVE FlowInvFor(base)'
    BY <1>1, <1>6 DEF flowVars, FlowInvFor, FlowTypeOK, Numbered, Carried, Settled, OrderedOutput,
                      HeldFrames, PendingAccounted
<1>7. FlowInvFor(base)'
    BY <1>3, <1>4, <1>5, <1>6 DEF FlowNext
<1> QED
    BY <1>7 DEF FlowInv

\* The invariant of FlowSequencer and FlowReassembler, wherever the flows had got to.
THEOREM FlowInvariant == FlowSpec => []FlowInv
<1>1. FlowInit => FlowInv
    BY FlowsStart
<1> QED
    BY <1>1, FlowsStep, PTL DEF FlowSpec

\* Tables, frames and histories keep their types, and the numbers stay within MaxFrames
\* of where their flow began.
THEOREM FlowTypes == FlowSpec => []FlowTypeOK
<1>1. FlowInv => FlowTypeOK
    BY DEF FlowInv, FlowInvFor
<1> QED
    BY <1>1, FlowInvariant, PTL

\* push_at: whatever the paths reorder, duplicate or lose, and whichever gaps the deadline
\* and the two caps give up, each flow is put out in the order it was sent, no packet twice.
THEOREM OutputIsOrdered == FlowSpec => []OrderedOutput
<1>1. FlowInv => OrderedOutput
    BY DEF FlowInv, FlowInvFor
<1> QED
    BY <1>1, FlowInvariant, PTL

\* pending_total, kept by saturating subtraction over every release, is exactly the number
\* of frames held in all flows and never exceeds MAX_PENDING_TOTAL.
THEOREM PendingIsAccounted == FlowSpec => []PendingAccounted
<1>1. FlowInv => PendingAccounted
    BY DEF FlowInv, FlowInvFor
<1> QED
    BY <1>1, FlowInvariant, PTL

\* Where push_at leaves what it held and what it was given.
LEMMA PushLosesNothing ==
    ASSUME FlowInv, NEW fr \in net, PushFrame(fr), ~ TableReset(fr.key), fr.key \in DOMAIN flows
    PROVE  LET old   == flows[fr.key]
               now   == flows'[fr.key].pending \union
                          {delivered'[fr.key][i] : i \in DOMAIN delivered'[fr.key]}
               ahead == {n \in {fr.n} : /\ old.gap # "expired"
                                        /\ \/ Wire(n) = old.expected
                                           \/ IsForward(Wire(n), old.expected)}
           IN  old.pending \union ahead \subseteq now
<1> DEFINE key == fr.key
           v == Outcome(fr)
           old == flows[key]
           d == delivered[key] \o v.out
<1>1. PICK base : FlowInvFor(base)
    BY DEF FlowInv
<1>2. key \in Keys
    BY <1>1, NetFacts
<1>3. TableFor(key) = flows /\ HistoryFor(key) = delivered /\ StateFor(key) = old
    BY DEF TableFor, HistoryFor, StateFor
<1>4. /\ OutputOf(d) = OutputOf(delivered[key]) \union OutputOf(v.out)
      /\ old.pending \subseteq v.pending \union OutputOf(v.out)
      /\ (/\ old.gap # "expired"
          /\ Wire(fr.n) = old.expected \/ IsForward(Wire(fr.n), old.expected))
            => fr.n \in v.pending \union OutputOf(v.out)
    BY <1>1, <1>3, Outcomes
<1>5. flows'[key].pending = v.pending /\ delivered'[key] = d
    <2>1. flows' = WithEntry(flows, key, StateAfter(fr)) /\ delivered' = [delivered EXCEPT ![key] = d]
        BY <1>3, PushIs
    <2>2. flows'[key] = StateAfter(fr) /\ StateAfter(fr).pending = v.pending
        BY <2>1 DEF WithEntry, StateAfter
    <2>3. DOMAIN delivered = Keys
        BY <1>1 DEF FlowInvFor, FlowTypeOK
    <2> QED
        BY <1>2, <2>1, <2>2, <2>3
<1>6. OutputOf(d) = {delivered'[key][i] : i \in DOMAIN delivered'[key]}
    BY <1>5 DEF OutputOf
<1> HIDE DEF v, d
<1> QED
    BY <1>4, <1>5, <1>6

\* push_at loses no frame it holds, nor one that is expected or ahead of the release point
\* unless the gap had expired: every cap and deadline only brings frames out earlier.
THEOREM NothingHeldIsLost == FlowSpec => HeldFramesAreKept
<1>1. FlowInv =>
        [\A fr \in net : (PushFrame(fr) /\ ~ TableReset(fr.key) /\ fr.key \in DOMAIN flows) =>
            LET old   == flows[fr.key]
                now   == flows'[fr.key].pending \union
                           {delivered'[fr.key][i] : i \in DOMAIN delivered'[fr.key]}
                ahead == {n \in {fr.n} : /\ old.gap # "expired"
                                         /\ \/ Wire(n) = old.expected
                                            \/ IsForward(Wire(n), old.expected)}
            IN  old.pending \union ahead \subseteq now]_flowVars
    BY PushLosesNothing
<1> QED
    BY <1>1, FlowInvariant, PTL DEF HeldFramesAreKept

\* FlowSequencer::next: a frame is numbered past all its key has put out, however often the
\* table was emptied, because an emptied table numbers under a new sender_id.
THEOREM NewNumbersAreAhead == FlowSpec => NewFramesAreAhead
<1>1. FlowInv /\ [FlowNext]_flowVars =>
        [\A fr \in net' \ net : \A i \in DOMAIN delivered[fr.key] : delivered[fr.key][i] < fr.n]_flowVars
    <2> SUFFICES ASSUME FlowInv, [FlowNext]_flowVars, flowVars' # flowVars,
                        NEW fr \in net' \ net, NEW i \in DOMAIN delivered[fr.key]
                 PROVE  delivered[fr.key][i] < fr.n
        OBVIOUS
    <2>1. PICK base : FlowInvFor(base)
        BY DEF FlowInv
    <2>2. ASSUME NEW flow \in FlowIds, SendFrame(flow) PROVE delivered[fr.key][i] < fr.n
        <3> DEFINE table == IF SequencerReset(flow) THEN << >> ELSE sequences
                   n == IF flow \in DOMAIN table THEN table[flow] ELSE 0
                   k == <<NextSenderId(flow), flow>>
        <3>1. net' = net \union {[key |-> k, n |-> n]} /\ \A m \in Carried(k) : m < n
            BY <2>1, <2>2, SendFacts
        <3> HIDE DEF n, k
        <3>2. fr.key = k /\ fr.n = n
            BY <3>1
        <3>3. delivered[k][i] \in Carried(k)
            BY <3>2 DEF Carried, OutputOf
        <3> QED
            BY <3>1, <3>2, <3>3
    <2>3. ASSUME NEW x \in net, Arrive(x) \/ ArriveDuplicated(x) PROVE FALSE
        BY <2>3 DEF Arrive, ArriveDuplicated
    <2>4. ASSUME NEW key \in DOMAIN flows, GapDeadline(key) PROVE FALSE
        BY <2>4 DEF GapDeadline
    <2> QED
        BY <2>2, <2>3, <2>4 DEF FlowNext
<1> QED
    BY <1>1, FlowInvariant, PTL DEF NewFramesAreAhead, FlowSpec
=============================================================================
