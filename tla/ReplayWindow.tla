---------------------------- MODULE ReplayWindow ----------------------------
(***************************************************************************)
(* Replay protection of a session's receive side (ReplayWindow of          *)
(* backend/session.rs).                                                    *)
(*                                                                         *)
(* Every obfuscated packet carries a 16-bit RTP sequence number that       *)
(* starts anywhere (backend/obfs.rs) and wraps.  accept_rtp extends it to  *)
(* 64 bits relative to the highest number accepted so far and accept looks *)
(* it up in a bitmap of the last Window numbers.  Here n is the number of  *)
(* a packet as the sender counts it; only Rtp(n) reaches the receiver.     *)
(***************************************************************************)
EXTENDS Naturals, FiniteSets

CONSTANTS
    SeqMod,     \* RTP sequence numbers: 2^16 in the code
    Window,     \* bits in `seen`: 16384
    StartAt,    \* numbers a sender may start with
    InOrderStart,   \* those of them from which the first packet sent is the first to arrive
    MaxDelay,   \* how far behind the newest packet another may arrive
    MaxLoss,    \* how far the sender may be ahead of the newest packet accepted
    MaxPackets  \* bound: packets of a run

Half == SeqMod \div 2

ASSUME ReplayConstants ==
    /\ SeqMod \in Nat /\ Window \in Nat \ {0}
    /\ SeqMod % Window = 0 /\ 2 * Window <= SeqMod
    /\ StartAt \subseteq 0 .. SeqMod - 1 /\ InOrderStart \subseteq StartAt
    /\ MaxDelay \in 0 .. Half - 1 /\ MaxLoss \in 0 .. Half - 1 /\ MaxPackets \in Nat \ {0}
    /\ \A s \in StartAt \ InOrderStart : s + MaxLoss < SeqMod   \* see AcceptedOnce

VARIABLES
    first, next,    \* the sender: number of its first and its next packet
    highest, seen,  \* ReplayWindow: {} or {number}, set bits
    accepted        \* history: how often a packet was accepted

replayVars == <<first, next, highest, seen, accepted>>

Rtp(n) == n % SeqMod

\* Bitmap index off by one at the end of the bitmap.
BitPastTheEnd(counter) == IF counter % Window = 0 THEN Window ELSE counter % Window

Bit(counter) == counter % Window

Numbers == 0 .. SeqMod + MaxPackets

\* accept_rtp: the 64-bit number nearest to h, but never below zero.
Extended(sequence, h) ==
    LET e == h - Rtp(h) + sequence
    IN  IF e + Half < h THEN e + SeqMod
        ELSE IF e > h + Half /\ e >= SeqMod THEN e - SeqMod ELSE e

\* A loop over the new numbers that skips the first.
FreedButTheFirst(h, counter) ==
    IF counter - h >= Window THEN seen ELSE {Bit(h + i) : i \in 2 .. counter - h}

\* Bits that become free when the window moves from h to counter.
Freed(h, counter) ==
    IF counter - h >= Window THEN seen ELSE {Bit(h + i) : i \in 1 .. counter - h}

Accepted(n, counter) ==
    /\ seen' = (seen \ (UNION {Freed(h, counter) : h \in {x \in highest : x < counter}}))
                 \union {Bit(counter)}
    /\ highest' = IF \E h \in highest : h >= counter THEN highest ELSE {counter}
    /\ accepted' = [accepted EXCEPT ![n] = @ + 1]

\* No age check: a number from an earlier round of the bitmap looks new.
NeverTooOld(counter) == FALSE

TooOld(counter) == \E h \in highest : counter <= h /\ h - counter >= Window

SeenBefore(counter) == (\E h \in highest : counter <= h) /\ Bit(counter) \in seen

Counter(n) == IF highest = {} THEN Rtp(n) ELSE Extended(Rtp(n), CHOOSE h \in highest : TRUE)

\* A packet, or a copy of it, arrives: accept_rtp and accept.
Arrives(n) == n < next /\ n + MaxDelay >= next

Accept(n) ==
    /\ Arrives(n)
    /\ ~ TooOld(Counter(n)) /\ ~ SeenBefore(Counter(n))
    /\ Accepted(n, Counter(n))
    /\ UNCHANGED <<first, next>>

Reject(n) ==
    /\ Arrives(n)
    /\ TooOld(Counter(n)) \/ SeenBefore(Counter(n))
    /\ UNCHANGED replayVars

\* The newest packet accepted so far.
LatestAccepted == {n \in Numbers : accepted[n] # 0 /\ \A m \in Numbers : accepted[m] # 0 => m <= n}

\* Half a lap of losses in a row and the number is ambiguous for any receiver.
Send ==
    /\ next < first + MaxPackets
    /\ \A m \in LatestAccepted : next <= m + MaxLoss
    /\ LatestAccepted = {} => next <= first + MaxLoss
    /\ next' = next + 1
    /\ UNCHANGED <<first, highest, seen, accepted>>

ReplayInit ==
    /\ first \in StartAt
    /\ IF first \in InOrderStart
       THEN /\ next = first + 1 /\ highest = {first} /\ seen = {Bit(first)}
            /\ accepted = [n \in Numbers |-> IF n = first THEN 1 ELSE 0]
       ELSE /\ next = first /\ highest = {} /\ seen = {}
            /\ accepted = [n \in Numbers |-> 0]

Sent == first .. first + MaxPackets - 1

ReplayNext == Send \/ \E n \in Sent : Accept(n) \/ Reject(n)

ReplaySpec == ReplayInit /\ [][ReplayNext]_replayVars

-----------------------------------------------------------------------------
ReplayTypeOK ==
    /\ first \in StartAt /\ next \in Numbers
    /\ highest \subseteq Nat /\ Cardinality(highest) <= 1
    /\ seen \subseteq 0 .. Window - 1
    /\ accepted \in [Numbers -> Nat]

\* No packet is accepted twice, also across a wrap of the RTP number, however the
\* packets are delayed and duplicated (session.rs:1671 and :1683).  The code needs
\* InOrderStart for starts just below the wrap: a first packet numbered 0 leaves a
\* late 65535 no number below it.
AcceptedOnce == \A n \in Numbers : accepted[n] <= 1

\* A packet that has not been accepted is let in when it is less than a window behind
\* the newest accepted one, or ahead of it: late is not taken for old, nor a new lap
\* for a duplicate (accept, session.rs:397).
FreshIsAccepted ==
    \A n \in Sent :
        (Arrives(n) /\ accepted[n] = 0 /\ \A m \in LatestAccepted : n + Window > m) =>
            ~ TooOld(Counter(n)) /\ ~ SeenBefore(Counter(n))
=============================================================================
