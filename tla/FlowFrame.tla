------------------------------ MODULE FlowFrame ------------------------------
(***************************************************************************)
(* Sequencing and reassembly of TCP flows over striped paths               *)
(* (backend/shared/flow_frame.rs).                                         *)
(*                                                                         *)
(* FlowSequencer numbers the packets of every TCP flow before the          *)
(* dispatcher stripes them over dozens of TURN paths; FlowReassembler      *)
(* restores the order on the other side.  The paths between the two delay, *)
(* reorder, duplicate and lose frames.                                     *)
(*                                                                         *)
(* A frame is [key, n]: key = <<sender_id, flow_id>>, n is the unwrapped   *)
(* number of the packet in its flow.  Only Wire(n), the number modulo      *)
(* SeqSpace (2^32 in the code), travels; the receiver never looks at n.    *)
(* The Vec of pending frames is a set: the code only searches it, and      *)
(* swap_remove does not keep its order.  The 12 ms gap clock of a flow is  *)
(* "none", "running" or "expired" (gap_started_ms is None, or Some(t) with *)
(* now - t below or past GAP_RELEASE_AFTER_MS); time passes by GapDeadline.*)
(***************************************************************************)
EXTENDS Naturals, Sequences, FiniteSets

CONSTANTS
    FlowIds,            \* the flow hashes tcp_flow_id can return
    SeqSpace,           \* size of the sequence space
    MaxTrackedFlows,    \* MAX_TRACKED_FLOWS, of both tables
    MaxPendingPerFlow,  \* MAX_PENDING_PER_FLOW
    MaxPendingTotal,    \* MAX_PENDING_TOTAL
    StartAt,            \* sequence numbers an established flow may have reached
    MaxFrames,          \* bound: frames a run sends
    MaxSenders          \* bound: sender identifiers a run uses

Half == SeqSpace \div 2

ASSUME FlowFrameConstants ==
    /\ SeqSpace \in Nat \ {0} /\ SeqSpace % 2 = 0
    /\ MaxTrackedFlows \in Nat \ {0}
    /\ MaxPendingPerFlow \in Nat \ {0}
    /\ MaxPendingTotal \in Nat \ {0}
    /\ StartAt \subseteq Nat
    /\ MaxFrames \in Nat /\ MaxFrames < Half   \* fewer frames in flight than half the space
    /\ MaxSenders \in Nat \ {0}

VARIABLES
    sender_id,      \* FlowSequencer.sender_id
    sequences,      \* FlowSequencer.sequences: flow -> number of its next packet
    net,            \* frames on the paths
    flows,          \* FlowReassembler.flows: key -> FlowState
    pending_total,  \* FlowReassembler.pending_total
    delivered,      \* history: key -> numbers output since the table was last cleared
    sent            \* history: frames sent so far, for the bound MaxFrames

flowVars == <<sender_id, sequences, net, flows, pending_total, delivered, sent>>

Keys == (1 .. MaxSenders) \X FlowIds

\* The numbers a run may send: MaxFrames from wherever a flow starts.
FrameNumbers == UNION {n0 .. n0 + MaxFrames - 1 : n0 \in StartAt \union {0}}

(***************************************************************************)
(* FlowSequencer                                                           *)
(***************************************************************************)
\* A counter that does not wrap.
Unwrapped(n) == n

Wire(n) == n % SeqSpace

\* FlowSequencer::next: a full table is emptied and the sender takes a new
\* identifier (mix64 of the old one, here its successor).
SequencerReset(flow) ==
    Cardinality(DOMAIN sequences) = MaxTrackedFlows /\ flow \notin DOMAIN sequences

WithEntry(f, k, v) == [x \in DOMAIN f \union {k} |-> IF x = k THEN v ELSE f[x]]

\* A reset that keeps the old identifier.
KeptSenderId(flow) == sender_id

NextSenderId(flow) == IF SequencerReset(flow) THEN sender_id + 1 ELSE sender_id

SendFrame(flow) ==
    LET table == IF SequencerReset(flow) THEN << >> ELSE sequences
        n     == IF flow \in DOMAIN table THEN table[flow] ELSE 0
        sid   == NextSenderId(flow)
    IN  /\ sid <= MaxSenders
        /\ sent < MaxFrames
        /\ sent' = sent + 1
        /\ sender_id' = sid
        /\ sequences' = WithEntry(table, flow, n + 1)
        /\ net' = net \union {[key |-> <<sid, flow>>, n |-> n]}
        /\ UNCHANGED <<flows, pending_total, delivered>>

(***************************************************************************)
(* FlowReassembler.  A working record holds one flow's FlowState, the      *)
(* pending_total of the table and the packets pushed to `output`.          *)
(***************************************************************************)
FreshFlow == [expected |-> 0, gap |-> "none", pending |-> {}]

Distance(s, e) == (s + SeqSpace - e) % SeqSpace

IsForward(s, e) == s # e /\ Distance(s, e) < Half

\* The code's saturating_sub.
SatSub(a, b) == IF a >= b THEN a - b ELSE 0

\* A release that does not touch the counter.
Unaccounted(before, after) == after

\* pending_total follows what a release took out of `pending`.
Accounted(before, after) ==
    [after EXCEPT !.total = SatSub(before.total,
        SatSub(Cardinality(before.pending), Cardinality(after.pending)))]

DrainContiguous(w) ==
    LET At(i) == {p \in w.pending : Wire(p) = Wire(w.expected + i)}
        len   == CHOOSE k \in 0 .. Cardinality(w.pending) :
                     At(k) = {} /\ \A i \in 0 .. k - 1 : At(i) # {}
        run   == [i \in 1 .. len |-> CHOOSE p \in At(i - 1) : TRUE]
    IN  [w EXCEPT !.expected = Wire(@ + len),
                  !.pending  = @ \ {run[i] : i \in 1 .. len},
                  !.out      = @ \o run]

\* The held frames ahead of the release point, and the one nearest to it.
Ahead(w) == {p \in w.pending : IsForward(Wire(p), w.expected)}

NearestAhead(w) ==
    CHOOSE p \in Ahead(w) : \A q \in Ahead(w) :
        Distance(Wire(p), w.expected) <= Distance(Wire(q), w.expected)

\* A wrong release_lowest that hands out the newest pending frame.
ReleaseHighest(w) ==
    LET high == CHOOSE p \in Ahead(w) : \A q \in Ahead(w) :
                    Distance(Wire(q), w.expected) <= Distance(Wire(p), w.expected)
    IN  IF Ahead(w) = {} THEN [w EXCEPT !.gap = "none"]
        ELSE [w EXCEPT !.pending = @ \ {high}, !.out = Append(@, high), !.gap = "none"]

\* A wrong release_lowest that skips the gap but forgets the frame behind it.
ReleaseDroppingLowest(w) ==
    IF Ahead(w) = {} THEN [w EXCEPT !.gap = "none"]
    ELSE DrainContiguous([w EXCEPT !.pending = @ \ {NearestAhead(w)}, !.gap = "none",
                                   !.expected = Wire(NearestAhead(w) + 1)])

ReleaseLowest(w) ==
    LET lowest  == NearestAhead(w)
        drained == DrainContiguous([w EXCEPT !.expected = Wire(lowest + 1),
                                             !.pending  = @ \ {lowest},
                                             !.out      = Append(@, lowest),
                                             !.gap      = "none"])
    IN  IF Ahead(w) = {} THEN [w EXCEPT !.gap = "none"]
        ELSE [drained EXCEPT !.gap = IF drained.pending = {} THEN @ ELSE "running"]

ReleaseExpired(w) == IF w.gap = "expired" THEN ReleaseLowest(w) ELSE w

\* A flow that minds only its own cap.
HoldWithoutTotalCap(w, n) ==
    LET room == IF Cardinality(w.pending) = MaxPendingPerFlow
                  THEN Accounted(w, ReleaseLowest(w)) ELSE w
    IN  [room EXCEPT !.pending = @ \union {n}, !.total = @ + 1,
                     !.gap = IF @ = "none" THEN "running" ELSE @]

\* push_at past the duplicate check: the frame is ahead of a gap and is held.
\* Both caps make room by giving up the oldest gap of the flow.
Hold(w, n) ==
    LET Release(x) == Accounted(x, ReleaseLowest(x))
        room    == IF Cardinality(w.pending) = MaxPendingPerFlow THEN Release(w) ELSE w
        atCap   == room.total = MaxPendingTotal
        roomy   == IF atCap THEN Release(room) ELSE room
        held    == [roomy EXCEPT !.pending = @ \union {n}, !.total = @ + 1]
        bounded == IF held.total > MaxPendingTotal THEN Release(held) ELSE held
        timed   == [bounded EXCEPT !.gap = IF @ = "none" THEN "running" ELSE @]
    IN  IF atCap /\ room.pending = {}
        THEN [room EXCEPT !.out = Append(@, n), !.expected = Wire(n + 1), !.gap = "none"]
        ELSE Accounted(timed, ReleaseExpired(timed))

PushToFlow(w0, n) ==
    LET w    == Accounted(w0, ReleaseExpired(w0))
        next == [w EXCEPT !.out = Append(@, n), !.expected = Wire(@ + 1), !.gap = "none"]
    IN  CASE Wire(n) = w.expected -> Accounted(next, DrainContiguous(next))
          [] /\ Wire(n) # w.expected
             /\ ~ IsForward(Wire(n), w.expected) \/ \E p \in w.pending : Wire(p) = Wire(n) -> w
          [] OTHER -> Hold(w, n)

\* FlowReassembler::push_at, with the table cleared when a new flow finds it full.
TableReset(key) == Cardinality(DOMAIN flows) = MaxTrackedFlows /\ key \notin DOMAIN flows

\* A table reset that forgets to zero pending_total.
StaleTotal(key) == pending_total

TotalBefore(key) == IF TableReset(key) THEN 0 ELSE pending_total

PushFrame(fr) ==
    LET table == IF TableReset(fr.key) THEN << >> ELSE flows
        state == IF fr.key \in DOMAIN table THEN table[fr.key] ELSE FreshFlow
        w     == PushToFlow([expected |-> state.expected, gap |-> state.gap,
                             pending |-> state.pending, total |-> TotalBefore(fr.key),
                             out |-> << >>], fr.n)
        past  == IF TableReset(fr.key) THEN [k \in Keys |-> << >>] ELSE delivered
    IN  /\ flows' = WithEntry(table, fr.key, [expected |-> w.expected, gap |-> w.gap,
                                              pending |-> w.pending])
        /\ pending_total' = w.total
        /\ delivered' = [past EXCEPT ![fr.key] = @ \o w.out]
        /\ UNCHANGED <<sender_id, sequences, sent>>

\* A frame arrives over some path and, if the path duplicated it, stays on it.
Arrive(fr) == PushFrame(fr) /\ net' = net \ {fr}
ArriveDuplicated(fr) == PushFrame(fr) /\ UNCHANGED net

\* GAP_RELEASE_AFTER_MS have passed since the gap of this flow opened.
GapDeadline(key) ==
    /\ flows[key].gap = "running"
    /\ flows' = [flows EXCEPT ![key].gap = "expired"]
    /\ UNCHANGED <<sender_id, sequences, net, pending_total, delivered, sent>>

\* A new pair of endpoints, or one flow that has already carried n0 packets in order.
FlowInit ==
    /\ sender_id = 1
    /\ net = {}
    /\ sent = 0
    /\ pending_total = 0
    /\ delivered = [k \in Keys |-> << >>]
    /\ \/ sequences = << >> /\ flows = << >>
       \/ \E flow \in FlowIds, n0 \in StartAt :
             /\ sequences = [f \in {flow} |-> n0]
             /\ flows = [k \in {<<1, flow>>} |-> [FreshFlow EXCEPT !.expected = Wire(n0)]]

FlowNext ==
    \/ \E flow \in FlowIds : SendFrame(flow)
    \/ \E fr \in net : Arrive(fr) \/ ArriveDuplicated(fr)
    \/ \E key \in DOMAIN flows : GapDeadline(key)

FlowSpec == FlowInit /\ [][FlowNext]_flowVars

(***************************************************************************)
(* Properties                                                              *)
(***************************************************************************)
FlowStates == [expected : 0 .. SeqSpace - 1, gap : {"none", "running", "expired"},
               pending : SUBSET FrameNumbers]

FlowTypeOK ==
    /\ sender_id \in 1 .. MaxSenders
    /\ DOMAIN sequences \subseteq FlowIds /\ \A f \in DOMAIN sequences : sequences[f] \in Nat
    /\ net \subseteq [key : Keys, n : FrameNumbers]
    /\ DOMAIN flows \subseteq Keys /\ \A k \in DOMAIN flows : flows[k] \in FlowStates
    /\ pending_total \in Nat /\ sent \in 0 .. MaxFrames
    /\ delivered \in [Keys -> Seq(FrameNumbers)]

\* Between two resets of the receiver's table every flow leaves push_at in the
\* order it was sent, and no packet twice, whatever the paths reorder or
\* duplicate and whichever gaps the deadline and the two caps give up.
OrderedOutput ==
    \A k \in Keys : \A i, j \in DOMAIN delivered[k] :
        i < j => delivered[k][i] < delivered[k][j]

\* The frames held over all flows, each with the key of its flow.
HeldFrames == UNION {{k} \X flows[k].pending : k \in DOMAIN flows}

\* pending_total, the only thing push_at compares with MAX_PENDING_TOTAL, is
\* exactly the number of frames held in all flows, and within the cap.
PendingAccounted ==
    /\ pending_total = Cardinality(HeldFrames)
    /\ pending_total <= MaxPendingTotal

\* push_at never loses a held frame: it stays pending or goes out, unless the
\* whole table is cleared.  Nor does it lose an arriving frame that is expected
\* or ahead, unless the gap deadline had passed: then push_at gives the gap up
\* before it looks at the frame, even when the frame would have filled it.
HeldFramesAreKept ==
    [][\A fr \in net : (PushFrame(fr) /\ ~ TableReset(fr.key) /\ fr.key \in DOMAIN flows) =>
          LET old   == flows[fr.key]
              now   == flows'[fr.key].pending \union
                         {delivered'[fr.key][i] : i \in DOMAIN delivered'[fr.key]}
              ahead == {n \in {fr.n} : /\ old.gap # "expired"
                                       /\ \/ Wire(n) = old.expected
                                          \/ IsForward(Wire(n), old.expected)}
          IN  old.pending \union ahead \subseteq now]_flowVars

\* A frame that leaves the sequencer is numbered past everything its key has
\* already output: a full sequencer table starts over at zero only under a new
\* sender_id, so the receiver does not take the flow's packets for old ones.
NewFramesAreAhead ==
    [][\A fr \in net' \ net : \A i \in DOMAIN delivered[fr.key] :
          delivered[fr.key][i] < fr.n]_flowVars

\* flow_frame.rs:446 and :455: the lowest pending frame is released once the gap
\* deadline passes, a late one is dropped; so nothing behind the release point
\* is held.  push_at does not keep this when a flow is at its cap (README,
\* section 6), so no run checks it.
NoFrameStranded ==
    \A k \in DOMAIN flows : \A p \in flows[k].pending :
        IsForward(Wire(p), flows[k].expected)
=============================================================================
