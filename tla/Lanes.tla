------------------------------- MODULE Lanes -------------------------------
(***************************************************************************)
(* The packet loops of the dispatcher (backend/dispatcher.rs) between the  *)
(* local side, a TUN device, a Wintun adapter or a UDP socket, and the     *)
(* sessions, with the batched socket calls of backend/udp_batch.rs.        *)
(*                                                                         *)
(* Upwards the reader takes buffers of the pool, reads packets into them   *)
(* and dispatches them to a session's three queues, from which writer_loop *)
(* of backend/session.rs sends them in batches of one class.  Downwards a  *)
(* session puts packets into one of three class lanes; the writer takes    *)
(* them by class, puts the frames of a flow into order again and writes    *)
(* them out, on a socket in batches of one class.  The reassembler is that *)
(* of module FlowFrame for one flow, with a gap that may have expired at   *)
(* any push; the choice of a worker is module Dispatcher, the lanes are    *)
(* queues of module PacketQueue and the pool is module PacketPool, seen as *)
(* atomic.  Packets on their way up are counted, not told apart.           *)
(***************************************************************************)
EXTENDS Naturals, Sequences, FiniteSets

CONSTANTS
    Modes,          \* a subset of {"tun", "wintun", "udp"}
    MaxFrames,      \* bound: frames of the flow
    PoolSize,       \* allocation_limit
    LaneCapacity,   \* RETURN_..._CAPACITY
    UplinkCapacity, \* WORKER_..._CAPACITY and WRITER_..._BATCH_LIMIT
    UplinkClasses,  \* bound: classes of the packets read
    Batch           \* datagram_batch and MAX_DATAGRAMS

ASSUME LanesConstants ==
    /\ Modes \subseteq {"tun", "wintun", "udp"}
    /\ MaxFrames \in Nat /\ PoolSize \in Nat \ {0}
    /\ LaneCapacity \in Nat \ {0} /\ UplinkCapacity \in Nat \ {0} /\ Batch \in Nat \ {0}
    /\ UplinkClasses \subseteq 1 .. 3

VARIABLES
    mode,       \* the local side
    used,       \* buffers out of the pool
    reader,     \* [pc, hand]: the reading loop and the buffers it has acquired
    linked,     \* a session is registered
    session,    \* its receiving half has acquired a buffer
    uplink,     \* packets in its queues by class: latency, priority, bulk
    sending,    \* buffers in its writer: pending_data, mmsg_data or a command
    lane,       \* return_latency, return_priority, return by class
    arrived,    \* packets the session has returned
    order,      \* the reassembler of ReturnReorder: [expected, held]
    ready,      \* ReturnReorder.ready
    writer,     \* [pc, batch, sent]: the writing loop
    client,     \* the UDP client's address is known
    mmsg,       \* SEND_TO_MMSG_ENABLED
    cancelled,  \* the token
    written     \* history: the numbers of the packets written out

vars == <<mode, used, reader, linked, session, uplink, sending, lane, arrived, order, ready, writer,
          client, mmsg, cancelled, written>>
queues == <<linked, uplink, sending>>
up == <<reader, queues>>
down == <<session, lane, arrived>>
sorted == <<order, ready>>
world == <<client, mmsg, cancelled>>

Smaller(a, b) == IF a < b THEN a ELSE b

\* PacketClass: Small, Medium, Bulk
Classes == 1 .. 3
Frames == 1 .. MaxFrames
Unframed == 0

InUplink == uplink[1] + uplink[2] + uplink[3]
InLanes == Len(lane[1]) + Len(lane[2]) + Len(lane[3])
Owned == Len(ready) + Cardinality(order.held) + Len(writer.batch)

\* try_acquire, and the drop of `k` buffers
Acquire == used < PoolSize /\ used' = used + 1
Release(k) == used' = used - k

-----------------------------------------------------------------------------
(***************************************************************************)
(* Upwards                                                                 *)
(***************************************************************************)
\* The loop is at its select and the local side is readable.
ReaderWakes ==
    /\ reader.pc = "wait"
    /\ reader' = [reader EXCEPT !.pc = "acquire"]
    /\ UNCHANGED <<mode, used, queues, down, sorted, writer, world, written>>

\* read_udp takes buffers for a whole batch, MAX_DATAGRAMS; the other readers take one.
ReadBatch == IF mode = "udp" THEN Batch ELSE 1

\* An empty pool sends the loop back to its select, on a socket after a pause.
ReaderAcquires ==
    /\ reader.pc = "acquire"
    /\ \/ /\ Acquire
          /\ reader' = [pc |-> IF reader.hand + 1 = ReadBatch THEN "read" ELSE "acquire",
                        hand |-> reader.hand + 1]
       \/ /\ used = PoolSize /\ UNCHANGED used
          /\ reader' = [reader EXCEPT !.pc = IF reader.hand = 0 THEN "wait" ELSE "read"]
    /\ UNCHANGED <<mode, queues, down, sorted, writer, world, written>>

\* Packets are read, framed and dispatched, `added` of them by class: into the queue of
\* their class in the session whose turn it is, in place of the oldest where it is full,
\* or nowhere if there is none.  The buffers that were not filled are given back.
ReaderReads ==
    /\ reader.pc = "read"
    /\ \E added \in [Classes -> 0 .. reader.hand] :
         /\ added[1] + added[2] + added[3] <= reader.hand
         /\ \A c \in Classes \ UplinkClasses : added[c] = 0
         /\ uplink' = IF linked THEN [c \in Classes |-> Smaller(UplinkCapacity, uplink[c] + added[c])]
                      ELSE uplink
         /\ used' = used - reader.hand - InUplink + InUplink'
    /\ reader' = [pc |-> "wait", hand |-> 0]
    /\ client' = (client \/ mode = "udp")
    /\ UNCHANGED <<mode, linked, sending, down, sorted, writer, mmsg, cancelled, written>>

\* Nothing to read after all, or a datagram of the batch is too long for its buffer: every
\* buffer is given back, those of the datagrams before it too.
ReaderFails ==
    /\ reader.pc = "read"
    /\ Release(reader.hand)
    /\ reader' = [pc |-> "wait", hand |-> 0]
    /\ UNCHANGED <<mode, queues, down, sorted, writer, world, written>>

-----------------------------------------------------------------------------
(***************************************************************************)
(* Upwards: the session                                                    *)
(***************************************************************************)
\* run_allocated_session: new queues are registered.
SessionStarts ==
    /\ ~ linked /\ ~ cancelled /\ linked' = TRUE
    /\ UNCHANGED <<mode, used, reader, uplink, sending, down, sorted, writer, world, written>>

\* next_writer_packet: the first queue that has a packet.
FirstQueue == CHOOSE c \in Classes : uplink[c] > 0 /\ \A d \in 1 .. c - 1 : uplink[d] = 0

\* send_writer_batch takes packets of one class.  A packet of a higher class that arrives
\* meanwhile cuts the batch short (writer_batch_can_extend).
TakeWriterBatch ==
    /\ linked /\ sending = 0 /\ InUplink > 0
    /\ \E size \in 1 .. uplink[FirstQueue] :
         /\ FirstQueue = 1 => size = uplink[1]
         /\ sending' = size
         /\ uplink' = [uplink EXCEPT ![FirstQueue] = @ - size]
    /\ UNCHANGED <<mode, used, reader, linked, down, sorted, writer, world, written>>

\* handle_writer_command: a control message needs a buffer of the same pool; without one
\* the command fails and the writer goes on.
SendCommand ==
    /\ linked /\ sending = 0
    /\ Acquire /\ sending' = 1
    /\ UNCHANGED <<mode, reader, linked, uplink, down, sorted, writer, world, written>>

\* flush_queued_data: the batch is handed to the allocation.
FlushQueuedData ==
    /\ sending > 0 /\ sending' = 0
    /\ Release(sending)
    /\ UNCHANGED <<mode, reader, linked, uplink, down, sorted, writer, world, written>>

\* Variant: what waits in the queues is left to nobody.
QueuesForgotten == sending

\* The buffers a session takes with it: its writer's, and those in its queues, which the
\* drop of the receivers purges.
SessionOwned == sending + InUplink

\* A failed send, a repair, a failed receive or the farewell ends the session; both its
\* tasks are aborted wherever they are.
SessionEnds ==
    /\ linked /\ linked' = FALSE
    /\ Release(SessionOwned + (IF session THEN 1 ELSE 0))
    /\ session' = FALSE /\ sending' = 0 /\ uplink' = [c \in Classes |-> 0]
    /\ UNCHANGED <<mode, reader, lane, arrived, sorted, writer, world, written>>

-----------------------------------------------------------------------------
(***************************************************************************)
(* Downwards: the session                                                  *)
(***************************************************************************)
SessionAcquires ==
    /\ linked /\ ~ session /\ arrived # Frames \union {Unframed}
    /\ Acquire /\ session' = TRUE
    /\ UNCHANGED <<mode, up, lane, arrived, sorted, writer, world, written>>

\* reader_loop: a replayed or forged packet, a message to the client itself, or one that
\* is no IP packet even inside its frame goes no further.
SessionConsumes ==
    /\ session /\ session' = FALSE /\ Release(1)
    /\ UNCHANGED <<mode, up, lane, arrived, sorted, writer, world, written>>

\* force_send: the newest packet takes the place of the oldest.
PushedOut(c) == IF Len(lane[c]) = LaneCapacity THEN 1 ELSE 0

ForceSend(q, p) == Append(IF Len(q) = LaneCapacity THEN Tail(q) ELSE q, p)

\* return_packet: the lane is that of the packet's class; it is closed when its receiver
\* is gone.
ReturnPacket(n, c) ==
    /\ session /\ session' = FALSE
    /\ n \notin arrived /\ arrived' = arrived \union {n}
    /\ IF writer.pc = "ended" THEN Release(1) /\ UNCHANGED lane
       ELSE /\ lane' = [lane EXCEPT ![c] = ForceSend(@, [n |-> n, class |-> c])]
            /\ Release(PushedOut(c))
    /\ UNCHANGED <<mode, up, sorted, writer, world, written>>

-----------------------------------------------------------------------------
(***************************************************************************)
(* Downwards: the writer                                                   *)
(***************************************************************************)
\* The frames that follow on `expected` without a gap, and the rest.
Released(o) ==
    LET At(n) == {p \in o.held : p.n = n}
        end   == CHOOSE k \in o.expected .. MaxFrames + 1 :
                     At(k) = {} /\ \A n \in o.expected .. k - 1 : At(n) # {}
        run   == [i \in 1 .. end - o.expected |-> CHOOSE p \in At(o.expected + i - 1) : TRUE]
    IN  [expected |-> end, held |-> {p \in o.held : p.n >= end}, run |-> run]

\* The gap in front of the held frames is given up.
GapExpires(o) ==
    IF o.held = {} THEN o
    ELSE [o EXCEPT !.expected = CHOOSE n \in {p.n : p \in o.held} : \A p \in o.held : n <= p.n]

\* ReturnReorder::push
ReorderPush(p, expired) ==
    LET o   == Released(IF expired THEN GapExpires(order) ELSE order)
        rel == Released([expected |-> o.expected, held |-> o.held \union {p}])
    IN  IF p.n = Unframed
        THEN ready' = Append(ready, p) /\ UNCHANGED <<order, used>>
        ELSE IF p.n < o.expected
        THEN /\ ready' = ready \o o.run /\ Release(1)
             /\ order' = [expected |-> o.expected, held |-> o.held]
        ELSE /\ ready' = ready \o o.run \o rel.run /\ UNCHANGED used
             /\ order' = [expected |-> rel.expected, held |-> rel.held]

\* next_return_packet: the first lane that has a packet.
FirstLane == CHOOSE c \in Classes : lane[c] # << >> /\ \A d \in 1 .. c - 1 : lane[d] = << >>

\* next_ordered_return_packet, recv_ordered_return_packet: while nothing is in order, a
\* packet of the lanes is pushed.
WriterReorders ==
    /\ writer.pc \in {"recv", "batch"} /\ ready = << >> /\ InLanes > 0
    /\ \E expired \in BOOLEAN : ReorderPush(Head(lane[FirstLane]), expired)
    /\ lane' = [lane EXCEPT ![FirstLane] = Tail(@)]
    /\ UNCHANGED <<mode, up, session, arrived, writer, world, written>>

\* The first packet of a batch; for a device the batch is this one.
WriterTakes ==
    /\ writer.pc = "recv" /\ ready # << >>
    /\ ready' = Tail(ready)
    /\ writer' = [pc |-> IF mode = "udp" THEN "batch" ELSE "write",
                  batch |-> <<Head(ready)>>, sent |-> 0]
    /\ UNCHANGED <<mode, used, up, down, order, world, written>>

\* A packet of a higher class waits in its lane.
HigherWaits == \E c \in 1 .. Head(writer.batch).class - 1 : lane[c] # << >>

BatchFull == Len(writer.batch) = Batch \/ HigherWaits

SameClass == Head(ready).class = Head(writer.batch).class

\* The loop of write_udp that fills the batch.
WriterBatches ==
    /\ writer.pc = "batch" /\ ~ BatchFull /\ ready # << >> /\ SameClass
    /\ ready' = Tail(ready)
    /\ writer' = [writer EXCEPT !.batch = Append(@, Head(ready))]
    /\ UNCHANGED <<mode, used, up, down, order, world, written>>

\* Variant: the packet goes to the end.
PutBackLast == ready' = Append(Tail(ready), Head(ready))

\* reorder.ready.push_front
PutBack == ready' = <<Head(ready)>> \o Tail(ready)

\* The batch ends: it is full, nothing is left, or the next packet is of another class.
WriterBatchEnds ==
    /\ writer.pc = "batch"
    /\ \/ (BatchFull \/ (ready = << >> /\ InLanes = 0)) /\ UNCHANGED ready
       \/ ~ BatchFull /\ ready # << >> /\ ~ SameClass /\ PutBack
    /\ writer' = [writer EXCEPT !.pc = "send"]
    /\ UNCHANGED <<mode, used, up, down, order, world, written>>

Idle == [pc |-> "recv", batch |-> << >>, sent |-> 0]

Numbers(s) == [i \in 1 .. Len(s) |-> s[i].n]

\* write_udp_batch, one try_send_to: `count` datagrams of the rest are sent.  Where
\* sendmmsg is not available, single sends take over for good; there an error may come
\* after the first datagrams.
WriterSends ==
    /\ writer.pc = "send" /\ client
    /\ \E count \in 0 .. Len(writer.batch) - writer.sent, error, still \in BOOLEAN :
         LET upto == writer.sent + count
             end  == upto = Len(writer.batch) \/ error
         IN  /\ still => mmsg
             /\ error /\ still => count = 0
             /\ mmsg' = still
             /\ written' = written \o Numbers(SubSeq(writer.batch, writer.sent + 1, upto))
             /\ writer' = IF end THEN Idle ELSE [writer EXCEPT !.sent = upto]
             /\ Release(IF end THEN Len(writer.batch) ELSE 0)
    /\ UNCHANGED <<mode, up, down, sorted, client, cancelled>>

\* Variant: a send that waits for the socket does not look at the token.
NoClientOnly == ~ client

\* No client yet, or the token: the batch is dropped.
MustDiscard == ~ client \/ cancelled

WriterDiscards ==
    /\ writer.pc = "send" /\ MustDiscard
    /\ writer' = Idle /\ Release(Len(writer.batch))
    /\ UNCHANGED <<mode, up, down, sorted, world, written>>

\* write_tun, write_wintun: the packet is written, or the system rejects it, and the
\* burst goes on with what is next in order.
WriterWrites ==
    /\ writer.pc = "write"
    /\ \/ written' = written \o Numbers(writer.batch)
       \/ mode = "tun" /\ UNCHANGED written
    /\ writer' = Idle /\ Release(1)
    /\ UNCHANGED <<mode, up, down, sorted, world>>

-----------------------------------------------------------------------------
(***************************************************************************)
(* The end                                                                 *)
(***************************************************************************)
Cancel ==
    /\ ~ cancelled /\ cancelled' = TRUE
    /\ UNCHANGED <<mode, used, up, down, sorted, writer, client, mmsg, written>>

\* What a writer owns goes with it; its receivers too, unless run_tun keeps them.
WriterGone(pc, keeps, more) ==
    /\ writer' = [Idle EXCEPT !.pc = pc]
    /\ ready' = << >> /\ order' = [expected |-> 1, held |-> {}]
    /\ lane' = IF keeps THEN lane ELSE [c \in Classes |-> << >>]
    /\ Release(Owned + more + (IF keeps THEN 0 ELSE InLanes))

\* A writer looks at the token in recv_return_packet, when the lanes are empty, and while
\* it waits for a writable device or for another device.
WriterStops ==
    /\ cancelled
    /\ \/ writer.pc = "recv" /\ ready = << >> /\ InLanes = 0
       \/ writer.pc \in {"write", "stalled"}
    /\ WriterGone("ended", FALSE, 0)
    /\ UNCHANGED <<mode, up, session, arrived, world, written>>

\* The select of the reader is not biased; the Wintun reader looks before every read.
ReaderStops ==
    /\ cancelled /\ reader.pc = "wait"
    /\ reader' = [reader EXCEPT !.pc = "ended"]
    /\ UNCHANGED <<mode, used, queues, down, sorted, writer, world, written>>

\* A TUN device that fails for good ends both loops; run_tun then waits for a
\* replacement, which nothing sends.
TunFails ==
    /\ mode = "tun" /\ (writer.pc = "write" \/ reader.pc = "read")
    /\ reader' = [pc |-> "ended", hand |-> 0]
    /\ WriterGone("stalled", TRUE, reader.hand)
    /\ UNCHANGED <<mode, queues, session, arrived, world, written>>

\* A Wintun adapter that fails ends the loop that met the failure.
WintunFails ==
    /\ mode = "wintun"
    /\ \/ /\ writer.pc = "write" /\ WriterGone("ended", FALSE, 0) /\ UNCHANGED reader
       \/ /\ reader.pc = "read" /\ reader' = [pc |-> "ended", hand |-> 0]
          /\ Release(reader.hand) /\ UNCHANGED <<writer, sorted, lane>>
    /\ UNCHANGED <<mode, queues, session, arrived, world, written>>

-----------------------------------------------------------------------------
Init ==
    /\ mode \in Modes /\ used = 0
    /\ reader = [pc |-> "wait", hand |-> 0] /\ uplink = [c \in Classes |-> 0]
    /\ linked = FALSE /\ session = FALSE /\ sending = 0 /\ lane = [c \in Classes |-> << >>] /\ arrived = {}
    /\ order = [expected |-> 1, held |-> {}] /\ ready = << >>
    /\ writer = Idle
    /\ client = FALSE /\ mmsg = TRUE /\ cancelled = FALSE /\ written = << >>

ReaderTask == ReaderWakes \/ ReaderAcquires \/ ReaderReads \/ ReaderFails

WriterTask == WriterReorders \/ WriterTakes \/ WriterBatches \/ WriterBatchEnds \/ WriterDiscards

SessionWriter == SessionStarts \/ TakeWriterBatch \/ SendCommand \/ FlushQueuedData \/ SessionEnds

SessionTask ==
    \/ SessionAcquires \/ SessionConsumes
    \/ \E n \in Frames \union {Unframed}, c \in Classes : ReturnPacket(n, c)

\* Both loops have ended and nothing is left to do.
Terminated ==
    /\ reader.pc = "ended" /\ writer.pc = "ended" /\ UNCHANGED vars

Next ==
    \/ ReaderTask \/ SessionWriter \/ SessionTask \/ WriterTask \/ WriterSends \/ WriterWrites \/ Cancel
    \/ WriterStops \/ ReaderStops \/ TunFails \/ WintunFails \/ Terminated

Spec == Init /\ [][Next]_vars

\* Tasks are scheduled; a select that is not biased takes the token some time.  Nothing
\* is asked of the local side: a socket or device may never take another packet.
FairSpec ==
    /\ Spec
    /\ WF_vars(ReaderTask) /\ SF_vars(ReaderStops)
    /\ WF_vars(WriterTask) /\ SF_vars(WriterStops)

-----------------------------------------------------------------------------
\* The type invariant: lanes and queues keep to their capacities, and a batch is never
\* empty while it is sent.
TypeOK ==
    /\ mode \in Modes /\ used \in 0 .. PoolSize /\ sending \in 0 .. UplinkCapacity
    /\ reader \in [pc : {"wait", "acquire", "read", "ended"}, hand : 0 .. Batch]
    /\ uplink \in [Classes -> 0 .. UplinkCapacity]
    /\ \A c \in Classes : Len(lane[c]) <= LaneCapacity
    /\ order.expected \in 1 .. MaxFrames + 1
    /\ writer.pc \in {"recv", "batch", "send", "write", "stalled", "ended"}
    /\ writer.pc \in {"batch", "send", "write"} <=> Len(writer.batch) \in 1 .. Batch

\* Every buffer out of the pool has an owner: a task's hand, a queue, the reassembler or
\* the batch.  Full lanes, late frames, failed batches and loops that end with packets in
\* them lose none and give none back twice, so that the two loops cannot run the pool dry
\* for good.  The buffers of the TURN drivers, their incoming queues and the data queues of
\* their streams, come from the same pool and are not among the owners.
BuffersAccounted ==
    used = reader.hand + InUplink + sending + (IF session THEN 1 ELSE 0) + InLanes + Owned

\* The frames of a flow are written in order and at most once, although they come through
\* three lanes, batches of one class, partial sends and retries.
OrderedWrites ==
    \A i, j \in DOMAIN written :
        i < j /\ written[i] # Unframed /\ written[j] # Unframed => written[i] < written[j]

\* After cancellation both loops end, also with an empty pool, full lanes and a socket
\* that takes no more: Dispatcher::shutdown, which awaits them, returns.
LoopsEnd == cancelled ~> (reader.pc = "ended" /\ writer.pc = "ended")
=============================================================================
