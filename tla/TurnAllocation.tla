--------------------------- MODULE TurnAllocation ---------------------------
(***************************************************************************)
(* One TURN allocation of backend/turn.rs: the driver task that moves      *)
(* packets and events between the socket and the core, the owner that      *)
(* connects, binds the channel and closes, and what both share: the        *)
(* snapshot the driver publishes and the DriverShared flags.               *)
(*                                                                         *)
(* The core is TurnCore's record.  The server is the environment: it may   *)
(* answer any transaction that was sent, with any response, or never.      *)
(* Completion sequence numbers are compared with a baseline the waiter     *)
(* reads first: `done` is what has completed since.                        *)
(***************************************************************************)
EXTENDS TurnCore

CONSTANTS
    MaxDue,      \* deadlines that may pass between two polls
    MaxPassed,   \* polls of a behaviour that find a deadline passed
    MaxBurst     \* STUN messages in one burst of the open UDP branch, MAX_DATAGRAMS
                 \* in the code

ASSUME DriverBounds == {MaxDue, MaxPassed} \subseteq Nat /\ MaxBurst \in Nat \ {0}

VARIABLES
    core,      \* NativeCore
    snap,      \* CoreSnapshot: state, relay, channel, terminal
    done,      \* completion of the awaited request since the baseline
    shared,    \* DriverShared: closing, controlSent, channel
    wake,      \* the permit of DriverShared::wake
    drv,       \* the driver task: where it is and its locals
    app,       \* where the owner is
    receiver,  \* the receiving half of `incoming`: "held" or "dropped"
    passed     \* polls that found a deadline passed, bounded by MaxPassed

vars == <<core, snap, done, shared, wake, drv, app, receiver, passed>>

\* The open UDP branch receives a burst ("recv") and parks at its select; the closing
\* one drains the socket ("drain") and lingers at a select of its own.  A packet of
\* the core that was pulled is awaited at "write".
DriverAt == {"top", "send", "write", "events", "recv", "park", "drain", "linger",
             "ended"}
OwnerAt == {"new", "allocating", "allocated", "permitting", "binding", "ready",
            "failed", "closing", "waiting", "gone"}

\* connect_transport: the first endpoint that can be reached decides.
ConnectTransport == {CreateCore(t) : t \in Transports}

Init ==
    /\ core \in ConnectTransport
    /\ snap = [state |-> NULL, relay |-> FALSE, channel |-> FALSE,
               terminal |-> FALSE]
    /\ done = "none"
    /\ shared = [closing |-> FALSE, controlSent |-> FALSE, channel |-> FALSE]
    /\ wake = FALSE
    /\ drv = [at |-> "top", pump |-> TRUE, requested |-> FALSE,
              destroy |-> FALSE, burst |-> 0]
    /\ app = "new"
    /\ receiver = "held"
    /\ passed = 0

-----------------------------------------------------------------------------
(* DriverShared. *)

\* fail is silent once the owner closes, and keeps the first reason.
Failed(s, sh) == [s EXCEPT !.terminal = @ \/ ~sh.closing]

Cleaning(sh) == [sh EXCEPT !.closing = TRUE, !.channel = FALSE]

RequestCleanup == shared' = Cleaning(shared) /\ wake' = TRUE

EnsureOpen == ~shared.closing /\ ~snap.terminal

\* send_with_duplicate and send_data_batch take a packet; neither changes the
\* state of the allocation, whatever becomes of the packet.
Sendable == EnsureOpen /\ shared.channel

-----------------------------------------------------------------------------
(* The driver: the top of the loop. *)

Go(at) == drv' = [drv EXCEPT !.at = at]

\* Some time after it was set; the fairness of CleanupEnds says that the time
\* comes.
CleanupDeadlinePassed == drv.requested

\* core.force_destroy(0) after the loop; the sender of `incoming` is dropped.
EndDriver ==
    /\ core' = ForceDestroy(core)
    /\ Go("ended")


\* The closing branch gives up: nothing was ever sent, no cleanup permit is
\* left (MAX_BACKGROUND_CLEANUPS are running), the core is already down, or
\* the cleanup deadline, set when the cleanup starts, has passed.
CleanupEnds ==
    /\ drv.at = "top" /\ shared.closing
    /\ ~shared.controlSent \/ ~drv.requested \/ snap.state >= DEALLOCATED
          \/ CleanupDeadlinePassed
    /\ EndDriver
    /\ UNCHANGED <<snap, done, shared, wake, app, receiver, passed>>

\* start_driver_cleanup: the deadline is set once, the shutdown asked once.
CleanupStarts ==
    /\ drv.at = "top" /\ shared.closing /\ shared.controlSent
    /\ ~drv.requested
    /\ core' = GracefulShutdown(core)
    /\ drv' = [drv EXCEPT !.requested = TRUE, !.pump = TRUE]
    /\ UNCHANGED <<snap, done, shared, wake, app, receiver, passed>>

CleanupGoesOn == shared.closing => drv.requested /\ snap.state < DEALLOCATED

\* pump_native begins with core.poll.
PumpPoll ==
    /\ drv.at = "top" /\ drv.pump /\ CleanupGoesOn
    /\ \E due \in SUBSET core.armed,
          dueOps \in SUBSET {p.op : p \in core.pending} :
          /\ Cardinality(due) + Cardinality(dueOps) <= MaxDue
          /\ passed' = IF due \cup dueOps = {} THEN passed ELSE passed + 1
          /\ passed' <= MaxPassed
          /\ PossiblyDue(core, due)
          /\ \E order \in SetToSeqs(dueOps) : core' = Poll(core, due, order)
    /\ Go("send")
    /\ UNCHANGED <<snap, done, shared, wake, app, receiver>>

TopWaits ==
    /\ drv.at = "top" /\ ~drv.pump /\ CleanupGoesOn
    /\ Go(IF core.transport = "Stream" THEN "park"
          ELSE IF shared.closing THEN "drain" ELSE "recv")
    /\ UNCHANGED <<core, snap, done, shared, wake, app, receiver, passed>>

-----------------------------------------------------------------------------
(* The driver: pump_native. *)

\* One packet at a time: pulled from the core, ...
PumpPull ==
    /\ drv.at = "send" /\ core.controls # <<>>
    /\ core' = [core EXCEPT !.controls = Tail(@)]
    /\ Go("write")
    /\ UNCHANGED <<snap, done, shared, wake, app, receiver, passed>>

\* ... then awaited, for as long as the socket does not take it or the queue of
\* the stream's writer, CONTROL_QUEUE_CAPACITY packets, is full.
PumpSent ==
    /\ drv.at = "write"
    /\ shared' = [shared EXCEPT !.controlSent = TRUE]
    /\ Go("send")
    /\ UNCHANGED <<core, snap, done, wake, app, receiver, passed>>

PumpAllSent ==
    /\ drv.at = "send" /\ core.controls = <<>>
    /\ Go("events")
    /\ UNCHANGED <<core, snap, done, shared, wake, app, receiver, passed>>

\* An error out of pump_native: terminal, cleanup, and the loop again, or its
\* end when nothing was sent or the cleanup time is over.
PumpFails(c, sent) ==
    /\ snap' = Failed(snap, shared)
    /\ shared' = [Cleaning(shared) EXCEPT !.controlSent = sent]
    /\ wake' = TRUE
    /\ \/ /\ ~sent \/ CleanupDeadlinePassed
          /\ core' = ForceDestroy(c)
          /\ drv' = [drv EXCEPT !.at = "ended"]
       \/ /\ sent
          /\ core' = c
          /\ drv' = [drv EXCEPT !.at = "top", !.pump = TRUE, !.destroy = FALSE]
    /\ UNCHANGED <<done, app, receiver, passed>>

\* The send of a packet fails: it is lost, the ones before it are out.
PumpSendFails == drv.at = "write" /\ PumpFails(core, shared.controlSent)

Awaited == CASE app = "allocating" -> "Allocate"
             [] app \in {"permitting", "binding"} -> "Channel"
             [] OTHER -> "none"

\* Variant: a change of state is not written to the snapshot.
PublishWithoutState(s, e) ==
    CASE e.kind = "STATE" -> [s EXCEPT !.channel = @ /\ e.arg = READY]
      [] e.kind = "CHANNEL_BOUND" -> [s EXCEPT !.channel = TRUE]
      [] e.kind = "RELAY" -> [s EXCEPT !.relay = TRUE]
      [] e.kind = "CONTROL_OVERFLOW" -> Failed(s, shared)
      [] OTHER -> s

\* What an event does to the snapshot.
Publish(s, e) ==
    CASE e.kind = "STATE" ->
            [s EXCEPT !.state = e.arg, !.channel = @ /\ e.arg = READY,
                      !.relay = @ /\ e.arg < DEALLOCATED]
      [] e.kind = "CHANNEL_BOUND" -> [s EXCEPT !.channel = TRUE]
      [] e.kind = "RELAY" -> [s EXCEPT !.relay = TRUE]
      [] e.kind = "COMPLETE" ->
            IF e.arg[2] \/ e.arg[1] \in Maintenance THEN s
            ELSE Failed(s, shared)
      [] e.kind \in {"CONTROL_OVERFLOW", "EVENT_OVERFLOW", "FORCED_DESTROY"} ->
            Failed(s, shared)
      [] OTHER -> s

\* A RELAY event whose relay the core has lost is an error of relay_address.
PumpEvent ==
    /\ drv.at = "events" /\ core.events # <<>>
    /\ LET e == Head(core.events)
           rest == [core EXCEPT !.events = Tail(@)]
       IN IF e.kind = "RELAY" /\ ~core.relay
          THEN PumpFails(rest, shared.controlSent)
          ELSE /\ core' = rest
               /\ snap' = Publish(snap, e)
               /\ done' = IF e.kind = "COMPLETE" /\ e.arg[1] = Awaited
                          THEN (IF e.arg[2] THEN "ok" ELSE "error") ELSE done
               /\ shared' = [shared EXCEPT !.channel =
                      CASE e.kind = "STATE" -> @ /\ e.arg = READY
                        [] e.kind = "CHANNEL_BOUND" -> TRUE
                        [] OTHER -> @]
               /\ drv' = [drv EXCEPT !.destroy = @ \/
                      (e.kind = "STATE" /\ e.arg = DESTROYING /\ ~shared.closing)]
               /\ UNCHANGED <<wake, app, receiver, passed>>

PumpDone ==
    /\ drv.at = "events" /\ core.events = <<>>
    /\ snap' = IF drv.destroy THEN Failed(snap, shared) ELSE snap
    /\ drv' = [drv EXCEPT !.at = "top", !.pump = FALSE, !.destroy = FALSE]
    /\ UNCHANGED <<core, done, shared, wake, app, receiver, passed>>

-----------------------------------------------------------------------------
(* The driver: receiving.                                                  *)

\* incoming.closed(): the select of the closing UDP branch does not look at it.  The
\* stream loop selects on it before it would read a frame, also while closing.
OwnerClosed == receiver = "dropped"

\* The request has left: it is not waiting for its first transmission.
Sent(p) == p.transmissions > 1 \/ \A k \in Range(core.controls) : k.txn # p.txn

Answered(p) ==
    \E r \in Responses, lapsed \in BOOLEAN :
        /\ lapsed => PossiblyDue(core, {"expires"})
        /\ core' = InputStun(core, p, r, lapsed)

\* A STUN message that matches no transaction is ignored by the core; the
\* driver pumps all the same.
ReceiveStun ==
    \/ \E p \in core.pending : Sent(p) /\ Answered(p)
    \/ UNCHANGED core

\* The open branch counts its datagrams; the closing one takes what comes.
BurstStun ==
    /\ drv.at = "drain" \/ (drv.at = "recv" /\ drv.burst < MaxBurst)
    /\ ReceiveStun
    /\ drv' = [drv EXCEPT !.pump = TRUE,
                  !.burst = IF drv.at = "recv" THEN @ + 1 ELSE @]
    /\ UNCHANGED <<snap, done, shared, wake, app, receiver, passed>>

\* Channel data finds the receiver gone.
BurstOwnerClosed ==
    /\ drv.at = "recv" /\ OwnerClosed /\ shared.channel
    /\ RequestCleanup
    /\ drv' = [drv EXCEPT !.at = "top", !.burst = 0]
    /\ UNCHANGED <<core, snap, done, app, receiver, passed>>

\* The open branch returns to the top when there is control work.  A full burst
\* without any goes there too, as readiness at the select does.
BurstEnds ==
    /\ drv.at = "recv"
    /\ drv' = [drv EXCEPT !.burst = 0,
                  !.at = IF drv.pump THEN "top" ELSE "park"]
    /\ UNCHANGED <<core, snap, done, shared, wake, app, receiver, passed>>

\* The closing branch parks when the socket is empty, control work or not.
DrainEnds ==
    /\ drv.at = "drain"
    /\ Go("linger")
    /\ UNCHANGED <<core, snap, done, shared, wake, app, receiver, passed>>

\* The select is biased: wake-up, timer, the owner, then the socket.
AtSelect == drv.at \in {"park", "linger"}
Undisturbed == ~wake /\ (drv.at = "linger" \/ ~OwnerClosed)

\* fail is silent while closing, so the closing branches differ by nothing else.
ReceiveFails ==
    /\ drv.at = "recv" \/ (AtSelect /\ Undisturbed)
    /\ snap' = Failed(snap, shared)
    /\ IF drv.at = "linger" THEN UNCHANGED <<shared, wake>> ELSE RequestCleanup
    /\ drv' = [drv EXCEPT !.at = "top", !.pump = TRUE, !.burst = 0]
    /\ UNCHANGED <<core, done, app, receiver, passed>>

\* The writer task of a stream could not write: it reports and ends.
StreamWriteFails ==
    /\ drv.at = "park" /\ Undisturbed /\ core.transport = "Stream"
    /\ IF shared.closing
       THEN Go("top") /\ UNCHANGED <<snap, shared, wake>>
       ELSE /\ snap' = Failed(snap, shared) /\ RequestCleanup
            /\ drv' = [drv EXCEPT !.at = "top", !.pump = TRUE]
    /\ UNCHANGED <<core, done, app, receiver, passed>>

ParkWake ==
    /\ AtSelect /\ wake
    /\ wake' = FALSE
    /\ drv' = [drv EXCEPT !.at = "top", !.pump = TRUE]
    /\ UNCHANGED <<core, snap, done, shared, app, receiver, passed>>

ParkTimer ==
    /\ AtSelect /\ ~wake
    /\ drv' = [drv EXCEPT !.at = "top", !.pump = TRUE]
    /\ UNCHANGED <<core, snap, done, shared, wake, app, receiver, passed>>

ParkOwnerClosed ==
    /\ drv.at = "park" /\ ~wake /\ OwnerClosed
    /\ RequestCleanup
    /\ Go("top")
    /\ UNCHANGED <<core, snap, done, app, receiver, passed>>

\* A STUN message at the select: a datagram of the closing UDP branch, ...
ParkStun ==
    /\ drv.at = "linger" /\ ~wake
    /\ ReceiveStun
    /\ drv' = [drv EXCEPT !.at = "top", !.pump = TRUE]
    /\ UNCHANGED <<snap, done, shared, wake, app, receiver, passed>>

\* ... or a control frame of the stream.
StreamControl ==
    /\ drv.at = "park" /\ Undisturbed /\ core.transport = "Stream"
    /\ ReceiveStun
    /\ drv' = [drv EXCEPT !.at = "top", !.pump = TRUE]
    /\ UNCHANGED <<snap, done, shared, wake, app, receiver, passed>>

\* Channel data, or readiness.  The closing UDP branch assigns pump_needed
\* from this one packet and forgets what the drain found.
ParkData ==
    /\ AtSelect /\ Undisturbed
    /\ drv' = [drv EXCEPT !.at = "top", !.pump = @ /\ drv.at # "linger"]
    /\ UNCHANGED <<core, snap, done, shared, wake, app, receiver, passed>>

-----------------------------------------------------------------------------
(* The owner. *)

\* connect: the driver is running; start_allocation and a wake-up.
ConnectStart ==
    /\ app = "new"
    /\ IF RequireOpen(core) /\ core.state = NULL
       THEN /\ core' = StartAllocation(core)
            /\ wake' = TRUE /\ app' = "allocating" /\ UNCHANGED snap
       ELSE snap' = Failed(snap, shared) /\ app' = "failed" /\ UNCHANGED <<core, wake>>
    /\ UNCHANGED <<done, shared, drv, receiver, passed>>

\* wait_for_allocation.
ConnectDone ==
    /\ app = "allocating"
    /\ done = "ok" /\ ~snap.terminal /\ snap.state = READY /\ snap.relay
    /\ app' = "allocated" /\ done' = "none"
    /\ UNCHANGED <<core, snap, shared, wake, drv, receiver, passed>>

\* The request failed, the allocation did, or ALLOCATION_TIMEOUT passed.  The
\* timeout is a failure of its own; connect returns and drops the allocation.
ConnectFails ==
    /\ app = "allocating"
    /\ \/ (done = "error" \/ snap.terminal) /\ UNCHANGED snap
       \/ done # "error" /\ ~snap.terminal /\ snap' = Failed(snap, shared)
    /\ app' = "failed" /\ done' = "none"
    /\ UNCHANGED <<core, shared, wake, drv, receiver, passed>>

\* prepare_channel and bind_channel: the two requests are two locks.
PrepareStart ==
    /\ app = "allocated"
    /\ done' = "none"
    /\ IF ~EnsureOpen
       THEN app' = "failed" /\ UNCHANGED <<core, snap>>
       ELSE IF shared.channel
       THEN app' = "ready" /\ UNCHANGED <<core, snap>>
       ELSE IF RequireReady(core)
       THEN /\ core' = StartOperation(core, "Permission", TRUE, 0)
            /\ app' = "permitting" /\ UNCHANGED snap
       ELSE snap' = Failed(snap, shared) /\ app' = "failed" /\ UNCHANGED core
    /\ UNCHANGED <<shared, wake, drv, receiver, passed>>

PrepareChannel ==
    /\ app = "permitting"
    /\ IF RequireReady(core)
       THEN /\ core' = StartOperation(core, "Channel", TRUE, 0)
            /\ wake' = TRUE /\ app' = "binding" /\ UNCHANGED <<snap, done>>
       ELSE /\ snap' = Failed(snap, shared)
            /\ app' = "failed" /\ done' = "none" /\ UNCHANGED <<core, wake>>
    /\ UNCHANGED <<shared, drv, receiver, passed>>

PrepareDone ==
    /\ app = "binding" /\ done = "ok" /\ ~snap.terminal /\ snap.channel
    /\ app' = "ready" /\ done' = "none"
    /\ UNCHANGED <<core, snap, shared, wake, drv, receiver, passed>>

\* An error, a terminal reason, or CONTROL_TIMEOUT.
PrepareFails ==
    /\ app = "binding"
    /\ app' = "failed" /\ done' = "none"
    /\ UNCHANGED <<core, snap, shared, wake, drv, receiver, passed>>

DropReceiver ==
    /\ receiver = "held" /\ app = "ready"
    /\ receiver' = "dropped"
    /\ UNCHANGED <<core, snap, done, shared, wake, drv, app, passed>>

\* deallocate, and the Drop of the allocation: cleanup is requested first, the
\* core is told next; only deallocate then waits for the driver.
CloseRequest ==
    /\ app \in {"allocated", "ready", "failed"}
    /\ RequestCleanup
    /\ app' = "closing"
    /\ UNCHANGED <<core, snap, done, drv, receiver, passed>>

CloseCore ==
    /\ app = "closing"
    /\ core' = GracefulShutdown(core)
    /\ app' \in {"waiting", "gone"}
    /\ receiver' = IF app' = "gone" THEN "dropped" ELSE receiver
    /\ UNCHANGED <<snap, done, shared, wake, drv, passed>>

CloseDone ==
    /\ app = "waiting" /\ drv.at = "ended"
    /\ app' = "gone"
    /\ receiver' = "dropped"
    /\ UNCHANGED <<core, snap, done, shared, wake, drv, passed>>

\* The driver did not end within CLEANUP_TIMEOUT and a second: abort.
CloseAborts ==
    /\ app = "waiting" /\ drv.at # "ended"
    /\ core' = ForceDestroy(core)
    /\ Go("ended")
    /\ app' = "gone" /\ receiver' = "dropped"
    /\ UNCHANGED <<snap, done, shared, wake, passed>>

Terminated ==
    /\ app = "gone" /\ drv.at = "ended"
    /\ UNCHANGED vars

-----------------------------------------------------------------------------
\* What the driver does by itself: its computation, its timers and wake-ups.
Unaided ==
    \/ CleanupEnds \/ CleanupStarts \/ PumpPoll \/ TopWaits
    \/ PumpPull \/ PumpAllSent \/ PumpEvent \/ PumpDone
    \/ BurstOwnerClosed \/ BurstEnds
    \/ ParkWake \/ ParkTimer \/ ParkOwnerClosed

\* What it does when the socket or the stream lets it.
Served ==
    \/ PumpSent \/ PumpSendFails \/ DrainEnds
    \/ BurstStun \/ ReceiveFails \/ ParkStun
    \/ StreamControl \/ StreamWriteFails \/ ParkData

Driver == Unaided \/ Served

Owner ==
    \/ ConnectStart \/ ConnectDone \/ ConnectFails
    \/ PrepareStart \/ PrepareChannel \/ PrepareDone \/ PrepareFails
    \/ DropReceiver \/ CloseRequest \/ CloseCore \/ CloseDone \/ CloseAborts

Next == Driver \/ Owner \/ Terminated

Spec == Init /\ [][Next]_vars

\* The driver is polled as long as it can go on without the server: nothing says
\* that a packet is ever taken, that the drain of a closing driver ever finds the
\* socket empty, or that anything arrives.  The cleanup deadline comes: a driver
\* that reaches the check again and again finds it passed.  An owner that waits
\* in deallocate waits at most CLEANUP_TIMEOUT and a second.
Fairness ==
    /\ WF_vars(Unaided)
    /\ SF_vars(CleanupEnds)
    /\ WF_vars(CloseDone \/ CloseAborts)

FairSpec == Spec /\ Fairness

-----------------------------------------------------------------------------
\* The type invariant.
TypeOK ==
    /\ core.state \in TurnStates
    /\ Len(core.controls) <= ControlCapacity
    /\ Len(core.events) <= EventCapacity
    /\ core.armed \subseteq Deadlines
    /\ snap.state \in TurnStates
    /\ done \in {"none", "ok", "error"}
    /\ drv.at \in DriverAt /\ app \in OwnerAt
    /\ receiver \in {"held", "dropped"}

\* Every request that waits to be sent belongs to the one pending transaction
\* of its operation: an answered, failed or replaced transaction
\* (remove_queued_transaction) never goes out again.
NoOrphanRequest ==
    /\ \A k \in Range(core.controls) :
           k.op # "Keepalive" =>
               \E p \in core.pending : p.txn = k.txn
    /\ \A p, q \in core.pending : p.op = q.op => p = q

\* An allocation the server has granted is never forgotten by a shutdown, also
\* when the grant arrives after graceful_shutdown or the channel could not be
\* bound again: until it is released or given up, its Deallocate is pending.
ShutdownReleases ==
    core.shutting /\ core.relay /\ ~core.destroyed =>
        HasOperation(core, "Deallocate")

\* Once the driver has taken every event, an allocation that reports no
\* failure shows the state, the relay and the channel the core has; and a core
\* that went down by itself is reported.  An event ring that overflows loses
\* events, so it must end in a failure too.
SnapshotMirrorsCore ==
    core.events = <<>> /\ drv.at # "ended" /\ ~shared.closing /\ ~snap.terminal =>
        /\ snap.state = core.state
        /\ snap.relay = (core.relay /\ core.state < DEALLOCATED)
        /\ snap.channel = core.channel
        /\ shared.channel = core.channel
        /\ core.state = DESTROYING => drv.at = "events"

\* What the sender sees: not usable yet, usable, or over for good.
Dead == ~EnsureOpen \/ snap.state > READY
Lease == INSTANCE TurnLease WITH
    phase <- IF Dead THEN "over"
             ELSE IF Sendable THEN "usable" ELSE "opening"

\* The allocation implements the lease: it becomes usable at most once, and
\* once a send is refused after that no later event makes it usable again.
LeaseIsKept == Lease!Spec

\* Where the deadline of the cleanup is not looked at: a packet that is not taken,
\* a socket that is never empty.
HeldUp == drv.at \in {"write", "drain"}

=============================================================================
