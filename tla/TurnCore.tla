------------------------------ MODULE TurnCore ------------------------------
(***************************************************************************)
(* The sans-IO TURN client of backend/turn_core.rs.  NativeCore keeps one  *)
(* Inner record behind a mutex; every method takes the lock for its whole  *)
(* body, so a method is one function from the record to the record.  The   *)
(* module has no variables: TurnAllocation holds the record and calls the  *)
(* methods.  `pending` is a set: the order of the code's vector only       *)
(* orders transactions that fall due together, and is chosen then.         *)
(*                                                                         *)
(* Time is which deadlines have passed when poll runs, chosen by the       *)
(* caller.  A transaction identifier is fresh among the live ones (the     *)
(* code draws 96 random bits).  Realm, nonce and key are one bit, for      *)
(* set_auth stores all three.                                              *)
(***************************************************************************)
EXTENDS Naturals, Sequences, FiniteSets, SequencesExt

CONSTANTS
    ControlCapacity,      \* CONTROL_CAPACITY, 16 in the code
    EventCapacity,        \* EVENT_CAPACITY, 64 in the code
    MaxTransmissions,     \* MAX_TRANSMISSIONS, 7 in the code
    MaxChannelFailures,   \* MAX_CHANNEL_MAINTENANCE_FAILURES, 4 in the code
    MaxNonceRetries       \* MAX_NONCE_RETRIES, 3 in the code

ASSUME TurnBounds ==
    /\ {ControlCapacity, EventCapacity, MaxTransmissions,
        MaxChannelFailures} \subseteq Nat \ {0}
    /\ MaxNonceRetries \in Nat

NULL == 0
ALLOCATING == 3
READY == 4
DEALLOCATING == 5
DEALLOCATED == 6
DESTROYING == 7
TurnStates == {NULL, ALLOCATING, READY, DEALLOCATING, DEALLOCATED, DESTROYING}

Operations == {"Allocate", "Refresh", "Deallocate", "Permission", "Channel"}
Maintenance == {"Refresh", "Permission", "Channel"}
Transports == {"Datagram", "Stream"}

\* The Option<Instant> fields of Inner: a deadline that is set is in `armed`.
Deadlines == {"refresh", "expires", "maintenance",
              "permission", "channel", "keepalive"}
RetryDeadline == [Refresh |-> "refresh", Permission |-> "permission",
                  Channel |-> "channel"]

Event(kind, arg) == [kind |-> kind, arg |-> arg]

CreateCore(transport) ==
    [state |-> NULL, auth |-> FALSE, relay |-> FALSE, channel |-> FALSE,
     controls |-> <<>>, events |-> <<>>, pending |-> {}, armed |-> {},
     refreshFailed |-> FALSE, channelFailures |-> 0,
     shutting |-> FALSE, destroyed |-> FALSE, transport |-> transport]

-----------------------------------------------------------------------------
(* Queues and state. *)

\* A full event ring loses its oldest event, and the new event too: the
\* overflow marker takes its place.
PushEvent(c, event) ==
    IF Len(c.events) = EventCapacity
    THEN [c EXCEPT !.events = Append(Tail(@), Event("EVENT_OVERFLOW", 0))]
    ELSE [c EXCEPT !.events = Append(@, event)]

SetState(c, state) ==
    IF c.state = state THEN c
    ELSE PushEvent([c EXCEPT !.state = state], Event("STATE", state))

\* REQUEST_COMPLETE carries the method; Refresh and Deallocate share one.
Method(op) == IF op = "Deallocate" THEN "Refresh" ELSE op

Complete(c, op, ok) ==
    PushEvent(c, Event("COMPLETE", <<Method(op), ok>>))

QueuePacket(c, packet) ==
    LET room == IF Len(c.controls) = ControlCapacity
                THEN PushEvent([c EXCEPT !.controls = Tail(@)],
                               Event("CONTROL_OVERFLOW", 0))
                ELSE c
    IN [room EXCEPT !.controls = Append(@, packet)]

\* build_request: a packet is known by its operation and its transaction.
BuildRequest(op, txn) == [op |-> op, txn |-> txn]

QueueKeepalive(c) ==
    IF c.channel THEN QueuePacket(c, [op |-> "Keepalive", txn |-> <<>>]) ELSE c

\* Vec::retain, as a recursive function.
Without(packets, txn) ==
    LET kept[n \in 0 .. Len(packets)] ==
            IF n = 0 THEN << >>
            ELSE IF packets[n].txn = txn THEN kept[n - 1] ELSE Append(kept[n - 1], packets[n])
    IN kept[Len(packets)]

RemoveQueuedTransaction(c, txn) == [c EXCEPT !.controls = Without(@, txn)]

\* Variant: the packets of the transaction stay queued.
RemovePendingOnly(c, p) == [c EXCEPT !.pending = @ \ {p}]

RemovePending(c, p) ==
    RemoveQueuedTransaction([c EXCEPT !.pending = @ \ {p}], p.txn)

HasOperation(c, op) == \E p \in c.pending : p.op = op

\* An operation has at most one transaction; a new one differs from any of
\* the same operation that is still queued.
FreshTransaction(c, op) ==
    <<op, CHOOSE n \in 0 .. ControlCapacity :
            /\ \A k \in Range(c.controls) : k.txn # <<op, n>>
            /\ \A m \in 0 .. n - 1 : \E k \in Range(c.controls) : k.txn = <<op, m>>>>

\* A second start of a ChannelBind sends the pending request again; of any
\* other operation it does nothing.
StartOperation(c, op, authenticated, nonceRetries) ==
    IF HasOperation(c, op)
    THEN IF op = "Channel"
         THEN LET p == CHOOSE q \in c.pending : q.op = op
              IN QueuePacket(c, BuildRequest(op, p.txn))
         ELSE c
    ELSE LET txn == FreshTransaction(c, op)
         IN [QueuePacket(c, BuildRequest(op, txn)) EXCEPT !.pending =
                @ \cup {[op |-> op, txn |-> txn, transmissions |-> 1,
                         nonceRetries |-> nonceRetries,
                         authenticated |-> authenticated]}]

-----------------------------------------------------------------------------
(* How an operation ends. *)

\* Variant: the state is assigned without the event of set_state.
DestroySilently(c, op, ok) ==
    [Complete(c, op, ok) EXCEPT
        !.controls = <<>>, !.pending = {}, !.channel = FALSE,
        !.relay = FALSE, !.armed = {},
        !.state = IF op = "Deallocate" THEN DEALLOCATED ELSE DESTROYING]

DestroyAllocation(c, op, ok) ==
    LET done == Complete(c, op, ok)
    IN SetState([done EXCEPT !.controls = <<>>, !.pending = {},
                             !.channel = FALSE, !.relay = FALSE, !.armed = {}],
                IF op = "Deallocate" THEN DEALLOCATED ELSE DESTROYING)

\* Unlike DestroyAllocation it keeps the relay and the allocation's own two
\* deadlines, so that a shutdown can still release the allocation.
DestroyAfterChannelRebindExhausted(c) ==
    SetState(PushEvent([c EXCEPT !.controls = <<>>, !.pending = {},
                                 !.channel = FALSE,
                                 !.armed = @ \cap {"refresh", "expires"}],
                       Event("REBIND_EXHAUSTED", 0)),
             DESTROYING)

\* schedule_maintenance_retry: the counters matter where they are compared
\* (the channel's), or where they tell a first refresh from a retry.
ScheduleMaintenanceRetry(c, op) ==
    LET failed ==
            CASE op = "Refresh" -> [c EXCEPT !.refreshFailed = TRUE]
              [] op = "Channel" -> [c EXCEPT !.channelFailures = @ + 1]
              [] OTHER -> c
    IN [failed EXCEPT !.armed = @ \cup {RetryDeadline[op]}]

\* `lapsed`: the allocation's lifetime has run out by now.
CompleteFailure(c, op, lapsed) ==
    IF op \in Maintenance /\ c.state = READY /\ "expires" \in c.armed /\ ~lapsed
    THEN LET done == Complete(c, op, FALSE)
         IN IF op = "Channel" /\ c.channelFailures + 1 >= MaxChannelFailures
            THEN DestroyAfterChannelRebindExhausted(
                    [done EXCEPT !.channelFailures = @ + 1])
            ELSE ScheduleMaintenanceRetry(done, op)
    ELSE DestroyAllocation(c, op, FALSE)

\* Variant: a grant is taken as if no shutdown had been asked for.
AllocatedAnyway(c) ==
    Complete(SetState(PushEvent([c EXCEPT !.relay = TRUE,
                                          !.armed = @ \cup {"refresh", "expires"}],
                                Event("RELAY", 0)), READY), "Allocate", TRUE)

Allocated(c) ==
    LET live == PushEvent([c EXCEPT !.relay = TRUE, !.refreshFailed = FALSE,
                    !.armed = @ \cup {"refresh", "expires", "maintenance",
                                      "keepalive"}],
                    Event("RELAY", 0))
    IN IF c.shutting
       THEN StartOperation(SetState(live, DEALLOCATING), "Deallocate", TRUE, 0)
       ELSE Complete(SetState(live, READY), "Allocate", TRUE)

CompleteSuccess(c, op) ==
    CASE op = "Allocate" -> Allocated(c)
      [] op = "Refresh" ->
            Complete([c EXCEPT !.armed = @ \cup {"refresh", "expires"},
                               !.refreshFailed = FALSE], op, TRUE)
      [] op = "Deallocate" ->
            SetState(Complete([c EXCEPT !.relay = FALSE,
                                        !.armed = @ \ {"refresh", "expires"}],
                              op, TRUE),
                     DEALLOCATED)
      [] op = "Permission" -> Complete(c, op, TRUE)
      [] op = "Channel" ->
            Complete(PushEvent([c EXCEPT !.channel = TRUE,
                                         !.channelFailures = 0],
                               Event("CHANNEL_BOUND", 0)), op, TRUE)

-----------------------------------------------------------------------------
(* input_stun.  A response is what the checks of the code tell apart: its  *)
(* class, its error code (0: none that decodes), whether its integrity and *)
(* its fingerprint hold, whether it brings what a retry needs, whether its *)
(* body is well formed.  401 stands for 401 and 438, 403 for every code    *)
(* with no case of its own.                                                *)

\* The responses worth telling apart: the fields a branch does not read are
\* fixed.
Responses ==
    LET R(cl, co, i, f, ch, b) ==
            [class |-> cl, code |-> co, integrity |-> i, fingerprint |-> f,
             challenge |-> ch, body |-> b]
    IN {R("Success", 0, i, TRUE, FALSE, b) : i \in BOOLEAN, b \in BOOLEAN}
          \cup {R("Error", 401, FALSE, TRUE, ch, TRUE) : ch \in BOOLEAN}
          \cup {R("Error", co, i, TRUE, FALSE, TRUE) :
                    co \in {0, 403, 437}, i \in BOOLEAN}
          \cup {R("Error", 400, FALSE, TRUE, FALSE, TRUE),
                R("Error", 437, FALSE, FALSE, FALSE, TRUE)}

ResponseRequiresIntegrity(r) == r.class = "Success" \/ r.code \notin {400, 401}

VerifyIntegrity(r) == r.integrity

IsFingerprintedAllocationMismatch(r) == r.class = "Error" /\ r.code = 437 /\ r.fingerprint

Rejected(p, r) ==
    /\ p.authenticated
    /\ ResponseRequiresIntegrity(r)
    /\ ~VerifyIntegrity(r)
    /\ ~IsFingerprintedAllocationMismatch(r)

RequiresAllocationRecreate(op, code) ==
    code = 437 \/ (op = "Channel" /\ code = 400)

StunError(c) == PushEvent(c, Event("STUN_ERROR", 0))

ErrorResponse(c, p, r, lapsed) ==
    IF RequiresAllocationRecreate(p.op, r.code)
    THEN DestroyAllocation(StunError(c), p.op, FALSE)
    ELSE IF r.code = 401 /\ p.nonceRetries < MaxNonceRetries /\ r.challenge
    THEN StartOperation([c EXCEPT !.auth = TRUE], p.op, TRUE, p.nonceRetries + 1)
    ELSE CompleteFailure(StunError(c), p.op, lapsed)

\* A response that matches pending transaction p.  One that matches none is
\* ignored and changes nothing.
InputStun(c, p, r, lapsed) ==
    IF Rejected(p, r)
    THEN IF r.class = "Error" /\ r.code # 0 THEN StunError(c) ELSE c
    ELSE LET rest == RemovePending(c, p)
         IN IF r.class = "Success"
            THEN IF p.authenticated /\ r.body
                 THEN CompleteSuccess(rest, p.op)
                 ELSE CompleteFailure(rest, p.op, lapsed)
            ELSE ErrorResponse(rest, p, r, lapsed)

-----------------------------------------------------------------------------
(* poll, with the deadlines `due` and the transactions of the operations   *)
(* in `order` passed, which are looked at in this order.                   *)

SendAgain(c, p) ==
    [QueuePacket(c, BuildRequest(p.op, p.txn)) EXCEPT
        !.pending = (@ \ {p}) \cup {[p EXCEPT !.transmissions = @ + 1]}]

\* A transaction that was sent often enough, or runs over a stream, fails;
\* any other is sent again.  A failure that destroys the allocation empties
\* `pending`, which ends the loop.
ExpireTransaction(c, op, lapsed) ==
    IF ~HasOperation(c, op) THEN c
    ELSE LET p == CHOOSE q \in c.pending : q.op = op
         IN IF p.transmissions >= MaxTransmissions \/ c.transport = "Stream"
            THEN CompleteFailure(RemovePending(c, p), op, lapsed)
            ELSE SendAgain(c, p)

\* At most one transaction of each of the five operations is pending.
ExpireTransactions(c, order, lapsed) ==
    LET Expire(d, i) == IF i <= Len(order) THEN ExpireTransaction(d, order[i], lapsed) ELSE d
    IN Expire(Expire(Expire(Expire(Expire(c, 1), 2), 3), 4), 5)

StartDue(c, due, op) ==
    IF ~HasOperation(c, op)
         /\ \/ RetryDeadline[op] \in due
            \/ op # "Refresh" /\ "maintenance" \in due
    THEN StartOperation([c EXCEPT !.armed = @ \ {RetryDeadline[op]}],
                        op, TRUE, 0)
    ELSE c

\* The maintenance and the keepalive deadlines are set again at once.
StartMaintenance(c, due) ==
    LET refreshed == StartDue(c, due, "Refresh")
        permitted == StartDue(refreshed, due, "Permission")
        bound == StartDue(permitted, due, "Channel")
    IN IF "keepalive" \in due /\ bound.pending = c.pending
       THEN QueueKeepalive(bound) ELSE bound

Open(c) == ~c.shutting /\ c.state = READY

\* complete_failure has set the retry deadline of a failed operation anew, so
\* it has not passed.
Poll(c, due, order) ==
    IF c.destroyed THEN c
    ELSE LET expired == ExpireTransactions(c, order, "expires" \in due)
             lapsed == IF Open(expired) /\ "expires" \in due
                       THEN DestroyAllocation(expired, "Refresh", FALSE)
                       ELSE expired
             passed == (due \cap lapsed.armed)
                          \ {RetryDeadline[op] : op \in Range(order) \cap Maintenance}
         IN IF Open(lapsed) THEN StartMaintenance(lapsed, passed) ELSE lapsed

\* What can have passed: allocation_refresh is at most half the lifetime away
\* when a success sets both deadlines, so the expiry cannot pass first.
PossiblyDue(c, due) ==
    /\ due \subseteq c.armed
    /\ "expires" \in due =>
           "refresh" \in due \/ "refresh" \notin c.armed \/ c.refreshFailed

-----------------------------------------------------------------------------
(* Calls of the owner. *)

RequireOpen(c) == ~c.destroyed /\ ~c.shutting

RequireReady(c) == RequireOpen(c) /\ c.state = READY

StartAllocation(c) ==
    StartOperation(SetState(c, ALLOCATING), "Allocate", FALSE, 0)

GracefulShutdown(c) ==
    IF c.destroyed \/ c.shutting THEN c
    ELSE LET quiet == [c EXCEPT !.shutting = TRUE, !.channel = FALSE,
                            !.armed = @ \cap {"refresh", "expires"},
                            !.controls = <<>>]
         IN IF c.state = READY
                 \/ (c.state = DESTROYING /\ "expires" \in c.armed)
            THEN StartOperation(
                    SetState([quiet EXCEPT !.pending = {}], DEALLOCATING),
                    "Deallocate", TRUE, 0)
            ELSE IF c.state = ALLOCATING THEN quiet
            ELSE [quiet EXCEPT !.pending = {}]

ForceDestroy(c) ==
    IF c.destroyed THEN c
    ELSE PushEvent(SetState([c EXCEPT !.destroyed = TRUE, !.controls = <<>>,
                                      !.pending = {}], DESTROYING),
                   Event("FORCED_DESTROY", 0))

=============================================================================
