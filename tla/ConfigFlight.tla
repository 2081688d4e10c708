---------------------------- MODULE ConfigFlight ----------------------------
(***************************************************************************)
(* Which worker asks the server for the client configuration               *)
(* (ConfigFlightGuard and worker_loop of backend/worker.rs,                *)
(* ConfigDeliveryState and run_allocated_session of backend/session.rs).   *)
(*                                                                         *)
(* Two shared flags, config_sent and config_in_flight, are read and        *)
(* written by every worker with single atomic operations: one operation is *)
(* one step here.  A worker that acquires the flight delivers the          *)
(* configuration of its session; the flight is given back when the answer  *)
(* is in (complete) and again when the guard is dropped after the session. *)
(***************************************************************************)
EXTENDS Naturals, FiniteSets

CONSTANT Workers

VARIABLES
    sent,       \* config_sent
    in_flight,  \* config_in_flight
    pc,         \* where each worker is
    acquired,   \* ConfigFlightGuard.acquired of its current guard
    was_ready,  \* its ready_tx was sent
    failed,     \* run_session returned an error
    active,     \* workers counted by Stats.active_connections
    cancelled   \* the root token

flightVars == <<sent, in_flight, pc, acquired, was_ready, failed, active, cancelled>>
shared == <<sent, in_flight>>
worker == <<acquired, was_ready, failed, active>>

Steps == {"start", "exchange", "asking", "store", "clear", "refused", "running",
          "counted", "over", "count", "swap", "returned"}

Goto(w, step) == pc' = [pc EXCEPT ![w] = step]

\* ConfigFlightGuard::acquire reads `sent` ...
LoadSent(w) ==
    /\ pc[w] = "start" /\ ~ cancelled
    /\ Goto(w, IF sent THEN "asking" ELSE "exchange")
    /\ acquired' = [acquired EXCEPT ![w] = FALSE]
    /\ was_ready' = [was_ready EXCEPT ![w] = FALSE]
    /\ failed' = [failed EXCEPT ![w] = FALSE]
    /\ UNCHANGED <<shared, active, cancelled>>

\* ... and then tries to set `in_flight`.
CompareExchange(w) ==
    /\ pc[w] = "exchange"
    /\ acquired' = [acquired EXCEPT ![w] = ~ in_flight]
    /\ in_flight' = TRUE
    /\ Goto(w, "asking")
    /\ UNCHANGED <<sent, was_ready, failed, active, cancelled>>

\* The allocation fails, the session task panics or is cancelled before any answer.
\* (`failed` is looked at only if the session was ready.)
NoSession(w) ==
    /\ pc[w] = "asking"
    /\ failed' = [failed EXCEPT ![w] = TRUE]
    /\ Goto(w, "over")
    /\ UNCHANGED <<shared, acquired, was_ready, active, cancelled>>

\* request_configuration returns: a configuration, NoConfig, or an error.
Answered(w) ==
    /\ pc[w] = "asking"
    /\ \/ Goto(w, IF acquired[w] THEN "store" ELSE "running")
       \/ Goto(w, IF acquired[w] THEN "clear" ELSE "running")
       \/ Goto(w, "refused")
    /\ UNCHANGED <<shared, worker, cancelled>>

\* ConfigDeliveryState::complete(true): first `sent` ...
StoreSent(w) ==
    /\ pc[w] = "store"
    /\ sent' = TRUE
    /\ Goto(w, "clear")
    /\ UNCHANGED <<in_flight, worker, cancelled>>

\* A complete that clears the flight only when the configuration was delivered.
ClearIfSent(w) ==
    /\ pc[w] = "clear"
    /\ in_flight' = (in_flight /\ ~ sent)
    /\ Goto(w, "running")
    /\ UNCHANGED <<sent, worker, cancelled>>

\* ... then `in_flight`; complete(false) does only this.
ClearFlight(w) ==
    /\ pc[w] = "clear"
    /\ in_flight' = FALSE
    /\ Goto(w, "running")
    /\ UNCHANGED <<sent, worker, cancelled>>

\* complete(false) on an error, which then ends the session.
Refused(w) ==
    /\ pc[w] = "refused"
    /\ in_flight' = (in_flight /\ ~ acquired[w])
    /\ failed' = [failed EXCEPT ![w] = TRUE]
    /\ Goto(w, "over")
    /\ UNCHANGED <<sent, acquired, was_ready, active, cancelled>>

\* ready_tx is sent before the session counts itself as active.
Ready(w) ==
    /\ pc[w] = "running" /\ w \notin active
    /\ IF was_ready[w]
       THEN active' = active \union {w} /\ Goto(w, "counted") /\ UNCHANGED was_ready
       ELSE was_ready' = [was_ready EXCEPT ![w] = TRUE] /\ UNCHANGED <<active, pc>>
    /\ UNCHANGED <<shared, acquired, failed, cancelled>>

\* A count that is never taken back.
StaysCounted(w) == UNCHANGED active

\* ActiveConnection is dropped.
Uncount(w) == active' = active \ {w}

\* A session ends with an error, or well when it was cancelled or its call has died.
SessionEnds(w) ==
    /\ pc[w] = "counted"
    /\ \E error \in BOOLEAN : failed' = [failed EXCEPT ![w] = error]
    /\ Uncount(w)
    /\ Goto(w, "over")
    /\ UNCHANGED <<shared, acquired, was_ready, cancelled>>

\* A guard that is forgotten instead of dropped.
ForgetGuard(w) ==
    /\ pc[w] = "over"
    /\ acquired' = [acquired EXCEPT ![w] = FALSE]
    /\ Goto(w, "count")
    /\ UNCHANGED <<shared, was_ready, failed, active, cancelled>>

\* drop(config_guard)
DropGuard(w) ==
    /\ pc[w] = "over"
    /\ in_flight' = (in_flight /\ ~ acquired[w])
    /\ acquired' = [acquired EXCEPT ![w] = FALSE]
    /\ Goto(w, "count")
    /\ UNCHANGED <<sent, was_ready, failed, active, cancelled>>

\* should_refresh_configuration_after_full_outage
FullOutage(w) == was_ready[w] /\ failed[w] /\ active = {} /\ ~ cancelled

CountActive(w) ==
    /\ pc[w] = "count"
    /\ Goto(w, IF FullOutage(w) THEN "swap" ELSE "start")
    /\ UNCHANGED <<shared, worker, cancelled>>

SwapSent(w) ==
    /\ pc[w] = "swap"
    /\ sent' = FALSE
    /\ Goto(w, "start")
    /\ UNCHANGED <<in_flight, worker, cancelled>>

\* A worker returns when it is cancelled while it waits for a lease, the pacer or the
\* end of a pause, or when its call has died, which may be at any time.
Returns(w) ==
    /\ pc[w] = "start"
    /\ Goto(w, "returned")
    /\ UNCHANGED <<shared, worker, cancelled>>

Cancel ==
    /\ ~ cancelled
    /\ cancelled' = TRUE
    /\ UNCHANGED <<shared, pc, worker>>

FlightInit ==
    /\ sent = FALSE /\ in_flight = FALSE /\ cancelled = FALSE
    /\ pc = [w \in Workers |-> "start"]
    /\ acquired = [w \in Workers |-> FALSE]
    /\ was_ready = [w \in Workers |-> FALSE]
    /\ failed = [w \in Workers |-> FALSE]
    /\ active = {}

\* Steps that the runtime or a timeout always brings about; a counted session may
\* last for ever.
Moves(w) ==
    \/ LoadSent(w) \/ CompareExchange(w) \/ NoSession(w) \/ Answered(w) \/ StoreSent(w)
    \/ ClearFlight(w) \/ Refused(w) \/ Ready(w) \/ DropGuard(w) \/ CountActive(w)
    \/ SwapSent(w) \/ Returns(w)

FlightNext == Cancel \/ \E w \in Workers : Moves(w) \/ SessionEnds(w)

FlightSpec == FlightInit /\ [][FlightNext]_flightVars
FairFlight == FlightSpec /\ \A w \in Workers : WF_flightVars(Moves(w))

-----------------------------------------------------------------------------
FlightTypeOK ==
    /\ sent \in BOOLEAN /\ in_flight \in BOOLEAN /\ cancelled \in BOOLEAN
    /\ pc \in [Workers -> Steps]
    /\ acquired \in [Workers -> BOOLEAN]
    /\ was_ready \in [Workers -> BOOLEAN]
    /\ failed \in [Workers -> BOOLEAN]
    /\ active \subseteq Workers
    /\ \A w \in active : was_ready[w] /\ pc[w] = "counted"

\* A flight that nobody will give back would keep every later session from asking: if
\* config_in_flight is set, a worker that acquired it has not dropped its guard yet
\* (ConfigFlightGuard::drop, worker.rs:206, clears it on every path out of a session).
NoOrphanFlight == in_flight => \E w \in Workers : acquired[w]

\* Every flight ends, also when the session that asked stays up for good without having
\* received a configuration (ConfigDeliveryState::complete, session.rs:134).
FlightEnds == in_flight ~> ~ in_flight

\* One worker at a time asks for the configuration: `config_flight_is_globally_exclusive`
\* (worker.rs:1211).  A guard keeps `acquired` after complete has given the flight back,
\* so its drop clears the flight of another worker: the code does not keep this (README,
\* section 6), and no run checks it.
FlightIsExclusive ==
    \A v, w \in Workers : (acquired[v] /\ acquired[w] /\ pc[v] = "asking" /\ pc[w] = "asking") => v = w
=============================================================================
