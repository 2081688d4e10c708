------------------------------ MODULE Shutdown ------------------------------
(***************************************************************************)
(* The farewell to the server: ShutdownCoordinator, its registrations and  *)
(* the cancelled branch of run_allocated_session (backend/session.rs),     *)
(* HashAvailability (backend/worker.rs).                                   *)
(*                                                                         *)
(* A cancelled session asks the coordinator to send DISCONNECT.  The first *)
(* one leads: it tries up to Attempts registered sessions, the most        *)
(* recently active first, and waits for the answer; the others follow and  *)
(* wait until the leader is done.  tokio's Notify::notify_waiters wakes    *)
(* the futures created before the call, whether polled or not: `waiting`   *)
(* holds the sessions that have such a future.                             *)
(*                                                                         *)
(* Sending and waiting for the answer may time out at any moment.  The two *)
(* seconds a follower or await_session_task waits at most are longer than  *)
(* the leader's budget of Attempts * (300 + 350) ms and do not occur here. *)
(***************************************************************************)
EXTENDS Naturals, Sequences, FiniteSets

CONSTANTS
    Workers,
    Hashes,         \* VK calls
    HashOf,         \* the call of each worker's group
    Attempts,       \* DISCONNECT_CONTROL_ATTEMPTS: 2
    MaxRestarts     \* bound: sessions that fail and start again

ASSUME ShutdownConstants ==
    /\ HashOf \in [Workers -> Hashes]
    /\ Attempts \in Nat /\ MaxRestarts \in Nat

VARIABLES
    cancelled,      \* the root token
    unavailable,    \* calls marked unavailable, whose child token is cancelled
    active, completed, streams,     \* ShutdownState
    waiting,        \* sessions with a Notified future that was not woken
    leads,          \* sessions that run the leader's part of request_disconnect
    plan,           \* the leader's streams still to try
    pc,             \* where each worker is
    commands,       \* sessions with a DISCONNECT in their writer's queue
    written,        \* sessions whose writer sent it while the leader waited: completion is Ok
    answers,        \* sessions on which an answer of the server may arrive
    requests,       \* history: DISCONNECTs sent to the server
    restarts        \* bound

vars == <<cancelled, unavailable, active, completed, streams, waiting, leads, plan,
          pc, commands, written, answers, requests, restarts>>
tokens == <<cancelled, unavailable>>
state == <<active, completed, streams>>
wires == <<commands, written, answers, requests>>

Steps == {"setup", "running", "lead", "attempt", "sending", "listen", "check",
          "sleep", "complete", "stop", "gone"}

Goto(w, step) == pc' = [pc EXCEPT ![w] = step]
Cancelled(w) == cancelled \/ HashOf[w] \in unavailable

\* The session's writer and reader tasks run.
Live(w) == pc[w] \notin {"setup", "gone"}

\* ShutdownCoordinator::register: no new control streams once the farewell began.
Register(w) ==
    /\ pc[w] = "setup"
    /\ Goto(w, "running")
    /\ streams' = IF active THEN streams ELSE streams \union {w}
    /\ UNCHANGED <<tokens, active, completed, waiting, leads, plan, wires, restarts>>

\* A worker that is cancelled before its session is up returns.
GiveUp(w) ==
    /\ pc[w] = "setup" /\ Cancelled(w)
    /\ Goto(w, "gone")
    /\ UNCHANGED <<tokens, state, waiting, leads, plan, wires, restarts>>

\* The writer and the reader are stopped; what they had queued is lost.
DropTasks(w) ==
    /\ commands' = commands \ {w}
    /\ written' = written \ {w}
    /\ answers' = answers \ {w}
    /\ UNCHANGED requests

\* Registrations that outlive their session.
KeepStream(w) == UNCHANGED streams

\* ShutdownRegistration is dropped: unregister.
Unregister(w) == streams' = streams \ {w}

\* The session fails and its worker starts another.
Fails(w) ==
    /\ pc[w] = "running" /\ ~ Cancelled(w) /\ restarts < MaxRestarts
    /\ restarts' = restarts + 1
    /\ Unregister(w) /\ DropTasks(w)
    /\ Goto(w, "setup")
    /\ UNCHANGED <<tokens, active, completed, waiting, leads, plan>>

\* request_disconnect, under the lock.
Elect(w) ==
    IF active
    THEN Goto(w, "listen") /\ UNCHANGED <<active, completed, leads>>
    ELSE /\ active' = TRUE /\ completed' = FALSE
         /\ leads' = leads \union {w}
         /\ Goto(w, "lead")

RequestDisconnect(w) ==
    /\ pc[w] = "running" /\ Cancelled(w)
    /\ Elect(w)
    /\ UNCHANGED <<tokens, streams, waiting, plan, wires, restarts>>

\* A leader that tries every stream.
TryAll == Cardinality(streams)

\* take(DISCONNECT_CONTROL_ATTEMPTS)
Tries == IF Cardinality(streams) < Attempts THEN Cardinality(streams) ELSE Attempts

\* control_streams in the order of their last activity, which is any order.
ControlStreams(w) ==
    /\ pc[w] = "lead"
    /\ plan' \in {p \in [1 .. Tries -> streams] : \A i, j \in 1 .. Tries : p[i] = p[j] => i = j}
    /\ Goto(w, "attempt")
    /\ UNCHANGED <<tokens, state, waiting, leads, wires, restarts>>

\* The next stream gets the request, unless an answer is already in; its queue is closed
\* when the session is gone.
Attempt(w) ==
    /\ pc[w] = "attempt"
    /\ \/ /\ completed \/ plan = <<>>
          /\ plan' = <<>>
          /\ Goto(w, "complete") /\ UNCHANGED commands
       \/ /\ ~ completed /\ plan # <<>> /\ Live(Head(plan))
          /\ commands' = commands \union {Head(plan)}
          /\ Goto(w, "sending") /\ UNCHANGED plan
       \/ /\ ~ completed /\ plan # <<>> /\ ~ Live(Head(plan))
          /\ plan' = Tail(plan) /\ UNCHANGED <<pc, commands>>
    /\ UNCHANGED <<tokens, state, waiting, leads, written, answers, requests, restarts>>

\* writer_loop and handle_writer_command, also after the leader's timeout; the server
\* may answer on that session.
Write(w) ==
    /\ w \in commands /\ Live(w)
    /\ commands' = commands \ {w}
    /\ written' = IF \E l \in leads : pc[l] = "sending" /\ Head(plan) = w
                  THEN written \union {w} ELSE written
    /\ requests' = requests + 1
    /\ answers' = answers \union {w}
    /\ UNCHANGED <<tokens, state, waiting, leads, plan, pc, restarts>>

\* send_writer_bytes returns Ok: wait for the answer.
Delivered(w) ==
    /\ pc[w] = "sending" /\ Head(plan) \in written
    /\ Goto(w, "listen")
    /\ plan' = Tail(plan)
    /\ written' = written \ {Head(plan)}
    /\ UNCHANGED <<tokens, state, waiting, leads, commands, answers, requests, restarts>>

\* DISCONNECT_SEND_TIMEOUT, or the writer is gone.
SendTimeout(w) ==
    /\ pc[w] = "sending" /\ Head(plan) \notin written
    /\ Goto(w, "attempt")
    /\ plan' = Tail(plan)
    /\ UNCHANGED <<tokens, state, waiting, leads, wires, restarts>>

\* wait_until_completed: changed.notified() ...
Listen(w) ==
    /\ pc[w] = "listen"
    /\ waiting' = waiting \union {w}
    /\ Goto(w, "check")
    /\ UNCHANGED <<tokens, state, leads, plan, wires, restarts>>

\* ... then is_completed ...
Check(w) ==
    /\ pc[w] = "check"
    /\ Goto(w, IF ~ completed THEN "sleep" ELSE IF w \in leads THEN "complete" ELSE "stop")
    /\ waiting' = IF completed THEN waiting \ {w} ELSE waiting
    /\ UNCHANGED <<tokens, state, leads, plan, wires, restarts>>

\* ... then timeout_at(deadline, notified).
Woken(w) ==
    /\ pc[w] = "sleep" /\ w \notin waiting
    /\ Goto(w, "listen")
    /\ UNCHANGED <<tokens, state, waiting, leads, plan, wires, restarts>>

\* DISCONNECT_ACK_TIMEOUT: the next stream, unless it is completed now.
AckTimeout(w) ==
    /\ pc[w] = "sleep" /\ w \in leads /\ w \in waiting
    /\ waiting' = waiting \ {w}
    /\ Goto(w, IF completed THEN "complete" ELSE "attempt")
    /\ UNCHANGED <<tokens, state, leads, plan, wires, restarts>>

\* A completion nobody is told about.
CompletedSilently == completed' = TRUE /\ UNCHANGED waiting

\* notify_waiters
Completed == completed' = TRUE /\ waiting' = {}

\* The leader's complete().
Complete(w) ==
    /\ pc[w] = "complete"
    /\ IF completed THEN UNCHANGED <<completed, waiting>> ELSE Completed
    /\ Goto(w, "stop")
    /\ UNCHANGED <<tokens, active, streams, leads, plan, wires, restarts>>

\* reader_loop: OK:disconnected or DENIED.  No fairness: it may never come.
ObserveControlResponse(w) ==
    /\ w \in answers
    /\ answers' = answers \ {w}
    /\ IF active /\ ~ completed THEN Completed ELSE UNCHANGED <<completed, waiting>>
    /\ UNCHANGED <<tokens, active, streams, leads, plan, pc, commands, written, requests, restarts>>

\* The session ends and worker_loop returns.
Stop(w) ==
    /\ pc[w] = "stop"
    /\ Unregister(w) /\ DropTasks(w)
    /\ leads' = leads \ {w}
    /\ Goto(w, "gone")
    /\ UNCHANGED <<tokens, active, completed, waiting, plan, restarts>>

\* GroupCredentials::get met CallUnavailable.  (After Cancel it would change nothing:
\* the token of the call is already cancelled with the root.)
MarkUnavailable(h) ==
    /\ h \notin unavailable /\ ~ cancelled
    /\ unavailable' = unavailable \union {h}
    /\ UNCHANGED <<cancelled, state, waiting, leads, plan, pc, wires, restarts>>

Cancel ==
    /\ ~ cancelled
    /\ cancelled' = TRUE
    /\ UNCHANGED <<unavailable, state, waiting, leads, plan, pc, wires, restarts>>

Init ==
    /\ cancelled = FALSE /\ unavailable = {}
    /\ active = FALSE /\ completed = FALSE /\ streams = {}
    /\ waiting = {} /\ leads = {} /\ plan = <<>>
    /\ pc = [w \in Workers |-> "setup"]
    /\ commands = {} /\ written = {} /\ answers = {} /\ requests = 0 /\ restarts = 0

\* What the runtime does for a cancelled worker in the end, whatever the server does.
Winds(w) ==
    \/ GiveUp(w) \/ RequestDisconnect(w) \/ ControlStreams(w) \/ Attempt(w) \/ Delivered(w)
    \/ SendTimeout(w) \/ Listen(w) \/ Check(w) \/ Woken(w) \/ AckTimeout(w) \/ Complete(w)
    \/ Stop(w)

Next ==
    \/ Cancel
    \/ \E h \in Hashes : MarkUnavailable(h)
    \/ \E w \in Workers : Winds(w) \/ Register(w) \/ Fails(w) \/ Write(w) \/ ObserveControlResponse(w)

Spec == Init /\ [][Next]_vars
FairSpec == Spec /\ \A w \in Workers : WF_vars(Winds(w))

-----------------------------------------------------------------------------
TypeOK ==
    /\ cancelled \in BOOLEAN /\ unavailable \subseteq Hashes
    /\ active \in BOOLEAN /\ completed \in BOOLEAN /\ streams \subseteq Workers
    /\ waiting \subseteq Workers /\ leads \subseteq Workers
    /\ plan \in Seq(Workers) /\ Len(plan) <= Attempts
    /\ pc \in [Workers -> Steps]
    /\ commands \subseteq Workers /\ written \subseteq Workers /\ answers \subseteq Workers
    /\ requests \in Nat /\ restarts \in 0 .. MaxRestarts

\* However many sessions are cancelled at once, from however many calls, the server is
\* told at most Attempts times, a request that outlived its timeout included
\* (request_disconnect, session.rs:255).
RequestsBounded == requests <= Attempts

\* The leader chooses among running sessions: a registration goes with its session, in
\* every order of failing, stopping and registering again
\* (`shutdown_never_uses_a_dropped_control_stream`, session.rs:1368).
NoStaleStream == \A w \in streams : Live(w)

\* Once everything is cancelled every worker returns, without the two-second timeouts:
\* the leader's last act wakes every follower, also one that is just about to wait
\* (wait_until_completed, session.rs:340).
EveryoneStops == cancelled ~> \A w \in Workers : pc[w] = "gone"
=============================================================================
