------------------------------- MODULE Repair -------------------------------
(***************************************************************************)
(* Targeted stream repair (backend/repair.rs) and the part of a session    *)
(* that obeys it (backend/session.rs, backend/worker.rs).                  *)
(*                                                                         *)
(* The server names worker streams it wants restarted in numbered          *)
(* commands.  A command may arrive on any stream, more than once and out   *)
(* of order; every stream's reader_loop applies what it receives to the    *)
(* shared RepairState.  All fields are atomics without a lock, so one step *)
(* here is one atomic access of the code.                                  *)
(***************************************************************************)
EXTENDS Naturals, FiniteSets

CONSTANTS
    Readers,      \* reader_loop tasks, one per connected stream
    Slots,        \* worker ids that own a RepairSlot
    WorkerIds,    \* ids a command may name (slot() ignores the unknown ones)
    MaxSequence   \* bound: command sequence numbers of a run

ASSUME RepairConstants ==
    /\ IsFiniteSet(Readers) /\ Slots \subseteq WorkerIds
    /\ MaxSequence \in Nat \ {0}

VARIABLES
    restart_generation, credential_generation,   \* RepairSlot, per slot
    last_sequence, ready_sequence,
    pc, command, current,      \* per reader: step, command being applied, value loaded
    session, marked, observed, \* per slot: step of its session, mark_ready's load, generation
    credentials_seen,          \* per slot: credential_generation when the session was started
    invalidations,             \* per slot: calls of group_creds.invalidate for a repair
    applied                    \* history: sequences accepted

slotVars    == <<restart_generation, credential_generation, last_sequence, ready_sequence>>
readerVars  == <<pc, command, current>>
sessionVars == <<session, marked, observed, credentials_seen, invalidations>>
vars        == <<slotVars, readerVars, sessionVars, applied>>

Sequences == 1 .. MaxSequence
Commands  == [kind : {"repair", "alive"}, sequence : Sequences,
              worker_ids : (SUBSET WorkerIds) \ {{}}]
NoCommand == [kind |-> "none"]

\* The slot a reader works on: the next id of its command.
Target(r) == CHOOSE id \in command[r].worker_ids : TRUE

-----------------------------------------------------------------------------
(***************************************************************************)
(* apply_repair and apply_alive, run by reader r                           *)
(***************************************************************************)
\* A loop over the ids that does not notice its end.
NextWorkerWithoutEnd(r) ==
    /\ pc' = [pc EXCEPT ![r] = command[r].kind]
    /\ command' = [command EXCEPT ![r].worker_ids = @ \ {Target(r)}]

\* The `for worker_id in &command.worker_ids` loop goes to its next id or ends.
NextWorker(r) ==
    LET rest == command[r].worker_ids \ {Target(r)}
    IN  IF rest = {}
        THEN /\ pc' = [pc EXCEPT ![r] = "idle"]
             /\ command' = [command EXCEPT ![r] = NoCommand]
        ELSE /\ pc' = [pc EXCEPT ![r] = command[r].kind]
             /\ command' = [command EXCEPT ![r].worker_ids = rest]

Goto(r, step) == pc' = [pc EXCEPT ![r] = step] /\ UNCHANGED command

Receive(r) ==
    /\ pc[r] = "idle"
    /\ \E c \in Commands :
         /\ command' = [command EXCEPT ![r] = c]
         /\ pc' = [pc EXCEPT ![r] = c.kind]
    /\ UNCHANGED <<slotVars, current, sessionVars, applied>>

\* slot() is None.
UnknownSlot(r) ==
    /\ pc[r] \in {"repair", "alive"}
    /\ Target(r) \notin Slots
    /\ NextWorker(r)
    /\ UNCHANGED <<slotVars, current, sessionVars, applied>>

LoadLast(r) ==
    /\ pc[r] = "repair"
    /\ Target(r) \in Slots
    /\ current' = [current EXCEPT ![r] = last_sequence[Target(r)]]
    /\ Goto(r, "cas")
    /\ UNCHANGED <<slotVars, sessionVars, applied>>

OldSequence(r) ==
    /\ pc[r] = "cas"
    /\ command[r].sequence <= current[r]
    /\ NextWorker(r)
    /\ UNCHANGED <<slotVars, current, sessionVars, applied>>

\* A store in place of compare_exchange: the slot may have moved on since the load.
SlotUnchecked(r) == TRUE

SlotUnchanged(r) == last_sequence[Target(r)] = current[r]

CasLast(r) ==
    LET w == Target(r) IN
    /\ pc[r] = "cas"
    /\ command[r].sequence > current[r]
    /\ IF SlotUnchanged(r)
       THEN /\ last_sequence' = [last_sequence EXCEPT ![w] = command[r].sequence]
            /\ applied' = [applied EXCEPT ![w] = @ \union {command[r].sequence}]
            /\ Goto(r, IF current[r] # 0 THEN "ready" ELSE "restart")
            /\ UNCHANGED current
       ELSE /\ current' = [current EXCEPT ![r] = last_sequence[w]]
            /\ UNCHANGED <<pc, command, last_sequence, applied>>
    /\ UNCHANGED <<restart_generation, credential_generation, ready_sequence,
                   sessionVars>>

\* Was the previous repair (sequence current[r]) answered by a working stream?
LoadReady(r) ==
    /\ pc[r] = "ready"
    /\ Goto(r, IF ready_sequence[Target(r)] < current[r] THEN "bump" ELSE "restart")
    /\ UNCHANGED <<slotVars, current, sessionVars, applied>>

BumpCredential(r) ==
    /\ pc[r] = "bump"
    /\ credential_generation' = [credential_generation EXCEPT ![Target(r)] = @ + 1]
    /\ Goto(r, "restart")
    /\ UNCHANGED <<restart_generation, last_sequence, ready_sequence, current,
                   sessionVars, applied>>

BumpRestart(r) ==
    /\ pc[r] = "restart"
    /\ restart_generation' = [restart_generation EXCEPT ![Target(r)] = @ + 1]
    /\ Goto(r, "notify")
    /\ UNCHANGED <<credential_generation, last_sequence, ready_sequence, current,
                   sessionVars, applied>>

\* Notify::notify_waiters wakes the tasks that wait now and stores no permit.
NotifyWaiters(r) ==
    /\ pc[r] = "notify"
    /\ session' = [session EXCEPT ![Target(r)] = IF @ = "waiting" THEN "check" ELSE @]
    /\ NextWorker(r)
    /\ UNCHANGED <<slotVars, current, marked, observed, credentials_seen,
                   invalidations, applied>>

ApplyAlive(r) ==
    LET w == Target(r)
        s == command[r].sequence
    IN  /\ pc[r] = "alive"
        /\ w \in Slots
        /\ ready_sequence' = [ready_sequence EXCEPT ![w] = IF s > @ THEN s ELSE @]
        /\ NextWorker(r)
        /\ UNCHANGED <<restart_generation, credential_generation, last_sequence,
                       current, sessionVars, applied>>

Reader(r) ==
    \/ UnknownSlot(r) \/ LoadLast(r) \/ OldSequence(r) \/ CasLast(r) \/ LoadReady(r)
    \/ BumpCredential(r) \/ BumpRestart(r) \/ NotifyWaiters(r) \/ ApplyAlive(r)

-----------------------------------------------------------------------------
(***************************************************************************)
(* The session of worker w                                                 *)
(***************************************************************************)
At(w, from, to) == session[w] = from /\ session' = [session EXCEPT ![w] = to]

\* worker_loop reads credential_generation and opens a new session.
StartSession(w) ==
    /\ At(w, "down", "connecting")
    /\ credentials_seen' = [credentials_seen EXCEPT ![w] = credential_generation[w]]
    /\ UNCHANGED <<slotVars, readerVars, marked, observed, invalidations, applied>>

\* mark_ready: a load and a store, not one atomic step.
MarkReadyLoad(w) ==
    /\ At(w, "connecting", "marking")
    /\ marked' = [marked EXCEPT ![w] = last_sequence[w]]
    /\ UNCHANGED <<slotVars, readerVars, observed, credentials_seen,
                   invalidations, applied>>

MarkReadyStore(w) ==
    /\ At(w, "marking", "marked")
    /\ ready_sequence' = [ready_sequence EXCEPT ![w] = marked[w]]
    /\ UNCHANGED <<restart_generation, credential_generation, last_sequence, readerVars,
                   marked, observed, credentials_seen, invalidations, applied>>

ObserveGeneration(w) ==
    /\ At(w, "marked", "check")
    /\ observed' = [observed EXCEPT ![w] = restart_generation[w]]
    /\ UNCHANGED <<slotVars, readerVars, marked, credentials_seen,
                   invalidations, applied>>

\* RepairState::changed: the load of the generation, then the registration of
\* the waiter.
SeeRestart(w) ==
    /\ restart_generation[w] # observed[w]
    /\ At(w, "check", "repair")
    /\ UNCHANGED <<slotVars, readerVars, marked, observed, credentials_seen,
                   invalidations, applied>>

SeeNoRestart(w) ==
    /\ restart_generation[w] = observed[w]
    /\ At(w, "check", "register")
    /\ UNCHANGED <<slotVars, readerVars, marked, observed, credentials_seen,
                   invalidations, applied>>

Register(w) ==
    /\ At(w, "register", "waiting")
    /\ UNCHANGED <<slotVars, readerVars, marked, observed, credentials_seen,
                   invalidations, applied>>

\* An off-by-one in the comparison of the two generations.
AsksAtTheSameGeneration(w) == credential_generation[w] >= credentials_seen[w]

\* Was a credential reset requested since this session was started?
AsksForCredentials(w) == credential_generation[w] > credentials_seen[w]

\* TARGET_REPAIR reaches worker_loop, which drops the credentials when a command
\* asked for it (not while the client is paused), and starts over.
EndByRepair(w) ==
    /\ At(w, "repair", "down")
    /\ \E paused \in BOOLEAN :
         invalidations' = [invalidations EXCEPT
             ![w] = IF ~ paused /\ AsksForCredentials(w) THEN @ + 1 ELSE @]
    /\ UNCHANGED <<slotVars, readerVars, marked, observed, credentials_seen,
                   applied>>

\* The writer, the reader or the handshake ends the session.
EndByFailure(w) ==
    /\ session[w] \in {"connecting", "check", "register", "waiting"}
    /\ session' = [session EXCEPT ![w] = "down"]
    /\ UNCHANGED <<slotVars, readerVars, marked, observed, credentials_seen,
                   invalidations, applied>>

Session(w) ==
    \/ StartSession(w) \/ MarkReadyLoad(w) \/ MarkReadyStore(w) \/ ObserveGeneration(w)
    \/ SeeRestart(w) \/ SeeNoRestart(w) \/ Register(w) \/ EndByRepair(w)

Init ==
    /\ restart_generation = [w \in Slots |-> 0] /\ credential_generation = [w \in Slots |-> 0]
    /\ last_sequence = [w \in Slots |-> 0] /\ ready_sequence = [w \in Slots |-> 0]
    /\ pc = [r \in Readers |-> "idle"] /\ command = [r \in Readers |-> NoCommand]
    /\ current = [r \in Readers |-> 0]
    /\ session = [w \in Slots |-> "down"]
    /\ marked = [w \in Slots |-> 0] /\ observed = [w \in Slots |-> 0]
    /\ credentials_seen = [w \in Slots |-> 0] /\ invalidations = [w \in Slots |-> 0]
    /\ applied = [w \in Slots |-> {}]

Next ==
    \/ \E r \in Readers : Receive(r) \/ Reader(r)
    \/ \E w \in Slots : Session(w) \/ EndByFailure(w)

Spec == Init /\ [][Next]_vars

\* Tokio keeps polling a runnable task: a reader finishes the command it has
\* received, a session goes on until it waits.
FairSpec ==
    /\ Spec
    /\ \A r \in Readers : WF_vars(Reader(r))
    /\ \A w \in Slots : WF_vars(Session(w))

-----------------------------------------------------------------------------
ReaderSteps  == {"idle", "repair", "alive", "cas", "ready", "bump", "restart", "notify"}
SessionSteps == {"down", "connecting", "marking", "marked", "check", "register",
                 "waiting", "repair"}

TypeOK ==
    /\ restart_generation \in [Slots -> Nat] /\ credential_generation \in [Slots -> Nat]
    /\ last_sequence \in [Slots -> 0 .. MaxSequence]
    /\ ready_sequence \in [Slots -> 0 .. MaxSequence]
    /\ pc \in [Readers -> ReaderSteps]
    /\ command \in [Readers -> Commands \union {NoCommand}]
    /\ \A r \in Readers : pc[r] # "idle" => command[r] \in Commands
    /\ current \in [Readers -> 0 .. MaxSequence]
    /\ session \in [Slots -> SessionSteps]
    /\ marked \in [Slots -> 0 .. MaxSequence]
    /\ observed \in [Slots -> Nat] /\ credentials_seen \in [Slots -> Nat]
    /\ invalidations \in [Slots -> Nat]
    /\ applied \in [Slots -> SUBSET Sequences]

\* Readers that have moved last_sequence of w and still owe it the restart.
Owing(w) == {r \in Readers : pc[r] \in {"ready", "bump", "restart"} /\ Target(r) = w}

\* Readers that still owe w the decision on its credentials.
Deciding(w) == {r \in Readers : pc[r] \in {"ready", "bump"} /\ Target(r) = w}

\* apply_repair restarts a stream exactly once per sequence number, however many
\* streams deliver the command and however their reader tasks interleave
\* (repair.rs:152, duplicate_repair_sequence_is_ignored, for one thread).
OneRestartPerSequence ==
    \A w \in Slots :
        restart_generation[w] + Cardinality(Owing(w)) = Cardinality(applied[w])

\* The first repair of a stream never costs it its credentials: a reset needs an
\* earlier accepted sequence.
ResetsNeedARepeat ==
    \A w \in Slots : credential_generation[w] # 0 =>
        credential_generation[w] + Cardinality(Deciding(w)) < Cardinality(applied[w])

\* A worker drops its shared credentials for a repair at most once per reset that
\* was requested for it, also when sessions end and restart between the request,
\* the restart it comes with and the session's own end.
InvalidationsAreRequested ==
    \A w \in Slots : invalidations[w] <= credential_generation[w]

\* repair.rs:152 counts an accepted command as a restart: a session that is up
\* when its restart_generation moves on ends.  `changed` does not keep this (README,
\* section 6), so no run checks it.
RestartEndsSession ==
    \A w \in Slots :
        (session[w] \in {"check", "register", "waiting"}
            /\ restart_generation[w] # observed[w]) ~> session[w] \in {"repair", "down"}
=============================================================================
