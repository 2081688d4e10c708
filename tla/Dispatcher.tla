----------------------------- MODULE Dispatcher -----------------------------
(***************************************************************************)
(* Striping of outbound packets over the worker streams (Dispatcher and    *)
(* FastPathScheduler of backend/dispatcher.rs, packet classes of           *)
(* backend/shared/striped_scheduler.rs).                                   *)
(*                                                                         *)
(* Sessions come and go and keep the shared, immutable list of streams up  *)
(* to date with ArcSwap::rcu: load the list, build a new one, swap it in   *)
(* if nobody else has, else start over.  The task that reads TUN or UDP    *)
(* owns a FastPathScheduler: it sends a chunk of packets of one class to   *)
(* one stream before it goes on to the next, and looks at the shared list  *)
(* only when a class starts a chunk.  A stream is [id, incarnation_id,     *)
(* turn_path]; what its queues do is module PacketQueue.                   *)
(***************************************************************************)
EXTENDS Naturals, Sequences, FiniteSets, SequencesExt

CONSTANTS
    WorkerIds,          \* worker ids, numbers
    TurnPaths,          \* keys of TURN paths, numbers in the order of their strings
    Classes,            \* PacketClass
    StreamChunk,        \* stream_chunk, per class
    MaxIncarnations     \* bound: sessions one worker starts

ASSUME DispatcherConstants ==
    /\ WorkerIds \subseteq Nat /\ TurnPaths \subseteq Nat /\ TurnPaths # {}
    /\ StreamChunk \in [Classes -> Nat \ {0}]
    /\ MaxIncarnations \in Nat

VARIABLES
    workers,        \* Dispatcher.workers: the published list
    session,        \* per worker: where its session is
    stream,         \* per worker: the WorkerChannels of its session
    loaded,         \* per worker: the list its rcu has loaded
    snapshot, worker_count, cursors,   \* FastPathScheduler
    ticket,         \* the DispatchTicket of the packet in hand
    stale           \* history: packets of a class sent to a stream after it was unregistered

sessionVars   == <<workers, session, stream, loaded>>
schedulerVars == <<snapshot, worker_count, cursors, ticket>>
vars          == <<sessionVars, schedulerVars, stale>>

Streams == [id : WorkerIds, incarnation_id : 0 .. MaxIncarnations, turn_path : TurnPaths]
NoTicket == [class |-> "none"]

-----------------------------------------------------------------------------
(***************************************************************************)
(* The published list                                                      *)
(***************************************************************************)
\* A list that is sorted and never dealt out.
SortedByPath(S) ==
    SetToSortSeq(S, LAMBDA a, b : \/ a.turn_path < b.turn_path
                                  \/ a.turn_path = b.turn_path /\ a.id < b.id)

\* The place of a stream in the group of its path.
Offset(S, x) == Cardinality({y \in S : y.turn_path = x.turn_path /\ y.id < x.id})

\* The streams dealt out before x: those of an earlier round, and of an earlier path.
DealtBefore(S, x) ==
    {y \in S : \/ Offset(S, y) < Offset(S, x)
               \/ Offset(S, y) = Offset(S, x) /\ y.turn_path < x.turn_path}

\* interleave_turn_paths: sort by path and id, then deal one stream of every path
\* in turn until all are used up.
InterleaveTurnPaths(S) ==
    [i \in 1 .. Cardinality(S) |-> CHOOSE x \in S : Cardinality(DealtBefore(S, x)) = i - 1]

Added(list, st)   == InterleaveTurnPaths({x \in Range(list) : x.id # st.id} \union {st})
Removed(list, st) == InterleaveTurnPaths({x \in Range(list) :
                         x.id # st.id \/ x.incarnation_id # st.incarnation_id})

NobodyElseSwapped(w) == workers = loaded[w]

\* One round of rcu.
LoadList(w, at, to) ==
    /\ session[w] = at
    /\ session' = [session EXCEPT ![w] = to]
    /\ loaded' = [loaded EXCEPT ![w] = workers]

SwapList(w, at, retry, to, list) ==
    /\ session[w] = at
    /\ IF NobodyElseSwapped(w)
       THEN session' = [session EXCEPT ![w] = to] /\ workers' = list
       ELSE session' = [session EXCEPT ![w] = retry] /\ UNCHANGED workers
    /\ loaded' = [loaded EXCEPT ![w] = << >>]

\* A session got its channel: run_allocated_session creates the queues and registers.
Connect(w) ==
    /\ session[w] = "down"
    /\ stream[w].incarnation_id < MaxIncarnations
    /\ session' = [session EXCEPT ![w] = "register"]
    /\ \E p \in TurnPaths : stream' = [stream EXCEPT
          ![w] = [id |-> w, incarnation_id |-> @.incarnation_id + 1, turn_path |-> p]]
    /\ UNCHANGED <<workers, loaded, schedulerVars, stale>>

RegisterLoad(w) ==
    /\ LoadList(w, "register", "registering")
    /\ UNCHANGED <<workers, stream, schedulerVars, stale>>

\* A registration that loads the list and stores the new one.
RegisterStore(w) ==
    /\ session[w] = "registering"
    /\ session' = [session EXCEPT ![w] = "up"]
    /\ workers' = Added(loaded[w], stream[w])
    /\ loaded' = [loaded EXCEPT ![w] = << >>]
    /\ UNCHANGED <<stream, schedulerVars, stale>>

RegisterSwap(w) ==
    /\ SwapList(w, "registering", "register", "up", Added(loaded[w], stream[w]))
    /\ UNCHANGED <<stream, schedulerVars, stale>>

\* The session ended; WorkerRegistration is dropped.
Disconnect(w) ==
    /\ session[w] = "up"
    /\ session' = [session EXCEPT ![w] = "unregister"]
    /\ UNCHANGED <<workers, stream, loaded, schedulerVars, stale>>

UnregisterLoad(w) ==
    /\ LoadList(w, "unregister", "unregistering")
    /\ UNCHANGED <<workers, stream, schedulerVars, stale>>

UnregisterSwap(w) ==
    /\ SwapList(w, "unregistering", "unregister", "down", Removed(loaded[w], stream[w]))
    /\ UNCHANGED <<stream, schedulerVars, stale>>

-----------------------------------------------------------------------------
(***************************************************************************)
(* FastPathScheduler                                                       *)
(***************************************************************************)
FreshCursors == [c \in Classes |-> [current_worker |-> 0, remaining |-> 0]]

\* A scheduler that only looks when it knows of no stream.
ReloadWhenEmpty(c) == snapshot = << >>

\* A class that starts a chunk looks at the published list.
Reload(c) == cursors[c].remaining = 0

\* A sync_worker_count that leaves the cursors where they were.
KeptCursors(count) == cursors

SyncedCursors(count) == IF count = worker_count THEN cursors ELSE FreshCursors

\* A chunk that starts without counting its first packet.
LeftOneMore(remaining, c) == IF remaining = 0 THEN StreamChunk[c] ELSE remaining - 1

\* Packets left in the chunk after this one.
Left(remaining, c) == (IF remaining = 0 THEN StreamChunk[c] ELSE remaining) - 1

\* begin and begin_for_class, for a packet of class c.
Begin(c) ==
    LET list   == IF Reload(c) THEN workers ELSE snapshot
        synced == SyncedCursors(Len(list))
        slot   == synced[c].current_worker
        left   == Left(synced[c].remaining, c)
    IN  /\ ticket = NoTicket
        /\ snapshot' = list
        /\ worker_count' = Len(list)
        /\ IF Len(list) = 0
           THEN cursors' = synced /\ UNCHANGED ticket
           ELSE /\ cursors' = [synced EXCEPT ![c] =
                     [current_worker |-> IF left # 0 THEN slot
                                         ELSE IF slot + 1 = Len(list) THEN 0 ELSE slot + 1,
                      remaining |-> left]]
                /\ ticket' = [class |-> c, start_slot |-> slot]
        /\ UNCHANGED <<sessionVars, stale>>

\* dispatch_now with the ticket in hand: enqueue_selected_worker, and if the queue
\* is full replace_oldest_in_selected_queue, on the stream in the ticket's slot of
\* the snapshot.  workers.get(start_slot) is None for a slot out of range.
InRange == ticket.start_slot < Len(snapshot)
Chosen  == snapshot[ticket.start_slot + 1]

Enqueue ==
    /\ ticket # NoTicket
    /\ ticket' = NoTicket
    /\ stale' = IF InRange /\ Chosen \notin Range(workers)
                THEN [stale EXCEPT ![ticket.class][Chosen] = @ + 1] ELSE stale
    /\ UNCHANGED <<sessionVars, snapshot, worker_count, cursors>>

Init ==
    /\ workers = << >>
    /\ session = [w \in WorkerIds |-> "down"]
    /\ stream = [w \in WorkerIds |->
          [id |-> w, incarnation_id |-> 0, turn_path |-> CHOOSE p \in TurnPaths : TRUE]]
    /\ loaded = [w \in WorkerIds |-> << >>]
    /\ snapshot = << >> /\ worker_count = 0 /\ cursors = FreshCursors
    /\ ticket = NoTicket
    /\ stale = [c \in Classes |-> [s \in Streams |-> 0]]

SessionStep(w) ==
    \/ Connect(w) \/ RegisterLoad(w) \/ RegisterSwap(w)
    \/ Disconnect(w) \/ UnregisterLoad(w) \/ UnregisterSwap(w)

Next == (\E w \in WorkerIds : SessionStep(w)) \/ (\E c \in Classes : Begin(c)) \/ Enqueue

Spec == Init /\ [][Next]_vars

-----------------------------------------------------------------------------
SessionSteps == {"down", "register", "registering", "up", "unregister", "unregistering"}

TypeOK ==
    /\ workers \in Seq(Streams) /\ snapshot \in Seq(Streams)
    /\ session \in [WorkerIds -> SessionSteps]
    /\ stream \in [WorkerIds -> Streams]
    /\ loaded \in [WorkerIds -> Seq(Streams)]
    /\ worker_count \in Nat
    /\ \A c \in Classes : /\ cursors[c].current_worker \in Nat
                          /\ cursors[c].remaining \in 0 .. StreamChunk[c] - 1
    /\ ticket \in [class : Classes, start_slot : Nat] \union {NoTicket}
    /\ stale \in [Classes -> [Streams -> Nat]]

\* The published list names exactly the streams whose sessions are registered,
\* each once, however many sessions register and unregister at the same time:
\* none is lost to another's rcu and none outlives its session
\* (dispatcher.rs:1962 and :1980 for one thread).
RegistryIsExact ==
    /\ Range(workers) = {stream[w] : w \in {v \in WorkerIds :
                            session[v] \in {"up", "unregister", "unregistering"}}}
    /\ Len(workers) = Cardinality(Range(workers))

\* Neighbours in the list run over different TURN paths as long as there is a choice:
\* two in a row on one path means that every later stream is on that path too.
PathsAlternate ==
    \A i \in 1 .. Len(workers) - 1 :
        workers[i].turn_path = workers[i + 1].turn_path =>
            \A j \in i + 1 .. Len(workers) : workers[j].turn_path = workers[i].turn_path

\* A ticket always names a stream of the snapshot it was issued for: no packet is
\* dropped because the list shrank under a cursor.
TicketInRange == ticket # NoTicket => InRange

\* A stream that has been unregistered is sent at most one more chunk of each class:
\* the scheduler never keeps its old list past the end of a chunk.
StaleSendsBounded ==
    \A c \in Classes, s \in Streams : stale[c][s] <= StreamChunk[c]
=============================================================================
