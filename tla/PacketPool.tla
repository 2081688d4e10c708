----------------------------- MODULE PacketPool -----------------------------
(***************************************************************************)
(* The shared packet buffer pool (PacketPool of backend/packet.rs).        *)
(*                                                                         *)
(* All tasks acquire and drop PacketBufs without a lock; a buffer is often *)
(* dropped by another task than the one that acquired it, so buffers in    *)
(* use are a set and not tied to a thread.  One step is one operation of   *)
(* the ArrayQueue or one access of the `allocated` counter.  The queue is  *)
(* a set: which idle buffer is reused does not matter.                     *)
(***************************************************************************)
EXTENDS Naturals, FiniteSets

CONSTANTS
    Buffers,          \* identities of storages
    Threads,          \* tasks that acquire buffers
    AllocationLimit,  \* allocation_limit
    RetainedLimit     \* capacity of the ArrayQueue: min(capacity, PACKET_POOL_RETAINED_MAX)

ASSUME PacketPoolConstants ==
    /\ AllocationLimit \in Nat \ {0}
    /\ RetainedLimit \in 1 .. AllocationLimit

VARIABLES
    queue,      \* idle storages
    allocated,  \* the counter
    in_use,     \* storages inside a live PacketBuf
    dying,      \* storages the queue refused, not yet counted out
    missed      \* threads whose pop found the queue empty

poolVars == <<queue, allocated, in_use, dying, missed>>

Live == queue \union in_use \union dying

\* try_acquire_inner: an idle storage is reused.
Reuse(t) ==
    /\ t \notin missed
    /\ \E b \in queue : queue' = queue \ {b} /\ in_use' = in_use \union {b}
    /\ UNCHANGED <<allocated, dying, missed>>

Miss(t) ==
    /\ t \notin missed
    /\ queue = {}
    /\ missed' = missed \union {t}
    /\ UNCHANGED <<queue, allocated, in_use, dying>>

\* An off-by-one in the closure of fetch_update.
BelowOrAtLimit == allocated <= AllocationLimit

BelowLimit == allocated < AllocationLimit

\* fetch_update counts a new storage in, or the acquisition fails.
Allocate(t) ==
    /\ t \in missed
    /\ BelowLimit
    /\ allocated' = allocated + 1
    /\ \E b \in Buffers \ Live : in_use' = in_use \union {b}
    /\ missed' = missed \ {t}
    /\ UNCHANGED <<queue, dying>>

Exhausted(t) ==
    /\ t \in missed
    /\ ~ BelowLimit
    /\ missed' = missed \ {t}
    /\ UNCHANGED <<queue, allocated, in_use, dying>>

RoomToRetain == Cardinality(queue) < RetainedLimit

\* Drop of a PacketBuf: release_inner keeps the storage, ...
Retain(b) ==
    /\ b \in in_use
    /\ RoomToRetain
    /\ queue' = queue \union {b}
    /\ in_use' = in_use \ {b}
    /\ UNCHANGED <<allocated, dying, missed>>

\* ... or gives it up, because the queue is full or, whatever its state, because
\* the storage no longer has PACKET_CAPACITY bytes.
Refuse(b) ==
    /\ b \in in_use
    /\ dying' = dying \union {b}
    /\ in_use' = in_use \ {b}
    /\ UNCHANGED <<queue, allocated, missed>>

\* The fetch_sub forgotten after a refused push, and one that happens twice.
NotCountedOut == allocated' = allocated
CountedOutTwice == allocated' = allocated - 2

FetchSub == allocated' = allocated - 1

CountOut(b) ==
    /\ b \in dying
    /\ FetchSub
    /\ dying' = dying \ {b}
    /\ UNCHANGED <<queue, in_use, missed>>

PoolInit == queue = {} /\ allocated = 0 /\ in_use = {} /\ dying = {} /\ missed = {}

PoolNext ==
    \/ \E t \in Threads : Reuse(t) \/ Miss(t) \/ Allocate(t) \/ Exhausted(t)
    \/ \E b \in Buffers : Retain(b) \/ Refuse(b) \/ CountOut(b)

PoolSpec == PoolInit /\ [][PoolNext]_poolVars

-----------------------------------------------------------------------------
PoolTypeOK ==
    /\ queue \in SUBSET Buffers /\ IsFiniteSet(queue)
    /\ in_use \in SUBSET Buffers /\ IsFiniteSet(in_use)
    /\ dying \in SUBSET Buffers /\ IsFiniteSet(dying)
    /\ allocated \in Nat
    /\ missed \in SUBSET Threads

\* No storage is handed out twice or is idle and in use at once.
Disjoint == queue \intersect in_use = {} /\ queue \intersect dying = {} /\ in_use \intersect dying = {}

\* The counter is exactly the number of storages alive, whatever the tasks that
\* acquire and drop buffers interleave: it leaks none and forgets none
\* (packet.rs, concurrent_deficit_never_exceeds_packet_budget_or_leaks).
CounterIsExact == allocated = Cardinality(Live)

\* The pool's memory stays within its budget, storages about to be freed included.
WithinBudget == Cardinality(Live) <= AllocationLimit
=============================================================================
