----------------------------- MODULE PacketQueue -----------------------------
(***************************************************************************)
(* The lock-free packet channel between the dispatcher, the sessions and   *)
(* the TUN/UDP tasks (PacketQueue, PacketSender and PacketReceiver of      *)
(* backend/dispatcher.rs).                                                 *)
(*                                                                         *)
(* Many threads hold a PacketSender, one task owns the PacketReceiver.     *)
(* There is no lock: one step is one atomic access, one operation of the   *)
(* ArrayQueue or one call of tokio's Notify.  A queued packet is its epoch *)
(* tag and, for the properties, `born`: how many resume and suspend calls  *)
(* there had been when its sender looked at the state.                     *)
(*                                                                         *)
(* Notify (external) has a stored permit, set by notify_one and taken by   *)
(* the next wait, and notify_waiters, which completes the Notified future  *)
(* that exists at the call and stores nothing.  One task waits, so a       *)
(* waiter woken by notify_one and a stored permit are the same thing.      *)
(***************************************************************************)
EXTENDS Naturals, Sequences, FiniteSets

CONSTANTS
    Senders,    \* threads that may hold a PacketSender
    Capacity,   \* of the ArrayQueue
    MaxPurges,  \* bound: calls of resume and suspend in a run
    MaxSends    \* bound: sends that one thread starts

ASSUME PacketQueueConstants ==
    /\ IsFiniteSet(Senders)
    /\ Capacity \in Nat \ {0} /\ MaxPurges \in Nat /\ MaxSends \in Nat

VARIABLES
    queue,            \* the ArrayQueue, oldest packet first
    epoch, active,    \* PacketQueue.state >> 1 and its QUEUE_ACTIVE bit
    senders,          \* PacketQueue.senders
    receiver_open,
    permit, fired,    \* Notify: stored permit; the receiver's Notified was woken by notify_waiters
    spc, loaded, sends,   \* per thread: step, tag of its packet, sends started
    holds,            \* threads that hold a PacketSender
    rpc, popped,      \* the receiver: step, the packet it popped last
    cancelled,        \* the CancellationToken given to recv
    purges            \* history: calls of resume and suspend

sharedVars == <<queue, epoch, active, senders, receiver_open, permit, fired>>
senderVars == <<spc, loaded, sends, holds>>
vars       == <<sharedVars, senderVars, rpc, popped, cancelled, purges>>

\* Steps of the receiver at which the Notified future of recv exists.
Armed == {"recheck", "recheckPop", "recount", "await"}

-----------------------------------------------------------------------------
(***************************************************************************)
(* PacketSender, by thread s                                               *)
(***************************************************************************)
SenderStep(s, from, to) == spc[s] = from /\ spc' = [spc EXCEPT ![s] = to]

CheckOpen(s) ==
    /\ s \in holds
    /\ sends[s] < MaxSends
    /\ SenderStep(s, "idle", IF receiver_open THEN "load" ELSE "idle")
    /\ sends' = [sends EXCEPT ![s] = @ + 1]
    /\ UNCHANGED <<sharedVars, loaded, holds, rpc, popped, cancelled, purges>>

LoadState(s) ==
    /\ SenderStep(s, "load", IF active THEN "push" ELSE "idle")
    /\ loaded' = [loaded EXCEPT ![s] = [epoch |-> epoch, born |-> purges]]
    /\ UNCHANGED <<sharedVars, sends, holds, rpc, popped, cancelled, purges>>

\* A queue that takes one packet too many.
FullPastCapacity == Len(queue) > Capacity

Full == Len(queue) = Capacity

\* queue.push of try_send: a full queue refuses the packet.
TryPush(s) ==
    /\ SenderStep(s, "push", IF Full THEN "idle" ELSE "notify")
    /\ queue' = IF Full THEN queue ELSE Append(queue, loaded[s])
    /\ UNCHANGED <<epoch, active, senders, receiver_open, permit, fired,
                   loaded, sends, holds, rpc, popped, cancelled, purges>>

\* queue.force_push of force_send: a full queue loses its oldest packet.
ForcePush(s) ==
    /\ SenderStep(s, "push", "notify")
    /\ queue' = Append(IF Full THEN Tail(queue) ELSE queue, loaded[s])
    /\ UNCHANGED <<epoch, active, senders, receiver_open, permit, fired,
                   loaded, sends, holds, rpc, popped, cancelled, purges>>

NotifyOne == permit' = TRUE

\* A send that tells nobody.
SentSilently(s) ==
    /\ SenderStep(s, "notify", "idle")
    /\ UNCHANGED <<sharedVars, loaded, sends, holds, rpc, popped, cancelled, purges>>

NotifySent(s) ==
    /\ SenderStep(s, "notify", "idle")
    /\ NotifyOne
    /\ UNCHANGED <<queue, epoch, active, senders, receiver_open, fired,
                   loaded, sends, holds, rpc, popped, cancelled, purges>>

NotifyWaiters == fired' = (fired \/ rpc \in Armed)

CloneSender(s) ==
    /\ s \notin holds /\ holds # {}
    /\ spc[s] = "idle"
    /\ holds' = holds \union {s}
    /\ senders' = senders + 1
    /\ UNCHANGED <<queue, epoch, active, receiver_open, permit, fired, spc, loaded, sends,
                   rpc, popped, cancelled, purges>>

\* Drop: fetch_sub, and notify_waiters by the thread that took the count to zero.
DropSender(s) ==
    /\ s \in holds
    /\ SenderStep(s, "idle", IF senders = 1 THEN "last" ELSE "idle")
    /\ holds' = holds \ {s}
    /\ senders' = senders - 1
    /\ UNCHANGED <<queue, epoch, active, receiver_open, permit, fired, loaded, sends,
                   rpc, popped, cancelled, purges>>

NotifyLast(s) ==
    /\ SenderStep(s, "last", "idle")
    /\ NotifyWaiters
    /\ UNCHANGED <<queue, epoch, active, senders, receiver_open, permit,
                   loaded, sends, holds, rpc, popped, cancelled, purges>>

-----------------------------------------------------------------------------
(***************************************************************************)
(* PacketReceiver                                                          *)
(***************************************************************************)
Go(from, to) == rpc = from /\ rpc' = to

\* recv: the head of its loop.
StartRecv ==
    /\ Go("idle", IF cancelled THEN "idle" ELSE "pop")
    /\ UNCHANGED <<sharedVars, senderVars, popped, cancelled, purges>>

\* try_recv_inner, at the head of the loop ("pop") or after notified() ("recheck"):
\* pop a packet, then compare its epoch with the state.
Pop(at, found, empty) ==
    /\ Go(at, IF queue = << >> THEN empty ELSE found)
    /\ popped' = IF queue = << >> THEN popped ELSE Head(queue)
    /\ queue' = IF queue = << >> THEN queue ELSE Tail(queue)
    /\ UNCHANGED <<epoch, active, senders, receiver_open, permit, fired, senderVars, cancelled, purges>>

\* A comparison of the active bit only.
AcceptAnyEpoch == active

AcceptPopped == active /\ popped.epoch = epoch

Compare(at, back) ==
    /\ Go(at, IF AcceptPopped THEN "return" ELSE back)
    /\ UNCHANGED <<sharedVars, senderVars, popped, cancelled, purges>>

PopFirst       == Pop("pop", "popped", "count")
CompareFirst   == Compare("popped", "pop")
PopAgain       == Pop("recheck", "recheckPop", "recount")
CompareAgain   == Compare("recheckPop", "recheck")

\* senders.load: no sender is left, recv returns None.
CountSenders ==
    /\ Go("count", IF senders = 0 THEN "idle" ELSE "arm")
    /\ UNCHANGED <<sharedVars, senderVars, popped, cancelled, purges>>

\* notified(): from here on notify_waiters reaches this receiver.
Arm ==
    /\ Go("arm", "recheck")
    /\ fired' = FALSE
    /\ UNCHANGED <<queue, epoch, active, senders, receiver_open, permit, senderVars,
                   popped, cancelled, purges>>

\* The second look at the counter left out.
RecountNothing == Go("recount", "await") /\ UNCHANGED <<sharedVars, senderVars, popped, cancelled, purges>>

Recount ==
    /\ Go("recount", IF senders = 0 THEN "idle" ELSE "await")
    /\ UNCHANGED <<sharedVars, senderVars, popped, cancelled, purges>>

\* The biased select!: a cancelled token goes first, then the notification.
Woken ==
    /\ fired \/ permit
    /\ ~ cancelled
    /\ Go("await", "pop")
    /\ permit' \in IF fired THEN {FALSE, permit} ELSE {FALSE}
    /\ UNCHANGED <<queue, epoch, active, senders, receiver_open, fired, senderVars,
                   popped, cancelled, purges>>

\* A cancelled wait, or a caller's select! that took another branch and dropped recv.
LeaveRecv ==
    /\ Go("await", "idle")
    /\ UNCHANGED <<sharedVars, senderVars, popped, cancelled, purges>>

\* The caller takes the packet and comes back for more.
Return ==
    /\ Go("return", "idle")
    /\ UNCHANGED <<sharedVars, senderVars, popped, cancelled, purges>>

\* resume: the state moves to a new, still inactive epoch, what is queued goes, the
\* epoch is activated.  suspend: inactive first, then the purge.
Resume ==
    /\ Go("idle", "resumePurge")
    /\ purges < MaxPurges /\ purges' = purges + 1
    /\ epoch' = epoch + 1 /\ active' = FALSE
    /\ UNCHANGED <<queue, senders, receiver_open, permit, fired, senderVars, popped, cancelled>>

Suspend ==
    /\ Go("idle", "suspendPurge")
    /\ purges < MaxPurges /\ purges' = purges + 1
    /\ active' = FALSE
    /\ UNCHANGED <<queue, epoch, senders, receiver_open, permit, fired, senderVars,
                   popped, cancelled>>

\* A drop that empties the queue and leaves it open.
LeaveOpen == receiver_open' = receiver_open

CloseFirst == receiver_open' = FALSE

DropReceiver ==
    /\ Go("idle", "dropPurge")
    /\ CloseFirst
    /\ UNCHANGED <<queue, epoch, active, senders, permit, fired, senderVars, popped, cancelled, purges>>

Purging == {"resumePurge", "suspendPurge", "dropPurge"}

\* purge: one pop of its loop.
Purge ==
    /\ rpc \in Purging /\ queue # << >>
    /\ queue' = Tail(queue)
    /\ UNCHANGED <<epoch, active, senders, receiver_open, permit, fired, senderVars,
                   rpc, popped, cancelled, purges>>

\* The pop that finds the queue empty.  (The notify_waiters at the end of the three
\* calls finds nobody: the only task that waits is the one that makes the call.)
PurgeDone ==
    /\ queue = << >>
    /\ \/ Go("resumePurge", "activate") \/ Go("suspendPurge", "idle") \/ Go("dropPurge", "gone")
    /\ UNCHANGED <<sharedVars, senderVars, popped, cancelled, purges>>

Activate ==
    /\ Go("activate", "idle")
    /\ active' = TRUE
    /\ UNCHANGED <<queue, epoch, senders, receiver_open, permit, fired, senderVars,
                   popped, cancelled, purges>>

Cancel ==
    /\ ~ cancelled
    /\ cancelled' = TRUE
    /\ UNCHANGED <<sharedVars, senderVars, rpc, popped, purges>>

\* packet_channel(capacity, active): one sender, the receiver idle.
Init ==
    /\ queue = << >>
    /\ epoch = 0 /\ active \in BOOLEAN
    /\ senders = 1 /\ \E s \in Senders : holds = {s}
    /\ receiver_open = TRUE
    /\ permit = FALSE /\ fired = FALSE
    /\ spc = [s \in Senders |-> "idle"] /\ loaded = [s \in Senders |-> [epoch |-> 0, born |-> 0]]
    /\ sends = [s \in Senders |-> 0]
    /\ rpc = "idle" /\ popped = [epoch |-> 0, born |-> 0]
    /\ cancelled = FALSE /\ purges = 0

Sender(s) == CheckOpen(s) \/ LoadState(s) \/ TryPush(s) \/ ForcePush(s) \/ NotifySent(s)
             \/ CloneSender(s) \/ DropSender(s) \/ NotifyLast(s)

Receiving == PopFirst \/ CompareFirst \/ CountSenders \/ Arm \/ PopAgain \/ CompareAgain
             \/ Recount \/ Woken

Next ==
    \/ \E s \in Senders : Sender(s)
    \/ StartRecv \/ Receiving \/ LeaveRecv \/ Return
    \/ Resume \/ Suspend \/ DropReceiver \/ Purge \/ PurgeDone \/ Activate
    \/ Cancel

Spec == Init /\ [][Next]_vars

\* A thread inside send or drop and a polled receiver go on; whether a new send,
\* a clone, a drop, a pause or a cancellation happens is up to the callers.
InSend(s) == LoadState(s) \/ TryPush(s) \/ ForcePush(s) \/ NotifySent(s) \/ NotifyLast(s)

FairSpec == Spec /\ WF_vars(Receiving) /\ \A s \in Senders : WF_vars(InSend(s))

-----------------------------------------------------------------------------
Tags == [epoch : 0 .. MaxPurges, born : 0 .. MaxPurges]

TypeOK ==
    /\ queue \in Seq(Tags) /\ Len(queue) <= Capacity
    /\ epoch \in 0 .. MaxPurges /\ active \in BOOLEAN
    /\ senders \in Nat /\ receiver_open \in BOOLEAN
    /\ permit \in BOOLEAN /\ fired \in BOOLEAN
    /\ spc \in [Senders -> {"idle", "load", "push", "notify", "last"}]
    /\ loaded \in [Senders -> Tags] /\ sends \in [Senders -> 0 .. MaxSends]
    /\ holds \subseteq Senders
    /\ rpc \in Armed \union Purging \union
              {"idle", "pop", "popped", "count", "arm", "return", "activate", "gone"}
    /\ popped \in Tags /\ cancelled \in BOOLEAN /\ purges \in 0 .. MaxPurges

\* A packet whose sender looked at the state before a resume or a suspend never
\* comes out after it, even when that sender pushes it after the purge
\* (dispatcher.rs:2171, the send/suspend/resume storm test).
NoReplayOfAnEarlierEpoch == rpc = "return" => popped.born = purges

\* A receiver does not sleep on a packet: when it waits in recv and the queue is
\* not empty, it has been woken or a sender is about to (dispatcher.rs:2218,
\* receiver_notification_race_has_no_lost_wakeup).
NoLostWakeup ==
    (rpc = "await" /\ queue # << >>) =>
        permit \/ fired \/ \E s \in Senders : spc[s] = "notify"

\* Nor does it sleep on for a sender when the last one is gone: the drop that took
\* the count to zero either came before the second look at it or wakes the wait.
LastDropIsSeen ==
    (rpc = "await" /\ senders = 0) => fired \/ \E s \in Senders : spc[s] = "last"

\* A dropped receiver strands at most one packet buffer per sending thread: the
\* one whose send had passed the receiver_open check (dispatcher.rs:2241,
\* receiver_drop_race_releases_every_buffer).
LateBuffersBounded == rpc = "gone" => Len(queue) <= Cardinality(Senders)

\* A wait in recv ends once there is a packet to take or no sender to wait for.
WaitEnds ==
    (rpc = "await" /\ (queue # << >> \/ senders = 0)) ~> (rpc # "await" \/ cancelled)
=============================================================================
