------------------------- MODULE PacketQueueProofs -------------------------
(***************************************************************************)
(* The packet channel is safe with any number of sending threads, any      *)
(* capacity and any number of suspends and resumes.                        *)
(***************************************************************************)
EXTENDS PacketQueue, FiniteSetTheorems, SequenceTheorems, TLAPS

\* Every PacketSender is counted once.
SendersCounted == senders = Cardinality(holds)

\* Every epoch was opened by a resume.
EpochsCounted == epoch <= purges

\* A tag that was taken before a suspend or resume is never of an active epoch.
Fresh(tag) ==
    /\ tag.epoch <= epoch
    /\ active /\ tag.epoch = epoch => tag.born = purges
    /\ rpc \in {"resumePurge", "activate"} => tag.epoch < epoch

Comparing == {"popped", "recheckPop"}

TagsFresh ==
    /\ rpc \in {"resumePurge", "activate"} => ~ active
    /\ \A i \in 1 .. Len(queue) : Fresh(queue[i])
    /\ \A s \in Senders : spc[s] = "push" => Fresh(loaded[s])
    /\ rpc \in Comparing => Fresh(popped)

\* From the moment recv has found the queue empty for the second time.
PacketAnnounced ==
    (rpc \in {"recount", "await"} /\ queue # << >>) =>
        permit \/ \E s \in Senders : spc[s] = "notify"

\* Threads that may still push once the receiver is closed.
Late == {s \in Senders : spc[s] \in {"load", "push"}}

ClosedForGood ==
    /\ rpc \in {"dropPurge", "gone"} => ~ receiver_open
    /\ rpc = "gone" => Len(queue) + Cardinality(Late) <= Cardinality(Senders)

QueueInv ==
    /\ TypeOK /\ SendersCounted /\ EpochsCounted
    /\ TagsFresh /\ NoReplayOfAnEarlierEpoch
    /\ PacketAnnounced /\ LastDropIsSeen
    /\ ClosedForGood

-----------------------------------------------------------------------------
LEMMA HoldsIsFinite ==
    ASSUME TypeOK
    PROVE  IsFiniteSet(holds) /\ Cardinality(holds) \in Nat
BY PacketQueueConstants, FS_Subset, FS_CardinalityType DEF TypeOK

LEMMA QueueInit == Init => QueueInv
<1> SUFFICES ASSUME Init PROVE QueueInv
    OBVIOUS
<1> USE PacketQueueConstants
<1>1. TypeOK
    <2>1. queue = << >>
        BY DEF Init
    <2>3. << >> \in Seq(Tags) /\ Len(<< >>) = 0
        BY EmptySeq
    <2>2. [epoch |-> 0, born |-> 0] \in Tags
        BY DEF Tags
    <2>4. queue \in Seq(Tags) /\ Len(queue) <= Capacity
        BY <2>1, <2>3
    <2>5. /\ epoch \in 0 .. MaxPurges /\ purges \in 0 .. MaxPurges /\ senders \in Nat
          /\ sends \in [Senders -> 0 .. MaxSends]
        BY DEF Init
    <2> QED
        BY <2>2, <2>4, <2>5 DEF Init, TypeOK
<1>2. SendersCounted
    <2>1. PICK s \in Senders : holds = {s}
        BY DEF Init
    <2>2. Cardinality({s}) = 1
        BY FS_Singleton
    <2> QED
        BY <2>1, <2>2 DEF Init, SendersCounted
<1>3. EpochsCounted /\ TagsFresh /\ NoReplayOfAnEarlierEpoch /\ PacketAnnounced
      /\ LastDropIsSeen /\ ClosedForGood
    BY DEF Init, EpochsCounted, TagsFresh, Fresh, Comparing, NoReplayOfAnEarlierEpoch,
           PacketAnnounced, LastDropIsSeen, ClosedForGood
<1> QED
    BY <1>1, <1>2, <1>3 DEF QueueInv

\* One lemma per conjunct of the invariant, one step per action.
LEMMA TypeStep ==
    ASSUME TypeOK, SendersCounted, EpochsCounted, [Next]_vars
    PROVE  TypeOK'
<1> USE PacketQueueConstants DEF TypeOK, sharedVars, senderVars, SenderStep, Go, Armed, Purging
<1>1. ASSUME NEW s \in Senders, CheckOpen(s) PROVE TypeOK'
    BY <1>1 DEF CheckOpen
<1>2. ASSUME NEW s \in Senders, LoadState(s) PROVE TypeOK'
    <2>1. [epoch |-> epoch, born |-> purges] \in Tags
        BY DEF Tags
    <2> QED
        BY <1>2, <2>1 DEF LoadState
<1>3. ASSUME NEW s \in Senders, TryPush(s) PROVE TypeOK'
    BY <1>3 DEF TryPush, Full
<1>4. ASSUME NEW s \in Senders, ForcePush(s) PROVE TypeOK'
    BY <1>4 DEF ForcePush, Full
<1>5. ASSUME NEW s \in Senders, NotifySent(s) PROVE TypeOK'
    BY <1>5 DEF NotifySent, NotifyOne
<1>6. ASSUME NEW s \in Senders, CloneSender(s) PROVE TypeOK'
    BY <1>6 DEF CloneSender
<1>7. ASSUME NEW s \in Senders, DropSender(s) PROVE TypeOK'
    <2>1. Cardinality(holds) # 0
        BY <1>7, HoldsIsFinite, FS_EmptySet DEF DropSender
    <2>2. senders' \in Nat
        BY <1>7, <2>1, HoldsIsFinite DEF DropSender, SendersCounted
    <2> QED
        BY <1>7, <2>2 DEF DropSender
<1>8. ASSUME NEW s \in Senders, NotifyLast(s) PROVE TypeOK'
    BY <1>8 DEF NotifyLast, NotifyWaiters
<1>9. CASE PopFirst \/ PopAgain
    <2>1. queue # << >> => Head(queue) \in Tags /\ Tail(queue) \in Seq(Tags)
                             /\ Len(Tail(queue)) <= Capacity
        OBVIOUS
    <2> QED
        BY <1>9, <2>1 DEF PopFirst, PopAgain, Pop
<1>10. CASE CompareFirst \/ CompareAgain \/ CountSenders \/ Arm \/ Recount
    BY <1>10 DEF CompareFirst, CompareAgain, Compare, CountSenders, Arm, Recount
<1>11. CASE StartRecv \/ LeaveRecv \/ Return \/ Cancel \/ Activate
    BY <1>11 DEF StartRecv, LeaveRecv, Return, Cancel, Activate
<1>12. CASE PurgeDone
    BY <1>12 DEF PurgeDone
<1>13. CASE Woken
    <2>1. permit' = FALSE \/ permit' = permit
        BY <1>13 DEF Woken
    <2> QED
        BY <1>13, <2>1 DEF Woken
<1>14. CASE Resume
    <2>1. purges' \in 0 .. MaxPurges /\ epoch' \in 0 .. MaxPurges
        BY <1>14 DEF Resume, EpochsCounted
    <2> QED
        BY <1>14, <2>1 DEF Resume
<1>15. CASE Suspend
    <2>1. purges' \in 0 .. MaxPurges
        BY <1>15 DEF Suspend
    <2> QED
        BY <1>15, <2>1 DEF Suspend
<1>16. CASE DropReceiver
    BY <1>16 DEF DropReceiver, CloseFirst
<1>17. CASE Purge
    <2>1. Tail(queue) \in Seq(Tags) /\ Len(Tail(queue)) <= Capacity
        BY <1>17 DEF Purge
    <2> QED
        BY <1>17, <2>1 DEF Purge
<1>18. CASE UNCHANGED vars
    BY <1>18 DEF vars
<1> QED
    BY <1>1, <1>2, <1>3, <1>4, <1>5, <1>6, <1>7, <1>8, <1>9, <1>10, <1>11, <1>12, <1>13, <1>14, <1>15, <1>16, <1>17, <1>18
       DEF Next, Sender, Receiving

LEMMA CountStep ==
    ASSUME TypeOK, SendersCounted, [Next]_vars
    PROVE  SendersCounted'
<1> USE DEF SendersCounted, sharedVars, senderVars
<1>1. ASSUME NEW s \in Senders, CloneSender(s) PROVE SendersCounted'
    BY <1>1, HoldsIsFinite, FS_AddElement DEF CloneSender
<1>2. ASSUME NEW s \in Senders, DropSender(s) PROVE SendersCounted'
    BY <1>2, HoldsIsFinite, FS_RemoveElement DEF DropSender
<1>3. \/ \E s \in Senders : CloneSender(s) \/ DropSender(s)
      \/ UNCHANGED <<senders, holds>>
    BY DEF vars, Next, Sender, Receiving, CheckOpen, LoadState, TryPush, ForcePush, NotifySent,
           NotifyLast, StartRecv, PopFirst, PopAgain, Pop, CompareFirst, CompareAgain, Compare,
           CountSenders, Arm, Recount, Woken, LeaveRecv, Return, Resume, Suspend, DropReceiver,
           Purge, PurgeDone, Activate, Cancel
<1> QED
    BY <1>1, <1>2, <1>3

LEMMA EpochStep ==
    ASSUME TypeOK, EpochsCounted, [Next]_vars
    PROVE  EpochsCounted'
<1> USE DEF EpochsCounted, sharedVars, senderVars
<1>1. CASE Resume \/ Suspend
    BY <1>1 DEF Resume, Suspend, TypeOK
<1>2. \/ Resume \/ Suspend
      \/ UNCHANGED <<epoch, purges>>
    BY DEF vars, Next, Sender, Receiving, CheckOpen, LoadState, TryPush, ForcePush, NotifySent,
           CloneSender, DropSender, NotifyLast, StartRecv, PopFirst, PopAgain, Pop, CompareFirst,
           CompareAgain, Compare, CountSenders, Arm, Recount, Woken, LeaveRecv, Return,
           DropReceiver, Purge, PurgeDone, Activate, Cancel
<1> QED
    BY <1>1, <1>2

\* Tags stay fresh while nobody suspends or resumes and nothing new is queued.
LEMMA FreshKept ==
    ASSUME TypeOK, TagsFresh,
           UNCHANGED <<queue, loaded, popped, epoch, active, purges>>,
           rpc' \in {"resumePurge", "activate"} => rpc \in {"resumePurge", "activate"},
           rpc' \in Comparing => rpc \in Comparing,
           \A s \in Senders : spc'[s] = "push" => spc[s] = "push"
    PROVE  TagsFresh'
BY DEF TagsFresh, Fresh

LEMMA FreshStep ==
    ASSUME TypeOK, TagsFresh, [Next]_vars
    PROVE  TagsFresh'
<1> USE DEF sharedVars, senderVars, SenderStep, Go, Comparing
<1>1. ASSUME NEW s \in Senders, CheckOpen(s) \/ NotifySent(s) \/ DropSender(s) \/ NotifyLast(s)
                                 \/ CloneSender(s)
      PROVE  TagsFresh'
    <2>1. \A t \in Senders : spc'[t] = "push" => spc[t] = "push"
        BY <1>1 DEF CheckOpen, NotifySent, DropSender, NotifyLast, CloneSender, TypeOK
    <2> QED
        BY <1>1, <2>1, FreshKept DEF CheckOpen, NotifySent, DropSender, NotifyLast, CloneSender
<1>2. ASSUME NEW s \in Senders, LoadState(s) PROVE TagsFresh'
    <2>1. spc'[s] = "push" => Fresh(loaded[s])'
        BY <1>2 DEF LoadState, TypeOK, TagsFresh, Fresh
    <2>2. \A t \in Senders \ {s} : spc'[t] = spc[t] /\ loaded'[t] = loaded[t]
        BY <1>2 DEF LoadState, TypeOK
    <2> QED
        BY <1>2, <2>1, <2>2 DEF LoadState, TypeOK, TagsFresh, Fresh
<1>3. ASSUME NEW s \in Senders, TryPush(s) \/ ForcePush(s) PROVE TagsFresh'
    <2>1. \A t \in Senders : spc'[t] = "push" => spc[t] = "push"
        BY <1>3 DEF TryPush, ForcePush, TypeOK
    <2>2. Fresh(loaded[s]) /\ loaded[s] \in Tags
        BY <1>3 DEF TryPush, ForcePush, TagsFresh, TypeOK
    <2>3. \A i \in 1 .. Len(queue') : queue'[i] = loaded[s] \/ \E j \in 1 .. Len(queue) : queue'[i] = queue[j]
        <3>1. CASE queue' = queue
            BY <3>1
        <3>2. CASE queue' = Append(queue, loaded[s])
            BY <3>2, <2>2 DEF TypeOK
        <3>3. CASE Full /\ queue' = Append(Tail(queue), loaded[s])
            <4>1. queue # << >> /\ Tail(queue) \in Seq(Tags) /\ Len(Tail(queue)) = Len(queue) - 1
                BY <3>3, PacketQueueConstants, EmptySeq DEF Full, TypeOK
            <4>2. \A i \in 1 .. Len(Tail(queue)) : Tail(queue)[i] = queue[i + 1] /\ i + 1 \in 1 .. Len(queue)
                BY <4>1 DEF TypeOK
            <4>3. /\ Len(queue') = Len(queue)
                  /\ \A i \in 1 .. Len(queue) - 1 : queue'[i] = Tail(queue)[i]
                  /\ queue'[Len(queue)] = loaded[s]
                BY <3>3, <2>2, <4>1, AppendProperties DEF TypeOK
            <4>4. \A i \in 1 .. Len(queue) - 1 : queue'[i] = queue[i + 1] /\ i + 1 \in 1 .. Len(queue)
                BY <4>1, <4>2, <4>3
            <4>5. Len(queue) \in Nat
                BY LenProperties DEF TypeOK
            <4>6. \A i \in 1 .. Len(queue') : i = Len(queue) \/ i \in 1 .. Len(queue) - 1
                BY <4>3, <4>5
            <4> QED
                BY <4>3, <4>4, <4>6
        <3> QED
            BY <1>3, <3>1, <3>2, <3>3 DEF TryPush, ForcePush
    <2>4. UNCHANGED <<loaded, popped, epoch, active, purges, rpc>>
        BY <1>3 DEF TryPush, ForcePush
    <2> QED
        BY <2>1, <2>2, <2>3, <2>4 DEF TagsFresh, Fresh
<1>4. CASE PopFirst \/ PopAgain \/ Purge
    <2>1. CASE queue = << >>
        BY <1>4, <2>1, FreshKept DEF PopFirst, PopAgain, Pop, Purge, TypeOK
    <2>2. CASE queue # << >>
        <3>1. queue' = Tail(queue) /\ UNCHANGED <<loaded, epoch, active, purges, spc>>
            BY <1>4, <2>2 DEF PopFirst, PopAgain, Pop, Purge
        <3>2. \A i \in 1 .. Len(queue') : queue'[i] = queue[i + 1] /\ i + 1 \in 1 .. Len(queue)
            BY <2>2, <3>1 DEF TypeOK
        <3>3. \/ rpc' \in Comparing /\ popped' = queue[1] /\ 1 \in 1 .. Len(queue)
                 /\ rpc \notin {"resumePurge", "activate"}
              \/ rpc' = rpc /\ popped' = popped
            BY <1>4, <2>2, EmptySeq DEF PopFirst, PopAgain, Pop, Purge, TypeOK
        <3> QED
            BY <3>1, <3>2, <3>3 DEF TagsFresh, Fresh
    <2> QED
        BY <2>1, <2>2
<1>5. CASE CompareFirst \/ CompareAgain \/ CountSenders \/ Arm \/ Recount \/ Woken \/ StartRecv
    BY <1>5, FreshKept DEF CompareFirst, CompareAgain, Compare, CountSenders, Arm, Recount, Woken, StartRecv
<1>6. CASE LeaveRecv \/ Return \/ Cancel \/ DropReceiver
    BY <1>6, FreshKept DEF LeaveRecv, Return, Cancel, DropReceiver
<1>7. CASE PurgeDone
    <2>1. rpc' \in {"resumePurge", "activate"} => rpc \in {"resumePurge", "activate"}
        BY <1>7 DEF PurgeDone
    <2>2. rpc' \notin Comparing
        BY <1>7 DEF PurgeDone
    <2> QED
        BY <1>7, <2>1, <2>2, FreshKept DEF PurgeDone
<1>8. CASE Resume \/ Suspend
    <2>1. /\ \A i \in 1 .. Len(queue) : queue[i] \in Tags
          /\ \A s \in Senders : loaded[s] \in Tags
        BY ElementOfSeq DEF TypeOK
    <2>2. /\ UNCHANGED <<queue, loaded, spc>> /\ rpc' \in {"resumePurge", "suspendPurge"}
          /\ active' = FALSE /\ epoch \in Nat
          /\ \/ epoch' = epoch + 1
             \/ epoch' = epoch /\ rpc' = "suspendPurge"
        BY <1>8 DEF Resume, Suspend, TypeOK
    <2> QED
        BY <2>1, <2>2 DEF TagsFresh, Fresh, Tags
<1>9. CASE Activate
    BY <1>9 DEF Activate, TagsFresh, Fresh, TypeOK, Tags
<1>10. CASE UNCHANGED vars
    BY <1>10, FreshKept DEF vars
<1> QED
    BY <1>1, <1>2, <1>3, <1>4, <1>5, <1>6, <1>7, <1>8, <1>9, <1>10 DEF Next, Sender, Receiving

\* What recv hands out has just been compared with the state.
LEMMA ReplayStep ==
    ASSUME TypeOK, TagsFresh, NoReplayOfAnEarlierEpoch, [Next]_vars
    PROVE  NoReplayOfAnEarlierEpoch'
<1> USE DEF NoReplayOfAnEarlierEpoch, sharedVars, senderVars, Go
<1>1. CASE CompareFirst \/ CompareAgain
    BY <1>1 DEF CompareFirst, CompareAgain, Compare, AcceptPopped, TagsFresh, Fresh, Comparing, TypeOK
<1>2. CASE \E s \in Senders : Sender(s)
    BY <1>2 DEF Sender, CheckOpen, LoadState, TryPush, ForcePush, NotifySent, CloneSender,
                DropSender, NotifyLast
<1>3. CASE StartRecv \/ PopFirst \/ PopAgain \/ CountSenders \/ Arm \/ Recount \/ Woken \/ LeaveRecv
           \/ Return
    BY <1>3 DEF StartRecv, PopFirst, PopAgain, Pop, CountSenders, Arm, Recount, Woken, LeaveRecv, Return
<1>4. CASE Resume \/ Suspend \/ DropReceiver \/ Purge \/ PurgeDone \/ Activate \/ Cancel
    BY <1>4 DEF Resume, Suspend, DropReceiver, Purge, PurgeDone, Activate, Cancel, Purging
<1>5. CASE UNCHANGED vars
    BY <1>5 DEF vars
<1> QED
    BY <1>1, <1>2, <1>3, <1>4, <1>5 DEF Next, Receiving

\* A packet that is pushed while recv makes up its mind to wait is announced by its
\* sender after the push, and the permit is kept until the wait takes it.
LEMMA AnnounceStep ==
    ASSUME TypeOK, PacketAnnounced, [Next]_vars
    PROVE  PacketAnnounced'
<1> USE DEF PacketAnnounced, sharedVars, senderVars, SenderStep, Go
<1>1. ASSUME NEW s \in Senders, TryPush(s) \/ ForcePush(s) PROVE PacketAnnounced'
    <2>1. \/ spc'[s] = "notify"
          \/ queue' = queue /\ \A t \in Senders : spc[t] = "notify" => spc'[t] = "notify"
        BY <1>1 DEF TryPush, ForcePush, TypeOK
    <2> QED
        BY <1>1, <2>1 DEF TryPush, ForcePush
<1>2. ASSUME NEW s \in Senders, NotifySent(s) PROVE PacketAnnounced'
    BY <1>2 DEF NotifySent, NotifyOne
<1>3. ASSUME NEW s \in Senders, CheckOpen(s) \/ LoadState(s) \/ CloneSender(s) \/ DropSender(s)
                                 \/ NotifyLast(s)
      PROVE  PacketAnnounced'
    <2>1. \A t \in Senders : spc[t] = "notify" => spc'[t] = "notify"
        BY <1>3 DEF CheckOpen, LoadState, CloneSender, DropSender, NotifyLast, TypeOK
    <2> QED
        BY <1>3, <2>1 DEF CheckOpen, LoadState, CloneSender, DropSender, NotifyLast
<1>4. CASE StartRecv \/ PopFirst \/ PopAgain \/ CompareFirst \/ CompareAgain \/ CountSenders \/ Arm
    BY <1>4 DEF StartRecv, PopFirst, PopAgain, Pop, CompareFirst, CompareAgain, Compare, CountSenders, Arm
<1>5. CASE Recount \/ Woken \/ LeaveRecv \/ Return \/ Resume \/ Suspend \/ DropReceiver
    BY <1>5 DEF Recount, Woken, LeaveRecv, Return, Resume, Suspend, DropReceiver
<1>6. CASE Purge \/ PurgeDone \/ Activate \/ Cancel
    BY <1>6 DEF Purge, PurgeDone, Activate, Cancel, Purging
<1>7. CASE UNCHANGED vars
    BY <1>7 DEF vars
<1> QED
    BY <1>1, <1>2, <1>3, <1>4, <1>5, <1>6, <1>7 DEF Next, Sender, Receiving

\* The drop that takes the counter to zero while the receiver waits finds its future.
LEMMA LastDropStep ==
    ASSUME TypeOK, LastDropIsSeen, [Next]_vars
    PROVE  LastDropIsSeen'
<1> USE DEF LastDropIsSeen, sharedVars, senderVars, SenderStep, Go
<1>1. ASSUME NEW s \in Senders, DropSender(s) PROVE LastDropIsSeen'
    <2>1. senders' = 0 => spc'[s] = "last"
        BY <1>1 DEF DropSender, TypeOK
    <2> QED
        BY <1>1, <2>1 DEF DropSender
<1>2. ASSUME NEW s \in Senders, NotifyLast(s) PROVE LastDropIsSeen'
    BY <1>2 DEF NotifyLast, NotifyWaiters, Armed
<1>3. ASSUME NEW s \in Senders, CloneSender(s) PROVE LastDropIsSeen'
    BY <1>3 DEF CloneSender, TypeOK
<1>4. ASSUME NEW s \in Senders, CheckOpen(s) \/ LoadState(s) \/ TryPush(s) \/ ForcePush(s) \/ NotifySent(s)
      PROVE  LastDropIsSeen'
    <2>1. \A t \in Senders : spc[t] = "last" => spc'[t] = "last"
        BY <1>4 DEF CheckOpen, LoadState, TryPush, ForcePush, NotifySent, TypeOK
    <2> QED
        BY <1>4, <2>1 DEF CheckOpen, LoadState, TryPush, ForcePush, NotifySent
<1>5. CASE StartRecv \/ PopFirst \/ PopAgain \/ CompareFirst \/ CompareAgain \/ CountSenders \/ Arm
    BY <1>5 DEF StartRecv, PopFirst, PopAgain, Pop, CompareFirst, CompareAgain, Compare, CountSenders, Arm
<1>6. CASE Recount \/ Woken \/ LeaveRecv \/ Return \/ Resume \/ Suspend \/ DropReceiver
    BY <1>6 DEF Recount, Woken, LeaveRecv, Return, Resume, Suspend, DropReceiver
<1>7. CASE Purge \/ PurgeDone \/ Activate \/ Cancel
    BY <1>7 DEF Purge, PurgeDone, Activate, Cancel, Purging
<1>8. CASE UNCHANGED vars
    BY <1>8 DEF vars
<1> QED
    BY <1>1, <1>2, <1>3, <1>4, <1>5, <1>6, <1>7, <1>8 DEF Next, Sender, Receiving

LEMMA LateIsFinite ==
    IsFiniteSet(Late) /\ Cardinality(Late) \in Nat /\ Cardinality(Late) <= Cardinality(Senders)
<1>1. Late \in SUBSET Senders
    BY DEF Late
<1> QED
    BY <1>1, PacketQueueConstants, FS_Subset, FS_CardinalityType

\* Of the threads that had passed the receiver_open check each pushes once.
LEMMA ClosedStep ==
    ASSUME TypeOK, TypeOK', ClosedForGood, [Next]_vars
    PROVE  ClosedForGood'
<1> USE DEF ClosedForGood, sharedVars, senderVars, SenderStep, Go
<1>1. ASSUME rpc' = rpc, receiver_open' = receiver_open, queue' = queue, Late' \subseteq Late
      PROVE  ClosedForGood'
    <2>1. Cardinality(Late') <= Cardinality(Late) /\ Cardinality(Late') \in Nat
        BY <1>1, LateIsFinite, FS_Subset, FS_CardinalityType
    <2>2. Len(queue) \in Nat /\ Cardinality(Senders) \in Nat
        BY PacketQueueConstants, FS_CardinalityType, LenProperties DEF TypeOK
    <2> QED
        BY <1>1, <2>1, <2>2, LateIsFinite
<1>2. ASSUME NEW s \in Senders, CheckOpen(s) PROVE ClosedForGood'
    <2>1. CASE rpc \in {"dropPurge", "gone"}
        <3>1. Late' \subseteq Late
            BY <1>2, <2>1 DEF CheckOpen, Late, TypeOK
        <3> QED
            BY <1>1, <1>2, <3>1 DEF CheckOpen
    <2>2. CASE rpc \notin {"dropPurge", "gone"}
        BY <1>2, <2>2 DEF CheckOpen
    <2> QED
        BY <2>1, <2>2
<1>3. ASSUME NEW s \in Senders, LoadState(s) \/ NotifySent(s) \/ CloneSender(s) \/ DropSender(s)
                                 \/ NotifyLast(s)
      PROVE  ClosedForGood'
    <2>1. Late' \subseteq Late
        BY <1>3 DEF LoadState, NotifySent, CloneSender, DropSender, NotifyLast, Late, TypeOK
    <2> QED
        BY <1>1, <1>3, <2>1 DEF LoadState, NotifySent, CloneSender, DropSender, NotifyLast
<1>4. ASSUME NEW s \in Senders, TryPush(s) \/ ForcePush(s) PROVE ClosedForGood'
    <2>1. Late' = Late \ {s} /\ s \in Late
        BY <1>4 DEF TryPush, ForcePush, Late, TypeOK
    <2>2. Cardinality(Late') = Cardinality(Late) - 1
        BY <2>1, LateIsFinite, FS_RemoveElement
    <2>3. Len(queue') <= Len(queue) + 1 /\ Len(queue) \in Nat /\ Len(queue') \in Nat
        <3>1. CASE queue' = queue
            BY <3>1, LenProperties DEF TypeOK
        <3>2. CASE queue' = Append(queue, loaded[s])
            BY <3>2, LenProperties, AppendProperties DEF TypeOK
        <3>3. CASE Full /\ queue' = Append(Tail(queue), loaded[s])
            <4>1. queue # << >> /\ Tail(queue) \in Seq(Tags) /\ Len(Tail(queue)) = Len(queue) - 1
                BY <3>3, PacketQueueConstants, EmptySeq DEF Full, TypeOK
            <4>2. Len(queue') = Len(queue)
                BY <3>3, <4>1, AppendProperties, LenProperties DEF TypeOK
            <4> QED
                BY <4>2, LenProperties DEF TypeOK
        <3> QED
            BY <1>4, <3>1, <3>2, <3>3 DEF TryPush, ForcePush
    <2>4. Cardinality(Senders) \in Nat
        BY PacketQueueConstants, FS_CardinalityType
    <2> QED
        BY <1>4, <2>2, <2>3, <2>4, LateIsFinite DEF TryPush, ForcePush
<1>5. CASE PurgeDone
    <2>1. UNCHANGED receiver_open /\ (rpc' \in {"dropPurge", "gone"} => rpc = "dropPurge")
        BY <1>5 DEF PurgeDone
    <2>2. Len(queue') = 0 /\ Late' = Late
        BY <1>5, EmptySeq DEF PurgeDone, Late
    <2>3. Cardinality(Senders) \in Nat
        BY PacketQueueConstants, FS_CardinalityType
    <2> QED
        BY <2>1, <2>2, <2>3, LateIsFinite
<1>6. CASE StartRecv \/ PopFirst \/ PopAgain \/ CompareFirst \/ CompareAgain \/ CountSenders \/ Arm
    BY <1>6 DEF StartRecv, PopFirst, PopAgain, Pop, CompareFirst, CompareAgain, Compare, CountSenders, Arm
<1>7. CASE Recount \/ Woken \/ LeaveRecv \/ Return \/ Resume \/ Suspend \/ DropReceiver
    BY <1>7 DEF Recount, Woken, LeaveRecv, Return, Resume, Suspend, DropReceiver, CloseFirst
<1>8. CASE Purge \/ Activate
    BY <1>8 DEF Purge, Activate, Purging
<1>9. CASE Cancel \/ UNCHANGED vars
    <2>1. Late' = Late
        BY <1>9 DEF Cancel, vars, Late
    <2> QED
        BY <1>1, <1>9, <2>1 DEF Cancel, vars
<1> QED
    BY <1>2, <1>3, <1>4, <1>5, <1>6, <1>7, <1>8, <1>9 DEF Next, Sender, Receiving

LEMMA QueueNext == QueueInv /\ [Next]_vars => QueueInv'
<1> SUFFICES ASSUME QueueInv, [Next]_vars PROVE QueueInv'
    OBVIOUS
<1> USE DEF QueueInv
<1>1. TypeOK'
    BY TypeStep
<1>2. SendersCounted' /\ EpochsCounted'
    BY CountStep, EpochStep
<1>3. TagsFresh' /\ NoReplayOfAnEarlierEpoch'
    BY FreshStep, ReplayStep
<1>4. PacketAnnounced' /\ LastDropIsSeen'
    BY AnnounceStep, LastDropStep
<1>5. ClosedForGood'
    BY <1>1, ClosedStep
<1> QED
    BY <1>1, <1>2, <1>3, <1>4, <1>5

LEMMA QueueIsSafe == Spec => []QueueInv
BY QueueInit, QueueNext, PTL DEF Spec

-----------------------------------------------------------------------------
\* The counters and tags of PacketQueue keep their types: the sender count in
\* particular never runs below zero, however clones and drops interleave.
THEOREM TypeCorrect == Spec => []TypeOK
BY QueueIsSafe, PTL DEF QueueInv

\* suspend and resume (dispatcher.rs): no packet of an earlier epoch is ever received.
THEOREM EpochsAreSeparate == Spec => []NoReplayOfAnEarlierEpoch
BY QueueIsSafe, PTL DEF QueueInv

\* try_send, force_send and recv (dispatcher.rs): no wakeup is lost.
THEOREM WakeupsAreKept == Spec => []NoLostWakeup
<1>1. QueueInv => NoLostWakeup
    BY DEF QueueInv, PacketAnnounced, NoLostWakeup
<1> QED
    BY <1>1, QueueIsSafe, PTL

\* Drop of PacketSender (dispatcher.rs): the receiver learns that it is alone.
THEOREM LastDropWakes == Spec => []LastDropIsSeen
BY QueueIsSafe, PTL DEF QueueInv

\* Drop of PacketReceiver (dispatcher.rs): at most one buffer per sender is left behind.
THEOREM LateBuffersAreFew == Spec => []LateBuffersBounded
<1>1. QueueInv => LateBuffersBounded
    <2> SUFFICES ASSUME QueueInv, rpc = "gone" PROVE Len(queue) <= Cardinality(Senders)
        BY DEF LateBuffersBounded
    <2>1. Len(queue) \in Nat /\ Cardinality(Senders) \in Nat
        BY PacketQueueConstants, FS_CardinalityType, LenProperties DEF QueueInv, TypeOK
    <2> QED
        BY <2>1, LateIsFinite DEF QueueInv, ClosedForGood
<1> QED
    BY <1>1, QueueIsSafe, PTL
=============================================================================
