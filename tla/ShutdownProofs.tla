--------------------------- MODULE ShutdownProofs ---------------------------
(***************************************************************************)
(* The farewell tells the server at most Attempts times, with any number   *)
(* of workers, calls and restarts.  `active` is never taken back, so one   *)
(* leader is elected in the life of a coordinator; each of the Attempts    *)
(* streams it plans is worth one request, which is in the plan, then in    *)
(* the queue of a writer, then sent or lost with the session.  A session   *)
(* that waits for the completion always has a leader at work on it.        *)
(*                                                                         *)
(* At the end, the other part of a session with state of its own: the      *)
(* replay window of its receiving half, which accepts each packet once.    *)
(***************************************************************************)
EXTENDS Shutdown, ReplayWindow, Integers, FiniteSetTheorems, TLAPS

\* The sets that are counted grow by one member at a time.
CountedAreFinite == IsFiniteSet(streams) /\ IsFiniteSet(commands)

LeaderSteps == {"lead", "attempt", "sending", "complete"}

\* There is one leader, and only a leader is in the leader's part.
OneLeader ==
    /\ leads # {} => active
    /\ \A v, w \in leads : v = w
    /\ \A w \in Workers : pc[w] \in LeaderSteps => w \in leads
    /\ \A w \in leads : pc[w] \notin {"setup", "running", "gone"}

\* The leader asks a writer for the first stream of its plan.
Sending == \E l \in Workers : pc[l] = "sending"

\* Requests the leader may still put into a queue.
ToAsk == IF Sending THEN Len(plan) - 1 ELSE Len(plan)

SendingHasTarget == Sending => plan # <<>>

\* Nothing was asked before the leader has made its plan.
NothingAskedYet ==
    (~ active \/ \E l \in Workers : pc[l] = "lead") =>
        plan = <<>> /\ commands = {} /\ requests = 0

\* What was sent, what is queued and what may still be asked for.
Budget == requests + Cardinality(commands) + ToAsk <= Attempts

ShutdownInv ==
    /\ TypeOK /\ CountedAreFinite /\ OneLeader /\ SendingHasTarget
    /\ NothingAskedYet /\ Budget /\ NoStaleStream

-----------------------------------------------------------------------------
\* take(DISCONNECT_CONTROL_ATTEMPTS) never takes more than that.
LEMMA TriesBounded ==
    ASSUME CountedAreFinite
    PROVE  Tries \in Nat /\ Tries <= Attempts
<1>1. Cardinality(streams) \in Nat
    BY FS_CardinalityType DEF CountedAreFinite
<1> QED
    BY <1>1, ShutdownConstants DEF Tries

\* A queue of commands that a session joins or leaves.
LEMMA CountCommand ==
    ASSUME NEW S, IsFiniteSet(S), NEW w
    PROVE  /\ Cardinality(S) \in Nat
           /\ IsFiniteSet(S \union {w}) /\ Cardinality(S \union {w}) \in Nat
           /\ Cardinality(S \union {w}) <= Cardinality(S) + 1
           /\ IsFiniteSet(S \ {w}) /\ Cardinality(S \ {w}) \in Nat
           /\ Cardinality(S \ {w}) <= Cardinality(S)
           /\ w \in S => Cardinality(S \ {w}) = Cardinality(S) - 1
    BY FS_AddElement, FS_RemoveElement, FS_CardinalityType

LEMMA ShutdownInit == Init => ShutdownInv
<1> SUFFICES ASSUME Init PROVE ShutdownInv
    OBVIOUS
<1> USE ShutdownConstants DEF Init
<1>1. TypeOK
    <2>1. plan \in Seq(Workers) /\ Len(plan) = 0
        OBVIOUS
    <2>2. pc \in [Workers -> Steps] /\ requests \in Nat /\ restarts \in 0 .. MaxRestarts /\ Len(plan) <= Attempts
        BY <2>1 DEF Steps
    <2> QED
        BY <2>1, <2>2 DEF TypeOK
<1>2. CountedAreFinite /\ Cardinality(commands) = 0
    BY FS_EmptySet DEF CountedAreFinite
<1>3. OneLeader
    BY DEF OneLeader, LeaderSteps
<1>4. ~ Sending
    BY DEF Sending
<1>5. Budget
    BY <1>2, <1>4 DEF Budget, ToAsk
<1>6. SendingHasTarget /\ NothingAskedYet /\ NoStaleStream
    BY <1>4 DEF SendingHasTarget, NothingAskedYet, NoStaleStream
<1> QED
    BY <1>1, <1>2, <1>3, <1>5, <1>6 DEF ShutdownInv

\* A step that leaves the requests alone, and whoever is sending.
LEMMA QuietStep ==
    ASSUME ShutdownInv, UNCHANGED <<plan, requests, commands>>, Sending' <=> Sending
    PROVE  SendingHasTarget' /\ Budget'
    BY DEF ShutdownInv, SendingHasTarget, Budget, ToAsk

\* A step that sends nothing and drops what is queued for w.
LEMMA DropStep ==
    ASSUME ShutdownInv, NEW w, UNCHANGED plan, DropTasks(w), Sending' <=> Sending
    PROVE  SendingHasTarget' /\ Budget' /\ IsFiniteSet(commands')
<1>1. /\ IsFiniteSet(commands') /\ Cardinality(commands') \in Nat /\ Cardinality(commands) \in Nat
      /\ Cardinality(commands') <= Cardinality(commands) /\ requests' = requests
    BY CountCommand DEF ShutdownInv, CountedAreFinite, DropTasks
<1> QED
    BY <1>1, ShutdownConstants DEF ShutdownInv, TypeOK, SendingHasTarget, Budget, ToAsk

\* Every step keeps the invariant.
LEMMA ShutdownStep == ShutdownInv /\ [Next]_vars => ShutdownInv'
<1> SUFFICES ASSUME ShutdownInv, [Next]_vars PROVE ShutdownInv'
    OBVIOUS
<1> USE ShutdownConstants DEF tokens, state, wires
<1>t. /\ TypeOK /\ CountedAreFinite /\ OneLeader /\ SendingHasTarget
      /\ NothingAskedYet /\ Budget /\ NoStaleStream
    BY DEF ShutdownInv
<1>c. Cardinality(commands) \in Nat
    BY <1>t, FS_CardinalityType DEF CountedAreFinite
<1>1. CASE UNCHANGED vars
    BY <1>1 DEF vars, ShutdownInv, TypeOK, CountedAreFinite, OneLeader, LeaderSteps, SendingHasTarget, Sending,
                NothingAskedYet, Budget, ToAsk, NoStaleStream, Live
<1>2. CASE Cancel \/ \E h \in Hashes : MarkUnavailable(h)
    BY <1>2, <1>t DEF Cancel, MarkUnavailable, ShutdownInv, TypeOK, CountedAreFinite, OneLeader, LeaderSteps,
                SendingHasTarget, Sending, NothingAskedYet, Budget, ToAsk, NoStaleStream, Live
<1>3. ASSUME NEW w \in Workers, Register(w) PROVE ShutdownInv'
    <2> USE <1>3 DEF Register, Goto
    <2>1. TypeOK' /\ NoStaleStream'
        BY <1>t DEF TypeOK, Steps, NoStaleStream, Live
    <2>2. CountedAreFinite'
        BY <1>t, CountCommand DEF CountedAreFinite
    <2>3. OneLeader' /\ NothingAskedYet'
        BY <1>t DEF TypeOK, OneLeader, LeaderSteps, NothingAskedYet
    <2>4. Sending' <=> Sending
        BY <1>t DEF TypeOK, Sending
    <2> QED
        BY <2>1, <2>2, <2>3, <2>4, QuietStep DEF ShutdownInv
<1>4. ASSUME NEW w \in Workers, GiveUp(w) PROVE ShutdownInv'
    <2> USE <1>4 DEF GiveUp, Goto
    <2>1. TypeOK' /\ NoStaleStream' /\ CountedAreFinite'
        BY <1>t DEF TypeOK, Steps, NoStaleStream, Live, CountedAreFinite
    <2>3. OneLeader' /\ NothingAskedYet'
        BY <1>t DEF TypeOK, OneLeader, LeaderSteps, NothingAskedYet
    <2>4. Sending' <=> Sending
        BY <1>t DEF TypeOK, Sending
    <2> QED
        BY <2>1, <2>3, <2>4, QuietStep DEF ShutdownInv
<1>5. ASSUME NEW w \in Workers, Fails(w) PROVE ShutdownInv'
    <2> USE <1>5 DEF Fails, Goto, Unregister
    <2>1. TypeOK' /\ NoStaleStream'
        BY <1>t DEF TypeOK, Steps, NoStaleStream, Live, DropTasks
    <2>2. Sending' <=> Sending
        BY <1>t DEF TypeOK, Sending
    <2>3. IsFiniteSet(streams')
        BY <1>t, CountCommand DEF CountedAreFinite
    <2>4. OneLeader' /\ NothingAskedYet'
        BY <1>t DEF TypeOK, OneLeader, LeaderSteps, NothingAskedYet, DropTasks
    <2> QED
        BY <2>1, <2>2, <2>3, <2>4, DropStep DEF ShutdownInv, CountedAreFinite
<1>6. ASSUME NEW w \in Workers, Stop(w) PROVE ShutdownInv'
    <2> USE <1>6 DEF Stop, Goto, Unregister
    <2>1. TypeOK' /\ NoStaleStream'
        BY <1>t DEF TypeOK, Steps, NoStaleStream, Live, DropTasks
    <2>2. Sending' <=> Sending
        BY <1>t DEF TypeOK, Sending
    <2>3. IsFiniteSet(streams')
        BY <1>t, CountCommand DEF CountedAreFinite
    <2>4. OneLeader' /\ NothingAskedYet'
        BY <1>t DEF TypeOK, OneLeader, LeaderSteps, NothingAskedYet, DropTasks
    <2> QED
        BY <2>1, <2>2, <2>3, <2>4, DropStep DEF ShutdownInv, CountedAreFinite
<1>7. ASSUME NEW w \in Workers, RequestDisconnect(w) PROVE ShutdownInv'
    <2> USE <1>7 DEF RequestDisconnect, Elect, Goto
    <2>1. TypeOK' /\ NoStaleStream' /\ CountedAreFinite'
        BY <1>t DEF TypeOK, Steps, NoStaleStream, Live, CountedAreFinite
    <2>3. OneLeader' /\ NothingAskedYet'
        BY <1>t DEF TypeOK, OneLeader, LeaderSteps, NothingAskedYet
    <2>4. Sending' <=> Sending
        BY <1>t DEF TypeOK, Sending
    <2> QED
        BY <2>1, <2>3, <2>4, QuietStep DEF ShutdownInv
<1>8. ASSUME NEW w \in Workers, ControlStreams(w) PROVE ShutdownInv'
    <2> USE <1>8 DEF ControlStreams, Goto
    <2>1. Tries \in Nat /\ Tries <= Attempts
        BY <1>t, TriesBounded
    <2>2. plan' \in Seq(Workers) /\ Len(plan') = Tries
        BY <2>1, <1>t DEF TypeOK
    <2>3. TypeOK' /\ NoStaleStream' /\ CountedAreFinite'
        BY <1>t, <2>1, <2>2 DEF TypeOK, Steps, NoStaleStream, Live, CountedAreFinite
    <2>4. \A l \in Workers : pc[l] \in LeaderSteps => l = w
        BY <1>t DEF OneLeader, LeaderSteps
    <2>5. OneLeader' /\ NothingAskedYet'
        BY <1>t, <2>4 DEF TypeOK, OneLeader, LeaderSteps, NothingAskedYet
    <2>6. ~ Sending /\ ~ Sending'
        BY <1>t, <2>4 DEF TypeOK, Sending, LeaderSteps
    <2>7. Cardinality(commands') = 0 /\ requests' = 0
        BY <1>t, FS_EmptySet DEF NothingAskedYet
    <2>8. Budget' /\ SendingHasTarget'
        BY <2>1, <2>2, <2>6, <2>7 DEF Budget, ToAsk, SendingHasTarget
    <2> QED
        BY <2>3, <2>5, <2>8 DEF ShutdownInv
<1>9. ASSUME NEW w \in Workers, Attempt(w) PROVE ShutdownInv'
    <2> USE <1>9 DEF Attempt, Goto
    <2>1. \A l \in Workers : pc[l] \in LeaderSteps => l = w
        BY <1>t DEF OneLeader, LeaderSteps
    <2>2. ~ Sending
        BY <2>1 DEF Sending, LeaderSteps
    <2>3. OneLeader' /\ NoStaleStream'
        BY <1>t DEF TypeOK, OneLeader, LeaderSteps, NoStaleStream, Live
    <2>4. active /\ \A l \in Workers : pc[l] # "lead"
        BY <1>t, <2>1 DEF OneLeader, LeaderSteps
    <2>5. NothingAskedYet'
        BY <2>4, <1>t DEF TypeOK, NothingAskedYet
    <2>6. CASE plan' = <<>> /\ Goto(w, "complete") /\ UNCHANGED commands
        <3>1. TypeOK' /\ CountedAreFinite' /\ ~ Sending'
            BY <1>t, <2>6, <2>1 DEF TypeOK, Steps, CountedAreFinite, Sending, LeaderSteps
        <3>2. Budget' /\ SendingHasTarget'
            BY <1>t, <1>c, <2>2, <2>6, <3>1 DEF Budget, ToAsk, SendingHasTarget, TypeOK
        <3> QED
            BY <2>3, <2>5, <3>1, <3>2 DEF ShutdownInv
    <2>7. CASE /\ plan # <<>> /\ commands' = commands \union {Head(plan)}
               /\ Goto(w, "sending") /\ UNCHANGED plan
        <3>1. Head(plan) \in Workers /\ Len(plan) \in Nat /\ Len(plan) > 0
            BY <1>t, <2>7 DEF TypeOK
        <3>2. /\ IsFiniteSet(commands') /\ Cardinality(commands') \in Nat
              /\ Cardinality(commands') <= Cardinality(commands) + 1
            BY <1>t, <2>7, CountCommand DEF CountedAreFinite
        <3>3. TypeOK' /\ CountedAreFinite' /\ Sending'
            BY <1>t, <2>7, <3>1, <3>2 DEF TypeOK, Steps, CountedAreFinite, Sending
        <3>4. Budget' /\ SendingHasTarget'
            BY <1>t, <1>c, <2>2, <2>7, <3>1, <3>2, <3>3 DEF Budget, ToAsk, SendingHasTarget, TypeOK
        <3> QED
            BY <2>3, <2>5, <3>3, <3>4 DEF ShutdownInv
    <2>8. CASE plan # <<>> /\ plan' = Tail(plan) /\ UNCHANGED <<pc, commands>>
        <3>1. plan' \in Seq(Workers) /\ Len(plan') = Len(plan) - 1 /\ Len(plan) \in Nat
            BY <1>t, <2>8 DEF TypeOK
        <3>2. TypeOK' /\ CountedAreFinite' /\ ~ Sending'
            BY <1>t, <2>2, <2>8, <3>1 DEF TypeOK, Steps, CountedAreFinite, Sending
        <3>3. Budget' /\ SendingHasTarget'
            BY <1>t, <1>c, <2>2, <2>8, <3>1, <3>2 DEF Budget, ToAsk, SendingHasTarget, TypeOK
        <3> QED
            BY <2>3, <2>5, <3>2, <3>3 DEF ShutdownInv
    <2> QED
        BY <2>6, <2>7, <2>8
<1>10. ASSUME NEW w \in Workers, Write(w) PROVE ShutdownInv'
    <2> USE <1>10 DEF Write
    <2>1. TypeOK' /\ NoStaleStream'
        BY <1>t DEF TypeOK, Steps, NoStaleStream, Live
    <2>2. /\ IsFiniteSet(commands') /\ Cardinality(commands') \in Nat
          /\ Cardinality(commands') = Cardinality(commands) - 1
        BY <1>t, CountCommand DEF CountedAreFinite
    <2>3. OneLeader' /\ NothingAskedYet' /\ CountedAreFinite'
        BY <1>t, <2>2 DEF OneLeader, LeaderSteps, NothingAskedYet, CountedAreFinite
    <2>4. Sending' <=> Sending
        BY DEF Sending
    <2>5. Budget' /\ SendingHasTarget'
        BY <1>t, <1>c, <2>2, <2>4 DEF Budget, ToAsk, SendingHasTarget, TypeOK
    <2> QED
        BY <2>1, <2>3, <2>5 DEF ShutdownInv
<1>11. ASSUME NEW w \in Workers, Delivered(w) \/ SendTimeout(w) PROVE ShutdownInv'
    <2> USE <1>11 DEF Delivered, SendTimeout, Goto
    <2>1. \A l \in Workers : pc[l] \in LeaderSteps => l = w
        BY <1>t DEF OneLeader, LeaderSteps
    <2>2. Sending /\ plan # <<>>
        BY <1>t DEF Sending, SendingHasTarget
    <2>3. plan' \in Seq(Workers) /\ Len(plan') = Len(plan) - 1 /\ Len(plan) \in Nat
        <3>1. plan \in Seq(Workers) /\ plan' = Tail(plan)
            BY <1>t DEF TypeOK
        <3> HIDE <1>11
        <3> QED
            BY <2>2, <3>1
    <2>4. TypeOK' /\ CountedAreFinite' /\ NoStaleStream'
        BY <1>t, <2>3 DEF TypeOK, Steps, CountedAreFinite, NoStaleStream, Live
    <2>5. ~ Sending'
        BY <1>t, <2>1 DEF TypeOK, Sending, LeaderSteps
    <2>6. active /\ \A l \in Workers : pc[l] # "lead"
        BY <1>t, <2>1 DEF OneLeader, LeaderSteps
    <2>7. OneLeader' /\ NothingAskedYet'
        BY <1>t, <2>6 DEF TypeOK, OneLeader, LeaderSteps, NothingAskedYet
    <2>8. Budget' /\ SendingHasTarget'
        BY <1>t, <1>c, <2>2, <2>3, <2>5 DEF Budget, ToAsk, SendingHasTarget, TypeOK
    <2> QED
        BY <2>4, <2>7, <2>8 DEF ShutdownInv
<1>12. ASSUME NEW w \in Workers,
              Listen(w) \/ Check(w) \/ Woken(w) \/ AckTimeout(w) \/ Complete(w) \/ ObserveControlResponse(w)
       PROVE  ShutdownInv'
    <2> USE <1>12 DEF Listen, Check, Woken, AckTimeout, Complete, Completed, ObserveControlResponse, Goto
    <2>1. TypeOK' /\ NoStaleStream' /\ CountedAreFinite'
        BY <1>t DEF TypeOK, Steps, NoStaleStream, Live, CountedAreFinite
    <2>2. OneLeader' /\ NothingAskedYet'
        BY <1>t DEF TypeOK, OneLeader, LeaderSteps, NothingAskedYet
    <2>3. Sending' <=> Sending
        BY <1>t DEF TypeOK, Sending
    <2> QED
        BY <2>1, <2>2, <2>3, QuietStep DEF ShutdownInv
<1> QED
    BY <1>1, <1>2, <1>3, <1>4, <1>5, <1>6, <1>7, <1>8, <1>9, <1>10, <1>11, <1>12 DEF Next, Winds

\* The invariant of the coordinator holds in every run.
THEOREM ShutdownInvariant == Spec => []ShutdownInv
<1>1. Init => ShutdownInv
    BY ShutdownInit
<1>2. ShutdownInv /\ [Next]_vars => ShutdownInv'
    BY ShutdownStep
<1> QED
    BY <1>1, <1>2, PTL DEF Spec

\* Every variable of the coordinator and of its sessions keeps its type, and the plan of
\* the leader the length request_disconnect gives it.
THEOREM ShutdownTypeCorrect == Spec => []TypeOK
<1>1. ShutdownInv => TypeOK
    BY DEF ShutdownInv
<1> QED
    BY <1>1, ShutdownInvariant, PTL

\* The server is told at most Attempts times, whatever times out, fails or restarts
\* while the leader works through its plan (request_disconnect, session.rs:255).
THEOREM ServerToldAtMostAttempts == Spec => []RequestsBounded
<1>1. ShutdownInv => RequestsBounded
    <2> SUFFICES ASSUME ShutdownInv PROVE RequestsBounded
        OBVIOUS
    <2>1. Cardinality(commands) \in Nat
        BY FS_CardinalityType DEF ShutdownInv, CountedAreFinite
    <2>2. ToAsk \in Nat
        <3>1. Len(plan) \in Nat /\ (plan # <<>> => Len(plan) > 0)
            BY DEF ShutdownInv, TypeOK
        <3> QED
            BY <3>1 DEF ShutdownInv, ToAsk, SendingHasTarget
    <2> QED
        BY <2>1, <2>2, ShutdownConstants DEF ShutdownInv, TypeOK, Budget, RequestsBounded
<1> QED
    BY <1>1, ShutdownInvariant, PTL

\* A registered control stream belongs to a session whose writer and reader run
\* (ShutdownRegistration is dropped with its session).
THEOREM StreamsAreLive == Spec => []NoStaleStream
<1>1. ShutdownInv => NoStaleStream
    BY DEF ShutdownInv
<1> QED
    BY <1>1, ShutdownInvariant, PTL

(***************************************************************************)
(* Who wakes a follower                                                    *)
(***************************************************************************)
\* A leader that has yet to complete the farewell.
LeaderAtWork == \E l \in leads : pc[l] # "stop"

\* A follower that waits for the completion has a leader that will bring it about: the
\* leader never ends, and the notification is never sent, behind the back of a session
\* that is about to wait (wait_until_completed, session.rs:340).
NobodyWaitsAlone == \A w \in Workers : (pc[w] = "sleep" /\ w \in waiting) => LeaderAtWork

\* The farewell begins with the election, ends with the completion, and whoever is
\* registered with the Notify after that has yet to look.
FarewellInOrder ==
    /\ \A w \in Workers : pc[w] \notin {"setup", "running", "gone"} => active
    /\ \A w \in Workers : pc[w] = "stop" => completed
    /\ completed => \A w \in waiting : pc[w] = "check"
    /\ active /\ ~ completed => LeaderAtWork

\* Nobody but the leader completes the farewell, and the leader does so before it stops.
LEMMA FarewellStep ==
    ASSUME ShutdownInv, FarewellInOrder, [Next]_vars
    PROVE  FarewellInOrder'
<1> USE DEF tokens, state, wires, Goto, LeaderAtWork
<1>t. TypeOK /\ OneLeader /\ FarewellInOrder
    BY DEF ShutdownInv
<1>1. CASE UNCHANGED vars
    BY <1>1, <1>t DEF vars, FarewellInOrder
<1>2. CASE Cancel \/ \E h \in Hashes : MarkUnavailable(h)
    BY <1>2, <1>t DEF Cancel, MarkUnavailable, FarewellInOrder
<1>3. ASSUME NEW w \in Workers, Register(w) \/ GiveUp(w) \/ Fails(w) PROVE FarewellInOrder'
    BY <1>3, <1>t DEF Register, GiveUp, Fails, TypeOK, FarewellInOrder, OneLeader
<1>4. ASSUME NEW w \in Workers, RequestDisconnect(w) PROVE FarewellInOrder'
    BY <1>4, <1>t DEF RequestDisconnect, Elect, TypeOK, FarewellInOrder, OneLeader
<1>5. ASSUME NEW w \in Workers, ControlStreams(w) \/ Attempt(w) \/ Delivered(w) \/ SendTimeout(w)
      PROVE  FarewellInOrder'
    BY <1>5, <1>t DEF ControlStreams, Attempt, Delivered, SendTimeout, TypeOK, FarewellInOrder, OneLeader
<1>6. ASSUME NEW w \in Workers, Listen(w) \/ Check(w) \/ Woken(w) \/ AckTimeout(w) PROVE FarewellInOrder'
    BY <1>6, <1>t DEF Listen, Check, Woken, AckTimeout, TypeOK, FarewellInOrder, OneLeader
<1>7. ASSUME NEW w \in Workers, Complete(w) PROVE FarewellInOrder'
    BY <1>7, <1>t DEF Complete, Completed, TypeOK, FarewellInOrder, OneLeader
<1>8. ASSUME NEW w \in Workers, Stop(w) PROVE FarewellInOrder'
    BY <1>8, <1>t DEF Stop, TypeOK, FarewellInOrder, OneLeader
<1>9. ASSUME NEW w \in Workers, Write(w) \/ ObserveControlResponse(w) PROVE FarewellInOrder'
    BY <1>9, <1>t DEF Write, ObserveControlResponse, Completed, TypeOK, FarewellInOrder, OneLeader
<1> QED
    BY <1>1, <1>2, <1>3, <1>4, <1>5, <1>6, <1>7, <1>8, <1>9 DEF Next, Winds

\* However many sessions are cancelled, fail or restart, none of them waits for a farewell
\* that nobody is working on (request_disconnect, wait_until_completed).
THEOREM FollowersAreWoken == Spec => []NobodyWaitsAlone
<1>1. Init => FarewellInOrder
    BY DEF Init, FarewellInOrder
<1>2. ShutdownInv /\ FarewellInOrder /\ [Next]_vars => FarewellInOrder'
    BY FarewellStep
<1>3. FarewellInOrder => NobodyWaitsAlone
    BY DEF FarewellInOrder, NobodyWaitsAlone
<1> QED
    BY <1>1, <1>2, <1>3, ShutdownInvariant, PTL DEF Spec

-----------------------------------------------------------------------------
(***************************************************************************)
(* The receiving half of a session: its replay window (ReplayWindow)       *)
(*                                                                         *)
(* The window never sees the number of a packet, only its RTP value.  The  *)
(* argument has two parts: the 64-bit number accept_rtp makes of the value *)
(* is the packet's, and then the bitmap has a bit set for exactly the      *)
(* numbers accepted within a window of the highest.                        *)
(***************************************************************************)
LEMMA Division ==
    ASSUME NEW a \in Nat, NEW m \in Nat \ {0}
    PROVE  a \div m \in Nat /\ a % m \in 0 .. m - 1 /\ a = m * (a \div m) + (a % m)
OBVIOUS

\* Two numbers that lie less than m apart lie in the same multiple of m or in adjacent ones.
LEMMA Laps ==
    ASSUME NEW m \in Nat \ {0}, NEW p \in Int, NEW q \in Int, NEW d \in Int, m * p = m * q + d
    PROVE  (d < m => p <= q) /\ (d < 2 * m => p <= q + 1) /\ (d = 0 => p = q)
<1>1. m * (p - q) = d
    OBVIOUS
<1>2. p - q >= 1 => m * (p - q) >= m
    OBVIOUS
<1>3. p - q >= 2 => m * (p - q) >= 2 * m
    OBVIOUS
<1>4. q - p >= 1 => m * (q - p) >= m
    OBVIOUS
<1> QED
    BY <1>1, <1>2, <1>3, <1>4

LEMMA Sizes ==
    /\ SeqMod \in Nat \ {0} /\ Window \in Nat \ {0}
    /\ Half \in Nat /\ 2 * Half <= SeqMod
BY ReplayConstants DEF Half

\* No two numbers less than a window apart share a bit ...
LEMMA BitsApart ==
    ASSUME NEW a \in Nat, NEW b \in Nat, a < b + Window, b < a + Window, Bit(a) = Bit(b)
    PROVE  a = b
<1> DEFINE p == a \div Window
           q == b \div Window
<1>1. /\ p \in Nat /\ q \in Nat /\ Bit(a) \in 0 .. Window - 1
      /\ a = Window * p + Bit(a) /\ b = Window * q + Bit(a)
    BY Sizes, Division DEF Bit
<1> HIDE DEF p, q
<1>2. Window * p = Window * q + (a - b) /\ Window * q = Window * p + (b - a)
    BY <1>1, Sizes
<1>3. p <= q
    BY <1>1, <1>2, Sizes, Laps
<1>4. q <= p
    BY <1>1, <1>2, Sizes, Laps
<1> QED
    BY <1>1, <1>3, <1>4

\* ... and two that are a window apart do.
LEMMA BitsReturn ==
    ASSUME NEW a \in Nat
    PROVE  Bit(a) \in 0 .. Window - 1 /\ Bit(a + Window) = Bit(a)
<1> DEFINE b == a + Window
           p == a \div Window
           q == b \div Window
<1>1. /\ p \in Nat /\ q \in Nat /\ Bit(a) \in 0 .. Window - 1 /\ Bit(b) \in 0 .. Window - 1
      /\ a = Window * p + Bit(a) /\ b = Window * q + Bit(b) /\ b \in Nat
    BY Sizes, Division DEF Bit
<1> HIDE DEF p, q
<1>2. /\ Window * q = Window * (p + 1) + (Bit(a) - Bit(b))
      /\ Window * (p + 1) = Window * q + (Bit(b) - Bit(a))
    BY <1>1, Sizes
<1>3. q <= p + 1
    BY <1>1, <1>2, Sizes, Laps
<1>4. p + 1 <= q
    BY <1>1, <1>2, Sizes, Laps
<1>5. q = p + 1
    BY <1>1, <1>3, <1>4
<1> QED
    BY <1>1, <1>2, <1>5, Sizes

\* accept_rtp: a number less than half a lap from the highest is extended to itself.
LEMMA ExtendedIsTrue ==
    ASSUME NEW h \in Nat, NEW n \in Nat, n < h + Half, h < n + Half
    PROVE  Extended(Rtp(n), h) = n
<1> DEFINE p == n \div SeqMod
           q == h \div SeqMod
           e == h - Rtp(h) + Rtp(n)
<1>1. /\ p \in Nat /\ q \in Nat /\ Rtp(n) \in 0 .. SeqMod - 1 /\ Rtp(h) \in 0 .. SeqMod - 1
      /\ n = SeqMod * p + Rtp(n) /\ h = SeqMod * q + Rtp(h)
    BY Sizes, Division DEF Rtp
<1>2. e = SeqMod * q + Rtp(n) /\ e \in Nat
    BY <1>1, Sizes
<1>3. Extended(Rtp(n), h) = IF e + Half < h THEN e + SeqMod
                            ELSE IF e > h + Half /\ e >= SeqMod THEN e - SeqMod ELSE e
    BY DEF Extended
<1> HIDE DEF p, q, e
<1>4. /\ SeqMod * p = SeqMod * q + (n - e)
      /\ SeqMod * q = SeqMod * p + (e - n)
      /\ n - e \in Int /\ e - n \in Int
    BY <1>1, <1>2, Sizes
<1>5. n - e < 2 * SeqMod /\ e - n < 2 * SeqMod
    <2>1. e < n + 2 * SeqMod
        BY <1>1, <1>2, Sizes
    <2>2. n < e + 2 * SeqMod
        BY <1>1, <1>2, Sizes
    <2> QED
        BY <1>2, <2>1, <2>2, Sizes
<1>6. p <= q + 1
    BY <1>1, <1>4, <1>5, Sizes, Laps
<1>7. q <= p + 1
    BY <1>1, <1>4, <1>5, Sizes, Laps
<1>8. p = q \/ p = q + 1 \/ q = p + 1
    BY <1>1, <1>6, <1>7
<1>9. n = e \/ n = e + SeqMod \/ e = n + SeqMod
    <2>1. CASE p = q
        BY <1>1, <1>2, <2>1, Sizes
    <2>2. CASE p = q + 1
        <3>1. SeqMod * p = SeqMod * q + SeqMod
            BY <1>1, <2>2, Sizes
        <3> QED
            BY <1>1, <1>2, <3>1, Sizes
    <2>3. CASE q = p + 1
        <3>1. SeqMod * q = SeqMod * p + SeqMod
            BY <1>1, <2>3, Sizes
        <3> QED
            BY <1>1, <1>2, <3>1, Sizes
    <2> QED
        BY <1>8, <2>1, <2>2, <2>3
<1> QED
    BY <1>2, <1>3, <1>9, Sizes

-----------------------------------------------------------------------------
\* What was sent, and that only that was accepted.
Sender ==
    /\ first \in StartAt /\ next \in first .. first + MaxPackets
    /\ accepted \in [Numbers -> Nat]
    /\ \A n \in Numbers : accepted[n] # 0 => n \in first .. next - 1

\* Nothing was accepted yet: the sender has not gone far from a start with room before
\* the wrap.
Untouched ==
    /\ highest = {} /\ seen = {}
    /\ \A n \in Numbers : accepted[n] = 0
    /\ next <= first + MaxLoss + 1 /\ first + MaxLoss < SeqMod

\* h is the newest packet accepted, and the bits are those of the packets accepted that
\* are less than a window behind it.
Tracks(h) ==
    /\ highest = {h} /\ accepted[h] # 0 /\ next <= h + MaxLoss + 1
    /\ \A n \in Numbers : accepted[n] # 0 => n <= h
    /\ seen = {Bit(n) : n \in {m \in Numbers : accepted[m] # 0 /\ h < m + Window}}

ReplayInv ==
    /\ Sender /\ AcceptedOnce
    /\ Untouched \/ \E h \in Numbers : Tracks(h)

LEMMA NumbersAreNumbers ==
    ASSUME Sender
    PROVE  /\ first \in 0 .. SeqMod - 1 /\ next \in Nat /\ Numbers \subseteq Nat
           /\ Sent \subseteq Numbers /\ next \in Numbers
           /\ \A n \in Sent : n \in Nat /\ first <= n
           /\ Window \in Nat \ {0} /\ SeqMod \in Nat \ {0} /\ Half \in Nat
           /\ MaxDelay \in 0 .. Half - 1 /\ MaxLoss \in 0 .. Half - 1 /\ MaxPackets \in Nat
BY ReplayConstants, Sizes DEF Sender, Numbers, Sent

\* The number the receiver works with is the one the sender gave.
LEMMA CounterIsTrue ==
    ASSUME ReplayInv, NEW n \in Sent, Arrives(n)
    PROVE  Counter(n) = n
<1>0. Sender
    BY DEF ReplayInv
<1>1. CASE Untouched
    <2>1. n < SeqMod
        BY <1>0, <1>1, NumbersAreNumbers DEF Untouched, Arrives
    <2>2. Rtp(n) = n
        BY <1>0, <2>1, NumbersAreNumbers DEF Rtp
    <2> QED
        BY <1>1, <2>2 DEF Counter, Untouched
<1>2. ASSUME NEW h \in Numbers, Tracks(h) PROVE Counter(n) = n
    <2>1. h < next /\ next <= h + MaxLoss + 1
        BY <1>0, <1>2, NumbersAreNumbers DEF Tracks, Sender
    <2>2. n < h + Half /\ h < n + Half /\ h \in Nat /\ n \in Nat
        BY <1>0, <2>1, NumbersAreNumbers DEF Arrives
    <2>3. Extended(Rtp(n), h) = n
        BY <2>2, ExtendedIsTrue
    <2> QED
        BY <1>2, <2>3 DEF Counter, Tracks
<1> QED
    BY <1>1, <1>2 DEF ReplayInv

\* Within a window of the highest number a bit tells whether the packet was accepted.
LEMMA BitsTell ==
    ASSUME Sender, NEW h \in Numbers, Tracks(h), NEW n \in Numbers, n <= h, h < n + Window
    PROVE  Bit(n) \in seen <=> accepted[n] # 0
<1>1. ASSUME Bit(n) \in seen PROVE accepted[n] # 0
    <2>1. PICK m \in Numbers : accepted[m] # 0 /\ h < m + Window /\ Bit(m) = Bit(n)
        BY <1>1 DEF Tracks
    <2>2. m <= h
        BY <2>1 DEF Tracks
    <2>3. m = n
        BY <2>1, <2>2, BitsApart, NumbersAreNumbers
    <2> QED
        BY <2>1, <2>3
<1>2. ASSUME accepted[n] # 0 PROVE Bit(n) \in seen
    BY <1>2 DEF Tracks
<1> QED
    BY <1>1, <1>2

-----------------------------------------------------------------------------
LEMMA ReplayStarts == ReplayInit => ReplayInv
<1> SUFFICES ASSUME ReplayInit PROVE ReplayInv
    OBVIOUS
<1>1. /\ first \in 0 .. SeqMod - 1 /\ first \in Numbers /\ StartAt \subseteq Nat
      /\ MaxLoss \in Nat /\ MaxPackets \in Nat \ {0} /\ Window \in Nat \ {0}
    BY ReplayConstants, Sizes DEF ReplayInit, Numbers
<1>2. CASE first \notin InOrderStart
    <2>1. Untouched
        BY <1>1, <1>2, ReplayConstants DEF ReplayInit, Untouched
    <2>2. Sender /\ AcceptedOnce
        BY <1>1, <1>2 DEF ReplayInit, Sender, AcceptedOnce
    <2> QED
        BY <2>1, <2>2 DEF ReplayInv
<1>3. CASE first \in InOrderStart
    <2>1. /\ next = first + 1 /\ highest = {first} /\ seen = {Bit(first)}
          /\ accepted = [n \in Numbers |-> IF n = first THEN 1 ELSE 0]
        BY <1>3 DEF ReplayInit
    <2>2. Tracks(first)
        BY <1>1, <2>1 DEF Tracks
    <2>3. Sender /\ AcceptedOnce
        BY <1>1, <1>3, <2>1 DEF ReplayInit, Sender, AcceptedOnce
    <2> QED
        BY <1>1, <2>2, <2>3 DEF ReplayInv
<1> QED
    BY <1>2, <1>3

LEMMA SendKeepsTheWindow ==
    ASSUME ReplayInv, Send
    PROVE  ReplayInv'
<1>0. Sender /\ AcceptedOnce
    BY DEF ReplayInv
<1>1. UNCHANGED <<first, highest, seen, accepted>> /\ next' = next + 1
    BY DEF Send
<1>2. Sender' /\ AcceptedOnce'
    BY <1>0, <1>1, NumbersAreNumbers DEF Send, Sender, AcceptedOnce
<1>3. CASE Untouched
    <2>1. LatestAccepted = {}
        BY <1>3 DEF Untouched, LatestAccepted
    <2>2. next <= first + MaxLoss
        BY <2>1 DEF Send
    <2> QED
        BY <1>0, <1>1, <1>2, <1>3, <2>2, NumbersAreNumbers DEF Untouched, ReplayInv
<1>4. ASSUME NEW h \in Numbers, Tracks(h) PROVE ReplayInv'
    <2>1. h \in LatestAccepted
        BY <1>4 DEF Tracks, LatestAccepted
    <2>2. next <= h + MaxLoss
        BY <2>1 DEF Send
    <2>3. Tracks(h)'
        BY <1>0, <1>1, <1>4, <2>2, NumbersAreNumbers DEF Tracks, Numbers
    <2> QED
        BY <1>2, <2>3 DEF ReplayInv, Numbers
<1> QED
    BY <1>3, <1>4 DEF ReplayInv

\* What an accepted packet leaves, whatever it does to the bitmap.
LEMMA AcceptCounts ==
    ASSUME ReplayInv, NEW n \in Sent, Accept(n)
    PROVE  /\ Counter(n) = n /\ accepted[n] = 0
           /\ accepted' = [accepted EXCEPT ![n] = 1] /\ UNCHANGED <<first, next>>
           /\ Sender' /\ AcceptedOnce'
<1>0. Sender /\ AcceptedOnce
    BY DEF ReplayInv
<1>1. /\ Counter(n) = n /\ Arrives(n) /\ ~ TooOld(n) /\ ~ SeenBefore(n)
      /\ accepted' = [accepted EXCEPT ![n] = @ + 1] /\ UNCHANGED <<first, next>>
    BY CounterIsTrue DEF Accept, Accepted
<1>2. accepted[n] = 0
    <2>1. CASE Untouched
        BY <1>0, <2>1, NumbersAreNumbers DEF Untouched
    <2>2. ASSUME NEW h \in Numbers, Tracks(h) PROVE accepted[n] = 0
        <3>1. CASE n <= h
            <4>1. h < n + Window /\ Bit(n) \notin seen
                BY <1>0, <1>1, <2>2, <3>1, NumbersAreNumbers DEF TooOld, SeenBefore, Tracks
            <4> QED
                BY <1>0, <2>2, <3>1, <4>1, BitsTell, NumbersAreNumbers
        <3>2. CASE ~ (n <= h)
            BY <1>0, <2>2, <3>2, NumbersAreNumbers DEF Tracks
        <3> QED
            BY <3>1, <3>2
    <2> QED
        BY <2>1, <2>2 DEF ReplayInv
<1>3. n \in Numbers /\ n \in first .. next - 1
    BY <1>0, <1>1, NumbersAreNumbers DEF Arrives
<1>4. accepted' = [accepted EXCEPT ![n] = 1]
    BY <1>1, <1>2
<1>5. Sender'
    BY <1>0, <1>1, <1>3, <1>4 DEF Sender, Numbers
<1>6. AcceptedOnce'
    BY <1>0, <1>3, <1>4 DEF AcceptedOnce, Sender, Numbers
<1> QED
    BY <1>1, <1>2, <1>4, <1>5, <1>6

\* A packet ahead of the window frees the bits of the numbers it skips: those of numbers
\* that fall out of the window, and of no other.
LEMMA AheadKeepsTheBits ==
    ASSUME Sender, NEW h \in Numbers, Tracks(h), NEW n \in Numbers, h < n
    PROVE  seen \ Freed(h, n) = {Bit(m) : m \in {k \in Numbers : accepted[k] # 0 /\ n < k + Window}}
<1> DEFINE Late == {k \in Numbers : accepted[k] # 0 /\ n < k + Window}
<1>0. /\ h \in Nat /\ n \in Nat /\ Window \in Nat \ {0} /\ Numbers \subseteq Nat
      /\ \A k \in Numbers : accepted[k] # 0 => k <= h
      /\ seen = {Bit(m) : m \in {k \in Numbers : accepted[k] # 0 /\ h < k + Window}}
    BY NumbersAreNumbers DEF Tracks
<1>1. CASE n - h >= Window
    <2>1. Freed(h, n) = seen
        BY <1>1 DEF Freed
    <2>2. ASSUME NEW k \in Numbers, accepted[k] # 0, n < k + Window PROVE FALSE
        BY <1>0, <1>1, <2>2
    <2>3. Late = {}
        BY <2>2
    <2> QED
        BY <2>1, <2>3
<1>2. CASE n - h < Window
    <2>1. Freed(h, n) = {Bit(h + i) : i \in 1 .. n - h}
        BY <1>0, <1>2 DEF Freed
    <2>2. ASSUME NEW m \in Late PROVE Bit(m) \in seen \ Freed(h, n)
        <3>1. m <= h /\ h < m + Window /\ n < m + Window /\ m \in Nat
            BY <1>0
        <3>2. ASSUME NEW i \in 1 .. n - h PROVE Bit(m) # Bit(h + i)
            <4>1. h + i \in Nat /\ h + i < m + Window /\ m < h + i + Window /\ m # h + i
                BY <1>0, <3>1
            <4> QED
                BY <3>1, <4>1, BitsApart
        <3> QED
            BY <1>0, <2>1, <3>1, <3>2
    <2>3. ASSUME NEW m \in Numbers, accepted[m] # 0, h < m + Window, Bit(m) \notin Freed(h, n)
          PROVE  m \in Late
        <3>1. m \in Nat /\ m <= h
            BY <1>0, <2>3
        <3>2. ASSUME m + Window <= n PROVE FALSE
            <4>1. m + Window - h \in 1 .. n - h /\ h + (m + Window - h) = m + Window
                BY <1>0, <2>3, <3>1, <3>2
            <4>2. Bit(m + Window) \in Freed(h, n)
                BY <2>1, <4>1
            <4> QED
                BY <2>3, <3>1, <4>2, BitsReturn
        <3> QED
            BY <1>0, <2>3, <3>1, <3>2
    <2> QED
        BY <1>0, <2>2, <2>3
<1> QED
    BY <1>0, <1>1, <1>2

LEMMA AcceptKeepsTheWindow ==
    ASSUME ReplayInv, NEW n \in Sent, Accept(n)
    PROVE  ReplayInv'
<1>0. Sender /\ n \in Numbers /\ n \in Nat
    BY NumbersAreNumbers DEF ReplayInv
<1>1. /\ accepted[n] = 0 /\ accepted' = [accepted EXCEPT ![n] = 1] /\ UNCHANGED <<first, next>>
      /\ Sender' /\ AcceptedOnce' /\ Accepted(n, n) /\ ~ TooOld(n)
    BY AcceptCounts DEF Accept
<1>2. /\ accepted'[n] = 1
      /\ \A m \in Numbers : m # n => accepted'[m] = accepted[m]
      /\ \A m \in Numbers : accepted'[m] # 0 <=> m = n \/ accepted[m] # 0
    BY <1>0, <1>1 DEF Sender
<1>3. CASE Untouched
    <2>1. highest' = {n} /\ seen' = {Bit(n)}
        BY <1>1, <1>3 DEF Accepted, Untouched
    <2>2. \A m \in Numbers : accepted'[m] # 0 <=> m = n
        BY <1>2, <1>3 DEF Untouched
    <2>3. next' <= n + MaxLoss + 1
        BY <1>0, <1>1, <1>3, NumbersAreNumbers DEF Untouched
    <2>4. {m \in Numbers : accepted'[m] # 0 /\ n < m + Window} = {n}
        <3>1. n < n + Window
            BY <1>0, NumbersAreNumbers
        <3> QED
            BY <1>0, <2>2, <3>1
    <2>5. Tracks(n)'
        BY <1>0, <1>2, <2>1, <2>2, <2>3, <2>4 DEF Tracks, Numbers
    <2> QED
        BY <1>0, <1>1, <2>5 DEF ReplayInv, Numbers
<1>4. ASSUME NEW h \in Numbers, Tracks(h), h < n PROVE ReplayInv'
    <2>1. highest = {h} /\ {x \in highest : x < n} = {h} /\ ~ (h >= n)
        BY <1>0, <1>4, NumbersAreNumbers DEF Tracks
    <2>2. highest' = {n} /\ seen' = (seen \ Freed(h, n)) \union {Bit(n)}
        BY <1>1, <2>1 DEF Accepted
    <2>3. seen' = {Bit(m) : m \in {k \in Numbers : accepted'[k] # 0 /\ n < k + Window}}
        BY <1>0, <1>2, <1>4, <2>2, AheadKeepsTheBits, NumbersAreNumbers
    <2>4. \A m \in Numbers : accepted'[m] # 0 => m <= n
        BY <1>0, <1>2, <1>4, NumbersAreNumbers DEF Tracks
    <2>5. next' <= n + MaxLoss + 1
        BY <1>0, <1>1, <1>4, NumbersAreNumbers DEF Tracks
    <2>6. Tracks(n)'
        BY <1>2, <2>2, <2>3, <2>4, <2>5 DEF Tracks, Numbers
    <2> QED
        BY <1>0, <1>1, <2>6 DEF ReplayInv, Numbers
<1>5. ASSUME NEW h \in Numbers, Tracks(h), n <= h PROVE ReplayInv'
    <2>1. highest = {h} /\ {x \in highest : x < n} = {} /\ h >= n
        BY <1>0, <1>5, NumbersAreNumbers DEF Tracks
    <2>2. highest' = {h} /\ seen' = seen \union {Bit(n)}
        BY <1>1, <2>1 DEF Accepted
    <2>3. h < n + Window
        BY <1>0, <1>1, <2>1, NumbersAreNumbers DEF TooOld
    <2>4. {k \in Numbers : accepted'[k] # 0 /\ h < k + Window}
              = {k \in Numbers : accepted[k] # 0 /\ h < k + Window} \union {n}
        BY <1>0, <1>2, <2>3
    <2>5. seen' = {Bit(m) : m \in {k \in Numbers : accepted'[k] # 0 /\ h < k + Window}}
        BY <1>5, <2>2, <2>4 DEF Tracks
    <2>6. Tracks(h)'
        BY <1>0, <1>1, <1>2, <1>5, <2>2, <2>5 DEF Tracks, Numbers
    <2> QED
        BY <1>1, <2>6 DEF ReplayInv, Numbers
<1> QED
    BY <1>0, <1>3, <1>4, <1>5, NumbersAreNumbers DEF ReplayInv

LEMMA ReplaySteps == ReplayInv /\ [ReplayNext]_replayVars => ReplayInv'
<1> SUFFICES ASSUME ReplayInv, [ReplayNext]_replayVars PROVE ReplayInv'
    OBVIOUS
<1>1. CASE UNCHANGED replayVars
    BY <1>1 DEF replayVars, ReplayInv, Sender, AcceptedOnce, Untouched, Tracks, Numbers
<1>2. ASSUME NEW n \in Sent, Reject(n) PROVE ReplayInv'
    BY <1>1, <1>2 DEF Reject
<1> QED
    BY <1>1, <1>2, SendKeepsTheWindow, AcceptKeepsTheWindow DEF ReplayNext

THEOREM ReplayInvariant == ReplaySpec => []ReplayInv
BY ReplayStarts, ReplaySteps, PTL DEF ReplaySpec

\* accept_rtp and accept (session.rs) let no packet in twice, with any space of numbers,
\* window, start, delay, loss and number of packets the assumptions admit, across any
\* number of wraps.
THEOREM PacketsAcceptedOnce == ReplaySpec => []AcceptedOnce
<1>1. ReplayInv => AcceptedOnce
    BY DEF ReplayInv
<1> QED
    BY <1>1, ReplayInvariant, PTL

\* ... and they refuse no packet for the first time it comes, unless it is a window late.
THEOREM FreshPacketsAccepted == ReplaySpec => []FreshIsAccepted
<1>1. ReplayInv => FreshIsAccepted
    <2> SUFFICES ASSUME ReplayInv, NEW n \in Sent, Arrives(n), accepted[n] = 0,
                        \A m \in LatestAccepted : n + Window > m
                 PROVE  ~ TooOld(Counter(n)) /\ ~ SeenBefore(Counter(n))
        BY DEF FreshIsAccepted
    <2>0. Sender /\ Counter(n) = n /\ n \in Numbers /\ Numbers \subseteq Nat
        BY CounterIsTrue, NumbersAreNumbers DEF ReplayInv
    <2>1. CASE Untouched
        BY <2>0, <2>1 DEF Untouched, TooOld, SeenBefore
    <2>2. ASSUME NEW h \in Numbers, Tracks(h) PROVE ~ TooOld(n) /\ ~ SeenBefore(n)
        <3>1. h < n + Window
            BY <2>0, <2>2 DEF Tracks, LatestAccepted
        <3>2. ~ TooOld(n)
            BY <2>0, <2>2, <3>1, NumbersAreNumbers DEF Tracks, TooOld
        <3>3. ~ SeenBefore(n)
            BY <2>0, <2>2, <3>1, BitsTell DEF Tracks, SeenBefore
        <3> QED
            BY <3>2, <3>3
    <2> QED
        BY <2>0, <2>1, <2>2 DEF ReplayInv
<1> QED
    BY <1>1, ReplayInvariant, PTL

\* The window's number, its bitmap and the history keep their types.
THEOREM ReplayTypeCorrect == ReplaySpec => []ReplayTypeOK
<1>1. ReplayInv => ReplayTypeOK
    <2> SUFFICES ASSUME ReplayInv PROVE ReplayTypeOK
        OBVIOUS
    <2>0. Sender
        BY DEF ReplayInv
    <2>1. highest \subseteq Nat /\ Cardinality(highest) <= 1 /\ seen \subseteq 0 .. Window - 1
        <3>1. CASE Untouched
            BY <3>1, FS_EmptySet DEF Untouched
        <3>2. ASSUME NEW h \in Numbers, Tracks(h)
              PROVE  highest \subseteq Nat /\ Cardinality(highest) <= 1 /\ seen \subseteq 0 .. Window - 1
            <4>1. highest = {h} /\ Cardinality(highest) = 1 /\ h \in Nat
                BY <2>0, <3>2, NumbersAreNumbers, FS_Singleton DEF Tracks
            <4>2. \A m \in Numbers : Bit(m) \in 0 .. Window - 1
                BY <2>0, NumbersAreNumbers, BitsReturn
            <4> QED
                BY <3>2, <4>1, <4>2 DEF Tracks
        <3> QED
            BY <3>1, <3>2 DEF ReplayInv
    <2> QED
        BY <2>0, <2>1, NumbersAreNumbers DEF ReplayTypeOK, Sender
<1> QED
    BY <1>1, ReplayInvariant, PTL
=============================================================================
