---------------------------- MODULE RepairProofs ----------------------------
(***************************************************************************)
(* Targeted repair counts right with any number of readers, slots and      *)
(* sequence numbers.  What a slot was asked for is split between what its  *)
(* counters show and what the readers that won the compare_exchange still  *)
(* owe it; each atomic access moves one unit from one side to the other.   *)
(***************************************************************************)
EXTENDS Repair, FiniteSetTheorems, TLAPS

\* The sequences a slot has accepted end with last_sequence.
AppliedUpToLast ==
    \A w \in Slots : /\ applied[w] \subseteq 1 .. last_sequence[w]
                     /\ last_sequence[w] = 0 \/ last_sequence[w] \in applied[w]

\* A reader past LoadLast works on a slot that exists.
TargetsExist ==
    \A r \in Readers :
        pc[r] \in {"cas", "ready", "bump", "restart", "notify"} => Target(r) \in Slots

\* ResetsNeedARepeat with the decisions still open.
ResetsCounted ==
    \A w \in Slots :
        LET asked == credential_generation[w] + Cardinality(Deciding(w))
        IN  asked = 0 \/ asked < Cardinality(applied[w])

\* A running session has not yet answered what it has not seen.
InvalidationsCounted ==
    \A w \in Slots :
        /\ invalidations[w] <= credential_generation[w]
        /\ session[w] # "down" => invalidations[w] <= credentials_seen[w]

RepairInv ==
    /\ TypeOK /\ TargetsExist /\ AppliedUpToLast
    /\ OneRestartPerSequence /\ ResetsCounted /\ InvalidationsCounted

-----------------------------------------------------------------------------
\* The sets that are counted are finite.
LEMMA CountedSets ==
    ASSUME TypeOK, AppliedUpToLast, NEW w \in Slots
    PROVE  /\ IsFiniteSet(Owing(w)) /\ Cardinality(Owing(w)) \in Nat
           /\ IsFiniteSet(Deciding(w)) /\ Cardinality(Deciding(w)) \in Nat
           /\ IsFiniteSet(applied[w]) /\ Cardinality(applied[w]) \in Nat
<1>1. Owing(w) \in SUBSET Readers /\ Deciding(w) \in SUBSET Readers
    BY DEF Owing, Deciding
<1>2. IsFiniteSet(Owing(w)) /\ IsFiniteSet(Deciding(w))
    BY <1>1, RepairConstants, FS_Subset
<1>3. IsFiniteSet(1 .. last_sequence[w])
    BY FS_Interval DEF TypeOK
<1>4. IsFiniteSet(applied[w])
    BY <1>3, FS_Subset DEF AppliedUpToLast
<1> QED
    BY <1>2, <1>4, FS_CardinalityType

LEMMA RepairInit == Init => RepairInv
<1> SUFFICES ASSUME Init PROVE RepairInv
    OBVIOUS
<1> USE RepairConstants DEF Init
<1>1. TypeOK
    <2>1. /\ \A r \in Readers : pc[r] = "idle"
          /\ command \in [Readers -> Commands \union {NoCommand}]
          /\ pc \in [Readers -> ReaderSteps] /\ current \in [Readers -> 0 .. MaxSequence]
        BY DEF ReaderSteps
    <2>2. /\ restart_generation \in [Slots -> Nat] /\ credential_generation \in [Slots -> Nat]
          /\ last_sequence \in [Slots -> 0 .. MaxSequence]
          /\ ready_sequence \in [Slots -> 0 .. MaxSequence]
          /\ marked \in [Slots -> 0 .. MaxSequence]
        OBVIOUS
    <2>3. /\ session \in [Slots -> SessionSteps] /\ observed \in [Slots -> Nat]
          /\ credentials_seen \in [Slots -> Nat] /\ invalidations \in [Slots -> Nat]
          /\ applied \in [Slots -> SUBSET Sequences]
        BY DEF SessionSteps
    <2> QED
        BY <2>1, <2>2, <2>3 DEF TypeOK
<1>2. TargetsExist /\ AppliedUpToLast /\ InvalidationsCounted
    <2>1. \A r \in Readers : pc[r] = "idle"
        OBVIOUS
    <2>2. TargetsExist
        BY <2>1 DEF TargetsExist
    <2>3. \A w \in Slots : /\ applied[w] = {} /\ last_sequence[w] = 0 /\ session[w] = "down"
                          /\ invalidations[w] = 0 /\ credential_generation[w] = 0
        OBVIOUS
    <2> QED
        BY <2>2, <2>3 DEF AppliedUpToLast, InvalidationsCounted
<1>3. \A w \in Slots : /\ Owing(w) = {} /\ Deciding(w) = {} /\ applied[w] = {}
                      /\ restart_generation[w] = 0 /\ credential_generation[w] = 0
    BY DEF Owing, Deciding
<1>4. OneRestartPerSequence /\ ResetsCounted
    <2>1. \A w \in Slots : /\ Cardinality(Owing(w)) = 0 /\ Cardinality(Deciding(w)) = 0
                          /\ Cardinality(applied[w]) = 0
        BY <1>3, FS_EmptySet, Zenon
    <2>2. OneRestartPerSequence
        BY <1>3, <2>1 DEF OneRestartPerSequence
    <2>3. ResetsCounted
        BY <1>3, <2>1 DEF ResetsCounted
    <2> QED
        BY <2>2, <2>3
<1> QED
    BY <1>1, <1>2, <1>4 DEF RepairInv

\* The loop over the ids of a command.
LEMMA NextWorkerType ==
    ASSUME TypeOK, NEW r \in Readers, pc[r] # "idle", NextWorker(r)
    PROVE  /\ pc' \in [Readers -> ReaderSteps]
           /\ command' \in [Readers -> Commands \union {NoCommand}]
           /\ \A q \in Readers : pc'[q] # "idle" => command'[q] \in Commands
           /\ \A q \in Readers \ {r} : pc'[q] = pc[q] /\ command'[q] = command[q]
           /\ pc'[r] \in {"idle", "repair", "alive"}
<1> DEFINE rest == command[r].worker_ids \ {Target(r)}
<1>1. command[r] \in Commands
    BY DEF TypeOK
<1>2. CASE rest = {}
    BY <1>1, <1>2 DEF NextWorker, TypeOK, ReaderSteps
<1>3. CASE rest # {}
    <2>1. [command[r] EXCEPT !.worker_ids = rest] \in Commands
        BY <1>1, <1>3 DEF Commands
    <2>2. command[r].kind \in {"repair", "alive"}
        BY <1>1 DEF Commands
    <2>3. /\ pc' = [pc EXCEPT ![r] = command[r].kind]
          /\ command' = [command EXCEPT ![r] = [command[r] EXCEPT !.worker_ids = rest]]
        BY <1>3 DEF NextWorker, TypeOK
    <2> QED
        BY <2>1, <2>2, <2>3 DEF TypeOK, ReaderSteps
<1> QED
    BY <1>2, <1>3

-----------------------------------------------------------------------------
(***************************************************************************)
(* What a step of one reader does to the readers that are counted.         *)
(***************************************************************************)
\* The other readers stay where they are.
OnlyMoves(r) == \A q \in Readers \ {r} : pc'[q] = pc[q] /\ command'[q] = command[q]

LEMMA TargetKept ==
    ASSUME NEW q, command'[q] = command[q]
    PROVE  Target(q)' = Target(q)
BY DEF Target

\* A reader that neither owes nor begins to owe changes no count.
LEMMA CountsKept ==
    ASSUME NEW r \in Readers, OnlyMoves(r), NEW w \in Slots,
           pc[r] \notin {"ready", "bump", "restart"},
           pc'[r] \notin {"ready", "bump", "restart"}
    PROVE  Owing(w)' = Owing(w) /\ Deciding(w)' = Deciding(w)
<1>1. \A q \in Readers \ {r} : pc'[q] = pc[q] /\ Target(q)' = Target(q)
    BY TargetKept DEF OnlyMoves
<1> QED
    BY <1>1 DEF Owing, Deciding

\* Nor does a step of no reader at all.
LEMMA CountsUntouched ==
    ASSUME UNCHANGED <<pc, command>>, NEW w \in Slots
    PROVE  Owing(w)' = Owing(w) /\ Deciding(w)' = Deciding(w)
BY DEF Owing, Deciding, Target

\* A reader that stays on its command and its slot.
LEMMA CountsMoved ==
    ASSUME TypeOK, NEW r \in Readers, NEW step, Goto(r, step), NEW w \in Slots
    PROVE  /\ OnlyMoves(r) /\ pc'[r] = step /\ Target(r)' = Target(r)
           /\ Owing(w)' = {q \in Owing(w) : q # r} \union
                 {q \in {r} : step \in {"ready", "bump", "restart"} /\ Target(r) = w}
           /\ Deciding(w)' = {q \in Deciding(w) : q # r} \union
                 {q \in {r} : step \in {"ready", "bump"} /\ Target(r) = w}
<1>1. OnlyMoves(r) /\ pc'[r] = step /\ command' = command
    BY DEF Goto, TypeOK, OnlyMoves
<1>2. \A q \in Readers : Target(q)' = Target(q)
    BY <1>1, TargetKept
<1>3. \A q \in Readers \ {r} : pc'[q] = pc[q]
    BY <1>1 DEF OnlyMoves
<1> QED
    BY <1>1, <1>2, <1>3 DEF Owing, Deciding

-----------------------------------------------------------------------------
(***************************************************************************)
(* Each part of the invariant is kept, action by action.                   *)
(***************************************************************************)
\* A reader that is at work has a command, and its sequence is a real one.
LEMMA CommandInHand ==
    ASSUME TypeOK, NEW r \in Readers, pc[r] # "idle"
    PROVE  /\ command[r] \in Commands
           /\ command[r].kind \in {"repair", "alive"}
           /\ command[r].sequence \in Sequences
           /\ command[r].sequence \in 0 .. MaxSequence
<1>1. command[r] \in Commands
    BY DEF TypeOK
<1> QED
    BY <1>1, RepairConstants DEF Commands, Sequences

\* Goto keeps the types of pc and command.
LEMMA GotoType ==
    ASSUME TypeOK, NEW r \in Readers, pc[r] # "idle", NEW step \in ReaderSteps, Goto(r, step)
    PROVE  /\ pc' \in [Readers -> ReaderSteps]
           /\ command' \in [Readers -> Commands \union {NoCommand}]
           /\ \A q \in Readers : pc'[q] # "idle" => command'[q] \in Commands
BY CommandInHand DEF Goto, TypeOK

SlotTypes ==
    /\ restart_generation \in [Slots -> Nat] /\ credential_generation \in [Slots -> Nat]
    /\ last_sequence \in [Slots -> 0 .. MaxSequence]
    /\ ready_sequence \in [Slots -> 0 .. MaxSequence]
    /\ applied \in [Slots -> SUBSET Sequences]

ReaderTypes ==
    /\ pc \in [Readers -> ReaderSteps]
    /\ command \in [Readers -> Commands \union {NoCommand}]
    /\ \A r \in Readers : pc[r] # "idle" => command[r] \in Commands
    /\ current \in [Readers -> 0 .. MaxSequence]

SessionTypes ==
    /\ session \in [Slots -> SessionSteps]
    /\ marked \in [Slots -> 0 .. MaxSequence]
    /\ observed \in [Slots -> Nat] /\ credentials_seen \in [Slots -> Nat]
    /\ invalidations \in [Slots -> Nat]

LEMMA TypesSplit ==
    /\ TypeOK <=> SlotTypes /\ ReaderTypes /\ SessionTypes
    /\ TypeOK' <=> SlotTypes' /\ ReaderTypes' /\ SessionTypes'
BY DEF TypeOK, SlotTypes, ReaderTypes, SessionTypes

LEMMA ReaderKeepsTypes ==
    ASSUME TypeOK, TargetsExist, NEW r \in Readers, Reader(r)
    PROVE  TypeOK'
<1> USE TypesSplit
<1>1. CASE UnknownSlot(r)
    <2>1. ReaderTypes'
        BY <1>1, NextWorkerType DEF UnknownSlot, ReaderTypes, TypeOK
    <2> QED
        BY <1>1, <2>1 DEF UnknownSlot, slotVars, sessionVars, SlotTypes, SessionTypes
<1>2. CASE LoadLast(r)
    <2>1. current' \in [Readers -> 0 .. MaxSequence]
        BY <1>2 DEF LoadLast, TypeOK
    <2>2. ReaderTypes'
        BY <1>2, <2>1, GotoType DEF LoadLast, ReaderTypes, ReaderSteps
    <2> QED
        BY <1>2, <2>2 DEF LoadLast, slotVars, sessionVars, SlotTypes, SessionTypes
<1>3. CASE OldSequence(r)
    <2>1. ReaderTypes'
        BY <1>3, NextWorkerType DEF OldSequence, ReaderTypes, TypeOK
    <2> QED
        BY <1>3, <2>1 DEF OldSequence, slotVars, sessionVars, SlotTypes, SessionTypes
<1>4. CASE CasLast(r)
    <2>1. CASE SlotUnchanged(r)
        <3>1. ReaderTypes'
            BY <1>4, <2>1, GotoType DEF CasLast, ReaderTypes, ReaderSteps
        <3>2. SlotTypes'
            BY <1>4, <2>1, CommandInHand DEF CasLast, SlotTypes
        <3> QED
            BY <1>4, <3>1, <3>2 DEF CasLast, sessionVars, SessionTypes
    <2>2. CASE ~ SlotUnchanged(r)
        <3>1. Target(r) \in Slots
            BY <1>4 DEF CasLast, TargetsExist
        <3>2. ReaderTypes'
            BY <1>4, <2>2, <3>1 DEF CasLast, ReaderTypes, SlotTypes
        <3> QED
            BY <1>4, <2>2, <3>2 DEF CasLast, sessionVars, SlotTypes, SessionTypes
    <2> QED
        BY <2>1, <2>2
<1>5. CASE LoadReady(r)
    <2>1. ReaderTypes'
        BY <1>5, GotoType DEF LoadReady, ReaderTypes, ReaderSteps
    <2> QED
        BY <1>5, <2>1 DEF LoadReady, slotVars, sessionVars, SlotTypes, SessionTypes
<1>6. CASE BumpCredential(r)
    <2>1. ReaderTypes'
        BY <1>6, GotoType DEF BumpCredential, ReaderTypes, ReaderSteps
    <2>2. SlotTypes'
        BY <1>6 DEF BumpCredential, TargetsExist, SlotTypes
    <2>3. SessionTypes'
        BY <1>6 DEF BumpCredential, sessionVars, SessionTypes
    <2> QED
        BY <2>1, <2>2, <2>3
<1>7. CASE BumpRestart(r)
    <2>1. ReaderTypes'
        BY <1>7, GotoType DEF BumpRestart, ReaderTypes, ReaderSteps
    <2>2. SlotTypes'
        BY <1>7 DEF BumpRestart, TargetsExist, SlotTypes
    <2>3. SessionTypes'
        BY <1>7 DEF BumpRestart, sessionVars, SessionTypes
    <2> QED
        BY <2>1, <2>2, <2>3
<1>8. CASE NotifyWaiters(r)
    <2>1. ReaderTypes'
        BY <1>8, NextWorkerType DEF NotifyWaiters, ReaderTypes, TypeOK
    <2> QED
        BY <1>8, <2>1 DEF NotifyWaiters, slotVars, SlotTypes, SessionTypes, SessionSteps
<1>9. CASE ApplyAlive(r)
    <2>1. ReaderTypes'
        BY <1>9, NextWorkerType DEF ApplyAlive, ReaderTypes, TypeOK
    <2>2. SlotTypes'
        BY <1>9, CommandInHand DEF ApplyAlive, SlotTypes
    <2> QED
        BY <1>9, <2>1, <2>2 DEF ApplyAlive, sessionVars, SessionTypes
<1> QED
    BY <1>1, <1>2, <1>3, <1>4, <1>5, <1>6, <1>7, <1>8, <1>9 DEF Reader

LEMMA SessionKeepsTypes ==
    ASSUME TypeOK, NEW w \in Slots, Session(w) \/ EndByFailure(w)
    PROVE  TypeOK'
<1> USE TypesSplit DEF SessionTypes, SessionSteps, At
<1>1. CASE MarkReadyStore(w)
    BY <1>1 DEF MarkReadyStore, SlotTypes, ReaderTypes, readerVars
<1>2. CASE ~ MarkReadyStore(w)
    <2>1. UNCHANGED <<slotVars, readerVars, applied>>
        BY <1>2 DEF Session, StartSession, MarkReadyLoad, ObserveGeneration, SeeRestart,
                    SeeNoRestart, Register, EndByRepair, EndByFailure
    <2>2. SlotTypes' /\ ReaderTypes'
        BY <2>1 DEF slotVars, readerVars, SlotTypes, ReaderTypes
    <2>3. CASE StartSession(w)
        BY <2>2, <2>3 DEF StartSession, SlotTypes
    <2>4. CASE MarkReadyLoad(w)
        BY <2>2, <2>4 DEF MarkReadyLoad, SlotTypes
    <2>5. CASE ObserveGeneration(w)
        BY <2>2, <2>5 DEF ObserveGeneration, SlotTypes
    <2>6. CASE SeeRestart(w) \/ SeeNoRestart(w) \/ Register(w) \/ EndByFailure(w)
        BY <2>2, <2>6 DEF SeeRestart, SeeNoRestart, Register, EndByFailure
    <2>7. CASE EndByRepair(w)
        BY <2>2, <2>7 DEF EndByRepair
    <2> QED
        BY <1>2, <2>3, <2>4, <2>5, <2>6, <2>7 DEF Session
<1> QED
    BY <1>1, <1>2

LEMMA TypeStep ==
    ASSUME TypeOK, TargetsExist, [Next]_vars
    PROVE  TypeOK'
<1>1. ASSUME NEW r \in Readers, Receive(r) PROVE TypeOK'
    <2>1. ReaderTypes'
        BY <1>1, TypesSplit DEF Receive, ReaderTypes, ReaderSteps, Commands
    <2> QED
        BY <1>1, <2>1, TypesSplit DEF Receive, slotVars, sessionVars, SlotTypes, SessionTypes
<1>2. CASE UNCHANGED vars
    BY <1>2 DEF TypeOK, vars, slotVars, readerVars, sessionVars
<1> QED
    BY <1>1, <1>2, ReaderKeepsTypes, SessionKeepsTypes DEF Next

\* A step that leaves the commands of readers past LoadLast alone, or starts one on
\* a slot that was looked up, keeps their targets.
LEMMA TargetsStep ==
    ASSUME TypeOK, TargetsExist, [Next]_vars
    PROVE  TargetsExist'
<1> DEFINE Bound == {"cas", "ready", "bump", "restart", "notify"}
<1>1. ASSUME NEW r \in Readers, OnlyMoves(r), pc'[r] \notin Bound PROVE TargetsExist'
    BY <1>1, TargetKept DEF OnlyMoves, TargetsExist
<1>2. ASSUME NEW r \in Readers, NEW step, Goto(r, step), Target(r) \in Slots PROVE TargetsExist'
    BY <1>2, TargetKept DEF Goto, TypeOK, TargetsExist
<1>3. ASSUME UNCHANGED <<pc, command>> PROVE TargetsExist'
    BY <1>3, TargetKept DEF TargetsExist
<1>4. ASSUME NEW r \in Readers, Receive(r) PROVE TargetsExist'
    <2>1. OnlyMoves(r) /\ pc'[r] \notin Bound
        BY <1>4 DEF Receive, OnlyMoves, TypeOK, Commands
    <2> QED
        BY <2>1, <1>1
<1>5. ASSUME NEW r \in Readers, pc[r] # "idle", NextWorker(r) PROVE TargetsExist'
    BY <1>5, <1>1, NextWorkerType DEF OnlyMoves
<1>6. ASSUME NEW r \in Readers, Reader(r) PROVE TargetsExist'
    <2>1. CASE UnknownSlot(r) \/ OldSequence(r) \/ NotifyWaiters(r) \/ ApplyAlive(r)
        BY <2>1, <1>5 DEF UnknownSlot, OldSequence, NotifyWaiters, ApplyAlive
    <2>2. CASE LoadLast(r)
        BY <2>2, <1>2 DEF LoadLast
    <2>3. CASE CasLast(r)
        BY <2>3, <1>2, <1>3 DEF CasLast, TargetsExist
    <2>4. CASE LoadReady(r) \/ BumpCredential(r) \/ BumpRestart(r)
        BY <2>4, <1>2 DEF LoadReady, BumpCredential, BumpRestart, TargetsExist
    <2> QED
        BY <1>6, <2>1, <2>2, <2>3, <2>4 DEF Reader
<1>7. ASSUME NEW w \in Slots, Session(w) \/ EndByFailure(w) PROVE UNCHANGED <<pc, command>>
    BY <1>7 DEF Session, StartSession, MarkReadyLoad, MarkReadyStore, ObserveGeneration,
        SeeRestart, SeeNoRestart, Register, EndByRepair, EndByFailure, readerVars
<1>8. CASE UNCHANGED vars
    BY <1>8, <1>3 DEF vars, readerVars
<1> QED
    BY <1>3, <1>4, <1>6, <1>7, <1>8 DEF Next

\* Sessions, and readers away from the compare_exchange and the two counters, leave
\* everything that is counted alone.
Uncounted ==
    /\ UNCHANGED <<restart_generation, credential_generation, last_sequence, applied>>
    /\ \A w \in Slots : Owing(w)' = Owing(w) /\ Deciding(w)' = Deciding(w)

LEMMA QuietStep ==
    ASSUME TypeOK, [Next]_vars,
           \A r \in Readers : ~ (\/ CasLast(r) /\ SlotUnchanged(r)
                                 \/ LoadReady(r) \/ BumpCredential(r) \/ BumpRestart(r))
    PROVE  Uncounted
<1>1. ASSUME UNCHANGED <<pc, command>> PROVE \A w \in Slots : Owing(w)' = Owing(w) /\ Deciding(w)' = Deciding(w)
    BY <1>1, CountsUntouched
<1>2. ASSUME NEW r \in Readers, pc[r] \in {"repair", "alive", "cas", "notify"}, NextWorker(r)
      PROVE  \A w \in Slots : Owing(w)' = Owing(w) /\ Deciding(w)' = Deciding(w)
    <2>1. OnlyMoves(r) /\ pc'[r] \in {"idle", "repair", "alive"}
        BY <1>2, NextWorkerType DEF OnlyMoves
    <2> QED
        BY <1>2, <2>1, CountsKept
<1>3. ASSUME NEW r \in Readers, Receive(r) PROVE Uncounted
    <2>1. OnlyMoves(r) /\ pc'[r] \in {"repair", "alive"} /\ pc[r] = "idle"
        BY <1>3 DEF Receive, OnlyMoves, TypeOK, Commands
    <2> QED
        BY <1>3, <2>1, CountsKept DEF Receive, Uncounted, slotVars
<1>4. ASSUME NEW r \in Readers, Reader(r) PROVE Uncounted
    <2>1. CASE UnknownSlot(r) \/ OldSequence(r) \/ NotifyWaiters(r) \/ ApplyAlive(r)
        BY <2>1, <1>2 DEF UnknownSlot, OldSequence, NotifyWaiters, ApplyAlive, Uncounted, slotVars
    <2>2. CASE LoadLast(r)
        <3>1. OnlyMoves(r) /\ pc'[r] = "cas" /\ pc[r] = "repair"
            BY <2>2 DEF LoadLast, Goto, OnlyMoves, TypeOK
        <3> QED
            BY <2>2, <3>1, CountsKept DEF LoadLast, Uncounted, slotVars
    <2>3. CASE CasLast(r) /\ ~ SlotUnchanged(r)
        BY <2>3, <1>1 DEF CasLast, Uncounted
    <2> QED
        BY <1>4, <2>1, <2>2, <2>3 DEF Reader
<1>5. ASSUME NEW w \in Slots, Session(w) \/ EndByFailure(w) PROVE Uncounted
    <2>1. UNCHANGED <<pc, command, restart_generation, credential_generation, last_sequence, applied>>
        BY <1>5 DEF Session, StartSession, MarkReadyLoad, MarkReadyStore, ObserveGeneration,
            SeeRestart, SeeNoRestart, Register, EndByRepair, EndByFailure, readerVars, slotVars
    <2> QED
        BY <2>1, <1>1 DEF Uncounted
<1>6. CASE UNCHANGED vars
    BY <1>6, <1>1 DEF vars, readerVars, slotVars, Uncounted
<1> QED
    BY <1>3, <1>4, <1>5, <1>6 DEF Next

\* The counts a step of the apply_repair loop moves.
Counts ==
    AppliedUpToLast /\ OneRestartPerSequence /\ ResetsCounted

LEMMA QuietCounts ==
    ASSUME Counts, Uncounted
    PROVE  Counts'
BY DEF Counts, Uncounted, AppliedUpToLast, OneRestartPerSequence, ResetsCounted

\* The compare_exchange succeeds: one more sequence, one more reader that owes it.
LEMMA CasCounts ==
    ASSUME TypeOK, TargetsExist, Counts, NEW r \in Readers, CasLast(r), SlotUnchanged(r)
    PROVE  Counts'
<1>0. PICK t \in Slots : t = Target(r)
    BY DEF CasLast, TargetsExist
<1> DEFINE s == command[r].sequence
           step == IF current[r] # 0 THEN "ready" ELSE "restart"
<1>1. /\ t = Target(r) /\ pc[r] = "cas" /\ s > current[r] /\ last_sequence[t] = current[r]
      /\ Goto(r, step)
    BY <1>0 DEF CasLast, SlotUnchanged
<1>2. s \in 1 .. MaxSequence /\ current[r] \in 0 .. MaxSequence
    BY <1>1, CommandInHand DEF TypeOK, Sequences
<1>3. /\ last_sequence' = [last_sequence EXCEPT ![t] = s]
      /\ applied' = [applied EXCEPT ![t] = @ \union {s}]
      /\ UNCHANGED <<restart_generation, credential_generation>>
    BY <1>0 DEF CasLast
<1>4. AppliedUpToLast'
    <2>1. applied[t] \subseteq 1 .. current[r]
        BY <1>1 DEF Counts, AppliedUpToLast
    <2>2. applied'[t] = applied[t] \union {s} /\ last_sequence'[t] = s
        BY <1>1, <1>3 DEF TypeOK
    <2>3. applied'[t] \subseteq 1 .. s /\ s \in applied'[t]
        BY <2>1, <2>2, <1>1, <1>2
    <2>4. \A w \in Slots \ {t} : applied'[w] = applied[w] /\ last_sequence'[w] = last_sequence[w]
        BY <1>3 DEF TypeOK
    <2> QED
        BY <2>2, <2>3, <2>4 DEF Counts, AppliedUpToLast
<1>5. ASSUME NEW w \in Slots \ {t}
      PROVE  /\ applied'[w] = applied[w] /\ Owing(w)' = Owing(w) /\ Deciding(w)' = Deciding(w)
    <2>1. r \notin Owing(w) /\ r \notin Deciding(w) /\ t # w
        BY <1>1, <1>5 DEF Owing, Deciding
    <2>2. applied'[w] = applied[w]
        BY <1>3, <2>1 DEF TypeOK
    <2>3. /\ Owing(w)' = {q \in Owing(w) : q # r} \union
                 {q \in {r} : step \in {"ready", "bump", "restart"} /\ t = w}
          /\ Deciding(w)' = {q \in Deciding(w) : q # r} \union
                 {q \in {r} : step \in {"ready", "bump"} /\ t = w}
        BY <1>1, <1>5, CountsMoved
    <2> HIDE DEF step
    <2> QED
        BY <2>1, <2>2, <2>3
<1>6. /\ s \notin applied[t] /\ r \notin Owing(t) /\ r \notin Deciding(t)
    BY <1>1, <1>2 DEF Counts, AppliedUpToLast, Owing, Deciding
<1>7. /\ applied'[t] = applied[t] \union {s}
      /\ Owing(t)' = Owing(t) \union {r}
      /\ Deciding(t)' = IF current[r] # 0 THEN Deciding(t) \union {r} ELSE Deciding(t)
    <2>1. applied'[t] = applied[t] \union {s}
        BY <1>1, <1>3 DEF TypeOK
    <2>2. step \in {"ready", "restart"} /\ (step = "ready" <=> current[r] # 0)
        OBVIOUS
    <2>3. Owing(t)' = Owing(t) \union {r}
        BY <1>1, <1>6, <2>2, CountsMoved
    <2>4. Deciding(t)' = IF current[r] # 0 THEN Deciding(t) \union {r} ELSE Deciding(t)
        BY <1>1, <1>6, <2>2, CountsMoved
    <2> QED
        BY <2>1, <2>3, <2>4
<1>8. /\ Cardinality(applied'[t]) = Cardinality(applied[t]) + 1
      /\ Cardinality(Owing(t)') = Cardinality(Owing(t)) + 1
      /\ Cardinality(Deciding(t)') =
            IF current[r] # 0 THEN Cardinality(Deciding(t)) + 1 ELSE Cardinality(Deciding(t))
      /\ Cardinality(applied[t]) \in Nat /\ Cardinality(Owing(t)) \in Nat
      /\ Cardinality(Deciding(t)) \in Nat
    <2>1. /\ IsFiniteSet(Owing(t)) /\ IsFiniteSet(Deciding(t)) /\ IsFiniteSet(applied[t])
          /\ Cardinality(applied[t]) \in Nat /\ Cardinality(Owing(t)) \in Nat
          /\ Cardinality(Deciding(t)) \in Nat
        BY <1>1, CountedSets DEF Counts
    <2>2. /\ Cardinality(applied[t] \union {s}) = Cardinality(applied[t]) + 1
          /\ Cardinality(Owing(t) \union {r}) = Cardinality(Owing(t)) + 1
          /\ Cardinality(Deciding(t) \union {r}) = Cardinality(Deciding(t)) + 1
        BY <2>1, <1>6, FS_AddElement
    <2> QED
        BY <1>7, <2>1, <2>2
<1>9. current[r] # 0 => Cardinality(applied[t]) # 0
    <2>1. current[r] # 0 => applied[t] # {}
        BY <1>1 DEF Counts, AppliedUpToLast
    <2> QED
        BY <1>1, <2>1, CountedSets, FS_EmptySet DEF Counts
<1>10. OneRestartPerSequence'
    <2>1. restart_generation[t] \in Nat
        BY <1>1 DEF TypeOK
    <2>2. restart_generation[t] + Cardinality(Owing(t)) = Cardinality(applied[t])
        BY <1>1 DEF Counts, OneRestartPerSequence
    <2>3. restart_generation'[t] + Cardinality(Owing(t)') = Cardinality(applied'[t])
        BY <1>3, <1>8, <2>1, <2>2
    <2>4. ASSUME NEW w \in Slots \ {t}
          PROVE  restart_generation'[w] + Cardinality(Owing(w)') = Cardinality(applied'[w])
        BY <1>3, <1>5, <2>4 DEF Counts, OneRestartPerSequence
    <2> QED
        BY <2>3, <2>4 DEF OneRestartPerSequence
<1>11. ResetsCounted'
    <2>1. credential_generation[t] \in Nat
        BY <1>1 DEF TypeOK
    <2>2. LET asked == credential_generation[t] + Cardinality(Deciding(t))
          IN  asked = 0 \/ asked < Cardinality(applied[t])
        BY <1>1 DEF Counts, ResetsCounted
    <2>3. LET asked == credential_generation[t] + Cardinality(Deciding(t)')
          IN  asked = 0 \/ asked < Cardinality(applied'[t])
        BY <1>8, <1>9, <2>1, <2>2
    <2>4. ASSUME NEW w \in Slots \ {t}
          PROVE  LET asked == credential_generation[w] + Cardinality(Deciding(w)')
                 IN  asked = 0 \/ asked < Cardinality(applied'[w])
        BY <1>5, <2>4 DEF Counts, ResetsCounted
    <2>5. credential_generation' = credential_generation
        BY <1>3
    <2> QED
        BY <2>3, <2>4, <2>5 DEF ResetsCounted
<1> QED
    BY <1>4, <1>10, <1>11 DEF Counts

\* What is owed to one slot, before and after the decision and the two increments.
LEMMA BumpCounts ==
    ASSUME TypeOK, TargetsExist, Counts, NEW r \in Readers,
           LoadReady(r) \/ BumpCredential(r) \/ BumpRestart(r)
    PROVE  Counts'
<1>1. PICK t \in Slots : t = Target(r)
    BY DEF LoadReady, BumpCredential, BumpRestart, TargetsExist
<1>2. UNCHANGED <<last_sequence, applied>>
    BY DEF LoadReady, BumpCredential, BumpRestart, slotVars
<1>3. AppliedUpToLast'
    BY <1>2 DEF Counts, AppliedUpToLast
<1>4. PICK step \in {"bump", "restart", "notify"} : Goto(r, step)
    BY DEF LoadReady, BumpCredential, BumpRestart
<1>5. ASSUME NEW w \in Slots \ {t}
      PROVE  Owing(w)' = Owing(w) /\ Deciding(w)' = Deciding(w)
    <2>1. r \notin Owing(w) /\ r \notin Deciding(w) /\ Target(r) # w
        BY <1>1, <1>5 DEF Owing, Deciding
    <2> QED
        BY <1>4, <1>5, <2>1, CountsMoved
<1>6. /\ IsFiniteSet(Owing(t)) /\ IsFiniteSet(Deciding(t))
      /\ Cardinality(Owing(t)) \in Nat /\ Cardinality(Deciding(t)) \in Nat
      /\ Cardinality(applied[t]) \in Nat
      /\ restart_generation[t] \in Nat /\ credential_generation[t] \in Nat
    BY CountedSets DEF Counts, TypeOK
<1>7. /\ restart_generation[t] + Cardinality(Owing(t)) = Cardinality(applied[t])
      /\ LET asked == credential_generation[t] + Cardinality(Deciding(t))
         IN  asked = 0 \/ asked < Cardinality(applied[t])
    BY DEF Counts, OneRestartPerSequence, ResetsCounted
<1>8. ASSUME \A w \in Slots \ {t} : /\ restart_generation'[w] = restart_generation[w]
                                    /\ credential_generation'[w] = credential_generation[w],
             restart_generation'[t] + Cardinality(Owing(t)') = Cardinality(applied[t]),
             LET asked == credential_generation'[t] + Cardinality(Deciding(t)')
             IN  asked = 0 \/ asked < Cardinality(applied[t])
      PROVE  Counts'
    <2>1. OneRestartPerSequence'
        BY <1>2, <1>5, <1>8 DEF Counts, OneRestartPerSequence
    <2>2. ResetsCounted'
        BY <1>2, <1>5, <1>8 DEF Counts, ResetsCounted
    <2> QED
        BY <1>3, <2>1, <2>2 DEF Counts
<1>9. CASE LoadReady(r)
    <2>1. /\ pc[r] = "ready" /\ UNCHANGED <<restart_generation, credential_generation>>
          /\ \E next \in {"bump", "restart"} : Goto(r, next)
        BY <1>9 DEF LoadReady, slotVars
    <2>2. PICK next \in {"bump", "restart"} : Goto(r, next)
        BY <2>1
    <2>3. r \in Owing(t) /\ r \in Deciding(t)
        BY <1>1, <2>1 DEF Owing, Deciding
    <2>4. Owing(t)' = Owing(t) /\ Deciding(t)' \in {Deciding(t), Deciding(t) \ {r}}
        <3>1. CASE next = "bump"
            BY <1>1, <2>2, <2>3, <3>1, CountsMoved
        <3>2. CASE next = "restart"
            BY <1>1, <2>2, <2>3, <3>2, CountsMoved
        <3> QED
            BY <2>2, <3>1, <3>2
    <2>5. Cardinality(Deciding(t) \ {r}) = Cardinality(Deciding(t)) - 1
          /\ Cardinality(Deciding(t) \ {r}) \in Nat
        BY <1>6, <2>3, FS_RemoveElement, FS_CardinalityType
    <2> QED
        BY <1>6, <1>7, <1>8, <2>1, <2>4, <2>5
<1>10. CASE BumpCredential(r)
    <2>1. /\ pc[r] = "bump" /\ Goto(r, "restart") /\ UNCHANGED restart_generation
          /\ credential_generation' = [credential_generation EXCEPT ![t] = @ + 1]
        BY <1>1, <1>10 DEF BumpCredential
    <2>2. r \in Owing(t) /\ r \in Deciding(t)
        BY <1>1, <2>1 DEF Owing, Deciding
    <2>3. Owing(t)' = Owing(t) /\ Deciding(t)' = Deciding(t) \ {r}
        BY <1>1, <2>1, <2>2, CountsMoved
    <2>4. Cardinality(Deciding(t) \ {r}) = Cardinality(Deciding(t)) - 1
        BY <1>6, <2>2, FS_RemoveElement
    <2>5. /\ credential_generation'[t] = credential_generation[t] + 1
          /\ \A w \in Slots \ {t} : credential_generation'[w] = credential_generation[w]
        BY <2>1 DEF TypeOK
    <2> QED
        BY <1>6, <1>7, <1>8, <2>1, <2>3, <2>4, <2>5
<1>11. CASE BumpRestart(r)
    <2>1. /\ pc[r] = "restart" /\ Goto(r, "notify") /\ UNCHANGED credential_generation
          /\ restart_generation' = [restart_generation EXCEPT ![t] = @ + 1]
        BY <1>1, <1>11 DEF BumpRestart
    <2>2. r \in Owing(t) /\ r \notin Deciding(t)
        BY <1>1, <2>1 DEF Owing, Deciding
    <2>3. Owing(t)' = Owing(t) \ {r} /\ Deciding(t)' = Deciding(t)
        BY <1>1, <2>1, <2>2, CountsMoved
    <2>4. Cardinality(Owing(t) \ {r}) = Cardinality(Owing(t)) - 1
        BY <1>6, <2>2, FS_RemoveElement
    <2>5. /\ restart_generation'[t] = restart_generation[t] + 1
          /\ \A w \in Slots \ {t} : restart_generation'[w] = restart_generation[w]
        BY <2>1 DEF TypeOK
    <2> QED
        BY <1>6, <1>7, <1>8, <2>1, <2>3, <2>4, <2>5
<1> QED
    BY <1>9, <1>10, <1>11

LEMMA CountsStep ==
    ASSUME TypeOK, TargetsExist, Counts, [Next]_vars
    PROVE  Counts'
<1>1. CASE \E r \in Readers : \/ CasLast(r) /\ SlotUnchanged(r)
                              \/ LoadReady(r) \/ BumpCredential(r) \/ BumpRestart(r)
    BY <1>1, CasCounts, BumpCounts
<1>2. CASE \A r \in Readers : ~ (\/ CasLast(r) /\ SlotUnchanged(r)
                                 \/ LoadReady(r) \/ BumpCredential(r) \/ BumpRestart(r))
    BY <1>2, QuietStep, QuietCounts
<1> QED
    BY <1>1, <1>2

\* A session answers only what was asked since it started.
LEMMA InvalidationsStep ==
    ASSUME TypeOK, InvalidationsCounted, [Next]_vars
    PROVE  InvalidationsCounted'
<1>1. ASSUME \A w \in Slots : credential_generation'[w] >= credential_generation[w],
             UNCHANGED <<invalidations, credentials_seen>>,
             \A w \in Slots : session'[w] # "down" => session[w] # "down",
             \A w \in Slots : credential_generation'[w] \in Nat
      PROVE  InvalidationsCounted'
    BY <1>1 DEF InvalidationsCounted, TypeOK
<1>2. ASSUME UNCHANGED credential_generation, UNCHANGED <<invalidations, credentials_seen>>,
             \A w \in Slots : session'[w] # "down" => session[w] # "down"
      PROVE  InvalidationsCounted'
    BY <1>2 DEF InvalidationsCounted, TypeOK
<1>3. ASSUME NEW r \in Readers, Receive(r) \/ (Reader(r) /\ ~ BumpCredential(r))
      PROVE  InvalidationsCounted'
    <2>1. CASE NotifyWaiters(r)
        BY <1>2, <2>1 DEF NotifyWaiters, slotVars, TypeOK
    <2>2. CASE ~ NotifyWaiters(r)
        BY <1>2, <1>3, <2>2 DEF Receive, Reader, UnknownSlot, LoadLast, OldSequence, CasLast,
            LoadReady, BumpRestart, ApplyAlive, slotVars, sessionVars
    <2> QED
        BY <2>1, <2>2
<1>4. ASSUME NEW r \in Readers, BumpCredential(r) PROVE InvalidationsCounted'
    <2>1. /\ credential_generation' = [credential_generation EXCEPT ![Target(r)] = @ + 1]
          /\ UNCHANGED <<invalidations, credentials_seen, session>>
        BY <1>4 DEF BumpCredential, sessionVars
    <2>2. \A w \in Slots : /\ credential_generation[w] \in Nat
                          /\ credential_generation'[w] \in
                               {credential_generation[w], credential_generation[w] + 1}
        BY <2>1 DEF TypeOK
    <2>3. \A w \in Slots : credential_generation'[w] >= credential_generation[w]
        BY <2>2
    <2> QED
        BY <1>1, <2>1, <2>2, <2>3
<1>5. ASSUME NEW w \in Slots, Session(w) \/ EndByFailure(w) PROVE InvalidationsCounted'
    <2>1. CASE StartSession(w)
        BY <2>1 DEF StartSession, At, slotVars, InvalidationsCounted, TypeOK
    <2>2. CASE EndByRepair(w)
        <3>1. /\ session[w] = "repair" /\ session' = [session EXCEPT ![w] = "down"]
              /\ UNCHANGED <<credential_generation, credentials_seen>>
              /\ \/ UNCHANGED invalidations
                 \/ /\ invalidations' = [invalidations EXCEPT ![w] = @ + 1]
                    /\ credential_generation[w] > credentials_seen[w]
            BY <2>2 DEF EndByRepair, At, AsksForCredentials, slotVars, TypeOK
        <3> QED
            BY <3>1 DEF InvalidationsCounted, TypeOK
    <2>3. CASE ~ StartSession(w) /\ ~ EndByRepair(w)
        <3>1. /\ UNCHANGED <<credential_generation, invalidations, credentials_seen>>
              /\ session[w] # "down"
              /\ \E step \in SessionSteps : session' = [session EXCEPT ![w] = step]
            BY <1>5, <2>3 DEF Session, MarkReadyLoad, MarkReadyStore, ObserveGeneration,
                SeeRestart, SeeNoRestart, Register, EndByFailure, At, slotVars, SessionSteps
        <3> QED
            BY <3>1, <1>2 DEF TypeOK
    <2> QED
        BY <2>1, <2>2, <2>3
<1>6. CASE UNCHANGED vars
    BY <1>6, <1>2 DEF vars, slotVars, sessionVars
<1> QED
    BY <1>3, <1>4, <1>5, <1>6 DEF Next

-----------------------------------------------------------------------------
\* The invariant holds in every reachable state, for any readers, slots and sequences.
THEOREM RepairIsSafe == Spec => []RepairInv
<1>1. RepairInv /\ [Next]_vars => RepairInv'
    BY TypeStep, TargetsStep, CountsStep, InvalidationsStep DEF RepairInv, Counts
<1> QED
    BY <1>1, RepairInit, PTL DEF Spec

\* Every step of apply_repair, apply_alive and the session keeps the types of what
\* RepairState and the tasks hold.
THEOREM RepairTypes == Spec => []TypeOK
<1>1. RepairInv => TypeOK
    BY DEF RepairInv
<1> QED
    BY <1>1, RepairIsSafe, PTL

\* apply_repair restarts a stream once for every sequence it accepts, with any number of
\* reader tasks in the compare_exchange loop at once.
THEOREM RestartsAreExact == Spec => []OneRestartPerSequence
<1>1. RepairInv => OneRestartPerSequence
    BY DEF RepairInv
<1> QED
    BY <1>1, RepairIsSafe, PTL

\* apply_repair resets credentials only for a complaint that follows an earlier one.
THEOREM ResetsAreEarned == Spec => []ResetsNeedARepeat
<1>1. RepairInv => ResetsNeedARepeat
    <2> SUFFICES ASSUME RepairInv, NEW w \in Slots, credential_generation[w] # 0
                 PROVE  credential_generation[w] + Cardinality(Deciding(w)) < Cardinality(applied[w])
        BY DEF ResetsNeedARepeat
    <2>1. credential_generation[w] \in Nat /\ Cardinality(Deciding(w)) \in Nat
        BY CountedSets DEF RepairInv, TypeOK
    <2> QED
        BY <2>1 DEF RepairInv, ResetsCounted
<1> QED
    BY <1>1, RepairIsSafe, PTL

\* worker_loop drops the credentials of a stream at most once per requested reset.
THEOREM InvalidationsAreEarned == Spec => []InvalidationsAreRequested
<1>1. RepairInv => InvalidationsAreRequested
    BY DEF RepairInv, InvalidationsCounted, InvalidationsAreRequested
<1> QED
    BY <1>1, RepairIsSafe, PTL
=============================================================================
