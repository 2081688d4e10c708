-------------------------- MODULE CredentialsProofs --------------------------
(***************************************************************************)
(* The credential cohort for any number of workers, values and generations *)
(* of the credential, and the captcha's channel for any configuration.     *)
(*                                                                         *)
(* A lease names the generation it was taken from, generations are issued  *)
(* in order and none is issued while a lease of it is out: that is why a   *)
(* stale report never meets a credential it was not taken from, although   *)
(* the service may return the same value again.                            *)
(*                                                                         *)
(* At the end, why a request to the auth service cannot go on for ever.    *)
(***************************************************************************)
EXTENDS Credentials, FiniteSetTheorems, TLAPS

\* get_credentials returns one result.
OneAnswer == \A a, b \in answer : a = b

AuthInv == OneAnswer /\ AnswerIsFresh

\* The worker that asks the service is the one that holds the mutex, over an empty cache.
FetchingHoldsMutex ==
    /\ \A w \in Workers : pc[w] = "fetching" <=> w \in holder
    /\ holder # {} => current = {}

NoLeaseSteps == {"idle", "asked", "fetching"}

\* A worker has a lease from get to the end of its session, of a generation that was issued.
LeasesIssued ==
    \A w \in Workers :
        IF pc[w] \in NoLeaseSteps THEN lease[w] = NoLease
        ELSE lease[w] \in Leases /\ lease[w].generation \in 1 .. next_generation

CachedIssued == \A c \in current : c.generation \in 1 .. next_generation

CacheInv ==
    /\ TypeOK /\ FetchingHoldsMutex /\ LeasesIssued /\ CachedIssued /\ HoldersAreCounted

CredentialsInv == CacheInv /\ AuthInv

-----------------------------------------------------------------------------
(***************************************************************************)
(* The captcha's channel                                                   *)
(***************************************************************************)
\* No request of a path is followed by a wait for the window.
LEMMA FollowingRequests ==
    ASSUME NEW s \in DOMAIN Following
    PROVE  Following[s] \notin {"print", "wait"}
    BY DEF Following

\* What the front end submits while the solver waits carries the number of its window.
LEMMA SubmitIsFresh ==
    ASSUME AnswerIsFresh, NEW token, Submit(token), UNCHANGED <<at, window>>
    PROVE  AnswerIsFresh'
<1>1. CASE chan = <<>>
    <2>1. chan' = <<[token |-> token, window |-> window]>>
        BY <1>1 DEF Submit
    <2>2. DOMAIN chan' = {1} /\ chan'[1].window = window
        BY <2>1
    <2> QED
        BY <2>2 DEF AnswerIsFresh
<1>2. CASE chan # <<>>
    BY <1>2 DEF Submit, AnswerIsFresh
<1> QED
    BY <1>1, <1>2

LEMMA AuthInitial == AuthInit => AuthInv
    BY DEF AuthInit, AuthInv, OneAnswer, AnswerIsFresh

LEMMA AuthStep ==
    ASSUME AuthInv, GetCredentials \/ AuthEnvironment \/ Forget \/ UNCHANGED authVars
    PROVE  AuthInv'
<1> USE DEF AuthInv, OneAnswer
<1>1. CASE Begin
    BY <1>1 DEF Begin, Finish, AnswerIsFresh
<1>2. CASE Proceed
    BY <1>2, FollowingRequests DEF Proceed, Goto, AnswerIsFresh
<1>3. CASE Issue
    BY <1>3 DEF Issue, Finish, AnswerIsFresh
<1>4. CASE RetryRequest
    BY <1>4 DEF RetryRequest, AnswerIsFresh
<1>5. CASE BrokerFails \/ CallsFails \/ CallUnavailable
    BY <1>5 DEF BrokerFails, CallsFails, CallUnavailable, Goto, Finish, AnswerIsFresh
<1>6. CASE LegacyFails
    BY <1>6, FollowingRequests DEF LegacyFails, Goto, Finish, AnswerIsFresh, Following
<1>7. CASE AskCaptcha
    BY <1>7 DEF AskCaptcha, Goto, WaitRequired, Finish, AnswerIsFresh
<1>8. CASE Prepare \/ CheckAgain \/ SolveCheckbox \/ SolveSlider \/ SolverFails
    BY <1>8 DEF Prepare, CheckAgain, SolveCheckbox, SolveSlider, SolveWith, Checked, SolverFails, Goto,
                AnswerIsFresh
<1>9. CASE Drain
    BY <1>9 DEF Drain, DropAnswers, AnswerIsFresh
<1>10. CASE Ask
    BY <1>10 DEF Ask, AnswerIsFresh
<1>11. CASE TakeToken \/ WindowFails
    BY <1>11 DEF TakeToken, WindowFails, Goto, WaitRequired, Finish, AnswerIsFresh
<1>12. CASE LockoutEnds \/ WindowCloses
    BY <1>12 DEF LockoutEnds, WindowCloses, fetchVars, AnswerIsFresh
<1>13. CASE HandleSolveRequest
    BY <1>13, SubmitIsFresh DEF HandleSolveRequest, AnswerIsFresh
<1>14. CASE WindowFinishes
    BY <1>14, SubmitIsFresh DEF WindowFinishes
<1>15. CASE Forget
    BY <1>15 DEF Forget, AnswerIsFresh
<1>16. CASE UNCHANGED authVars
    BY <1>16 DEF authVars, fetchVars, AnswerIsFresh
<1> QED
    BY <1>1, <1>2, <1>3, <1>4, <1>5, <1>6, <1>7, <1>8, <1>9, <1>10, <1>11, <1>12, <1>13, <1>14, <1>15, <1>16
       DEF GetCredentials, AuthEnvironment

-----------------------------------------------------------------------------
(***************************************************************************)
(* The cache                                                               *)
(***************************************************************************)
\* The users of the credential in the cache are finitely many.
LEMMA HoldersFinite ==
    /\ IsFiniteSet(Holders) /\ Cardinality(Holders) \in Nat
    /\ \A S \in SUBSET Holders : IsFiniteSet(S) /\ Cardinality(S) \in Nat /\ Cardinality(S) <= Cardinality(Holders)
    /\ \A w \in Holders : Cardinality(Holders \ {w}) = Cardinality(Holders) - 1
    /\ \A w : Cardinality(Holders \union {w}) \in Nat /\ Cardinality(Holders \union {w}) <= Cardinality(Holders) + 1
<1>1. Holders \in SUBSET Workers
    BY DEF Holders
<1>2. IsFiniteSet(Holders)
    BY <1>1, CredentialConstants, FS_Subset
<1> QED
    BY <1>2, FS_CardinalityType, FS_Subset, FS_RemoveElement, FS_AddElement

\* A lease of the cached credential is a lease of its generation.
LEMMA CurrentLease ==
    ASSUME CacheInv, NEW c \in current, NEW w \in Workers
    PROVE  /\ current = {c}
           /\ c \in Cached /\ c.generation \in Nat \ {0}
           /\ IsCurrent(w) <=> c.generation = lease[w].generation /\ c.value = lease[w].value
           /\ IsCurrent(w) => pc[w] \notin NoLeaseSteps
<1>1. current = {c} /\ c \in Cached
    BY DEF CacheInv, TypeOK
<1>2. c.generation \in 1 .. next_generation /\ next_generation \in Nat
    BY DEF CacheInv, TypeOK, CachedIssued
<1>3. IsCurrent(w) <=> c.generation = lease[w].generation /\ c.value = lease[w].value
    BY <1>1 DEF IsCurrent
<1>4. IsCurrent(w) => pc[w] \notin NoLeaseSteps
    BY <1>2, <1>3 DEF CacheInv, LeasesIssued, NoLease
<1> QED
    BY <1>1, <1>2, <1>3, <1>4

\* A worker that gives up its lease no longer counts as a user, and the others stay what
\* they were as long as the cache holds the same generation of the same value.
LEMMA HoldersAfterDrop ==
    ASSUME CacheInv, NEW w \in Workers, NEW c \in current, NEW d \in current',
           current' = {d}, d.generation = c.generation, d.value = c.value,
           \/ lease' = [lease EXCEPT ![w] = NoLease]
           \/ lease' = lease /\ pc'[w] = "failed",
           \A v \in Workers \ {w} : pc'[v] = pc[v]
    PROVE  Holders' = Holders \ {w}
<1>1. \A v \in Workers : IsCurrent(v) <=> c.generation = lease[v].generation /\ c.value = lease[v].value
    BY CurrentLease
<1>2. \A v \in Workers : IsCurrent(v)' <=> d.generation = lease'[v].generation /\ d.value = lease'[v].value
    BY DEF IsCurrent
<1>3. \A v \in Workers \ {w} : lease'[v] = lease[v]
    BY DEF CacheInv, TypeOK
<1>4. c.generation # 0
    BY CurrentLease
<1>5. pc'[w] = "failed" \/ ~ IsCurrent(w)'
    BY <1>2, <1>4 DEF NoLease, CacheInv, TypeOK
<1> QED
    BY <1>1, <1>2, <1>3, <1>5 DEF Holders

LEMMA CacheInitial == Init => CacheInv
<1> SUFFICES ASSUME Init PROVE CacheInv
    OBVIOUS
<1> USE DEF Init
<1>1. TypeOK
    BY DEF TypeOK, InSession
<1>2. FetchingHoldsMutex /\ CachedIssued /\ HoldersAreCounted
    BY DEF FetchingHoldsMutex, CachedIssued, HoldersAreCounted
<1>3. LeasesIssued
    BY DEF LeasesIssued, NoLeaseSteps
<1> QED
    BY <1>1, <1>2, <1>3 DEF CacheInv

\* A step of the auth service or of the call leaves the cache as it is.
LEMMA OutsideStep ==
    ASSUME CacheInv, UNCHANGED <<cacheVars, holder, pc, lease>>, unavailable' \in BOOLEAN
    PROVE  CacheInv'
<1> USE DEF CacheInv, cacheVars
<1>1. Holders' = Holders
    BY DEF Holders, IsCurrent
<1>2. HoldersAreCounted'
    BY <1>1 DEF HoldersAreCounted
<1>3. TypeOK' /\ FetchingHoldsMutex' /\ LeasesIssued' /\ CachedIssued'
    BY DEF TypeOK, FetchingHoldsMutex, LeasesIssued, CachedIssued
<1> QED
    BY <1>2, <1>3

\* A session ends; what its report leaves in the cache is the credential that was there.
LEMMA ReportStep ==
    ASSUME CacheInv, NEW w \in Workers, pc[w] \in InSession,
           pc' = [pc EXCEPT ![w] = "idle"], lease' = [lease EXCEPT ![w] = NoLease],
           UNCHANGED <<next_generation, holder, unavailable>>,
           quota_blocked' \subseteq Values,
           current' \subseteq Cached,
           \A d \in current' : \E c \in current :
               current' = {d} /\ d.generation = c.generation /\ d.value = c.value /\ d.attempts = c.attempts
    PROVE  CacheInv'
<1> USE DEF CacheInv
<1>1. TypeOK'
    <2>1. \A c, d \in current' : c = d
        OBVIOUS
    <2>2. pc' \in [Workers -> {"idle", "asked", "fetching", "leased"} \union InSession]
        BY DEF TypeOK
    <2>3. lease' \in [Workers -> Leases \union {NoLease}]
        BY DEF TypeOK
    <2> QED
        BY <2>1, <2>2, <2>3 DEF TypeOK
<1>2. FetchingHoldsMutex'
    BY DEF TypeOK, FetchingHoldsMutex, InSession
<1>3. LeasesIssued' /\ CachedIssued'
    BY DEF TypeOK, LeasesIssued, NoLeaseSteps, CachedIssued
<1>4. HoldersAreCounted'
    <2> SUFFICES ASSUME NEW d \in current'
                 PROVE  Cardinality(Holders') <= d.attempts /\ d.attempts <= WorkersPerCredential
        BY DEF HoldersAreCounted
    <2>1. PICK c \in current : /\ current' = {d} /\ d.generation = c.generation
                               /\ d.value = c.value /\ d.attempts = c.attempts
        OBVIOUS
    <2>2. Holders' = Holders \ {w}
        BY <2>1, HoldersAfterDrop DEF TypeOK
    <2>3. Cardinality(Holders') \in Nat /\ Cardinality(Holders') <= Cardinality(Holders) /\ Cardinality(Holders) \in Nat
        BY <2>2, HoldersFinite
    <2>4. d.attempts \in Nat /\ Cardinality(Holders) <= c.attempts /\ c.attempts <= WorkersPerCredential
        BY <2>1 DEF HoldersAreCounted, Cached
    <2> QED
        BY <2>1, <2>3, <2>4, CredentialConstants
<1> QED
    BY <1>1, <1>2, <1>3, <1>4

\* get is over without a lease; it leaves the cache empty or with what it has stored.
LEMMA GiveUpStep ==
    ASSUME CacheInv, NEW w \in Workers, GiveUp(w), unavailable' \in BOOLEAN,
           \/ UNCHANGED cacheVars
           \/ /\ next_generation' = next_generation + 1 /\ quota_blocked' = {}
              /\ OneAnswer /\ current' = Stored
    PROVE  CacheInv'
<1> USE DEF CacheInv, GiveUp, Step
<1>1. current = {} /\ holder = {w}
    BY DEF FetchingHoldsMutex, TypeOK
<1>2. \/ current' = {}
      \/ current' = Stored /\ OneAnswer /\ next_generation' = next_generation + 1
    BY <1>1 DEF cacheVars
<1>3. current' \subseteq Cached /\ \A c, d \in current' : c = d
    BY <1>2 DEF Stored, Cached, OneAnswer, TypeOK
<1>4. TypeOK'
    <2>1. quota_blocked' \subseteq Values /\ next_generation' \in Nat
        BY DEF TypeOK, cacheVars
    <2>2. pc' \in [Workers -> {"idle", "asked", "fetching", "leased"} \union InSession]
        BY DEF TypeOK
    <2> QED
        BY <1>3, <2>1, <2>2 DEF TypeOK
<1>5. FetchingHoldsMutex'
    BY <1>1 DEF TypeOK, FetchingHoldsMutex
<1>6. next_generation' \in Nat /\ next_generation <= next_generation'
    BY DEF cacheVars, TypeOK
<1>7. LeasesIssued'
    BY <1>6 DEF TypeOK, LeasesIssued, NoLeaseSteps
<1>8. \A c \in current' : c.generation = next_generation + 1 /\ c.attempts = 0 /\ next_generation' = next_generation + 1
    BY <1>2 DEF Stored
<1>9. CachedIssued'
    BY <1>8 DEF CachedIssued, TypeOK
<1>10. HoldersAreCounted'
    <2> SUFFICES ASSUME NEW c \in current'
                 PROVE  Cardinality(Holders') <= c.attempts /\ c.attempts <= WorkersPerCredential
        BY DEF HoldersAreCounted
    <2>1. \A v \in Workers : lease[v].generation # next_generation + 1
        BY DEF LeasesIssued, TypeOK, NoLease
    <2>2. Holders' = {}
        BY <1>8, <2>1 DEF Holders, IsCurrent
    <2> QED
        BY <1>8, <2>2, FS_EmptySet, CredentialConstants
<1> QED
    BY <1>4, <1>5, <1>7, <1>9, <1>10

\* A worker goes on without touching the cache or its lease.
LEMMA WalkStep ==
    ASSUME CacheInv, NEW w \in Workers, UNCHANGED <<cacheVars, holder, unavailable, lease>>,
           \/ Step(w, "idle", "asked")
           \/ Step(w, "leased", "session")
    PROVE  CacheInv'
<1> USE DEF CacheInv, Step, cacheVars
<1>1. TypeOK' /\ FetchingHoldsMutex' /\ LeasesIssued' /\ CachedIssued'
    BY DEF TypeOK, FetchingHoldsMutex, LeasesIssued, NoLeaseSteps, CachedIssued, InSession
<1>2. \A v \in Workers : pc[v] = "failed" <=> pc'[v] = "failed"
    BY DEF TypeOK
<1>3. Holders' = Holders
    BY <1>2 DEF Holders, IsCurrent
<1> QED
    BY <1>1, <1>3 DEF HoldersAreCounted

LEMMA GetCachedStep ==
    ASSUME CacheInv, NEW w \in Workers, GetCached(w)
    PROVE  CacheInv'
<1> USE DEF CacheInv, GetCached, Step, MutexFree
<1>1. PICK c \in current : Usable(c) /\ Reserve(w, c)
    OBVIOUS
<1> DEFINE d == [c EXCEPT !.attempts = @ + 1]
<1>2. /\ current' = {d} /\ current = {c} /\ c \in Cached /\ d \in Cached
      /\ d.generation = c.generation /\ d.value = c.value /\ d.attempts = c.attempts + 1
    BY <1>1, CurrentLease DEF Reserve, Cached
<1>3. lease' = [lease EXCEPT ![w] = [value |-> c.value, generation |-> c.generation]]
    BY <1>1 DEF Reserve
<1>4. /\ [value |-> c.value, generation |-> c.generation] \in Leases
      /\ c.generation \in 1 .. next_generation
    BY <1>2 DEF Cached, Leases, CachedIssued
<1> HIDE DEF d
<1>5. TypeOK'
    BY <1>2, <1>3, <1>4 DEF TypeOK
<1>6. FetchingHoldsMutex' /\ LeasesIssued' /\ CachedIssued'
    BY <1>2, <1>3, <1>4 DEF TypeOK, FetchingHoldsMutex, LeasesIssued, NoLeaseSteps, CachedIssued
<1>7. Holders' = Holders \union {w}
    <2>1. \A v \in Workers \ {w} : pc'[v] = pc[v] /\ lease'[v] = lease[v]
        BY <1>3 DEF TypeOK
    <2>2. \A v \in Workers \ {w} : IsCurrent(v)' <=> IsCurrent(v)
        BY <1>2, <2>1 DEF IsCurrent
    <2>3. pc'[w] = "leased" /\ IsCurrent(w)'
        BY <1>2, <1>3 DEF IsCurrent, TypeOK
    <2> QED
        BY <2>1, <2>2, <2>3 DEF Holders
<1>8. c.attempts \in Nat /\ c.attempts < WorkersPerCredential /\ Cardinality(Holders) <= c.attempts
    BY <1>1, <1>2 DEF Usable, Cached, HoldersAreCounted
<1>9. Cardinality(Holders') <= d.attempts /\ d.attempts <= WorkersPerCredential
    <2>1. /\ Cardinality(Holders \union {w}) \in Nat /\ Cardinality(Holders) \in Nat
          /\ Cardinality(Holders \union {w}) <= Cardinality(Holders) + 1
        BY HoldersFinite
    <2> QED
        BY <1>2, <1>7, <1>8, <2>1, CredentialConstants
<1> QED
    BY <1>2, <1>5, <1>6, <1>9 DEF HoldersAreCounted

LEMMA GetFetchStep ==
    ASSUME CacheInv, NEW w \in Workers, GetFetch(w)
    PROVE  CacheInv'
    BY DEF CacheInv, GetFetch, Step, MutexFree, TypeOK, FetchingHoldsMutex, LeasesIssued, NoLeaseSteps,
           CachedIssued, HoldersAreCounted

\* The new credential has a generation that no lease names, so its only user is the worker
\* that fetched it.
LEMMA FetchStoredStep ==
    ASSUME CacheInv, NEW w \in Workers, FetchStored(w)
    PROVE  CacheInv'
<1> USE DEF CacheInv, FetchStored, Step
<1>1. PICK c \in Stored : Reserve(w, c)
    OBVIOUS
<1>2. /\ c \in Cached /\ c.generation = next_generation + 1 /\ c.attempts = 0
      /\ next_generation \in Nat /\ next_generation' = next_generation + 1
    BY DEF Stored, Cached, TypeOK
<1> DEFINE d == [c EXCEPT !.attempts = @ + 1]
<1>3. /\ current' = {d} /\ d \in Cached
      /\ d.generation = c.generation /\ d.value = c.value /\ d.attempts = 1
    BY <1>1, <1>2 DEF Reserve, Cached
<1> HIDE DEF d
<1>4. lease' = [lease EXCEPT ![w] = [value |-> c.value, generation |-> c.generation]]
    BY <1>1 DEF Reserve
<1>5. [value |-> c.value, generation |-> c.generation] \in Leases
    BY <1>2 DEF Cached, Leases
<1>6. TypeOK'
    BY <1>2, <1>3, <1>4, <1>5 DEF TypeOK
<1>7. holder = {w}
    BY DEF FetchingHoldsMutex, TypeOK
<1>8. FetchingHoldsMutex' /\ CachedIssued'
    BY <1>2, <1>3, <1>7 DEF TypeOK, FetchingHoldsMutex, CachedIssued
<1>9. LeasesIssued'
    BY <1>2, <1>4, <1>5 DEF TypeOK, LeasesIssued, NoLeaseSteps
<1>10. Holders' \subseteq {w}
    <2>1. \A v \in Workers \ {w} : lease'[v] = lease[v]
        BY <1>4 DEF TypeOK
    <2>2. \A v \in Workers : lease[v].generation # next_generation + 1
        BY DEF LeasesIssued, TypeOK, NoLease
    <2> QED
        BY <1>2, <1>3, <2>1, <2>2 DEF Holders, IsCurrent
<1>11. Cardinality(Holders') <= 1
    <2>1. IsFiniteSet({w}) /\ Cardinality({w}) = 1
        BY FS_Singleton
    <2> QED
        BY <1>10, <2>1, FS_Subset
<1> QED
    BY <1>3, <1>6, <1>8, <1>9, <1>11, CredentialConstants DEF HoldersAreCounted

\* A release counts down only for a worker that is counted, so the counter stays above
\* the others (saturating_sub never saturates here).
LEMMA ReleaseStep ==
    ASSUME CacheInv, NEW w \in Workers, MutexFree, GiveBack(w),
           UNCHANGED <<quota_blocked, next_generation, holder, unavailable>>,
           \/ Step(w, "leased", "idle") /\ lease' = [lease EXCEPT ![w] = NoLease]
           \/ Step(w, "session", "failed") /\ lease' = lease
    PROVE  CacheInv'
<1> USE DEF CacheInv, Step, MutexFree
<1>1. ASSUME NEW c \in current
      PROVE  \E d \in Cached :
                /\ current' = {d} /\ d.generation = c.generation /\ d.value = c.value
                /\ d.attempts = IF IsCurrent(w) THEN OneLess(c.attempts) ELSE c.attempts
    <2>1. current = {c} /\ c \in Cached
        BY <1>1, CurrentLease
    <2>2. CASE IsCurrent(w)
        <3> DEFINE d == [c EXCEPT !.attempts = OneLess(@)]
        <3>1. d \in Cached /\ d.generation = c.generation /\ d.value = c.value /\ d.attempts = OneLess(c.attempts)
            BY <2>1 DEF Cached, OneLess
        <3>2. current' = {d}
            BY <2>1, <2>2 DEF GiveBack
        <3> QED
            BY <2>2, <3>1, <3>2
    <2>3. CASE ~ IsCurrent(w)
        BY <2>1, <2>3 DEF GiveBack
    <2> QED
        BY <2>2, <2>3
<1>2. current = {} => current' = {}
    BY DEF GiveBack, IsCurrent
<1>3. current' \subseteq Cached /\ \A c, d \in current' : c = d
    BY <1>1, <1>2
<1>4. CachedIssued'
    BY <1>1, <1>2 DEF CachedIssued
<1>5. TypeOK'
    BY <1>3 DEF TypeOK, InSession
<1>6. FetchingHoldsMutex' /\ LeasesIssued'
    BY DEF TypeOK, FetchingHoldsMutex, LeasesIssued, NoLeaseSteps
<1>7. HoldersAreCounted'
    <2> SUFFICES ASSUME NEW d \in current'
                 PROVE  Cardinality(Holders') <= d.attempts /\ d.attempts <= WorkersPerCredential
        BY DEF HoldersAreCounted
    <2>1. PICK c \in current : TRUE
        BY <1>2
    <2>2. /\ d \in Cached /\ current' = {d} /\ d.generation = c.generation /\ d.value = c.value
          /\ d.attempts = IF IsCurrent(w) THEN OneLess(c.attempts) ELSE c.attempts
        BY <1>1, <2>1
    <2>3. \A v \in Workers \ {w} : pc'[v] = pc[v]
        BY DEF TypeOK
    <2>4. lease' = [lease EXCEPT ![w] = NoLease] \/ (lease' = lease /\ pc'[w] = "failed")
        BY DEF TypeOK
    <2>5. Holders' = Holders \ {w}
        BY <2>2, <2>3, <2>4, HoldersAfterDrop
    <2>6. c.attempts \in Nat /\ Cardinality(Holders) <= c.attempts /\ c.attempts <= WorkersPerCredential
        BY <2>1, CurrentLease DEF Cached, HoldersAreCounted
    <2>7. CASE IsCurrent(w)
        <3>1. w \in Holders
            BY <2>7 DEF Holders
        <3>2. Cardinality(Holders') = Cardinality(Holders) - 1 /\ Cardinality(Holders) \in Nat
            BY <2>5, <3>1, HoldersFinite
        <3>3. Cardinality(Holders') \in Nat
            BY <2>5, HoldersFinite
        <3> QED
            BY <2>2, <2>6, <2>7, <3>2, <3>3, CredentialConstants DEF OneLess
    <2>8. CASE ~ IsCurrent(w)
        <3>1. Cardinality(Holders') <= Cardinality(Holders) /\ Cardinality(Holders') \in Nat /\ Cardinality(Holders) \in Nat
            BY <2>5, HoldersFinite
        <3> QED
            BY <2>2, <2>6, <2>8, <3>1, CredentialConstants
    <2> QED
        BY <2>7, <2>8
<1> QED
    BY <1>3, <1>4, <1>5, <1>6, <1>7

LEMMA RecordAllocationStep ==
    ASSUME CacheInv, NEW w \in Workers, RecordAllocation(w)
    PROVE  CacheInv'
<1> USE DEF CacheInv, RecordAllocation, Step, MutexFree
<1>1. ASSUME NEW c \in current
      PROVE  \E d \in Cached : /\ current' = {d} /\ d.generation = c.generation
                               /\ d.value = c.value /\ d.attempts = c.attempts
    <2>1. current = {c} /\ c \in Cached
        BY <1>1, CurrentLease
    <2> DEFINE d == [c EXCEPT !.mismatches = 0]
    <2>2. d \in Cached /\ d.generation = c.generation /\ d.value = c.value /\ d.attempts = c.attempts
        BY <2>1 DEF Cached
    <2>3. current' = {d} \/ current' = {c}
        BY <2>1
    <2> QED
        BY <2>1, <2>2, <2>3
<1>2. current = {} => current' = {}
    BY DEF IsCurrent
<1>3. current' \subseteq Cached /\ \A c, d \in current' : c = d
    BY <1>1, <1>2
<1>4. CachedIssued'
    BY <1>1, <1>2 DEF CachedIssued
<1>5. TypeOK' /\ FetchingHoldsMutex' /\ LeasesIssued'
    BY <1>3 DEF TypeOK, InSession, FetchingHoldsMutex, LeasesIssued, NoLeaseSteps
<1>6. \A v \in Workers : pc'[v] = "failed" <=> pc[v] = "failed"
    BY DEF TypeOK
<1>7. \A v \in Workers : IsCurrent(v)' <=> IsCurrent(v)
    BY <1>1, <1>2, CurrentLease DEF IsCurrent
<1>8. Holders' = Holders
    BY <1>6, <1>7 DEF Holders
<1>9. HoldersAreCounted'
    BY <1>1, <1>2, <1>8 DEF HoldersAreCounted
<1> QED
    BY <1>4, <1>5, <1>9

\* The end of a session, with each of the reports that worker_loop makes of it.
LEMMA SessionOverStep ==
    ASSUME CacheInv, NEW w \in Workers,
           EndSession(w) \/ Invalidate(w) \/ RotateAfterQuota(w) \/ RetryAfterMismatch(w)
    PROVE  CacheInv'
<1> USE DEF CacheInv
<1>1. CASE EndSession(w)
    BY <1>1, ReportStep DEF EndSession, cacheVars, TypeOK
<1>2. CASE Invalidate(w)
    BY <1>2, ReportStep DEF Invalidate, Report, TypeOK
<1>3. CASE RotateAfterQuota(w)
    <2>1. lease[w].value \in Values
        BY <1>3 DEF RotateAfterQuota, Report, LeasesIssued, InSession, NoLeaseSteps, Leases
    <2>2. quota_blocked' \subseteq Values /\ (current' = {} \/ current' = current)
        BY <1>3, <2>1 DEF RotateAfterQuota, TypeOK
    <2> QED
        BY <1>3, <2>2, ReportStep DEF RotateAfterQuota, Report, TypeOK
<1>4. CASE RetryAfterMismatch(w)
    <2> USE <1>4 DEF RetryAfterMismatch, Report
    <2>1. ASSUME NEW d \in current'
          PROVE  /\ d \in Cached
                 /\ \E c \in current : /\ current' = {d} /\ d.generation = c.generation
                                       /\ d.value = c.value /\ d.attempts = c.attempts
        <3>1. CASE ~ IsCurrent(w)
            BY <2>1, <3>1 DEF TypeOK
        <3>2. CASE IsCurrent(w)
            <4>1. PICK c \in FirstMismatch : d = [c EXCEPT !.mismatches = @ + 1]
                BY <2>1, <3>2
            <4>2. current = {c} /\ c \in Cached /\ c.mismatches = 0
                BY <4>1, CurrentLease DEF FirstMismatch
            <4>3. current' = {d}
                BY <3>2, <4>1, <4>2 DEF FirstMismatch
            <4> QED
                BY <4>1, <4>2, <4>3 DEF Cached
        <3> QED
            BY <3>1, <3>2
    <2>2. current' \subseteq Cached /\ quota_blocked' \subseteq Values
        BY <2>1 DEF TypeOK
    <2>3. /\ pc[w] \in InSession /\ pc' = [pc EXCEPT ![w] = "idle"] /\ lease' = [lease EXCEPT ![w] = NoLease]
          /\ UNCHANGED <<next_generation, holder, unavailable>>
        OBVIOUS
    <2> HIDE <1>4
    <2> HIDE DEF CacheInv, RetryAfterMismatch, Report
    <2> QED
        BY <2>1, <2>2, <2>3, ReportStep
<1> QED
    BY <1>1, <1>2, <1>3, <1>4

LEMMA CredentialsStep == CredentialsInv /\ [Next]_vars => CredentialsInv'
<1> SUFFICES ASSUME CredentialsInv, [Next]_vars PROVE CredentialsInv'
    OBVIOUS
<1> USE DEF CredentialsInv
<1>1. AuthInv'
    <2>1. GetCredentials \/ AuthEnvironment \/ Forget \/ UNCHANGED authVars
        BY DEF Next, Worker, Getting, AskLease, GetCached, GetFetch, Fetch, FetchRefused, FetchStored, FetchFailed,
               FetchCancelled, FetchUnused, FetchUnavailable, GiveUp, StartSession, Release, ReleaseUsed,
               RecordAllocation, EndSession, Invalidate, RotateAfterQuota, RetryAfterMismatch, Report,
               CallDied, Environment, vars
    <2> QED
        BY <2>1, AuthStep
<1>2. CacheInv'
    <2>1. CASE UNCHANGED vars \/ CallDied \/ Environment
        BY <2>1, OutsideStep DEF vars, CallDied, Environment, CacheInv, TypeOK, cacheVars
    <2>2. ASSUME NEW w \in Workers, AskLease(w) \/ StartSession(w) PROVE CacheInv'
        BY <2>2, WalkStep DEF AskLease, StartSession
    <2>3. ASSUME NEW w \in Workers, Fetch(w) PROVE CacheInv'
        BY <2>3, OutsideStep DEF Fetch, CacheInv, TypeOK
    <2>4. ASSUME NEW w \in Workers,
                 FetchRefused(w) \/ FetchFailed(w) \/ FetchCancelled(w) \/ FetchUnused(w) \/ FetchUnavailable(w)
          PROVE  CacheInv'
        BY <2>4, GiveUpStep DEF FetchRefused, FetchFailed, FetchCancelled, FetchUnused, FetchUnavailable,
                                CacheInv, TypeOK, AuthInv
    <2>5. ASSUME NEW w \in Workers, Release(w) \/ ReleaseUsed(w) PROVE CacheInv'
        BY <2>5, ReleaseStep DEF Release, ReleaseUsed
    <2> QED
        BY <2>1, <2>2, <2>3, <2>4, <2>5, GetCachedStep, GetFetchStep, FetchStoredStep, RecordAllocationStep,
           SessionOverStep
           DEF Next, Worker, Getting
<1> QED
    BY <1>1, <1>2

\* The invariant of the cohort and of the captcha's channel holds in every run.
THEOREM CredentialsInvariant == Spec => []CredentialsInv
<1>1. Init => CredentialsInv
    BY CacheInitial, AuthInitial DEF Init, CredentialsInv
<1>2. CredentialsInv /\ [Next]_vars => CredentialsInv'
    BY CredentialsStep
<1> QED
    BY <1>1, <1>2, PTL DEF Spec

\* attempts never runs below the workers that use the credential, nor above
\* WORKERS_PER_CREDENTIAL (CredentialCache::reserve and release).
THEOREM UsersAreCounted == Spec => []HoldersAreCounted
<1>1. CredentialsInv => HoldersAreCounted
    BY DEF CredentialsInv, CacheInv
<1> QED
    BY <1>1, CredentialsInvariant, PTL

\* One worker of the cohort asks the auth service, over a cache that stays empty until
\* its answer comes (GroupCredentials::get keeps the mutex across fetch).
THEOREM OneFetch == Spec => []OneFetchAtATime
<1>1. CredentialsInv => OneFetchAtATime
    BY DEF CredentialsInv, CacheInv, TypeOK, FetchingHoldsMutex, OneFetchAtATime
<1> QED
    BY <1>1, CredentialsInvariant, PTL

\* No answer of an earlier window waits in the channel when the solver waits for its own
\* (CaptchaSolver::webview drains the channel before it asks).
THEOREM CaptchaAnswersAreFresh == Spec => []AnswerIsFresh
<1>1. CredentialsInv => AnswerIsFresh
    BY DEF CredentialsInv, AuthInv
<1> QED
    BY <1>1, CredentialsInvariant, PTL

\* A credential leaves the cache when it is used up, or with the report of a worker that
\* leased that very generation (CredentialCache::invalidate and its siblings).
THEOREM CredentialsDroppedByUsers == Spec => DroppedByItsUsers
<1>1. CredentialsInv /\ [Next]_vars =>
        [\A c \in current : (\A d \in current' : d.generation # c.generation) =>
            \/ ~ Usable(c)
            \/ \E w \in Workers : lease[w].generation = c.generation /\ lease'[w] = NoLease]_vars
    <2> DEFINE User(c) == \E w \in Workers : lease[w].generation = c.generation /\ lease'[w] = NoLease
    <2> SUFFICES ASSUME CredentialsInv, Next, NEW c \in current, Usable(c),
                        \A d \in current' : d.generation # c.generation
                 PROVE  User(c)
        OBVIOUS
    <2>0. CacheInv /\ current = {c} /\ c \in Cached
        BY DEF CredentialsInv, CacheInv, TypeOK
    <2>1. current' # current
        BY <2>0
    <2>2. ASSUME NEW w \in Workers, Worker(w) PROVE User(c)
        <3>1. pc[w] # "fetching"
            BY <2>0 DEF CacheInv, FetchingHoldsMutex
        <3>2. \/ GetCached(w) \/ GetFetch(w) \/ Release(w) \/ ReleaseUsed(w) \/ RecordAllocation(w)
              \/ Invalidate(w) \/ RotateAfterQuota(w) \/ RetryAfterMismatch(w)
            BY <2>1, <2>2, <3>1
               DEF Worker, Getting, AskLease, Fetch, FetchRefused, FetchStored, FetchFailed, FetchCancelled,
                   FetchUnused, FetchUnavailable, GiveUp, Step, StartSession, EndSession, cacheVars
        <3>3. ~ GetCached(w)
            <4>1. [c EXCEPT !.attempts = @ + 1].generation = c.generation
                BY <2>0 DEF Cached
            <4> QED
                BY <2>0, <4>1 DEF GetCached, Reserve
        <3>4. ~ GetFetch(w)
            BY DEF GetFetch
        <3>5. ~ GiveBack(w)
            <4>1. [c EXCEPT !.attempts = OneLess(@)].generation = c.generation
                BY <2>0 DEF Cached
            <4>2. {[b EXCEPT !.attempts = OneLess(@)] : b \in current} = {[c EXCEPT !.attempts = OneLess(@)]}
                BY <2>0
            <4> QED
                BY <2>0, <4>1, <4>2 DEF GiveBack
        <3>6. ~ RecordAllocation(w)
            <4>1. [c EXCEPT !.mismatches = 0].generation = c.generation
                BY <2>0 DEF Cached
            <4>2. {[b EXCEPT !.mismatches = 0] : b \in current} = {[c EXCEPT !.mismatches = 0]}
                BY <2>0
            <4> QED
                BY <2>0, <4>1, <4>2 DEF RecordAllocation
        <3>7. /\ IsCurrent(w) /\ lease' = [lease EXCEPT ![w] = NoLease]
            BY <2>1, <3>2, <3>3, <3>4, <3>5, <3>6
               DEF Release, ReleaseUsed, Invalidate, RotateAfterQuota, RetryAfterMismatch, Report
        <3> QED
            BY <2>0, <3>7 DEF IsCurrent, CacheInv, TypeOK
    <2>3. CASE CallDied \/ Environment
        BY <2>1, <2>3 DEF CallDied, Environment, cacheVars
    <2> QED
        BY <2>2, <2>3 DEF Next
<1> QED
    BY <1>1, CredentialsInvariant, PTL DEF Spec, DroppedByItsUsers

(***************************************************************************)
(* A request comes nearer to its end with every step                       *)
(***************************************************************************)
CaptchaSteps == {"solver", "check", "drain", "print", "wait"}

\* The loops of get_credentials stay within their limits.
LoopsBounded ==
    /\ at \in {"idle"} \union Broker \union Calls \union Legacy \union CaptchaSteps
    /\ at = "idle" => tries = 0 /\ inner = 0
    /\ at \in Broker => tries = 1 /\ inner \in 0 .. Retries - 1
    /\ at \in Calls => tries \in 1 .. 2 /\ inner = 0
    /\ at \in Legacy => tries \in 1 .. LegacyAttempts /\ inner = 0
    /\ at \in CaptchaSteps => tries \in 1 .. LegacyAttempts /\ inner \in 0 .. 1
    /\ captchas \in 0 .. CaptchaLimit

\* What is left of a request, the outermost loop first: the paths, the attempts of the
\* path, the captchas of the attempt, the requests before the credentials, the attempts of
\* the request or of the captcha, and the steps of one.
PathsLeft ==
    IF at = "idle" THEN IF answer = {} THEN 3 ELSE 0
    ELSE IF at \in Broker THEN 2 ELSE 1

AttemptsLeft == (IF at \in Calls THEN 2 ELSE LegacyAttempts) - tries

CaptchasLeft == CaptchaLimit - captchas

RequestsLeft ==
    CASE at \in {"getConversationParams", "joinConversation", "legacyJoin"} -> 1
      [] at \in {"accountLogin", "anonymLogin", "legacyLogin"} -> 2
      [] at \in {"getCallToken", "getAnonymCallToken", "getAnonymousToken"} -> 3
      [] at \in {"getCallPreview", "drain", "print", "wait"} -> 4
      [] at \in {"getAnonymToken", "solver", "check"} -> 5
      [] at = "legacyPreview" -> 6
      [] at = "legacyToken" -> 7
      [] OTHER -> 0

RepeatsLeft == Retries + 1 - inner

StepsLeft ==
    CASE at \in {"solver", "drain"} -> 3
      [] at = "print" \/ (at = "check" /\ show = "checkbox") -> 2
      [] at = "wait" \/ (at = "check" /\ show # "checkbox") -> 1
      [] OTHER -> 0

Left == <<PathsLeft, AttemptsLeft, CaptchasLeft, RequestsLeft, RepeatsLeft, StepsLeft>>

\* The lexicographic order, in which nothing decreases for ever.
Less(a, b) == \E i \in 1 .. 6 : a[i] < b[i] /\ \A j \in 1 .. i - 1 : a[j] = b[j]

LeftIsNatural == \A i \in 1 .. 6 : Left[i] \in Nat

\* Every step of get_credentials leaves less to do, and nothing else that happens while it
\* runs leaves more: neither the other workers nor the front end.
FetchAdvances ==
    [][\A w \in Workers : (pc[w] = "fetching" /\ pc'[w] = "fetching" /\ AuthMode # "vkcalls") =>
          IF GetCredentials THEN Less(Left', Left) ELSE Left' = Left]_vars

\* The first place at which two tuples differ decides.
LEMMA LessAt ==
    ASSUME NEW a1, NEW a2, NEW a3, NEW a4, NEW a5, NEW a6, NEW b1, NEW b2, NEW b3, NEW b4, NEW b5, NEW b6,
           \/ a1 < b1
           \/ a1 = b1 /\ a2 < b2
           \/ a1 = b1 /\ a2 = b2 /\ a3 < b3
           \/ a1 = b1 /\ a2 = b2 /\ a3 = b3 /\ a4 < b4
           \/ a1 = b1 /\ a2 = b2 /\ a3 = b3 /\ a4 = b4 /\ a5 < b5
           \/ a1 = b1 /\ a2 = b2 /\ a3 = b3 /\ a4 = b4 /\ a5 = b5 /\ a6 < b6
    PROVE  Less(<<a1, a2, a3, a4, a5, a6>>, <<b1, b2, b3, b4, b5, b6>>)
<1> DEFINE a == <<a1, a2, a3, a4, a5, a6>>
           b == <<b1, b2, b3, b4, b5, b6>>
<1>1. /\ a[1] = a1 /\ a[2] = a2 /\ a[3] = a3 /\ a[4] = a4 /\ a[5] = a5 /\ a[6] = a6
      /\ b[1] = b1 /\ b[2] = b2 /\ b[3] = b3 /\ b[4] = b4 /\ b[5] = b5 /\ b[6] = b6
    OBVIOUS
<1> HIDE DEF a, b
<1>2. \E i \in 1 .. 6 : a[i] < b[i] /\ \A j \in 1 .. i - 1 : a[j] = b[j]
    <2>1. CASE a1 < b1
        BY <1>1, <2>1
    <2>2. CASE a1 = b1 /\ a2 < b2
        BY <1>1, <2>2
    <2>3. CASE a1 = b1 /\ a2 = b2 /\ a3 < b3
        BY <1>1, <2>3
    <2>4. CASE a1 = b1 /\ a2 = b2 /\ a3 = b3 /\ a4 < b4
        BY <1>1, <2>4
    <2>5. CASE a1 = b1 /\ a2 = b2 /\ a3 = b3 /\ a4 = b4 /\ a5 < b5
        BY <1>1, <2>5
    <2>6. CASE a1 = b1 /\ a2 = b2 /\ a3 = b3 /\ a4 = b4 /\ a5 = b5 /\ a6 < b6
        BY <1>1, <2>6
    <2> QED
        BY <2>1, <2>2, <2>3, <2>4, <2>5, <2>6
<1> QED
    BY <1>2 DEF Less, a, b

\* The outermost loop that moved decides.
LEMMA LessLeft ==
    ASSUME \/ PathsLeft' < PathsLeft
           \/ PathsLeft' = PathsLeft /\ AttemptsLeft' < AttemptsLeft
           \/ PathsLeft' = PathsLeft /\ AttemptsLeft' = AttemptsLeft /\ CaptchasLeft' < CaptchasLeft
           \/ /\ PathsLeft' = PathsLeft /\ AttemptsLeft' = AttemptsLeft /\ CaptchasLeft' = CaptchasLeft
              /\ RequestsLeft' < RequestsLeft
           \/ /\ PathsLeft' = PathsLeft /\ AttemptsLeft' = AttemptsLeft /\ CaptchasLeft' = CaptchasLeft
              /\ RequestsLeft' = RequestsLeft /\ RepeatsLeft' < RepeatsLeft
           \/ /\ PathsLeft' = PathsLeft /\ AttemptsLeft' = AttemptsLeft /\ CaptchasLeft' = CaptchasLeft
              /\ RequestsLeft' = RequestsLeft /\ RepeatsLeft' = RepeatsLeft /\ StepsLeft' < StepsLeft
    PROVE  Less(Left', Left)
<1>1. Less(<<PathsLeft', AttemptsLeft', CaptchasLeft', RequestsLeft', RepeatsLeft', StepsLeft'>>,
           <<PathsLeft, AttemptsLeft, CaptchasLeft, RequestsLeft, RepeatsLeft, StepsLeft>>)
    BY LessAt
<1> QED
    BY <1>1 DEF Left

\* Ending a request, by any of its steps, ends the last path.
LEMMA FinishIsLess ==
    ASSUME LoopsBounded, at # "idle" \/ answer = {}, NEW result, Finish(result)
    PROVE  Less(Left', Left) /\ LoopsBounded'
<1>1. PathsLeft' = 0 /\ PathsLeft > 0
    BY DEF Finish, PathsLeft
<1>2. LoopsBounded'
    BY AuthConstants DEF Finish, LoopsBounded, Broker, Calls, Legacy, CaptchaSteps
<1> QED
    BY <1>1, <1>2, LessLeft

\* Every step of get_credentials keeps the loops within their limits and, outside the mode
\* that starts over, leaves less to do.
LEMMA GetCredentialsStep ==
    ASSUME LoopsBounded, GetCredentials
    PROVE  LoopsBounded' /\ (AuthMode # "vkcalls" => Less(Left', Left))
<1> USE AuthConstants DEF LoopsBounded, Broker, Calls, Legacy, CaptchaSteps
<1> DEFINE Shrinks ==
               \/ PathsLeft' < PathsLeft
               \/ PathsLeft' = PathsLeft /\ AttemptsLeft' < AttemptsLeft
               \/ PathsLeft' = PathsLeft /\ AttemptsLeft' = AttemptsLeft /\ CaptchasLeft' < CaptchasLeft
               \/ /\ PathsLeft' = PathsLeft /\ AttemptsLeft' = AttemptsLeft /\ CaptchasLeft' = CaptchasLeft
                  /\ RequestsLeft' < RequestsLeft
               \/ /\ PathsLeft' = PathsLeft /\ AttemptsLeft' = AttemptsLeft /\ CaptchasLeft' = CaptchasLeft
                  /\ RequestsLeft' = RequestsLeft /\ RepeatsLeft' < RepeatsLeft
               \/ /\ PathsLeft' = PathsLeft /\ AttemptsLeft' = AttemptsLeft /\ CaptchasLeft' = CaptchasLeft
                  /\ RequestsLeft' = RequestsLeft /\ RepeatsLeft' = RepeatsLeft /\ StepsLeft' < StepsLeft
<1>0. Shrinks => Less(Left', Left)
    BY LessLeft
<1>1. CASE Begin
    <2>1. CASE Finish("failed")
        BY <1>1, <2>1, FinishIsLess DEF Begin
    <2>2. CASE ~ Finish("failed")
        <3>1. /\ at = "idle" /\ answer = {} /\ tries' = 1 /\ UNCHANGED <<inner, captchas>>
              /\ at' \in {"getCallToken", "getAnonymToken", "legacyToken"}
            BY <1>1, <2>2 DEF Begin
        <3>2. LoopsBounded'
            BY <3>1
        <3>3. PathsLeft' < PathsLeft
            BY <3>1 DEF PathsLeft
        <3> QED
            BY <1>0, <3>2, <3>3
    <2> QED
        BY <2>1, <2>2
<1>2. CASE Proceed
    <2>1. /\ UNCHANGED <<tries, captchas, answer>> /\ inner' = 0 /\ at' = Following[at]
          /\ at \in DOMAIN Following
        BY <1>2 DEF Proceed, Goto
    <2>2. /\ at' # "idle" /\ at # "idle"
          /\ at \in Broker <=> at' \in Broker
          /\ at \in Calls <=> at' \in Calls
          /\ at' \in Broker \union Calls \union Legacy
          /\ at \in Legacy <=> at' \in Legacy
          /\ RequestsLeft' < RequestsLeft
        BY <2>1 DEF Following, RequestsLeft
    <2>3. LoopsBounded'
        BY <2>1, <2>2
    <2>4. PathsLeft' = PathsLeft /\ AttemptsLeft' = AttemptsLeft /\ CaptchasLeft' = CaptchasLeft
        BY <2>1, <2>2 DEF PathsLeft, AttemptsLeft, CaptchasLeft
    <2> QED
        BY <1>0, <2>2, <2>3, <2>4
<1>3. CASE Issue
    <2>1. PICK v \in Values : at \in {"joinConversation", "legacyJoin", "getConversationParams"} /\ Finish(v)
        BY <1>3 DEF Issue
    <2> QED
        BY <2>1, FinishIsLess
<1>4. CASE RetryRequest
    <2>1. /\ at \in Broker /\ inner + 1 < Retries /\ inner' = inner + 1
          /\ UNCHANGED <<at, tries, captchas, show, answer>>
        BY <1>4 DEF RetryRequest
    <2>2. LoopsBounded'
        BY <2>1
    <2>3. /\ PathsLeft' = PathsLeft /\ AttemptsLeft' = AttemptsLeft /\ CaptchasLeft' = CaptchasLeft
          /\ RequestsLeft' = RequestsLeft /\ RepeatsLeft' < RepeatsLeft
        BY <2>1 DEF PathsLeft, AttemptsLeft, CaptchasLeft, RequestsLeft, RepeatsLeft
    <2> QED
        BY <1>0, <2>2, <2>3
<1>5. CASE BrokerFails
    <2>1. at \in Broker /\ at' = "getAnonymToken" /\ inner' = 0 /\ UNCHANGED <<tries, captchas>>
        BY <1>5 DEF BrokerFails, Goto
    <2>2. LoopsBounded' /\ PathsLeft' < PathsLeft
        BY <2>1 DEF PathsLeft
    <2> QED
        BY <1>0, <2>2
<1>6. CASE CallsFails
    <2>1. CASE Finish("failed")
        BY <1>6, <2>1, FinishIsLess DEF CallsFails
    <2>2. CASE ~ Finish("failed")
        <3>1. /\ at \in Calls /\ at' = "getAnonymToken" /\ inner' = 0 /\ tries' = 3 - tries
              /\ UNCHANGED captchas /\ (AuthMode # "vkcalls" => tries < 2)
            BY <1>6, <2>2 DEF CallsFails, Goto, StartsOver
        <3>2. LoopsBounded'
            BY <3>1
        <3>3. AuthMode # "vkcalls" => PathsLeft' = PathsLeft /\ AttemptsLeft' < AttemptsLeft
            BY <3>1 DEF PathsLeft, AttemptsLeft
        <3> QED
            BY <1>0, <3>2, <3>3
    <2> QED
        BY <2>1, <2>2
<1>7. CASE LegacyFails
    <2>1. CASE at = "legacyPreview"
        <3>1. at' = "getAnonymousToken" /\ inner' = 0 /\ UNCHANGED <<tries, captchas>>
            BY <1>7, <2>1 DEF LegacyFails, Goto, Following
        <3>2. LoopsBounded'
            BY <2>1, <3>1
        <3>3. /\ PathsLeft' = PathsLeft /\ AttemptsLeft' = AttemptsLeft /\ CaptchasLeft' = CaptchasLeft
              /\ RequestsLeft' < RequestsLeft
            BY <2>1, <3>1 DEF PathsLeft, AttemptsLeft, CaptchasLeft, RequestsLeft
        <3> QED
            BY <1>0, <3>2, <3>3
    <2>2. CASE at # "legacyPreview" /\ tries < LegacyAttempts
        <3>1. /\ at \in Legacy /\ at' = "legacyToken" /\ inner' = 0 /\ tries' = tries + 1 /\ captchas' = 0
            BY <1>7, <2>2 DEF LegacyFails, Goto
        <3>2. LoopsBounded'
            BY <2>2, <3>1
        <3>3. PathsLeft' = PathsLeft /\ AttemptsLeft' < AttemptsLeft
            BY <2>2, <3>1 DEF PathsLeft, AttemptsLeft
        <3> QED
            BY <1>0, <3>2, <3>3
    <2>3. CASE at # "legacyPreview" /\ ~ tries < LegacyAttempts
        BY <1>7, <2>3, FinishIsLess DEF LegacyFails
    <2> QED
        BY <2>1, <2>2, <2>3
<1>8. CASE CallUnavailable
    BY <1>8, FinishIsLess DEF CallUnavailable
<1>9. CASE AskCaptcha
    <2>1. CASE captchas >= CaptchaLimit
        BY <1>9, <2>1, FinishIsLess DEF AskCaptcha, WaitRequired
    <2>2. CASE ~ captchas >= CaptchaLimit
        <3>1. /\ at = "getAnonymousToken" /\ captchas' = captchas + 1 /\ inner' = 0
              /\ at' \in {"drain", "solver"} /\ UNCHANGED tries
            BY <1>9, <2>2 DEF AskCaptcha, CountCaptcha, Goto
        <3>2. LoopsBounded'
            BY <2>2, <3>1
        <3>3. PathsLeft' = PathsLeft /\ AttemptsLeft' = AttemptsLeft /\ CaptchasLeft' < CaptchasLeft
            BY <2>2, <3>1 DEF PathsLeft, AttemptsLeft, CaptchasLeft
        <3> QED
            BY <1>0, <3>2, <3>3
    <2> QED
        BY <2>1, <2>2
<1>10. CASE Prepare \/ CheckAgain \/ Drain \/ Ask
    <2>1. /\ UNCHANGED <<tries, inner, captchas>>
          /\ \/ at = "solver" /\ at' = "check"
             \/ at = "check" /\ at' = "check" /\ show = "checkbox" /\ show' # "checkbox"
             \/ at = "drain" /\ at' = "print"
             \/ at = "print" /\ at' = "wait"
        BY <1>10 DEF Prepare, CheckAgain, Checked, Drain, Ask
    <2>2. LoopsBounded'
        BY <2>1
    <2>3. PathsLeft' = PathsLeft /\ AttemptsLeft' = AttemptsLeft /\ CaptchasLeft' = CaptchasLeft
        BY <2>1 DEF PathsLeft, AttemptsLeft, CaptchasLeft
    <2>4. RequestsLeft' = RequestsLeft /\ RepeatsLeft' = RepeatsLeft /\ StepsLeft' < StepsLeft
        BY <2>1 DEF RequestsLeft, RepeatsLeft, StepsLeft
    <2> QED
        BY <1>0, <2>2, <2>3, <2>4
<1>11. CASE SolveCheckbox \/ SolveSlider \/ TakeToken
    <2>1. /\ UNCHANGED <<tries, captchas>> /\ inner' = 0 /\ at' = "getAnonymousToken"
          /\ at \in {"check", "wait"}
        BY <1>11 DEF SolveCheckbox, SolveSlider, SolveWith, Checked, TakeToken, Goto
    <2>2. LoopsBounded'
        BY <2>1
    <2>3. /\ PathsLeft' = PathsLeft /\ AttemptsLeft' = AttemptsLeft /\ CaptchasLeft' = CaptchasLeft
          /\ RequestsLeft' < RequestsLeft
        BY <2>1 DEF PathsLeft, AttemptsLeft, CaptchasLeft, RequestsLeft
    <2> QED
        BY <1>0, <2>2, <2>3
<1>12. CASE SolverFails
    <2>1. at \in {"solver", "check"} /\ UNCHANGED <<tries, captchas>>
        BY <1>12 DEF SolverFails
    <2>2. \/ at' = "solver" /\ inner' = inner + 1 /\ inner + 1 < 2
          \/ at' = "drain" /\ inner' = 0
        BY <1>12, <2>1 DEF SolverFails, SolverAttempts, Goto
    <2>3. LoopsBounded'
        BY <2>1, <2>2
    <2>4. PathsLeft' = PathsLeft /\ AttemptsLeft' = AttemptsLeft /\ CaptchasLeft' = CaptchasLeft
        BY <2>1, <2>2 DEF PathsLeft, AttemptsLeft, CaptchasLeft
    <2>5. RequestsLeft' < RequestsLeft \/ (RequestsLeft' = RequestsLeft /\ RepeatsLeft' < RepeatsLeft)
        BY <2>1, <2>2 DEF RequestsLeft, RepeatsLeft
    <2> QED
        BY <1>0, <2>3, <2>4, <2>5
<1>13. CASE WindowFails
    <2>1. CASE CaptchaMode = "auto" /\ inner = 0
        <3>1. at = "wait" /\ at' = "drain" /\ inner' = 1 /\ UNCHANGED <<tries, captchas>>
            BY <1>13, <2>1 DEF WindowFails
        <3>2. LoopsBounded'
            BY <3>1
        <3>3. /\ PathsLeft' = PathsLeft /\ AttemptsLeft' = AttemptsLeft /\ CaptchasLeft' = CaptchasLeft
              /\ RequestsLeft' = RequestsLeft /\ RepeatsLeft' < RepeatsLeft
            BY <2>1, <3>1 DEF PathsLeft, AttemptsLeft, CaptchasLeft, RequestsLeft, RepeatsLeft
        <3> QED
            BY <1>0, <3>2, <3>3
    <2>2. CASE ~ (CaptchaMode = "auto" /\ inner = 0)
        BY <1>13, <2>2, FinishIsLess DEF WindowFails, WaitRequired
    <2> QED
        BY <2>1, <2>2
<1> QED
    BY <1>1, <1>2, <1>3, <1>4, <1>5, <1>6, <1>7, <1>8, <1>9, <1>10, <1>11, <1>12, <1>13 DEF GetCredentials

\* The steps of the cohort, as far as get_credentials is concerned.
LEMMA WhatRuns ==
    ASSUME [Next]_vars, DOMAIN pc = Workers
    PROVE  \/ GetCredentials
           \/ Forget /\ \E w \in Workers : pc[w] = "fetching" /\ pc'[w] # "fetching"
           \/ UNCHANGED <<at, tries, inner, captchas, show, answer>>
<1>1. CASE UNCHANGED vars \/ CallDied \/ Environment
    BY <1>1 DEF vars, authVars, fetchVars, CallDied, Environment, AuthEnvironment, LockoutEnds,
                HandleSolveRequest, WindowFinishes, WindowCloses
<1>2. ASSUME NEW w \in Workers, AskLease(w) \/ GetCached(w) \/ GetFetch(w) \/ StartSession(w) \/ Release(w)
                                \/ ReleaseUsed(w) \/ RecordAllocation(w) \/ EndSession(w) \/ Invalidate(w)
                                \/ RotateAfterQuota(w) \/ RetryAfterMismatch(w)
      PROVE  UNCHANGED <<at, tries, inner, captchas, show, answer>>
    BY <1>2 DEF AskLease, GetCached, GetFetch, StartSession, Release, ReleaseUsed, RecordAllocation, EndSession,
                Invalidate, RotateAfterQuota, RetryAfterMismatch, Report, authVars, fetchVars
<1>3. ASSUME NEW w \in Workers, Getting(w)
      PROVE  \/ GetCredentials
             \/ Forget /\ pc[w] = "fetching" /\ pc'[w] # "fetching"
    BY <1>3 DEF Getting, Fetch, FetchRefused, FetchStored, FetchFailed, FetchCancelled, FetchUnused,
                FetchUnavailable, GiveUp, Step
<1> QED
    BY <1>1, <1>2, <1>3 DEF Next, Worker

\* Whatever the cohort does, the loops of the request stay within their limits.
LEMMA LoopsBoundedStep ==
    ASSUME LoopsBounded, CredentialsInv, [Next]_vars
    PROVE  LoopsBounded'
<1>1. CASE GetCredentials
    BY <1>1, GetCredentialsStep
<1>2. CASE Forget
    BY <1>2, AuthConstants DEF Forget, LoopsBounded, Broker, Calls, Legacy, CaptchaSteps
<1>3. CASE UNCHANGED <<at, tries, inner, captchas, show, answer>>
    BY <1>3 DEF LoopsBounded
<1>4. DOMAIN pc = Workers
    BY DEF CredentialsInv, CacheInv, TypeOK
<1> QED
    BY <1>1, <1>2, <1>3, <1>4, WhatRuns

\* get_credentials: whatever VK, the solver and the windows answer, each step of a request
\* brings it nearer to its end, for any number of retries, attempts and captchas.
THEOREM FetchesAdvance == Spec => []LeftIsNatural /\ FetchAdvances
<1>1. Init => LoopsBounded
    BY AuthConstants DEF Init, AuthInit, LoopsBounded, Broker, Calls, Legacy, CaptchaSteps
<1>2. LoopsBounded /\ CredentialsInv /\ [Next]_vars => LoopsBounded'
    BY LoopsBoundedStep
<1>3. LoopsBounded => LeftIsNatural
    <2> SUFFICES ASSUME LoopsBounded PROVE LeftIsNatural
        OBVIOUS
    <2>1. PathsLeft \in Nat /\ StepsLeft \in Nat /\ RequestsLeft \in Nat
        BY DEF PathsLeft, StepsLeft, RequestsLeft
    <2>2. AttemptsLeft \in Nat /\ CaptchasLeft \in Nat /\ RepeatsLeft \in Nat
        BY AuthConstants DEF LoopsBounded, AttemptsLeft, CaptchasLeft, RepeatsLeft, Broker, Calls, Legacy,
                             CaptchaSteps
    <2>3. /\ Left[1] = PathsLeft /\ Left[2] = AttemptsLeft /\ Left[3] = CaptchasLeft
          /\ Left[4] = RequestsLeft /\ Left[5] = RepeatsLeft /\ Left[6] = StepsLeft
        BY DEF Left
    <2> QED
        BY <2>1, <2>2, <2>3 DEF LeftIsNatural
<1>4. LoopsBounded /\ CredentialsInv /\ [Next]_vars =>
        [\A w \in Workers : (pc[w] = "fetching" /\ pc'[w] = "fetching" /\ AuthMode # "vkcalls") =>
            IF GetCredentials THEN Less(Left', Left) ELSE Left' = Left]_vars
    <2> SUFFICES ASSUME LoopsBounded, CredentialsInv, [Next]_vars,
                        NEW w \in Workers, pc[w] = "fetching", pc'[w] = "fetching", AuthMode # "vkcalls"
                 PROVE  IF GetCredentials THEN Less(Left', Left) ELSE Left' = Left
        OBVIOUS
    <2>1. CASE GetCredentials
        BY <2>1, GetCredentialsStep
    <2>2. CASE ~ GetCredentials
        <3>1. DOMAIN pc = Workers /\ \A v \in Workers : pc[v] = "fetching" => v = w
            BY DEF CredentialsInv, CacheInv, TypeOK, FetchingHoldsMutex
        <3>2. UNCHANGED <<at, tries, inner, captchas, show, answer>>
            BY <2>2, <3>1, WhatRuns
        <3>3. Left' = Left
            BY <3>2 DEF Left, PathsLeft, AttemptsLeft, CaptchasLeft, RequestsLeft, RepeatsLeft, StepsLeft
        <3> QED
            BY <2>2, <3>3
    <2> QED
        BY <2>1, <2>2
<1> QED
    BY <1>1, <1>2, <1>3, <1>4, CredentialsInvariant, PTL DEF Spec, FetchAdvances
=============================================================================
