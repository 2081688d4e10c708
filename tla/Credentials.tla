----------------------------- MODULE Credentials -----------------------------
(***************************************************************************)
(* The TURN credentials shared by the workers of one cohort                *)
(* (CredentialCache and GroupCredentials of backend/worker.rs, and the     *)
(* parts of worker_loop that use them).                                    *)
(*                                                                         *)
(* Up to WORKERS_PER_CREDENTIAL workers allocate with one credential.  A   *)
(* worker takes a lease of it, runs a session with the lease and, when the *)
(* session has failed, reports what the TURN server held against the       *)
(* credential.  By then the others may have replaced it.  The cache is     *)
(* behind one mutex; the worker that finds it empty keeps the mutex while  *)
(* it asks the auth service (module Auth) for a new credential.            *)
(***************************************************************************)
EXTENDS Auth, FiniteSets

CONSTANTS
    Workers,               \* the workers of the cohort
    WorkersPerCredential,  \* WORKERS_PER_CREDENTIAL
    MaxGenerations         \* bound: credentials stored in a run

ASSUME CredentialConstants ==
    /\ IsFiniteSet(Workers)
    /\ WorkersPerCredential \in Nat \ {0}
    /\ MaxGenerations \in Nat

VARIABLES
    current,          \* CredentialCache.current: {} or {CachedCredentials}
    quota_blocked,    \* {} or {value}
    next_generation,
    holder,           \* {} or {the worker that holds the mutex across an await}
    unavailable,      \* HashAvailability: the call is dead, its token cancelled
    pc, lease         \* per worker: step, CredentialLease

cacheVars == <<current, quota_blocked, next_generation>>
vars      == <<cacheVars, holder, unavailable, pc, lease, authVars>>

Cached == [value : Values, generation : Nat, attempts : Nat, mismatches : 0 .. 1]
Leases == [value : Values, generation : Nat]
NoLease == [generation |-> 0]

MutexFree == holder = {}
Step(w, from, to) == pc[w] = from /\ pc' = [pc EXCEPT ![w] = to]

\* Two credentials of the same value taken for one.
IgnoringGeneration(w) == \E c \in current : lease[w].value = c.value

\* The lease is about the credential the cache holds now.
IsCurrent(w) == \E c \in current : c.generation = lease[w].generation /\ c.value = lease[w].value

-----------------------------------------------------------------------------
(***************************************************************************)
(* GroupCredentials::get                                                   *)
(***************************************************************************)
Usable(c) == c.attempts < WorkersPerCredential

\* CredentialCache::reserve on a cache that holds c.
Reserve(w, c) ==
    /\ current' = {[c EXCEPT !.attempts = @ + 1]}
    /\ lease' = [lease EXCEPT ![w] = [value |-> c.value, generation |-> c.generation]]

\* worker_loop and get look at the call before they wait for the mutex ...
AskLease(w) ==
    /\ ~ unavailable
    /\ Step(w, "idle", "asked")
    /\ UNCHANGED <<cacheVars, holder, unavailable, lease, authVars>>

\* ... and a cached credential is leased even if the call has died since.
GetCached(w) ==
    /\ MutexFree
    /\ Step(w, "asked", "leased")
    /\ \E c \in current : Usable(c) /\ Reserve(w, c)
    /\ UNCHANGED <<quota_blocked, next_generation, holder, unavailable, authVars>>

\* A request that is made after the mutex was given back.
GetFetchUnlocked(w) ==
    /\ MutexFree
    /\ \A c \in current : ~ Usable(c)
    /\ next_generation < MaxGenerations
    /\ Step(w, "asked", "fetching")
    /\ current' = {}
    /\ UNCHANGED <<quota_blocked, next_generation, holder, unavailable, lease, authVars>>

\* reserve drops a used-up credential and get goes on to ask for another one.
GetFetch(w) ==
    /\ MutexFree
    /\ \A c \in current : ~ Usable(c)
    /\ next_generation < MaxGenerations
    /\ Step(w, "asked", "fetching")
    /\ current' = {}
    /\ holder' = {w}
    /\ UNCHANGED <<quota_blocked, next_generation, unavailable, lease, authVars>>

\* credential_pacer is taken (unless the call died meanwhile) and get_credentials runs.
Fetch(w) ==
    /\ pc[w] = "fetching"
    /\ at = "idle" => ~ unavailable
    /\ GetCredentials
    /\ UNCHANGED <<cacheVars, holder, unavailable, pc, lease>>

\* get is over without a lease.
GiveUp(w) ==
    /\ Step(w, "fetching", "idle")
    /\ Forget
    /\ holder' = {}
    /\ UNCHANGED lease

\* store refuses the credential it has just given up for quota.
FetchRefused(w) ==
    /\ answer \intersect quota_blocked # {}
    /\ GiveUp(w)
    /\ UNCHANGED <<cacheVars, unavailable>>

\* store, for the credential get_credentials returned.
Stored ==
    {[value |-> v, generation |-> next_generation + 1, attempts |-> 0, mismatches |-> 0] :
        v \in (answer \intersect Values) \ quota_blocked}

FetchStored(w) ==
    /\ Step(w, "fetching", "leased")
    /\ \E c \in Stored : Reserve(w, c)
    /\ next_generation' = next_generation + 1
    /\ quota_blocked' = {}
    /\ Forget
    /\ holder' = {}
    /\ UNCHANGED <<unavailable>>

\* The request failed, and the back-off after it has passed with the mutex held.
FetchFailed(w) ==
    /\ answer = {"failed"}
    /\ GiveUp(w)
    /\ UNCHANGED <<cacheVars, unavailable>>

\* The token was cancelled: while get waited for credential_pacer, in the middle of
\* get_credentials, or in the delay after it failed.
FetchCancelled(w) ==
    /\ unavailable /\ (answer \subseteq {"failed"})
    /\ GiveUp(w)
    /\ UNCHANGED <<cacheVars, unavailable>>

\* The token was cancelled in the delay after store: the new credential is not leased.
FetchUnused(w) ==
    /\ unavailable
    /\ Stored # {} /\ current' = Stored
    /\ GiveUp(w)
    /\ next_generation' = next_generation + 1
    /\ quota_blocked' = {}
    /\ UNCHANGED <<unavailable>>

\* CallUnavailable: mark_unavailable stops all workers of the call.
FetchUnavailable(w) ==
    /\ answer = {"unavailable"}
    /\ GiveUp(w)
    /\ unavailable' = TRUE
    /\ UNCHANGED <<cacheVars>>

\* Another cohort of the same call found it dead.
CallDied ==
    /\ ~ unavailable
    /\ unavailable' = TRUE
    /\ UNCHANGED <<cacheVars, holder, pc, lease, authVars>>

-----------------------------------------------------------------------------
(***************************************************************************)
(* worker_loop                                                             *)
(***************************************************************************)
\* The session has sent allocation_started and talks to the TURN server.
StartSession(w) ==
    /\ Step(w, "leased", "session")
    /\ UNCHANGED <<cacheVars, holder, unavailable, lease, authVars>>

\* saturating_sub(1)
OneLess(n) == IF n = 0 THEN 0 ELSE n - 1

\* A release that does not ask whose lease it is.
GiveBackAny(w) == current' = {[c EXCEPT !.attempts = OneLess(@)] : c \in current}

\* CredentialCache::release, for a lease no Allocate was started with: the pacer or
\* the pause was cancelled, or the session ended before it could start one.
GiveBack(w) ==
    current' = IF IsCurrent(w) THEN {[c EXCEPT !.attempts = OneLess(@)] : c \in current}
               ELSE current

Release(w) ==
    /\ MutexFree
    /\ Step(w, "leased", "idle")
    /\ GiveBack(w)
    /\ lease' = [lease EXCEPT ![w] = NoLease]
    /\ UNCHANGED <<quota_blocked, next_generation, holder, unavailable, authVars>>

\* The select! in worker_loop is not biased: it may see the result of a failed session
\* before allocation_started, and then releases a lease that was used.
ReleaseUsed(w) ==
    /\ MutexFree
    /\ Step(w, "session", "failed")
    /\ GiveBack(w)
    /\ UNCHANGED <<quota_blocked, next_generation, holder, unavailable, lease, authVars>>

RecordAllocation(w) ==
    /\ MutexFree
    /\ Step(w, "session", "allocated")
    /\ current' = IF IsCurrent(w) THEN {[c EXCEPT !.mismatches = 0] : c \in current}
                  ELSE current
    /\ UNCHANGED <<quota_blocked, next_generation, holder, unavailable, lease, authVars>>

InSession == {"session", "allocated", "failed"}

\* The session is over and its credential has nothing to do with it.
EndSession(w) ==
    /\ pc[w] \in InSession
    /\ pc' = [pc EXCEPT ![w] = "idle"]
    /\ lease' = [lease EXCEPT ![w] = NoLease]
    /\ UNCHANGED <<cacheVars, holder, unavailable, authVars>>

\* The session is over and worker_loop reports to the cache.
Report(w) ==
    /\ pc[w] \in InSession
    /\ MutexFree
    /\ pc' = [pc EXCEPT ![w] = "idle"]
    /\ lease' = [lease EXCEPT ![w] = NoLease]
    /\ UNCHANGED <<next_generation, holder, unavailable, authVars>>

\* The server refused the credential, or a repair asked for a new one.
Invalidate(w) ==
    /\ Report(w)
    /\ current' = IF IsCurrent(w) THEN {} ELSE current
    /\ UNCHANGED quota_blocked

RotateAfterQuota(w) ==
    /\ Report(w)
    /\ IF IsCurrent(w)
       THEN /\ current' = {}
            /\ quota_blocked' = {lease[w].value}
       ELSE UNCHANGED <<current, quota_blocked>>

\* A second chance that is given again and again.
EveryMismatch == current

\* A credential that has not met a mismatch since its last allocation.
FirstMismatch == {c \in current : c.mismatches = 0}

\* Allocation mismatch: the credential is given a second chance.
RetryAfterMismatch(w) ==
    /\ Report(w)
    /\ current' = IF ~ IsCurrent(w) THEN current
                  ELSE {[c EXCEPT !.mismatches = @ + 1] : c \in FirstMismatch}
    /\ UNCHANGED quota_blocked

Init ==
    /\ current = {} /\ quota_blocked = {} /\ next_generation = 0
    /\ holder = {} /\ unavailable = FALSE
    /\ pc = [w \in Workers |-> "idle"] /\ lease = [w \in Workers |-> NoLease]
    /\ AuthInit

\* The rest of get, with the mutex held.
Getting(w) ==
    \/ Fetch(w) \/ FetchRefused(w) \/ FetchStored(w) \/ FetchFailed(w)
    \/ FetchCancelled(w) \/ FetchUnused(w) \/ FetchUnavailable(w)

Worker(w) ==
    \/ AskLease(w) \/ GetCached(w) \/ GetFetch(w) \/ Getting(w)
    \/ StartSession(w) \/ Release(w) \/ ReleaseUsed(w) \/ RecordAllocation(w) \/ EndSession(w) \/ Invalidate(w) \/ RotateAfterQuota(w)
    \/ RetryAfterMismatch(w)

Environment == AuthEnvironment /\ UNCHANGED <<cacheVars, holder, unavailable, pc, lease>>

Next == (\E w \in Workers : Worker(w)) \/ CallDied \/ Environment

\* Every request, pause and wait of get ends: the HTTP clients and the captcha windows
\* have timeouts.
Spec == Init /\ [][Next]_vars /\ \A w \in Workers : WF_vars(Getting(w))

-----------------------------------------------------------------------------
TypeOK ==
    /\ current \subseteq Cached /\ \A c, d \in current : c = d
    /\ quota_blocked \subseteq Values
    /\ next_generation \in Nat
    /\ holder \subseteq Workers /\ \A v, w \in holder : v = w
    /\ unavailable \in BOOLEAN
    /\ pc \in [Workers -> {"idle", "asked", "fetching", "leased"} \union InSession]
    /\ lease \in [Workers -> Leases \union {NoLease}]

\* Workers that hold a lease of the credential in the cache.
Holders == {w \in Workers : pc[w] # "failed" /\ IsCurrent(w)}

\* The attempt counter never runs below the workers that are using the credential, so
\* one credential never serves more than WORKERS_PER_CREDENTIAL at a time, whatever
\* stale leases are released, reported or replaced in between.
HoldersAreCounted ==
    \A c \in current : /\ Cardinality(Holders) <= c.attempts
                       /\ c.attempts <= WorkersPerCredential

\* A credential leaves the cache only when it is used up or by the report of a worker
\* that leased that very credential: the workers that are all refused on one give it up
\* once, and the later ones do not take its successor with them, even when the service
\* has returned the same value again (CredentialCache::invalidate, worker.rs:399).
DroppedByItsUsers ==
    [][\A c \in current : (\A d \in current' : d.generation # c.generation) =>
          \/ ~ Usable(c)
          \/ \E w \in Workers : lease[w].generation = c.generation /\ lease'[w] = NoLease]_vars

\* Workers that find the cache empty at the same time do not all ask the auth service:
\* one does, and nobody fills or empties the cache behind its back until the answer comes
\* (get keeps the mutex across fetch, worker.rs:464).
OneFetchAtATime ==
    \A w \in Workers : pc[w] = "fetching" =>
        current = {} /\ \A v \in Workers : pc[v] = "fetching" => v = w

\* A worker that asks the service gives the mutex back: the account's retries, the four
\* legacy attempts, the captchas of each and the windows of a captcha all come to an end
\* (VkAuth::get_credentials, auth.rs:122).  In vkcalls mode the code makes no such promise.
FetchEnds ==
    \A w \in Workers : (pc[w] = "fetching" /\ AuthMode # "vkcalls") ~> pc[w] # "fetching"
=============================================================================
