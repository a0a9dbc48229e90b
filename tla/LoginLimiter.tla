---------------------------- MODULE LoginLimiter ----------------------------
(***************************************************************************)
(* The login rate limiter (internal/auth/limiter.go) under Manager.Login   *)
(* (internal/auth/auth.go).  A login asks BeginAttempt for leave, compares *)
(* the password outside the lock, and settles with Reset or RecordFailure. *)
(* Logins overlap, each reads the clock before it waits for the lock, and  *)
(* a bucket may be reset or evicted under an attempt that it counts.       *)
(*                                                                         *)
(* An attempt is one login request.  A failure is named by its attempt,    *)
(* and its time is the last time that attempt read, so the list of times   *)
(* of a bucket is a set of attempts.                                       *)
(***************************************************************************)
EXTENDS Integers, FiniteSets

CONSTANTS
    IPs,            \* client addresses
    Attempts,       \* login requests
    MaxAttempts,    \* maxAttempts
    Window,         \* window, in units of the clock
    MaxIPs,         \* maxIPs
    CleanupPeriod,  \* cleanupPeriod
    MaxTime         \* bound on the clock

ASSUME SetsAssumption == IsFiniteSet(IPs) /\ IsFiniteSet(Attempts)
ASSUME LimitsAssumption ==
    /\ MaxAttempts \in Nat \ {0} /\ MaxIPs \in Nat \ {0}
    /\ Window \in Nat \ {0} /\ CleanupPeriod \in Nat /\ MaxTime \in Nat

VARIABLES
    clock,
    pc,           \* how far each login has come
    ip,           \* its client address
    now,          \* the time it read last
    buckets,      \* the addresses that have a bucket
    failures,     \* the failures in each bucket
    pending,      \* the pending attempts of each bucket
    lastSeen,     \* when each bucket was used last, 0 without a bucket
    lastCleanup,
    forgiven,     \* attempts begun before the bucket of their address was deleted
    orphans       \* those that were in flight then

requestVars == <<pc, ip, now>>
limiterVars == <<buckets, failures, pending, lastSeen, lastCleanup>>
historyVars == <<forgiven, orphans>>
vars == <<clock, requestVars, limiterVars, historyVars>>

Times == 0..MaxTime

TypeOK ==
    /\ clock \in Times
    /\ pc \in [Attempts -> {"new", "begin", "checking", "right", "wrong",
                            "in", "failed", "refused"}]
    /\ ip \in [Attempts -> IPs]
    /\ now \in [Attempts -> Times]
    /\ buckets \in SUBSET IPs
    /\ failures \in [IPs -> SUBSET Attempts]
    /\ pending \in [IPs -> Nat]
    /\ lastSeen \in [IPs -> Times]
    /\ lastCleanup \in Times \cup {-CleanupPeriod}
    /\ forgiven \in SUBSET Attempts
    /\ orphans \in SUBSET forgiven

\* lastCleanup starts at a time so long ago that the first cleanup is due.
Init ==
    /\ clock = 0
    /\ pc = [r \in Attempts |-> "new"]
    /\ ip \in [Attempts -> IPs]
    /\ now = [r \in Attempts |-> 0]
    /\ buckets = {}
    /\ failures = [i \in IPs |-> {}]
    /\ pending = [i \in IPs |-> 0]
    /\ lastSeen = [i \in IPs |-> 0]
    /\ lastCleanup = -CleanupPeriod
    /\ forgiven = {} /\ orphans = {}

-----------------------------------------------------------------------------
(***************************************************************************)
(* What the helpers that run under the lock do at time t.                  *)
(***************************************************************************)
InFlight(i) == {r \in Attempts : ip[r] = i /\ pc[r] \in {"checking", "right", "wrong"}}
Failed(i) == {r \in Attempts : ip[r] = i /\ pc[r] = "failed"}

\* pruneLocked
Recent(i, t) == {r \in failures[i] : now[r] > t - Window}

\* cleanupLocked
Due(t) == t - lastCleanup >= CleanupPeriod
CleanFailures(i, t) == IF Due(t) THEN Recent(i, t) ELSE failures[i]
CleanBuckets(t) ==
    IF Due(t) THEN {i \in buckets : Recent(i, t) # {} \/ pending[i] > 0} ELSE buckets

\* evictOldestLocked: an empty bucket if there is one, or else the oldest.
Evictable(t) ==
    LET B == CleanBuckets(t)
        empty == {i \in B : CleanFailures(i, t) = {} /\ pending[i] = 0}
        oldest == {i \in B : \A j \in B : lastSeen[i] <= lastSeen[j]}
    IN IF empty # {} THEN empty ELSE oldest

\* bucketLocked: what may have to go to make room for the bucket of i.
Victims(i, t) ==
    IF i \in CleanBuckets(t) \/ Cardinality(CleanBuckets(t)) < MaxIPs THEN {{}}
    ELSE {{j} : j \in Evictable(t)}

\* The buckets of the addresses V are deleted.
Forgive(V) ==
    LET begun(i) == InFlight(i) \cup Failed(i) IN
    /\ forgiven' = forgiven \cup UNION {begun(i) : i \in V}
    /\ orphans' = orphans \cup UNION {InFlight(i) : i \in V}

\* An operation of attempt r, which evicts V, leaves its bucket with the
\* failures F and p pending attempts.
Settle(r, V, F, p) ==
    LET t == now[r] IN
    /\ buckets' = (CleanBuckets(t) \ V) \cup {ip[r]}
    /\ failures' = [j \in IPs |-> IF j = ip[r] THEN F
                                  ELSE IF j \in V THEN {} ELSE CleanFailures(j, t)]
    /\ pending' = [j \in IPs |-> IF j = ip[r] THEN p
                                 ELSE IF j \in V THEN 0 ELSE pending[j]]
    /\ lastSeen' = [j \in IPs |-> IF j = ip[r] THEN t
                                  ELSE IF j \in buckets' THEN lastSeen[j] ELSE 0]
    /\ lastCleanup' = IF Due(t) THEN t ELSE lastCleanup
    /\ Forgive(V)

Goto(r, where) == pc' = [pc EXCEPT ![r] = where]

-----------------------------------------------------------------------------
(***************************************************************************)
(* A login.                                                                *)
(***************************************************************************)
\* The clock is read, then the lock is waited for.
Login(r) ==
    /\ pc[r] = "new"
    /\ Goto(r, "begin")
    /\ now' = [now EXCEPT ![r] = clock]
    /\ UNCHANGED <<clock, ip, limiterVars, historyVars>>

\* Mutant: attempts in flight are not counted.
AdmitByFailures(r) ==
    LET i == ip[r] IN
    /\ pc[r] = "begin"
    /\ Cardinality(Recent(i, now[r])) < MaxAttempts
    /\ Goto(r, "checking")
    /\ \E V \in Victims(i, now[r]) : Settle(r, V, Recent(i, now[r]), pending[i] + 1)
    /\ UNCHANGED <<clock, ip, now>>

\* BeginAttempt
Admit(r) ==
    LET i == ip[r] IN
    /\ pc[r] = "begin"
    /\ Cardinality(Recent(i, now[r])) + pending[i] < MaxAttempts
    /\ Goto(r, "checking")
    /\ \E V \in Victims(i, now[r]) : Settle(r, V, Recent(i, now[r]), pending[i] + 1)
    /\ UNCHANGED <<clock, ip, now>>

Refuse(r) ==
    LET i == ip[r] IN
    /\ pc[r] = "begin"
    /\ Cardinality(Recent(i, now[r])) + pending[i] >= MaxAttempts
    /\ Goto(r, "refused")
    /\ \E V \in Victims(i, now[r]) : Settle(r, V, Recent(i, now[r]), pending[i])
    /\ UNCHANGED <<clock, ip, now>>

\* The password is compared, and a failure reads the clock.
CompareHashAndPassword(r) ==
    /\ pc[r] = "checking"
    /\ \/ Goto(r, "right") /\ UNCHANGED now
       \/ Goto(r, "wrong") /\ now' = [now EXCEPT ![r] = clock]
    /\ UNCHANGED <<clock, ip, limiterVars, historyVars>>

\* Mutant: the attempt stays pending.
RecordFailureOnly(r) ==
    LET i == ip[r] IN
    /\ pc[r] = "wrong"
    /\ Goto(r, "failed")
    /\ \E V \in Victims(i, now[r]) :
        Settle(r, V, Recent(i, now[r]) \cup {r}, pending[i])
    /\ UNCHANGED <<clock, ip, now>>

RecordFailure(r) ==
    LET i == ip[r] IN
    /\ pc[r] = "wrong"
    /\ Goto(r, "failed")
    /\ \E V \in Victims(i, now[r]) :
        Settle(r, V, Recent(i, now[r]) \cup {r},
               IF pending[i] > 0 THEN pending[i] - 1 ELSE 0)
    /\ UNCHANGED <<clock, ip, now>>

Reset(r) ==
    /\ pc[r] = "right"
    /\ Goto(r, "in")
    /\ buckets' = buckets \ {ip[r]}
    /\ failures' = [failures EXCEPT ![ip[r]] = {}]
    /\ pending' = [pending EXCEPT ![ip[r]] = 0]
    /\ forgiven' = forgiven \cup InFlight(ip[r]) \cup Failed(ip[r])
    /\ orphans' = orphans \cup (InFlight(ip[r]) \ {r})
    /\ lastSeen' = [lastSeen EXCEPT ![ip[r]] = 0]
    /\ UNCHANGED <<clock, ip, now, lastCleanup>>

\* Limited, which cleans up and prunes as well.
Limited(i) ==
    LET B == CleanBuckets(clock)
        empty == Recent(i, clock) = {} /\ pending[i] = 0
    IN
    /\ buckets' = IF empty THEN B \ {i} ELSE B
    /\ failures' = [j \in IPs |-> IF j = i THEN Recent(i, clock)
                                  ELSE CleanFailures(j, clock)]
    /\ lastSeen' = [j \in IPs |-> IF j \in buckets' THEN lastSeen[j] ELSE 0]
    /\ lastCleanup' = IF Due(clock) THEN clock ELSE lastCleanup
    /\ UNCHANGED <<clock, requestVars, pending, historyVars>>

Tick ==
    /\ clock < MaxTime
    /\ clock' = clock + 1
    /\ UNCHANGED <<requestVars, limiterVars, historyVars>>

BeginAttempt(r) == Admit(r) \/ Refuse(r)

Next ==
    \/ \E r \in Attempts : \/ Login(r) \/ BeginAttempt(r)
                           \/ CompareHashAndPassword(r)
                           \/ RecordFailure(r) \/ Reset(r)
    \/ \E i \in IPs : Limited(i)
    \/ Tick

Spec == Init /\ [][Next]_vars

-----------------------------------------------------------------------------

\* The limiter keeps no more buckets than it may.
BucketsBounded == Cardinality(buckets) <= MaxIPs

\* The wrong passwords of address i compared in the window that starts at t.
Guesses(i, t) ==
    {r \in Attempts : /\ ip[r] = i /\ pc[r] \in {"wrong", "failed"}
                      /\ now[r] >= t /\ now[r] < t + Window}

\* However the logins of an address overlap, and however old the time they
\* read, no window sees more than MaxAttempts wrong passwords from it since its
\* bucket was last reset or evicted; an attempt in flight at that moment, whose
\* pending mark is lost with the bucket, is worth one more guess at most.
GuessesBounded ==
    \A i \in IPs, t \in Times :
        Cardinality(Guesses(i, t) \ forgiven)
            <= MaxAttempts + Cardinality({r \in orphans : ip[r] = i})

\* What keeps attempt r out: other attempts of its address that are in flight
\* or failed in the window before.
Causes(r) ==
    {q \in Attempts \ {r} :
        /\ ip[q] = ip[r]
        /\ \/ pc[q] \in {"checking", "right", "wrong"}
           \/ pc[q] = "failed" /\ now[q] > now[r] - Window}

\* Nobody is locked out by attempts of other addresses, by failures that are too
\* old, or by pending marks that nobody will clear.
NoFalseLockout ==
    [][\A r \in Attempts : pc[r] = "begin" /\ pc'[r] = "refused"
        => Cardinality(Causes(r)) >= MaxAttempts]_vars
=============================================================================
