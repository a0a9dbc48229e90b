------------------------- MODULE LoginLimiterProofs -------------------------
(***************************************************************************)
(* Proofs about LoginLimiter, for any number of addresses and overlapping  *)
(* logins, any limits and any clock.  The invariant compares, for each     *)
(* address, what its bucket holds with what its logins have done:          *)
(*   - a bucket counts only real failures and real attempts in flight;     *)
(*   - a failure that is still recent is in the bucket, unless the bucket  *)
(*     was deleted since the attempt began;                                *)
(*   - an attempt in flight is pending, unless the bucket was deleted, or  *)
(*     an orphan of an earlier bucket has used up its mark.                *)
(***************************************************************************)
EXTENDS LoginLimiter, FiniteSetTheorems, TLAPS

Unforgiven(i) == InFlight(i) \ forgiven
Live(i) == {r \in Failed(i) \ forgiven : now[r] > clock - Window}
Orphans(i) == {r \in orphans : ip[r] = i}
Spent(i) == {r \in Orphans(i) : pc[r] = "failed"}

\* What a bucket holds is real, and what is recent is in it.
BucketInv(i) ==
    /\ i \notin buckets => failures[i] = {} /\ pending[i] = 0
    /\ failures[i] \subseteq Failed(i)
    /\ Live(i) \subseteq failures[i]

\* How the marks of a bucket relate to the attempts in flight.
PendingInv(i) ==
    /\ pending[i] <= Cardinality(InFlight(i))
    /\ Cardinality(Unforgiven(i)) <= pending[i] + Cardinality(Spent(i))

\* What the current window has seen and may still see.
WindowInv(i) ==
    Cardinality(Live(i)) + Cardinality(Unforgiven(i))
        <= MaxAttempts + Cardinality(Spent(i))

TimesInv == \A r \in Attempts : now[r] <= clock

\* Only attempts that have begun are forgiven, and orphans if they are in flight.
HistoryInv ==
    \A r \in forgiven : /\ pc[r] \notin {"new", "begin", "refused"}
                        /\ r \in InFlight(ip[r]) => r \in orphans

IInv ==
    /\ TypeOK
    /\ BucketsBounded
    /\ TimesInv
    /\ HistoryInv
    /\ \A i \in IPs : BucketInv(i) /\ PendingInv(i) /\ WindowInv(i)
    /\ GuessesBounded

-----------------------------------------------------------------------------
(***************************************************************************)
(* Counting.                                                               *)
(***************************************************************************)
LEMMA Counted ==
    ASSUME NEW S \in SUBSET Attempts
    PROVE  IsFiniteSet(S) /\ Cardinality(S) \in Nat
  BY SetsAssumption, FS_Subset, FS_CardinalityType

LEMMA CountedLess ==
    ASSUME NEW T \in SUBSET Attempts, NEW S \in SUBSET T
    PROVE  Cardinality(S) <= Cardinality(T)
  BY Counted, FS_Subset

LEMMA CountedApart ==
    ASSUME NEW S \in SUBSET Attempts, NEW T \in SUBSET Attempts, S \cap T = {}
    PROVE  Cardinality(S \cup T) = Cardinality(S) + Cardinality(T)
<1>1. IsFiniteSet(S) /\ IsFiniteSet(T) /\ Cardinality(S) \in Nat /\ Cardinality(T) \in Nat
  BY Counted
<1>2. Cardinality(S \cup T) = Cardinality(S) + Cardinality(T) - Cardinality(S \cap T)
  BY <1>1, FS_Union
<1> QED
  BY <1>1, <1>2, FS_EmptySet

LEMMA CountedMore ==
    ASSUME NEW S \in SUBSET Attempts, NEW r \in Attempts, r \notin S
    PROVE  Cardinality(S \cup {r}) = Cardinality(S) + 1
  BY Counted, FS_AddElement

LEMMA CountedWithout ==
    ASSUME NEW S \in SUBSET Attempts, NEW r \in S
    PROVE  Cardinality(S \ {r}) = Cardinality(S) - 1
  BY Counted, FS_RemoveElement

\* The sets of the invariant are sets of attempts.
LEMMA SetsOfAttempts ==
    ASSUME TypeOK, NEW i \in IPs
    PROVE  /\ InFlight(i) \subseteq Attempts /\ Failed(i) \subseteq Attempts
           /\ Unforgiven(i) \subseteq Attempts /\ Live(i) \subseteq Attempts
           /\ Orphans(i) \subseteq Attempts /\ Spent(i) \subseteq Attempts
           /\ \A t : Recent(i, t) \subseteq Attempts /\ Guesses(i, t) \subseteq Attempts
  BY DEF TypeOK, InFlight, Failed, Unforgiven, Live, Orphans, Spent, Recent, Guesses

LEMMA Counts ==
    ASSUME TypeOK, NEW i \in IPs
    PROVE  /\ Cardinality(InFlight(i)) \in Nat /\ Cardinality(Unforgiven(i)) \in Nat
           /\ Cardinality(Live(i)) \in Nat /\ Cardinality(Spent(i)) \in Nat
           /\ Cardinality(Orphans(i)) \in Nat
  BY SetsOfAttempts, Counted

-----------------------------------------------------------------------------
(***************************************************************************)
(* Types, the clock, and the number of buckets.                            *)
(***************************************************************************)
LEMMA RecentIsOfBucket ==
    ASSUME TypeOK, NEW i \in IPs, NEW t \in Times
    PROVE  /\ Recent(i, t) \subseteq failures[i]
           /\ CleanFailures(i, t) \subseteq failures[i]
           /\ CleanBuckets(t) \subseteq buckets
  BY DEF Recent, CleanFailures, CleanBuckets

LEMMA VictimsApart ==
    ASSUME NEW i \in IPs, NEW t \in Times, NEW V \in Victims(i, t)
    PROVE  V \subseteq CleanBuckets(t) /\ i \notin V
  BY DEF Victims, Evictable

LEMMA SettleTypes ==
    ASSUME TypeOK, NEW r \in Attempts, NEW V \in Victims(ip[r], now[r]),
           NEW F \in SUBSET Attempts, NEW p \in Nat, Settle(r, V, F, p)
    PROVE  /\ buckets' \in SUBSET IPs
           /\ failures' \in [IPs -> SUBSET Attempts]
           /\ pending' \in [IPs -> Nat]
           /\ lastSeen' \in [IPs -> Times]
           /\ lastCleanup' \in Times \cup {-CleanupPeriod}
           /\ forgiven' \in SUBSET Attempts
           /\ orphans' \in SUBSET forgiven'
<1> DEFINE t == now[r]
<1>1. t \in Times /\ ip[r] \in IPs
  BY DEF TypeOK
<1>2. V \subseteq IPs
  BY <1>1, VictimsApart, RecentIsOfBucket DEF TypeOK
<1>3. failures' \in [IPs -> SUBSET Attempts]
  BY <1>1, RecentIsOfBucket DEF TypeOK, Settle
<1>4. pending' \in [IPs -> Nat] /\ lastSeen' \in [IPs -> Times]
  BY <1>1, LimitsAssumption DEF TypeOK, Settle, Times
<1>5. buckets' \in SUBSET IPs
  BY <1>1, RecentIsOfBucket DEF TypeOK, Settle
<1>6. lastCleanup' \in Times \cup {-CleanupPeriod}
  BY <1>1 DEF TypeOK, Settle
<1>7. \A i \in IPs : InFlight(i) \subseteq Attempts /\ Failed(i) \subseteq Attempts
  BY DEF InFlight, Failed
<1>8. forgiven' \in SUBSET Attempts /\ orphans' \in SUBSET forgiven'
  BY <1>2, <1>7 DEF TypeOK, Settle, Forgive
<1> QED
  BY <1>3, <1>4, <1>5, <1>6, <1>8

LEMMA StepTypes == TypeOK /\ [Next]_vars => TypeOK'
<1> SUFFICES ASSUME TypeOK, [Next]_vars
             PROVE  TypeOK'
  OBVIOUS
<1> USE DEF Goto
<1>1. ASSUME NEW r \in Attempts, Login(r)
      PROVE  TypeOK'
  BY <1>1 DEF TypeOK, Login, limiterVars, historyVars
<1>2. ASSUME NEW r \in Attempts, BeginAttempt(r)
      PROVE  TypeOK'
  <2>1. PICK V \in Victims(ip[r], now[r]), p \in Nat :
            Settle(r, V, Recent(ip[r], now[r]), p)
    BY <1>2 DEF BeginAttempt, Admit, Refuse, TypeOK
  <2>2. Recent(ip[r], now[r]) \in SUBSET Attempts
    BY SetsOfAttempts DEF TypeOK
  <2> QED
    BY <1>2, <2>1, <2>2, SettleTypes DEF TypeOK, BeginAttempt, Admit, Refuse
<1>3. ASSUME NEW r \in Attempts, CompareHashAndPassword(r)
      PROVE  TypeOK'
  BY <1>3 DEF TypeOK, CompareHashAndPassword, limiterVars, historyVars
<1>4. ASSUME NEW r \in Attempts, RecordFailure(r)
      PROVE  TypeOK'
  <2>1. PICK V \in Victims(ip[r], now[r]), p \in Nat :
            Settle(r, V, Recent(ip[r], now[r]) \cup {r}, p)
    <3>1. (IF pending[ip[r]] > 0 THEN pending[ip[r]] - 1 ELSE 0) \in Nat
      BY DEF TypeOK
    <3> QED
      BY <1>4, <3>1 DEF RecordFailure
  <2>2. Recent(ip[r], now[r]) \cup {r} \in SUBSET Attempts
    BY SetsOfAttempts DEF TypeOK
  <2> QED
    BY <1>4, <2>1, <2>2, SettleTypes DEF TypeOK, RecordFailure
<1>5. ASSUME NEW r \in Attempts, Reset(r)
      PROVE  TypeOK'
  BY <1>5, LimitsAssumption DEF TypeOK, Reset, InFlight, Failed, Times
<1>6. ASSUME NEW i \in IPs, Limited(i)
      PROVE  TypeOK'
  <2>1. clock \in Times
    BY DEF TypeOK
  <2>2. failures' \in [IPs -> SUBSET Attempts]
    BY <1>6, <2>1, RecentIsOfBucket DEF TypeOK, Limited
  <2>3. buckets' \in SUBSET IPs
    BY <1>6, <2>1, RecentIsOfBucket DEF TypeOK, Limited
  <2>4. lastSeen' \in [IPs -> Times]
    BY <1>6, LimitsAssumption DEF TypeOK, Limited, Times
  <2> QED
    BY <1>6, <2>2, <2>3, <2>4 DEF TypeOK, Limited, requestVars, historyVars
<1>7. CASE Tick
  BY <1>7, LimitsAssumption DEF TypeOK, Tick, Times, requestVars, limiterVars, historyVars
<1>8. CASE UNCHANGED vars
  BY <1>8 DEF TypeOK, vars, requestVars, limiterVars, historyVars
<1> QED
  BY <1>1, <1>2, <1>3, <1>4, <1>5, <1>6, <1>7, <1>8 DEF Next

LEMMA StepTimes == TypeOK /\ TimesInv /\ [Next]_vars => TimesInv'
<1> SUFFICES ASSUME TypeOK, TimesInv, [Next]_vars
             PROVE  TimesInv'
  OBVIOUS
<1>1. clock \in Int /\ \A r \in Attempts : now[r] \in Int
  BY LimitsAssumption DEF TypeOK, Times
<1>2. clock' \in Int /\ clock <= clock'
  <2>1. clock' = clock \/ clock' = clock + 1
    BY DEF Next, BeginAttempt, Login, Admit, Refuse, CompareHashAndPassword,
           RecordFailure, Reset, Limited, Tick, vars
  <2> QED
    BY <1>1, <2>1
<1>3. \A r \in Attempts : now'[r] = now[r] \/ now'[r] = clock'
  BY DEF TypeOK, Next, BeginAttempt, Login, Admit, Refuse, CompareHashAndPassword,
         RecordFailure, Reset, Limited, Tick, vars, requestVars
<1> QED
  BY <1>1, <1>2, <1>3 DEF TimesInv

\* However the bucket of an operation comes to be, there are no more than MaxIPs.
LEMMA SettleBounded ==
    ASSUME TypeOK, BucketsBounded, NEW r \in Attempts, NEW V \in Victims(ip[r], now[r]),
           NEW F, NEW p, Settle(r, V, F, p)
    PROVE  BucketsBounded'
<1> DEFINE i == ip[r]
           B == CleanBuckets(now[r])
<1>1. now[r] \in Times /\ i \in IPs /\ B \subseteq buckets
  BY RecentIsOfBucket DEF TypeOK
<1>2. IsFiniteSet(buckets) /\ IsFiniteSet(B) /\ Cardinality(B) <= Cardinality(buckets)
      /\ Cardinality(B) \in Nat /\ Cardinality(buckets) \in Nat
  BY <1>1, SetsAssumption, FS_Subset, FS_CardinalityType DEF TypeOK
<1>3. buckets' = (B \ V) \cup {i}
  BY DEF Settle
<1>4. CASE i \in B
  <2>1. V = {} /\ buckets' = B
    BY <1>3, <1>4 DEF Victims
  <2> QED
    BY <1>2, <2>1, LimitsAssumption DEF BucketsBounded
<1>5. CASE i \notin B /\ Cardinality(B) < MaxIPs
  <2>1. buckets' = B \cup {i}
    BY <1>3, <1>5 DEF Victims
  <2>2. Cardinality(B \cup {i}) = Cardinality(B) + 1
    BY <1>2, <1>5, FS_AddElement
  <2> QED
    BY <1>2, <1>5, <2>1, <2>2, LimitsAssumption DEF BucketsBounded
<1>6. CASE i \notin B /\ ~(Cardinality(B) < MaxIPs)
  <2>1. PICK j \in B : V = {j}
    BY <1>6 DEF Victims, Evictable
  <2>2. IsFiniteSet(B \ {j}) /\ Cardinality(B \ {j}) = Cardinality(B) - 1
    BY <1>2, FS_RemoveElement
  <2>3. Cardinality((B \ {j}) \cup {i}) = Cardinality(B \ {j}) + 1
    BY <1>6, <2>2, FS_AddElement
  <2> QED
    BY <1>2, <1>3, <2>1, <2>2, <2>3, LimitsAssumption DEF BucketsBounded
<1> QED
  BY <1>4, <1>5, <1>6

LEMMA StepBounded == TypeOK /\ BucketsBounded /\ [Next]_vars => BucketsBounded'
<1> SUFFICES ASSUME TypeOK, BucketsBounded, [Next]_vars
             PROVE  BucketsBounded'
  OBVIOUS
<1>1. ASSUME NEW r \in Attempts, BeginAttempt(r) \/ RecordFailure(r)
      PROVE  BucketsBounded'
  <2>1. PICK V \in Victims(ip[r], now[r]) : \E F, p : Settle(r, V, F, p)
    BY <1>1 DEF BeginAttempt, Admit, Refuse, RecordFailure
  <2> QED
    BY <2>1, SettleBounded
<1>2. CASE buckets' \subseteq buckets
  <2>1. IsFiniteSet(buckets)
    BY SetsAssumption, FS_Subset DEF TypeOK
  <2>2. Cardinality(buckets') <= Cardinality(buckets) /\ Cardinality(buckets') \in Nat
        /\ Cardinality(buckets) \in Nat
    BY <1>2, <2>1, FS_Subset, FS_CardinalityType
  <2> QED
    BY <2>2, LimitsAssumption DEF BucketsBounded
<1>3. ASSUME NEW i \in IPs, Limited(i)
      PROVE  buckets' \subseteq buckets
  BY <1>3 DEF Limited, CleanBuckets
<1>4. ASSUME NEW r \in Attempts, Login(r) \/ CompareHashAndPassword(r) \/ Reset(r)
      PROVE  buckets' \subseteq buckets
  BY <1>4 DEF Login, CompareHashAndPassword, Reset, limiterVars
<1>5. Tick \/ UNCHANGED vars => buckets' \subseteq buckets
  BY DEF Tick, vars, limiterVars
<1> QED
  BY <1>1, <1>2, <1>3, <1>4, <1>5 DEF Next

LEMMA StepHistory == TypeOK /\ HistoryInv /\ [Next]_vars => HistoryInv'
<1> SUFFICES ASSUME TypeOK, HistoryInv, [Next]_vars
             PROVE  HistoryInv'
  OBVIOUS
<1> USE DEF HistoryInv, InFlight, Failed, Goto
<1>1. ASSUME NEW r \in Attempts, Login(r)
      PROVE  HistoryInv'
  BY <1>1 DEF TypeOK, Login, historyVars
<1>2. ASSUME NEW r \in Attempts, BeginAttempt(r)
      PROVE  HistoryInv'
  <2>1. PICK V \in Victims(ip[r], now[r]) : Forgive(V)
    BY <1>2 DEF BeginAttempt, Admit, Refuse, Settle
  <2>2. V \subseteq IPs
    BY VictimsApart, RecentIsOfBucket DEF TypeOK
  <2> QED
    BY <1>2, <2>1, <2>2 DEF TypeOK, BeginAttempt, Admit, Refuse, Forgive
<1>3. ASSUME NEW r \in Attempts, CompareHashAndPassword(r)
      PROVE  HistoryInv'
  BY <1>3 DEF TypeOK, CompareHashAndPassword, historyVars
<1>4. ASSUME NEW r \in Attempts, RecordFailure(r)
      PROVE  HistoryInv'
  <2>1. PICK V \in Victims(ip[r], now[r]) : Forgive(V)
    BY <1>4 DEF RecordFailure, Settle
  <2> QED
    BY <1>4, <2>1 DEF TypeOK, RecordFailure, Forgive
<1>5. ASSUME NEW r \in Attempts, Reset(r)
      PROVE  HistoryInv'
  BY <1>5 DEF TypeOK, Reset
<1>6. (\E i \in IPs : Limited(i)) \/ Tick \/ UNCHANGED vars => HistoryInv'
  BY DEF Limited, Tick, vars, requestVars, historyVars
<1> QED
  BY <1>1, <1>2, <1>3, <1>4, <1>5, <1>6 DEF Next

-----------------------------------------------------------------------------
(***************************************************************************)
(* What a step does to the counts of one address.                          *)
(***************************************************************************)
\* The attempts of j, and what is known of them, stay; time may pass.
SameAttempts(j) ==
    /\ ip' = ip /\ clock <= clock' /\ pending'[j] = pending[j]
    /\ InFlight(j)' = InFlight(j) /\ Failed(j)' = Failed(j)
    /\ \A q \in Failed(j) : now'[q] = now[q]
    /\ \A q \in Attempts : ip[q] = j =>
          (q \in forgiven' <=> q \in forgiven) /\ (q \in orphans' <=> q \in orphans)

LEMMA CountsStay ==
    ASSUME IInv, TypeOK', NEW j \in IPs, SameAttempts(j)
    PROVE  PendingInv(j)' /\ WindowInv(j)' /\ Live(j)' \subseteq Live(j)
<1>1. Unforgiven(j)' = Unforgiven(j)
  BY DEF SameAttempts, Unforgiven, InFlight
<1>2. Spent(j)' = Spent(j)
  <2>1. \A q \in Attempts : q \in Failed(j)' <=> q \in Failed(j)
    BY DEF SameAttempts
  <2>2. \A q \in Attempts : ip[q] = j => (pc'[q] = "failed" <=> pc[q] = "failed")
    BY <2>1 DEF SameAttempts, Failed
  <2>3. orphans \subseteq Attempts /\ orphans' \subseteq Attempts
    BY DEF IInv, TypeOK
  <2> QED
    BY <2>2, <2>3 DEF SameAttempts, Spent, Orphans
<1>3. Live(j)' \subseteq Live(j)
  <2>1. clock \in Int /\ clock' \in Int /\ \A q \in Attempts : now[q] \in Int
    BY LimitsAssumption DEF IInv, TypeOK, Times
  <2> QED
    BY <2>1, LimitsAssumption DEF SameAttempts, Live, Failed
<1>4. Live(j) \subseteq Attempts
  BY SetsOfAttempts DEF IInv
<1>5. Cardinality(Live(j)') <= Cardinality(Live(j)) /\ Cardinality(Live(j)') \in Nat
  BY <1>3, <1>4, Counted, CountedLess
<1>6. PendingInv(j)'
  BY <1>1, <1>2 DEF IInv, PendingInv, SameAttempts
<1>7. WindowInv(j)'
  BY <1>1, <1>2, <1>5, Counts, LimitsAssumption DEF IInv, WindowInv
<1> QED
  BY <1>3, <1>6, <1>7

\* A bucket that is only cleaned up still has what is recent.
LEMMA CleanedBucket ==
    ASSUME IInv, NEW j \in IPs, NEW t \in Times, t <= clock, clock' = clock,
           Failed(j)' = Failed(j), Live(j)' \subseteq Live(j),
           failures'[j] = CleanFailures(j, t) \/ failures'[j] = Recent(j, t),
           j \notin buckets' => failures'[j] = {} /\ pending'[j] = 0
    PROVE  BucketInv(j)'
<1>1. t \in Int /\ clock \in Int /\ \A q \in Attempts : now[q] \in Int
  BY LimitsAssumption DEF IInv, TypeOK, Times
<1>2. BucketInv(j) /\ failures'[j] \subseteq failures[j]
  BY RecentIsOfBucket DEF IInv, Recent
<1>3. Live(j) \subseteq Recent(j, t)
  BY <1>1, <1>2, LimitsAssumption DEF BucketInv, Live, Failed, Recent
<1>4. Live(j) \subseteq failures'[j]
  BY <1>2, <1>3 DEF BucketInv, CleanFailures
<1> QED
  BY <1>2, <1>4 DEF BucketInv

\* A bucket that is deleted takes everything with it.
LEMMA Emptied ==
    ASSUME TypeOK', NEW j \in IPs, InFlight(j)' \cup Failed(j)' \subseteq forgiven',
           failures'[j] = {}, pending'[j] = 0
    PROVE  BucketInv(j)' /\ PendingInv(j)' /\ WindowInv(j)'
<1>1. Live(j)' = {} /\ Unforgiven(j)' = {}
  BY DEF Live, Unforgiven
<1>2. Cardinality({}) = 0
  BY FS_EmptySet
<1>3. Cardinality(InFlight(j)') \in Nat /\ Cardinality(Spent(j)') \in Nat
  BY Counted DEF TypeOK, InFlight, Spent, Orphans
<1>4. BucketInv(j)'
  BY <1>1 DEF BucketInv
<1>5. PendingInv(j)' /\ WindowInv(j)'
  BY <1>1, <1>2, <1>3, LimitsAssumption DEF PendingInv, WindowInv
<1> QED
  BY <1>4, <1>5

AddressInv(j) == BucketInv(j) /\ PendingInv(j) /\ WindowInv(j)

\* An operation of attempt r leaves the other addresses alone, but for the one
\* that has to make room.
LEMMA OthersStay ==
    ASSUME IInv, TypeOK', NEW r \in Attempts, NEW V \in Victims(ip[r], now[r]),
           NEW F, NEW p, Settle(r, V, F, p), UNCHANGED <<clock, ip, now>>,
           NEW where, Goto(r, where), NEW j \in IPs, j # ip[r]
    PROVE  AddressInv(j)'
<1> DEFINE t == now[r]
<1>1. t \in Times /\ ip[r] \in IPs /\ t <= clock
  BY DEF IInv, TypeOK, TimesInv
<1>2. V \subseteq IPs
  BY <1>1, VictimsApart, RecentIsOfBucket DEF IInv, TypeOK
<1>3. InFlight(j)' = InFlight(j) /\ Failed(j)' = Failed(j)
  BY DEF IInv, TypeOK, Goto, InFlight, Failed
<1>4. CASE j \in V
  <2>1. InFlight(j) \cup Failed(j) \subseteq forgiven'
    BY <1>4 DEF Settle, Forgive
  <2>2. failures'[j] = {} /\ pending'[j] = 0
    BY <1>4 DEF Settle
  <2> QED
    BY <1>3, <2>1, <2>2, Emptied DEF AddressInv
<1>5. CASE j \notin V
  <2>1. \A q \in Attempts : ip[q] = j =>
          (q \in forgiven' <=> q \in forgiven) /\ (q \in orphans' <=> q \in orphans)
    BY <1>5 DEF Settle, Forgive, InFlight, Failed
  <2>2. clock \in Int /\ pending'[j] = pending[j]
    BY <1>5, LimitsAssumption DEF IInv, TypeOK, Times, Settle
  <2>3. SameAttempts(j)
    BY <1>3, <2>1, <2>2 DEF SameAttempts
  <2>4. failures'[j] = CleanFailures(j, t)
    BY <1>5 DEF Settle
  <2>5. j \notin buckets' => failures'[j] = {} /\ pending'[j] = 0
    <3>1. ASSUME j \notin buckets'
          PROVE  j \notin CleanBuckets(t)
      BY <1>5, <3>1 DEF Settle
    <3>2. j \notin buckets => failures[j] = {} /\ pending[j] = 0
      BY DEF IInv, BucketInv
    <3>3. pending[j] \in Nat
      BY DEF IInv, TypeOK
    <3> QED
      BY <2>2, <2>4, <3>1, <3>2, <3>3 DEF CleanBuckets, CleanFailures, Recent
  <2> QED
    BY <1>1, <1>3, <2>3, <2>4, <2>5, CountsStay, CleanedBucket DEF AddressInv
<1> QED
  BY <1>4, <1>5

\* What the operation leaves alone of its own address.
LEMMA OwnHistory ==
    ASSUME IInv, NEW r \in Attempts, NEW V \in Victims(ip[r], now[r]),
           NEW F, NEW p, Settle(r, V, F, p)
    PROVE  /\ ip[r] \in IPs /\ ip[r] \in buckets'
           /\ failures'[ip[r]] = F /\ pending'[ip[r]] = p
           /\ \A q \in Attempts : ip[q] = ip[r] =>
                 (q \in forgiven' <=> q \in forgiven) /\ (q \in orphans' <=> q \in orphans)
<1>1. ip[r] \in IPs /\ now[r] \in Times
  BY DEF IInv, TypeOK
<1>2. ip[r] \notin V
  BY <1>1, VictimsApart
<1> QED
  BY <1>1, <1>2 DEF Settle, Forgive, InFlight, Failed

-----------------------------------------------------------------------------
(***************************************************************************)
(* The operations, on the address of the attempt.                          *)
(***************************************************************************)
\* An admission counts whatever the current window has seen: the limit leaves room
\* for one more.
LEMMA AdmitOwn ==
    ASSUME IInv, TypeOK', NEW r \in Attempts, Admit(r), NEW i \in IPs, ip[r] = i
    PROVE  AddressInv(i)'
<1>1. PICK V \in Victims(ip[r], now[r]) :
          Settle(r, V, Recent(i, now[r]), pending[i] + 1)
  BY DEF Admit
<1>2. /\ i \in buckets' /\ failures'[i] = Recent(i, now[r]) /\ pending'[i] = pending[i] + 1
      /\ \A q \in Attempts : ip[q] = i =>
            (q \in forgiven' <=> q \in forgiven) /\ (q \in orphans' <=> q \in orphans)
  BY <1>1, OwnHistory
<1>3. /\ now[r] \in Times /\ now[r] <= clock /\ now[r] \in Int /\ clock \in Int
      /\ \A q \in Attempts : now[q] \in Int
  BY LimitsAssumption DEF IInv, TypeOK, TimesInv, Times
<1>4. pc[r] = "begin" /\ pc' = [pc EXCEPT ![r] = "checking"] /\ UNCHANGED <<clock, ip, now>>
  BY DEF Admit, Goto
<1>5. InFlight(i)' = InFlight(i) \cup {r} /\ r \notin InFlight(i) /\ Failed(i)' = Failed(i)
  BY <1>4 DEF IInv, TypeOK, InFlight, Failed
<1>6. Live(i)' = Live(i)
  BY <1>2, <1>4, <1>5 DEF Live, Failed
<1>7. r \notin forgiven
  BY <1>4 DEF IInv, HistoryInv
<1>8. Unforgiven(i)' = Unforgiven(i) \cup {r} /\ r \notin Unforgiven(i)
  BY <1>2, <1>5, <1>7 DEF Unforgiven, InFlight
<1>9. Spent(i)' = Spent(i)
  BY <1>2, <1>4 DEF IInv, TypeOK, Spent, Orphans
<1>10. /\ Cardinality(InFlight(i)') = Cardinality(InFlight(i)) + 1
       /\ Cardinality(Unforgiven(i)') = Cardinality(Unforgiven(i)) + 1
  BY <1>5, <1>8, SetsOfAttempts, CountedMore DEF IInv
<1>11. Live(i) \subseteq Recent(i, now[r])
  BY <1>3, LimitsAssumption DEF IInv, BucketInv, Live, Failed, Recent
<1>12. /\ Cardinality(Live(i)) <= Cardinality(Recent(i, now[r]))
       /\ Cardinality(Recent(i, now[r])) \in Nat
  BY <1>11, SetsOfAttempts, Counted, CountedLess DEF IInv
<1>13. Cardinality(Recent(i, now[r])) + pending[i] < MaxAttempts /\ pending[i] \in Nat
  BY DEF Admit, IInv, TypeOK
<1>14. BucketInv(i)'
  BY <1>2, <1>5, <1>6, <1>11, RecentIsOfBucket, <1>3 DEF IInv, BucketInv
<1>15. PendingInv(i)'
  BY <1>2, <1>9, <1>10, <1>13, Counts DEF IInv, PendingInv
<1>16. WindowInv(i)'
  BY <1>6, <1>9, <1>10, <1>12, <1>13, Counts, LimitsAssumption
     DEF IInv, PendingInv, WindowInv
<1> QED
  BY <1>14, <1>15, <1>16 DEF AddressInv

LEMMA RefuseOwn ==
    ASSUME IInv, TypeOK', NEW r \in Attempts, Refuse(r), NEW i \in IPs, ip[r] = i
    PROVE  AddressInv(i)'
<1>1. PICK V \in Victims(ip[r], now[r]) : Settle(r, V, Recent(i, now[r]), pending[i])
  BY DEF Refuse
<1>2. /\ i \in buckets' /\ failures'[i] = Recent(i, now[r]) /\ pending'[i] = pending[i]
      /\ \A q \in Attempts : ip[q] = i =>
            (q \in forgiven' <=> q \in forgiven) /\ (q \in orphans' <=> q \in orphans)
  BY <1>1, OwnHistory
<1>3. now[r] \in Times /\ now[r] <= clock /\ clock \in Int
  BY LimitsAssumption DEF IInv, TypeOK, TimesInv, Times
<1>4. pc[r] = "begin" /\ pc' = [pc EXCEPT ![r] = "refused"] /\ UNCHANGED <<clock, ip, now>>
  BY DEF Refuse, Goto
<1>5. InFlight(i)' = InFlight(i) /\ Failed(i)' = Failed(i)
  BY <1>4 DEF IInv, TypeOK, InFlight, Failed
<1>6. SameAttempts(i)
  BY <1>2, <1>3, <1>4, <1>5 DEF SameAttempts
<1> QED
  BY <1>2, <1>3, <1>4, <1>5, <1>6, CountsStay, CleanedBucket DEF AddressInv

\* A failure takes the mark of its attempt, or an orphan takes another's.
LEMMA RecordFailureOwn ==
    ASSUME IInv, TypeOK', NEW r \in Attempts, RecordFailure(r), NEW i \in IPs, ip[r] = i
    PROVE  AddressInv(i)'
<1> DEFINE p == IF pending[i] > 0 THEN pending[i] - 1 ELSE 0
<1>1. PICK V \in Victims(ip[r], now[r]) : Settle(r, V, Recent(i, now[r]) \cup {r}, p)
  BY DEF RecordFailure
<1>2. /\ i \in buckets' /\ failures'[i] = Recent(i, now[r]) \cup {r} /\ pending'[i] = p
      /\ \A q \in Attempts : ip[q] = i =>
            (q \in forgiven' <=> q \in forgiven) /\ (q \in orphans' <=> q \in orphans)
  BY <1>1, OwnHistory
<1>3. /\ now[r] \in Times /\ now[r] <= clock /\ now[r] \in Int /\ clock \in Int
      /\ \A q \in Attempts : now[q] \in Int
  BY LimitsAssumption DEF IInv, TypeOK, TimesInv, Times
<1>4. pc[r] = "wrong" /\ pc' = [pc EXCEPT ![r] = "failed"] /\ UNCHANGED <<clock, ip, now>>
  BY DEF RecordFailure, Goto
<1>5. /\ InFlight(i)' = InFlight(i) \ {r} /\ r \in InFlight(i)
      /\ Failed(i)' = Failed(i) \cup {r} /\ r \notin Failed(i)
  BY <1>4 DEF IInv, TypeOK, InFlight, Failed
<1>6. Cardinality(InFlight(i)') = Cardinality(InFlight(i)) - 1
  BY <1>5, SetsOfAttempts, CountedWithout DEF IInv
<1>7. /\ Cardinality(InFlight(i)) \in Nat /\ Cardinality(InFlight(i)') \in Nat
      /\ Cardinality(Unforgiven(i)) \in Nat /\ Cardinality(Unforgiven(i)') \in Nat
      /\ Cardinality(Live(i)) \in Nat /\ Cardinality(Live(i)') \in Nat
      /\ Cardinality(Spent(i)) \in Nat /\ Cardinality(Spent(i)') \in Nat
  <2>1. /\ InFlight(i)' \subseteq Attempts /\ Unforgiven(i)' \subseteq Attempts
        /\ Live(i)' \subseteq Attempts /\ Spent(i)' \subseteq Attempts
    BY DEF TypeOK, InFlight, Failed, Unforgiven, Live, Spent, Orphans
  <2> QED
    BY <2>1, Counts, Counted DEF IInv
<1>8. pending[i] \in Nat /\ p \in Nat
  BY DEF IInv, TypeOK
<1>9. Live(i)' \subseteq Live(i) \cup {r}
  BY <1>2, <1>4, <1>5 DEF Live, Failed
<1>10. BucketInv(i)'
  <2>1. Live(i) \subseteq Recent(i, now[r])
    BY <1>3, LimitsAssumption DEF IInv, BucketInv, Live, Failed, Recent
  <2>2. Recent(i, now[r]) \subseteq Failed(i)
    BY <1>3, RecentIsOfBucket DEF IInv, BucketInv
  <2> QED
    BY <1>2, <1>5, <1>9, <2>1, <2>2 DEF BucketInv
<1>11. CASE r \in forgiven
  <2>1. r \in orphans
    BY <1>4, <1>11 DEF IInv, HistoryInv, InFlight
  <2>2. Spent(i)' = Spent(i) \cup {r} /\ r \notin Spent(i)
    BY <1>2, <1>4, <2>1 DEF IInv, TypeOK, Spent, Orphans
  <2>3. Unforgiven(i)' = Unforgiven(i)
    BY <1>2, <1>5, <1>11 DEF Unforgiven, InFlight
  <2>4. Live(i)' = Live(i)
    BY <1>2, <1>4, <1>5, <1>11 DEF Live, Failed
  <2>5. Cardinality(Spent(i)') = Cardinality(Spent(i)) + 1
    BY <2>2, SetsOfAttempts, CountedMore DEF IInv
  <2>6. PendingInv(i)'
    BY <1>2, <1>6, <1>7, <1>8, <2>3, <2>5 DEF IInv, PendingInv
  <2>7. WindowInv(i)'
    BY <1>7, <2>3, <2>4, <2>5, LimitsAssumption DEF IInv, WindowInv
  <2> QED
    BY <1>10, <2>6, <2>7 DEF AddressInv
<1>12. CASE r \notin forgiven
  <2>1. Spent(i)' = Spent(i)
    BY <1>2, <1>4, <1>12 DEF IInv, TypeOK, Spent, Orphans
  <2>2. Unforgiven(i)' = Unforgiven(i) \ {r} /\ r \in Unforgiven(i)
    BY <1>2, <1>5, <1>12 DEF Unforgiven, InFlight
  <2>3. Cardinality(Unforgiven(i)') = Cardinality(Unforgiven(i)) - 1
    BY <2>2, SetsOfAttempts, CountedWithout DEF IInv
  <2>4. Cardinality(Live(i)') <= Cardinality(Live(i)) + 1
    <3>1. r \notin Live(i) /\ Live(i) \cup {r} \in SUBSET Attempts
      BY <1>5, SetsOfAttempts DEF IInv, Live
    <3>2. Cardinality(Live(i) \cup {r}) = Cardinality(Live(i)) + 1
      BY <3>1, SetsOfAttempts, CountedMore DEF IInv
    <3> QED
      BY <1>7, <1>9, <3>1, <3>2, CountedLess
  <2>5. PendingInv(i)'
    BY <1>2, <1>6, <1>7, <1>8, <2>1, <2>3 DEF IInv, PendingInv
  <2>6. WindowInv(i)'
    BY <1>7, <2>1, <2>3, <2>4, LimitsAssumption DEF IInv, WindowInv
  <2> QED
    BY <1>10, <2>5, <2>6 DEF AddressInv
<1> QED
  BY <1>11, <1>12

LEMMA ResetStep ==
    ASSUME IInv, TypeOK', NEW r \in Attempts, Reset(r), NEW j \in IPs
    PROVE  AddressInv(j)'
<1>1. UNCHANGED <<clock, ip, now>> /\ pc' = [pc EXCEPT ![r] = "in"]
  BY DEF Reset, Goto
<1>2. clock \in Int
  BY LimitsAssumption DEF IInv, TypeOK, Times
<1>3. CASE j = ip[r]
  <2>1. InFlight(j)' \subseteq InFlight(j) /\ Failed(j)' \subseteq Failed(j)
    BY <1>1 DEF IInv, TypeOK, InFlight, Failed
  <2>2. InFlight(j) \cup Failed(j) \subseteq forgiven'
    BY <1>3 DEF Reset
  <2>3. failures'[j] = {} /\ pending'[j] = 0
    BY <1>3 DEF IInv, TypeOK, Reset
  <2> QED
    BY <2>1, <2>2, <2>3, Emptied DEF AddressInv
<1>4. CASE j # ip[r]
  <2>1. InFlight(j)' = InFlight(j) /\ Failed(j)' = Failed(j)
    BY <1>1, <1>4 DEF IInv, TypeOK, InFlight, Failed
  <2>2. \A q \in Attempts : ip[q] = j =>
          (q \in forgiven' <=> q \in forgiven) /\ (q \in orphans' <=> q \in orphans)
    BY <1>4 DEF Reset, InFlight, Failed
  <2>3. /\ failures'[j] = failures[j] /\ pending'[j] = pending[j]
        /\ j \in buckets' <=> j \in buckets
    BY <1>4 DEF IInv, TypeOK, Reset
  <2>4. SameAttempts(j)
    BY <1>1, <1>2, <2>1, <2>2, <2>3 DEF SameAttempts
  <2>5. BucketInv(j)'
    BY <2>1, <2>3, <2>4, CountsStay DEF IInv, BucketInv
  <2> QED
    BY <2>4, <2>5, CountsStay DEF AddressInv
<1> QED
  BY <1>3, <1>4

LEMMA LimitedStep ==
    ASSUME IInv, TypeOK', NEW i \in IPs, Limited(i), NEW j \in IPs
    PROVE  AddressInv(j)'
<1>1. UNCHANGED <<clock, ip, now, pc, pending, forgiven, orphans>>
  BY DEF Limited, requestVars, historyVars
<1>2. clock \in Times /\ clock \in Int
  BY LimitsAssumption DEF IInv, TypeOK, Times
<1>3. InFlight(j)' = InFlight(j) /\ Failed(j)' = Failed(j)
  BY <1>1 DEF InFlight, Failed
<1>4. SameAttempts(j)
  BY <1>1, <1>2, <1>3 DEF SameAttempts
<1>5. failures'[j] = CleanFailures(j, clock) \/ failures'[j] = Recent(j, clock)
  BY DEF Limited
<1>6. j \notin buckets' => failures'[j] = {} /\ pending'[j] = 0
  <2>1. BucketInv(j) /\ pending[j] \in Nat
    BY DEF IInv, TypeOK
  <2> QED
    BY <1>1, <2>1 DEF Limited, CleanBuckets, CleanFailures, BucketInv, Recent
<1> QED
  BY <1>1, <1>2, <1>3, <1>4, <1>5, <1>6, CountsStay, CleanedBucket DEF AddressInv

\* The steps that do not touch the limiter.
LEMMA QuietStep ==
    ASSUME IInv, TypeOK', NEW j \in IPs, clock <= clock', ip' = ip,
           UNCHANGED <<limiterVars, historyVars>>,
           InFlight(j)' = InFlight(j), Failed(j)' = Failed(j),
           \A q \in Failed(j) : now'[q] = now[q]
    PROVE  AddressInv(j)'
<1>1. SameAttempts(j)
  BY DEF SameAttempts, limiterVars, historyVars
<1>2. BucketInv(j)'
  BY <1>1, CountsStay DEF IInv, BucketInv, limiterVars
<1> QED
  BY <1>1, <1>2, CountsStay DEF AddressInv

LEMMA StepAddress ==
    ASSUME IInv, TypeOK', [Next]_vars, NEW j \in IPs
    PROVE  AddressInv(j)'
<1>1. clock \in Int
  BY LimitsAssumption DEF IInv, TypeOK, Times
<1>2. ASSUME NEW r \in Attempts, Login(r) \/ CompareHashAndPassword(r)
      PROVE  AddressInv(j)'
  <2>1. InFlight(j)' = InFlight(j) /\ Failed(j)' = Failed(j)
    BY <1>2 DEF IInv, TypeOK, Login, CompareHashAndPassword, Goto, InFlight, Failed
  <2>2. \A q \in Failed(j) : now'[q] = now[q]
    BY <1>2 DEF IInv, TypeOK, Login, CompareHashAndPassword, Failed
  <2> QED
    BY <1>1, <1>2, <2>1, <2>2, QuietStep DEF Login, CompareHashAndPassword
<1>3. ASSUME NEW r \in Attempts, BeginAttempt(r) \/ RecordFailure(r)
      PROVE  AddressInv(j)'
  <2>1. CASE j = ip[r]
    BY <1>3, <2>1, AdmitOwn, RefuseOwn, RecordFailureOwn DEF BeginAttempt
  <2>2. CASE j # ip[r]
    BY <1>3, <2>2, OthersStay DEF BeginAttempt, Admit, Refuse, RecordFailure
  <2> QED
    BY <2>1, <2>2
<1>4. CASE Tick \/ UNCHANGED vars
  <2>1. /\ clock <= clock' /\ UNCHANGED <<ip, now, pc>>
        /\ UNCHANGED <<limiterVars, historyVars>>
    BY <1>1, <1>4 DEF Tick, vars, requestVars
  <2>2. InFlight(j)' = InFlight(j) /\ Failed(j)' = Failed(j)
    BY <2>1 DEF InFlight, Failed
  <2> QED
    BY <2>1, <2>2, QuietStep
<1> QED
  BY <1>2, <1>3, <1>4, ResetStep, LimitedStep DEF Next

-----------------------------------------------------------------------------
(***************************************************************************)
(* The guesses.                                                            *)
(***************************************************************************)
\* A guess is made now, and nothing is unforgiven.
LEMMA StepGuess ==
    ASSUME TypeOK, [Next]_vars
    PROVE  /\ ip' = ip
           /\ forgiven \subseteq forgiven' /\ orphans \subseteq orphans'
           /\ \A q \in Attempts : pc'[q] \in {"wrong", "failed"} =>
                 \/ pc[q] \in {"wrong", "failed"} /\ now'[q] = now[q]
                 \/ now'[q] = clock'
<1>1. ASSUME NEW r \in Attempts, Login(r) \/ CompareHashAndPassword(r)
      PROVE  /\ ip' = ip
             /\ forgiven \subseteq forgiven' /\ orphans \subseteq orphans'
             /\ \A q \in Attempts : pc'[q] \in {"wrong", "failed"} =>
                   \/ pc[q] \in {"wrong", "failed"} /\ now'[q] = now[q]
                   \/ now'[q] = clock'
  BY <1>1 DEF TypeOK, Login, CompareHashAndPassword, Goto, historyVars
<1>2. ASSUME NEW r \in Attempts, BeginAttempt(r) \/ RecordFailure(r) \/ Reset(r)
      PROVE  /\ ip' = ip
             /\ forgiven \subseteq forgiven' /\ orphans \subseteq orphans'
             /\ \A q \in Attempts : pc'[q] \in {"wrong", "failed"} =>
                   \/ pc[q] \in {"wrong", "failed"} /\ now'[q] = now[q]
                   \/ now'[q] = clock'
  BY <1>2 DEF TypeOK, BeginAttempt, Admit, Refuse, RecordFailure, Reset, Goto, Settle,
              Forgive
<1>3. (\E i \in IPs : Limited(i)) \/ Tick \/ UNCHANGED vars =>
          UNCHANGED <<ip, now, pc, forgiven, orphans>>
  BY DEF Limited, Tick, vars, requestVars, historyVars
<1> QED
  BY <1>1, <1>2, <1>3 DEF Next

LEMMA StepGuesses ==
    ASSUME IInv, [Next]_vars, TypeOK', \A i \in IPs : AddressInv(i)'
    PROVE  GuessesBounded'
<1> SUFFICES ASSUME NEW i \in IPs, NEW t \in Times
             PROVE  Cardinality(Guesses(i, t)' \ forgiven')
                        <= MaxAttempts + Cardinality(Orphans(i)')
  BY DEF GuessesBounded, Orphans
<1> DEFINE G == Guesses(i, t)' \ forgiven'
<1>1. /\ G \subseteq Attempts /\ Orphans(i)' \subseteq Attempts
      /\ Live(i)' \subseteq Attempts /\ Unforgiven(i)' \subseteq Attempts
      /\ Spent(i)' \subseteq Orphans(i)'
  BY DEF TypeOK, Guesses, Orphans, Live, Failed, Unforgiven, InFlight, Spent
<1>2. t \in Int /\ clock' \in Int /\ \A q \in Attempts : now'[q] \in Int
  BY LimitsAssumption DEF TypeOK, Times
<1>3. CASE clock' < t + Window
  <2>1. G \subseteq Live(i)' \cup Unforgiven(i)'
    BY <1>2, <1>3, LimitsAssumption
       DEF Guesses, Live, Failed, Unforgiven, InFlight
  <2>2. Live(i)' \cap Unforgiven(i)' = {}
    BY DEF Live, Failed, Unforgiven, InFlight
  <2>3. Cardinality(Live(i)' \cup Unforgiven(i)')
            = Cardinality(Live(i)') + Cardinality(Unforgiven(i)')
    BY <1>1, <2>2, CountedApart
  <2>4. Cardinality(G) <= Cardinality(Live(i)' \cup Unforgiven(i)')
    BY <1>1, <2>1, CountedLess
  <2>5. Cardinality(Live(i)') + Cardinality(Unforgiven(i)')
            <= MaxAttempts + Cardinality(Spent(i)')
    BY DEF AddressInv, WindowInv
  <2>6. Cardinality(Spent(i)') <= Cardinality(Orphans(i)')
    BY <1>1, CountedLess
  <2>7. /\ Cardinality(G) \in Nat /\ Cardinality(Live(i)') \in Nat
        /\ Cardinality(Unforgiven(i)') \in Nat /\ Cardinality(Spent(i)') \in Nat
        /\ Cardinality(Orphans(i)') \in Nat
    <3>1. Spent(i)' \subseteq Attempts
      BY <1>1
    <3> QED
      BY <1>1, <3>1, Counted
  <2> QED
    BY <2>3, <2>4, <2>5, <2>6, <2>7, LimitsAssumption
<1>4. CASE ~(clock' < t + Window)
  <2>1. G \subseteq Guesses(i, t) \ forgiven
    BY <1>2, <1>4, StepGuess, LimitsAssumption DEF IInv, Guesses
  <2>2. Orphans(i) \subseteq Orphans(i)'
    BY StepGuess DEF IInv, Orphans
  <2>3. Guesses(i, t) \ forgiven \subseteq Attempts
    BY DEF Guesses
  <2>4. /\ Cardinality(G) <= Cardinality(Guesses(i, t) \ forgiven)
        /\ Cardinality(Orphans(i)) <= Cardinality(Orphans(i)')
    BY <1>1, <2>1, <2>2, <2>3, CountedLess
  <2>5. Cardinality(Guesses(i, t) \ forgiven) <= MaxAttempts + Cardinality(Orphans(i))
    BY DEF IInv, GuessesBounded, Orphans
  <2>6. /\ Cardinality(G) \in Nat /\ Cardinality(Guesses(i, t) \ forgiven) \in Nat
        /\ Cardinality(Orphans(i)) \in Nat /\ Cardinality(Orphans(i)') \in Nat
    <3>1. Orphans(i) \subseteq Attempts
      BY <1>1, <2>2
    <3> QED
      BY <1>1, <2>3, <3>1, Counted
  <2> QED
    BY <2>4, <2>5, <2>6, LimitsAssumption
<1> QED
  BY <1>3, <1>4

LEMMA InitInv == Init => IInv
<1> SUFFICES ASSUME Init
             PROVE  IInv
  OBVIOUS
<1>1. TypeOK
  BY LimitsAssumption DEF Init, TypeOK, Times
<1>2. TimesInv /\ HistoryInv
  BY LimitsAssumption DEF Init, TimesInv, HistoryInv
<1>3. Cardinality({}) = 0
  BY FS_EmptySet
<1>4. BucketsBounded
  BY <1>3, LimitsAssumption DEF Init, BucketsBounded
<1>5. ASSUME NEW i \in IPs
      PROVE  BucketInv(i) /\ PendingInv(i) /\ WindowInv(i)
  <2>1. InFlight(i) = {} /\ Failed(i) = {}
    BY DEF Init, InFlight, Failed
  <2>2. Unforgiven(i) = {} /\ Live(i) = {} /\ Spent(i) = {}
    BY <2>1 DEF Init, Unforgiven, Live, Spent, Orphans
  <2> QED
    BY <1>3, <2>1, <2>2, LimitsAssumption
       DEF Init, BucketInv, PendingInv, WindowInv
<1>6. GuessesBounded
  <2> SUFFICES ASSUME NEW i \in IPs, NEW t \in Times
               PROVE  Cardinality(Guesses(i, t) \ forgiven)
                          <= MaxAttempts + Cardinality(Orphans(i))
    BY DEF GuessesBounded, Orphans
  <2>1. Guesses(i, t) \ forgiven = {} /\ Orphans(i) = {}
    BY DEF Init, Guesses, Orphans
  <2> QED
    BY <1>3, <2>1, LimitsAssumption
<1> QED
  BY <1>1, <1>2, <1>4, <1>5, <1>6 DEF IInv

LEMMA StepInv == IInv /\ [Next]_vars => IInv'
<1> SUFFICES ASSUME IInv, [Next]_vars
             PROVE  IInv'
  OBVIOUS
<1>1. TypeOK' /\ BucketsBounded' /\ TimesInv' /\ HistoryInv'
  BY StepTypes, StepBounded, StepTimes, StepHistory DEF IInv
<1>2. \A i \in IPs : AddressInv(i)'
  BY <1>1, StepAddress
<1>3. GuessesBounded'
  BY <1>1, <1>2, StepGuesses
<1> QED
  BY <1>1, <1>2, <1>3 DEF IInv, AddressInv

LEMMA Invariant == Spec => []IInv
  BY InitInv, StepInv, PTL DEF Spec

-----------------------------------------------------------------------------
\* The variables keep their types.
THEOREM TypeCorrect == Spec => []TypeOK
<1>1. IInv => TypeOK
  BY DEF IInv
<1> QED
  BY <1>1, Invariant, PTL

\* The limiter never holds more buckets than it may.
THEOREM BucketsAlwaysBounded == Spec => []BucketsBounded
<1>1. IInv => BucketsBounded
  BY DEF IInv
<1> QED
  BY <1>1, Invariant, PTL

\* No window of time sees more wrong passwords from an address than the limit, since
\* its bucket was last deleted, but for those that were in flight then.
THEOREM GuessesAlwaysBounded == Spec => []GuessesBounded
<1>1. IInv => GuessesBounded
  BY DEF IInv
<1> QED
  BY <1>1, Invariant, PTL

\* A login is refused only because of as many other logins of its own address.
THEOREM NeverLockedOutFalsely == Spec => NoFalseLockout
<1>1. ASSUME IInv, Next, NEW r \in Attempts, pc[r] = "begin", pc'[r] = "refused"
      PROVE  Cardinality(Causes(r)) >= MaxAttempts
  <2>1. Refuse(r)
    BY <1>1 DEF IInv, TypeOK, Next, BeginAttempt, Login, Admit, Refuse,
                CompareHashAndPassword, RecordFailure, Reset, Limited, Tick, Goto,
                requestVars
  <2> DEFINE i == ip[r]
             R == Recent(i, now[r])
  <2>2. i \in IPs /\ now[r] \in Times /\ pending[i] \in Nat
    BY <1>1 DEF IInv, TypeOK
  <2>3. R \subseteq Failed(i) /\ InFlight(i) \subseteq Attempts /\ R \subseteq Attempts
    BY <1>1, <2>2, RecentIsOfBucket DEF IInv, BucketInv, Failed, InFlight
  <2>4. R \cup InFlight(i) \subseteq Causes(r) /\ R \cap InFlight(i) = {}
    BY <1>1, <2>3 DEF Causes, Recent, InFlight, Failed
  <2>5. Cardinality(R \cup InFlight(i)) = Cardinality(R) + Cardinality(InFlight(i))
    BY <2>3, <2>4, CountedApart
  <2>6. Causes(r) \subseteq Attempts
    BY DEF Causes
  <2>7. Cardinality(R \cup InFlight(i)) <= Cardinality(Causes(r))
    BY <2>4, <2>6, CountedLess
  <2>8. pending[i] <= Cardinality(InFlight(i))
    BY <1>1, <2>2 DEF IInv, PendingInv
  <2>9. Cardinality(R) + pending[i] >= MaxAttempts
    BY <2>1 DEF Refuse
  <2>10. /\ Cardinality(R) \in Nat /\ Cardinality(InFlight(i)) \in Nat
         /\ Cardinality(Causes(r)) \in Nat
    BY <2>3, <2>6, Counted
  <2> QED
    BY <2>2, <2>5, <2>7, <2>8, <2>9, <2>10, LimitsAssumption
<1>2. IInv /\ [Next]_vars =>
          [\A r \in Attempts : pc[r] = "begin" /\ pc'[r] = "refused"
              => Cardinality(Causes(r)) >= MaxAttempts]_vars
  BY <1>1
<1> QED
  BY <1>2, Invariant, PTL DEF Spec, NoFalseLockout
=============================================================================
