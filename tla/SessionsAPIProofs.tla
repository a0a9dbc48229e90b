------------------------- MODULE SessionsAPIProofs -------------------------
(***************************************************************************)
(* Theorems about what clients are told of sessions: SessionAccess,        *)
(* SessionListing, EventPages and CreateSessionForm, for every value of    *)
(* their constants.                                                        *)
(***************************************************************************)
EXTENDS SessionAccess, SessionListing, EventPages, CreateSessionForm, FiniteSetTheorems,
        SequenceTheorems, WellFoundedInduction, TLAPS

-----------------------------------------------------------------------------
(***************************************************************************)
(* SessionAccess.  The invariant holds the two things that the code leaves *)
(* to SQLite: a transaction that has inserted its row keeps every other    *)
(* row with its slug out until it ends, and an issuer whose read is still  *)
(* the last word has read a session without an instance.                   *)
(***************************************************************************)

RowInv ==
    /\ tokens = sessions \X Roles
    /\ timeline = sessions
    /\ \A r, q \in sessions : slug[r] = slug[q] => r = q

\* Where a request is, and whether its session and its reply are there.
RequestInv ==
    \A r \in Requests :
        /\ pc[r] \in {"new", "check", "insert", "commit"} => r \notin sessions
        /\ pc[r] \in {"read", "load"} => r \in sessions
        /\ pc[r] = "commit" => ~SlugExists(slug[r])
        /\ reply[r] = "none" <=> pc[r] # "over"

ReplyInv ==
    /\ told \subseteq tokens
    /\ \A r \in Requests : reply[r] = "conflict" =>
          pc[r] = "over" /\ \E q \in sessions \ {r} : slug[q] = slug[r]

IssueInv ==
    /\ \A c \in fresh : target[c] # None => target[c] \in sessions \ instance
    /\ \A r \in Requests : machine[r] <= issued

IInv == TypeOK /\ RowInv /\ RequestInv /\ ReplyInv /\ IssueInv

-----------------------------------------------------------------------------
LEMMA InitInv == Init => IInv
<1> SUFFICES ASSUME Init
             PROVE  IInv
  OBVIOUS
<1>1. TypeOK
  BY NoneAssumption, BoundsAssumption DEF Init, TypeOK
<1>2. RowInv /\ RequestInv /\ ReplyInv /\ IssueInv
  BY DEF Init, RowInv, RequestInv, ReplyInv, IssueInv
<1> QED
  BY <1>1, <1>2 DEF IInv

(***************************************************************************)
(* Requests.                                                               *)
(***************************************************************************)
LEMMA PostStep ==
    ASSUME IInv, NEW r \in Requests,
           Post(r) \/ CheckSlug(r) \/ ReadBack(r) \/ LoadCreated(r)
    PROVE  IInv'
<1> USE DEF Post, CheckSlug, ReadBack, LoadCreated, Goto, Answer, tableVars, issueVars
<1>1. UNCHANGED <<tableVars, issueVars, writer, slug, faults>>
  OBVIOUS
<1>2. told' = told \/ (pc[r] = "load" /\ told' = told \cup ({r} \X Roles))
  OBVIOUS
<1>3. r \in sessions => {r} \X Roles \subseteq tokens
  BY DEF IInv, RowInv
<1>4. pc[r] = "load" => r \in sessions
  BY DEF IInv, RequestInv
<1>5. told' \subseteq tokens
  BY <1>2, <1>3, <1>4 DEF IInv, ReplyInv
<1>6. TypeOK'
  <2>1. told' \in SUBSET (Requests \X Roles)
    BY <1>5 DEF IInv, TypeOK
  <2> QED
    BY <1>1, <2>1 DEF IInv, TypeOK
<1>7. RowInv'
  BY <1>1 DEF IInv, RowInv
<1>8. RequestInv'
  BY <1>1 DEF IInv, TypeOK, RequestInv, SlugExists
<1>9. ReplyInv'
  <2>1. ASSUME NEW q \in Requests, reply'[q] = "conflict"
        PROVE  pc'[q] = "over" /\ \E s \in sessions \ {q} : slug[s] = slug[q]
    <3>1. CASE q # r \/ ~CheckSlug(r)
      BY <2>1, <3>1 DEF IInv, TypeOK, ReplyInv
    <3>2. CASE q = r /\ CheckSlug(r) /\ SlugExists(slug[r])
      BY <2>1, <3>2 DEF IInv, TypeOK, RequestInv, SlugExists
    <3>3. CASE q = r /\ CheckSlug(r) /\ ~SlugExists(slug[r])
      BY <2>1, <3>3 DEF IInv, TypeOK, ReplyInv
    <3> QED
      BY <3>1, <3>2, <3>3
  <2> QED
    BY <1>1, <1>5, <2>1 DEF ReplyInv
<1>10. IssueInv'
  BY <1>1 DEF IInv, IssueInv
<1> QED
  BY <1>6, <1>7, <1>8, <1>9, <1>10 DEF IInv

\* The insert that goes through has seen every committed slug.
LEMMA InsertStep ==
    ASSUME IInv, NEW r \in Requests, InsertSession(r)
    PROVE  IInv'
<1> USE DEF InsertSession, Goto, Answer
<1>1. UNCHANGED <<sessions, tokens, used, timeline, machine, instance,
                  target, fresh, issued, slug, told, faults>>
  BY DEF tableVars, issueVars
<1>2. TypeOK'
  BY <1>1, NoneAssumption DEF IInv, TypeOK
<1>3. RowInv' /\ IssueInv'
  BY <1>1 DEF IInv, RowInv, IssueInv
<1>4. RequestInv'
  BY <1>1 DEF IInv, TypeOK, RequestInv, SlugExists
<1>5. ReplyInv'
  <2>1. ASSUME NEW q \in Requests, reply'[q] = "conflict"
        PROVE  pc'[q] = "over" /\ \E s \in sessions \ {q} : slug[s] = slug[q]
    <3>1. CASE q # r \/ ~SlugExists(slug[r])
      BY <2>1, <3>1 DEF IInv, TypeOK, ReplyInv
    <3>2. CASE q = r /\ SlugExists(slug[r])
      BY <2>1, <3>2 DEF IInv, TypeOK, RequestInv, SlugExists
    <3> QED
      BY <3>1, <3>2
  <2> QED
    BY <1>1, <2>1 DEF IInv, ReplyInv
<1> QED
  BY <1>2, <1>3, <1>4, <1>5 DEF IInv

\* The commit: nobody else can be in its own, and the slug is still free.
LEMMA CommitStep ==
    ASSUME IInv, NEW r \in Requests, CommitSession(r)
    PROVE  IInv'
<1> USE DEF CommitSession, Goto
<1>1. r \notin sessions /\ ~SlugExists(slug[r])
  BY DEF IInv, RequestInv
<1>2. \A q \in Requests \ {r} : pc[q] # "commit" /\ pc'[q] = pc[q]
  BY DEF IInv, TypeOK
<1>3. TypeOK'
  <2>1. sessions' \in SUBSET Requests /\ tokens' \in SUBSET (Requests \X Roles)
        /\ timeline' \in SUBSET Requests /\ used' \in SUBSET tokens'
        /\ instance' \in SUBSET sessions' /\ fresh' \in SUBSET Issuers
    BY DEF IInv, TypeOK
  <2>2. \A q \in Requests : writer' = q <=> pc'[q] = "commit"
    BY <1>2, NoneAssumption DEF IInv, TypeOK
  <2> QED
    BY <2>1, <2>2 DEF IInv, TypeOK
<1>4. RowInv'
  <2>1. tokens' = sessions' \X Roles /\ timeline' = sessions'
    BY DEF IInv, RowInv
  <2>2. \A p, q \in sessions' : slug'[p] = slug'[q] => p = q
    BY <1>1 DEF IInv, RowInv, SlugExists
  <2> QED
    BY <2>1, <2>2 DEF RowInv
<1>5. RequestInv'
  <2>1. pc'[r] = "read" /\ r \in sessions'
    BY DEF IInv, TypeOK
  <2> QED
    BY <1>2, <2>1 DEF IInv, RequestInv
<1>6. ReplyInv'
  BY DEF IInv, TypeOK, ReplyInv
<1>7. IssueInv'
  BY DEF IInv, IssueInv
<1> QED
  BY <1>3, <1>4, <1>5, <1>6, <1>7 DEF IInv

LEMMA FailStep ==
    ASSUME IInv, NEW r \in Requests, CreateFails(r) \/ ReplyLost(r)
    PROVE  IInv'
<1> USE DEF CreateFails, ReplyLost, Goto, Answer, Fault
<1>1. UNCHANGED <<sessions, tokens, used, timeline, machine, instance,
                  target, fresh, issued, slug, told>>
  BY DEF tableVars, issueVars
<1>2. PICK what \in {"error", "lost"} : /\ pc' = [pc EXCEPT ![r] = "over"]
                                        /\ reply' = [reply EXCEPT ![r] = what]
  OBVIOUS
<1>3. writer' = IF writer = r THEN None ELSE writer
  BY DEF IInv, TypeOK
<1>4. TypeOK'
  <2>1. \A q \in Requests : writer' = q <=> pc'[q] = "commit"
    BY <1>2, <1>3, NoneAssumption DEF IInv, TypeOK
  <2>2. faults' \in 0..MaxFaults
    BY BoundsAssumption DEF IInv, TypeOK
  <2> QED
    BY <1>1, <1>2, <1>3, <2>1, <2>2 DEF IInv, TypeOK
<1>5. RowInv' /\ IssueInv'
  BY <1>1 DEF IInv, RowInv, IssueInv
<1>6. RequestInv'
  BY <1>1, <1>2 DEF IInv, TypeOK, RequestInv, SlugExists
<1>7. ReplyInv'
  BY <1>1, <1>2 DEF IInv, TypeOK, ReplyInv
<1> QED
  BY <1>4, <1>5, <1>6, <1>7 DEF IInv

(***************************************************************************)
(* Joining, instances and machine tokens.                                  *)
(***************************************************************************)
LEMMA JoinStep ==
    ASSUME IInv, NEW s \in Slugs, NEW t \in told, JoinSession(s, t)
    PROVE  IInv'
  BY DEF JoinSession, IInv, TypeOK, RowInv, RequestInv, SlugExists, ReplyInv, IssueInv,
         requestVars

LEMMA AssignStep ==
    ASSUME IInv, NEW r \in Requests, AssignInstance(r)
    PROVE  IInv'
  BY DEF AssignInstance, IInv, TypeOK, RowInv, RequestInv, SlugExists, ReplyInv, IssueInv,
         requestVars

LEMMA IssueStep ==
    ASSUME IInv, NEW c \in Issuers,
           \/ \E r \in Requests : LoadForIssue(c, r)
           \/ StoreMachineToken(c) \/ IssueFails(c)
    PROVE  IInv'
<1>1. UNCHANGED <<sessions, tokens, used, timeline, instance, writer, slug, pc, reply, told,
                  faults>>
  BY DEF LoadForIssue, StoreMachineToken, IssueFails, tableVars, requestVars
<1>2. machine' \in [Requests -> 0..MaxIssues] /\ issued' \in 0..MaxIssues
  BY BoundsAssumption
     DEF LoadForIssue, StoreMachineToken, IssueFails, tableVars, IInv, TypeOK
<1>3. target' \in [Issuers -> Requests \cup {None}] /\ fresh' \in SUBSET Issuers
  BY DEF LoadForIssue, StoreMachineToken, IssueFails, IInv, TypeOK
<1>4. TypeOK'
  BY <1>1, <1>2, <1>3 DEF IInv, TypeOK
<1>5. RowInv' /\ RequestInv' /\ ReplyInv'
  BY <1>1 DEF IInv, RowInv, RequestInv, SlugExists, ReplyInv
<1>6. IssueInv'
  <2>1. \A d \in fresh' : target'[d] # None => target'[d] \in sessions' \ instance'
    BY <1>1 DEF LoadForIssue, StoreMachineToken, IssueFails, IInv, TypeOK, IssueInv
  <2>2. \A r \in Requests : machine'[r] <= issued'
    <3>1. \A r \in Requests : machine[r] <= issued /\ machine[r] \in Int
      BY BoundsAssumption DEF IInv, TypeOK, IssueInv
    <3>2. issued \in Int
      BY BoundsAssumption DEF IInv, TypeOK
    <3>3. CASE StoreMachineToken(c)
      <4>1. issued' = issued + 1 /\ machine' = [machine EXCEPT ![target[c]] = issued + 1]
        BY <3>3 DEF StoreMachineToken
      <4>2. \A r \in Requests : machine'[r] = machine[r] \/ machine'[r] = issued + 1
        BY <4>1 DEF IInv, TypeOK
      <4> QED
        BY <3>1, <3>2, <4>1, <4>2
    <3>4. CASE UNCHANGED <<machine, issued>>
      BY <3>1, <3>4
    <3> QED
      BY <3>3, <3>4 DEF LoadForIssue, IssueFails, tableVars
  <2> QED
    BY <2>1, <2>2 DEF IssueInv
<1> QED
  BY <1>4, <1>5, <1>6 DEF IInv

LEMMA StepInv == IInv /\ [Next]_vars => IInv'
<1> SUFFICES ASSUME IInv, [Next]_vars
             PROVE  IInv'
  OBVIOUS
<1>1. CASE UNCHANGED vars
  BY <1>1 DEF vars, tableVars, requestVars, issueVars, IInv, TypeOK, RowInv, RequestInv,
              SlugExists, ReplyInv, IssueInv
<1>2. CASE Next
  BY <1>2, PostStep, InsertStep, CommitStep, FailStep, JoinStep, AssignStep, IssueStep
     DEF Next, Creates
<1> QED
  BY <1>1, <1>2

LEMMA Invariant == Spec => []IInv
  BY InitInv, StepInv, PTL DEF Spec

-----------------------------------------------------------------------------
\* The variables keep their types, and only the transaction that is about to commit
\* holds the write lock.
THEOREM TypeCorrect == Spec => []TypeOK
<1>1. IInv => TypeOK
  BY DEF IInv
<1> QED
  BY <1>1, Invariant, PTL

\* However many requests ask for a slug, it is one session's.
THEOREM SlugIsAlwaysOnes == Spec => []OneSessionPerSlug
<1>1. IInv => OneSessionPerSlug
  BY DEF IInv, RowInv, OneSessionPerSlug
<1> QED
  BY <1>1, Invariant, PTL

\* A session is there with its tokens and its first event, or not at all.
THEOREM AlwaysCreatedWhole == Spec => []CreatedWhole
<1>1. IInv => CreatedWhole
  BY DEF IInv, RowInv, CreatedWhole
<1> QED
  BY <1>1, Invariant, PTL

\* Replies carry tokens of sessions that exist, and conflicts that are there.
THEOREM RepliesAreAlwaysTrue == Spec => []RepliesAreTrue
<1>1. IInv => RepliesAreTrue
  BY DEF IInv, ReplyInv, RepliesAreTrue
<1> QED
  BY <1>1, Invariant, PTL

\* The machine token of a session with an instance is never replaced.
THEOREM MachineTokenIsKept == Spec => MachineTokenKept
<1>1. ASSUME IInv, [Next]_vars, NEW r \in instance
      PROVE  machine'[r] = machine[r]
  <2>1. ASSUME NEW c \in Issuers, StoreMachineToken(c)
        PROVE  machine'[r] = machine[r]
    BY <1>1, <2>1 DEF StoreMachineToken, IInv, TypeOK, IssueInv
  <2>2. CASE UNCHANGED machine
    BY <2>2
  <2> QED
    BY <1>1, <2>1, <2>2
       DEF Next, Creates, Post, CheckSlug, InsertSession, CommitSession, ReadBack,
           LoadCreated, CreateFails, ReplyLost, JoinSession, AssignInstance, LoadForIssue,
           IssueFails, vars, tableVars
<1>2. IInv /\ [Next]_vars => [\A r \in instance : machine'[r] = machine[r]]_vars
  BY <1>1
<1> QED
  BY <1>2, Invariant, PTL DEF Spec, MachineTokenKept

(***************************************************************************)
(* SessionAccess implements SessionRegistry, step by step.                 *)
(***************************************************************************)
Invited == {t[1] : t \in told}
Joined == {t[1] : t \in used}

\* The steps of requests, by what is heard and who has a session.
LEMMA RequestSimulates ==
    ASSUME IInv, NEW r \in Requests, Creates(r)
    PROVE  Abstract!Turn(r) \/ UNCHANGED <<slug, sessions, reply, Invited, Joined, instance,
                                           machine>>
<1> USE DEF Abstract!Turn, Abstract!Hears, Abstract!NameTaken
<1>1. pc[r] # "over" => reply[r] = "none"
  BY DEF IInv, RequestInv
<1>2. CASE Post(r) \/ ReadBack(r)
  BY <1>2 DEF Post, ReadBack, tableVars, Invited, Joined
<1>3. CASE CheckSlug(r) \/ InsertSession(r)
  <2>1. UNCHANGED <<slug, sessions, told, used, instance, machine>>
    BY <1>3 DEF CheckSlug, InsertSession, tableVars
  <2>2. r \notin sessions
    BY <1>3 DEF CheckSlug, InsertSession, IInv, RequestInv
  <2>3. CASE SlugExists(slug[r])
    <3>1. reply' = [reply EXCEPT ![r] = "conflict"]
      BY <1>3, <2>3 DEF CheckSlug, InsertSession, Answer
    <3>2. reply[r] = "none"
      BY <1>1, <1>3 DEF CheckSlug, InsertSession
    <3> QED
      BY <2>1, <2>2, <2>3, <3>1, <3>2 DEF Abstract!Refuse, SlugExists
  <2>4. CASE ~SlugExists(slug[r])
    <3>1. reply' = reply
      BY <1>3, <2>4 DEF CheckSlug, InsertSession
    <3> QED
      BY <2>1, <3>1 DEF Invited, Joined
  <2> QED
    BY <2>3, <2>4
<1>4. CASE CommitSession(r)
  <2>1. ~SlugExists(slug[r]) /\ reply[r] = "none"
    BY <1>1, <1>4 DEF CommitSession, IInv, RequestInv
  <2>2. sessions' = sessions \cup {r}
        /\ UNCHANGED <<slug, reply, told, used, instance, machine>>
    BY <1>4 DEF CommitSession
  <2> QED
    BY <2>1, <2>2 DEF Abstract!Take, SlugExists
<1>5. CASE LoadCreated(r)
  <2>1. r \in sessions /\ reply[r] = "none"
    BY <1>1, <1>5 DEF LoadCreated, IInv, RequestInv
  <2>2. /\ reply' = [reply EXCEPT ![r] = "created"] /\ told' = told \cup ({r} \X Roles)
        /\ UNCHANGED <<slug, sessions, used, instance, machine>>
    BY <1>5 DEF LoadCreated, Answer, tableVars
  <2>3. Invited' = Invited \cup {r}
    <3>1. \A t \in {r} \X Roles : t[1] = r
      OBVIOUS
    <3>2. <<r, "host">> \in {r} \X Roles
      BY DEF Roles
    <3>3. r \in Invited'
      BY <2>2, <3>1, <3>2 DEF Invited
    <3>4. Invited \subseteq Invited'
      BY <2>2 DEF Invited
    <3>5. Invited' \subseteq Invited \cup {r}
      BY <2>2, <3>1 DEF Invited
    <3> QED
      BY <3>3, <3>4, <3>5
  <2> QED
    BY <2>1, <2>2, <2>3 DEF Abstract!Invite, Invited
<1>6. CASE CreateFails(r) \/ ReplyLost(r)
  <2>1. UNCHANGED <<slug, sessions, told, used, instance, machine>>
    BY <1>6 DEF CreateFails, ReplyLost, tableVars
  <2>2. \E what \in {"error", "lost"} : reply' = [reply EXCEPT ![r] = what]
    BY <1>6 DEF CreateFails, ReplyLost, Answer
  <2>3. reply[r] = "none"
    BY <1>1, <1>6 DEF CreateFails, ReplyLost
  <2> QED
    BY <2>1, <2>2, <2>3 DEF Abstract!GiveUp
<1> QED
  BY <1>2, <1>3, <1>4, <1>5, <1>6 DEF Creates

LEMMA RegistryStep ==
    ASSUME IInv, [Next]_vars
    PROVE  [\E c \in Requests : Abstract!Turn(c)]_(Abstract!registryVars)
<1>1. CASE UNCHANGED vars
  BY <1>1 DEF vars, tableVars, requestVars, Abstract!registryVars
<1>2. ASSUME NEW r \in Requests, Creates(r)
      PROVE  [Abstract!Turn(r)]_(Abstract!registryVars)
  BY <1>2, RequestSimulates DEF Abstract!registryVars, Invited, Joined
<1>3. ASSUME NEW r \in Requests, AssignInstance(r) PROVE Abstract!Turn(r)
  BY <1>3 DEF AssignInstance, requestVars, Abstract!Turn, Abstract!Boot
<1>4. ASSUME NEW s \in Slugs, NEW t \in told, JoinSession(s, t)
      PROVE  \E r \in Requests : Abstract!Turn(r)
  <2>1. t[1] \in Requests
    BY DEF IInv, TypeOK
  <2>2. used' = used \cup {t} /\ UNCHANGED <<slug, sessions, reply, told, instance, machine>>
    BY <1>4 DEF JoinSession, requestVars
  <2>3. Joined' = Joined \cup {t[1]} /\ t[1] \in Invited
    BY <2>2 DEF Joined, Invited
  <2>4. Abstract!Join(t[1])
    BY <2>2, <2>3 DEF Abstract!Join, Joined, Invited
  <2> QED
    BY <2>1, <2>4 DEF Abstract!Turn
<1>5. ASSUME NEW c \in Issuers, StoreMachineToken(c)
      PROVE  \E r \in Requests : Abstract!Turn(r)
  <2> DEFINE r == target[c]
  <2>1. r \in sessions \ instance /\ r \in Requests
    BY <1>5 DEF StoreMachineToken, IInv, IssueInv, TypeOK
  <2>2. /\ machine' = [machine EXCEPT ![r] = issued + 1]
        /\ UNCHANGED <<slug, sessions, reply, told, used, instance>>
    BY <1>5 DEF StoreMachineToken, requestVars
  <2>3. machine[r] < issued + 1 /\ machine'[r] = issued + 1
    <3>1. machine[r] <= issued /\ machine[r] \in Int /\ issued \in Int
      BY <2>1, BoundsAssumption DEF IInv, IssueInv, TypeOK
    <3>2. machine'[r] = issued + 1
      BY <2>1, <2>2 DEF IInv, TypeOK
    <3> QED
      BY <3>1, <3>2
  <2>4. Abstract!Rekey(r)
    BY <2>1, <2>2, <2>3 DEF Abstract!Rekey
  <2> QED
    BY <2>1, <2>4 DEF Abstract!Turn
<1>6. ASSUME NEW c \in Issuers, (\E r \in Requests : LoadForIssue(c, r)) \/ IssueFails(c)
      PROVE  UNCHANGED Abstract!registryVars
  BY <1>6 DEF LoadForIssue, IssueFails, tableVars, requestVars, Abstract!registryVars
<1> QED
  BY <1>1, <1>2, <1>3, <1>4, <1>5, <1>6 DEF Next

\* Creating, joining and issuing machine tokens, statement by statement, with
\* every failure and every interleaving, implement SessionRegistry, where each
\* request takes effect at one moment.
THEOREM RegistryImplemented == Spec => Registry
<1>1. Init => Abstract!Open
  BY DEF Init, Abstract!Open
<1>2. IInv /\ [Next]_vars
        => [\E c \in Requests : Abstract!Turn(c)]_(Abstract!registryVars)
  BY RegistryStep
<1>3. Spec => [][\E c \in Requests : Abstract!Turn(c)]_(Abstract!registryVars)
  BY <1>2, Invariant, PTL DEF Spec
<1>4. Spec => Abstract!Open
  BY <1>1 DEF Spec
<1>5. Registry <=> /\ Abstract!Open
                   /\ [][\E c \in Requests : Abstract!Turn(c)]_(Abstract!registryVars)
  BY PTL DEF Registry, Abstract!RegistrySpec
<1> QED
  BY <1>3, <1>4, <1>5, PTL

-----------------------------------------------------------------------------
(***************************************************************************)
(* Paging.                                                                 *)
(***************************************************************************)
\* There is a page after the n-th exactly if n full pages are not everything.
LEMMA MorePages ==
    ASSUME NEW count \in Nat, NEW perPage \in Nat \ {0}, NEW n \in Nat
    PROVE  n < Pages(count, perPage) <=> n * perPage < count
<1> DEFINE q == (count + perPage - 1) \div perPage
<1>1. q \in Int /\ perPage * q <= count + perPage - 1 /\ count + perPage - 1 < perPage * (q + 1)
  OBVIOUS
<1>2. ASSUME n < q PROVE n * perPage < count
  <2>1. n + 1 <= q
    BY <1>1, <1>2
  <2>2. (n + 1) * perPage <= q * perPage
    BY <1>1, <2>1
  <2> QED
    BY <1>1, <2>2
<1>3. ASSUME n >= q PROVE n * perPage >= count
  <2>1. q * perPage <= n * perPage
    BY <1>1, <1>3
  <2> QED
    BY <1>1, <2>1
<1> QED
  BY <1>1, <1>2, <1>3 DEF Pages

-----------------------------------------------------------------------------
(***************************************************************************)
(* SessionListing.  What the recursive operators of the library compute    *)
(* for any argument is shown by the smallest counterexample: a finite set, *)
(* or a number, none of whose predecessors is one.                         *)
(***************************************************************************)
LEMMA SmallestSubset ==
    ASSUME NEW Z, IsFiniteSet(Z), NEW bad \in SUBSET (SUBSET Z), bad # {}
    PROVE  \E T \in bad : \A U \in SUBSET T : U # T => U \notin bad
<1>1. bad \subseteq FiniteSubsetsOf(Z)
  BY FS_FiniteSubsetsOfFinite
<1>2. \E T \in bad : \A U \in bad : ~(<<U, T>> \in StrictSubsetOrdering(Z))
  BY <1>1, FS_StrictSubsetOrderingWellFounded, WFMin
<1>3. PICK T \in bad : \A U \in bad : ~(<<U, T>> \in StrictSubsetOrdering(Z))
  BY <1>2
<1>4. ASSUME NEW U \in SUBSET T, U # T, U \in bad PROVE FALSE
  BY <1>3, <1>4 DEF StrictSubsetOrdering
<1> QED
  BY <1>3, <1>4

LEMMA LeastNumber ==
    ASSUME NEW n \in Nat, NEW bad \in SUBSET (1..n), bad # {}
    PROVE  \E k \in bad : \A m \in 1..(k - 1) : m \notin bad
<1> DEFINE Below(k) == 1..k
           sets == {Below(k) : k \in bad}
<1>1. IsFiniteSet(1..n)
  BY FS_Interval
<1>2. sets \in SUBSET (SUBSET (1..n)) /\ sets # {}
  <2>1. \A k \in bad : Below(k) \in SUBSET (1..n)
    OBVIOUS
  <2> HIDE DEF Below
  <2> QED
    BY <2>1
<1>3. PICK T \in sets : \A U \in SUBSET T : U # T => U \notin sets
  BY <1>1, <1>2, SmallestSubset
<1>4. PICK k \in bad : T = Below(k)
  BY <1>3
<1>5. ASSUME NEW m \in 1..(k - 1), m \in bad PROVE FALSE
  <2>1. Below(m) \in sets
    BY <1>5
  <2>2. \A x \in Below(m) : x \in Below(k)
    BY <1>5
  <2>3. k \in Below(k) /\ k \notin Below(m)
    BY <1>5
  <2> HIDE DEF Below, sets
  <2> QED
    BY <1>3, <1>4, <2>1, <2>2, <2>3
<1> QED
  BY <1>4, <1>5

SumOver(c, T) == FoldFunctionOnSet(+, 0, c, T)

\* What is counted under each of some values adds up to all that has one of them.
LEMMA CountsAddUp ==
    ASSUME NEW M, IsFiniteSet(M), NEW S, NEW key \in [M -> S],
           NEW c, \A st \in S : c[st] = Cardinality({m \in M : key[m] = st}),
           NEW T \in SUBSET S, IsFiniteSet(T)
    PROVE  SumOver(c, T) = Cardinality({m \in M : key[m] \in T})
<1> DEFINE Of(s) == {m \in M : key[m] \in s}
           first(s) == CHOOSE x \in s : TRUE
           g == [s \in SUBSET T |-> Cardinality(Of(s))]
           Adds(h) == h = [s \in SUBSET T |-> IF s = {} THEN 0
                                              ELSE c[first(s)] + h[s \ {first(s)}]]
<1>1. ASSUME NEW s \in SUBSET T, s # {}
      PROVE  /\ first(s) \in s /\ s \ {first(s)} \in SUBSET T
             /\ g[s] = c[first(s)] + g[s \ {first(s)}]
  <2>1. first(s) \in s /\ s \ {first(s)} \in SUBSET T
    BY <1>1
  <2> HIDE DEF first
  <2> DEFINE x == first(s)
             One == {m \in M : key[m] = x}
             Others == Of(s \ {x})
  <2>2. Of(s) = One \cup Others /\ One \cap Others = {}
    BY <2>1
  <2>3. IsFiniteSet(One) /\ IsFiniteSet(Others)
    BY FS_Subset
  <2>4. Cardinality(Of(s)) = Cardinality(One) + Cardinality(Others)
    <3> HIDE DEF Of, One, Others
    <3>1. Cardinality(One \cup Others)
             = Cardinality(One) + Cardinality(Others) - Cardinality(One \cap Others)
      BY <2>3, FS_Union
    <3>2. Cardinality(One) \in Nat /\ Cardinality(Others) \in Nat
      BY <2>3, FS_CardinalityType
    <3>3. Cardinality(One \cap Others) = 0
      BY <2>2, FS_EmptySet
    <3> QED
      BY <2>2, <3>1, <3>2, <3>3
  <2>5. c[x] = Cardinality(One)
    BY <2>1
  <2>6. s \in SUBSET T
    OBVIOUS
  <2>7. g[s] = Cardinality(Of(s)) /\ g[s \ {x}] = Cardinality(Others)
    BY <2>1, <2>6
  <2> HIDE DEF x, Others, Of, g
  <2> QED
    BY <2>1, <2>4, <2>5, <2>7 DEF x, Others
<1>2. g[{}] = 0
  BY FS_EmptySet
<1>3. Adds(g)
  BY <1>1, <1>2
<1>4. ASSUME NEW h, Adds(h) PROVE h[T] = g[T]
  <2> DEFINE bad == {s \in SUBSET T : h[s] # g[s]}
  <2> HIDE DEF g, first
  <2>1. ASSUME bad # {} PROVE FALSE
    <3>0. bad \in SUBSET (SUBSET T)
      OBVIOUS
    <3>1. PICK s \in bad : \A U \in SUBSET s : U # s => U \notin bad
      <4> HIDE DEF bad
      <4> QED
        BY <2>1, <3>0, SmallestSubset
    <3>2. s # {}
      BY <1>2, <1>4, <3>1
    <3>3. s \ {first(s)} \notin bad /\ first(s) \in s
      BY <1>1, <3>1, <3>2
    <3>4. h[s] = c[first(s)] + h[s \ {first(s)}]
      BY <1>4, <3>2, <3>1
    <3> QED
      BY <1>1, <3>1, <3>2, <3>3, <3>4
  <2> QED
    BY <2>1
<1>5. SumOver(c, T) = (CHOOSE h : Adds(h))[T]
  BY DEF SumOver, FoldFunctionOnSet, MapThenFoldSet
<1>6. Adds(CHOOSE h : Adds(h))
  <2> HIDE DEF Adds
  <2> QED
    BY <1>3
<1> QED
  <2> HIDE DEF Adds
  <2>1. SumOver(c, T) = g[T]
    BY <1>4, <1>5, <1>6
  <2> QED
    BY <2>1

\* Pieces of equal length, the last one perhaps shorter, make up what was cut.
LEMMA PiecesJoin ==
    ASSUME NEW S, NEW all \in Seq(S), NEW z \in Nat \ {0}
    PROVE  FlattenSeq([p \in 1..Pages(Len(all), z) |->
                  SubSeq(all, p * z - z + 1, IF p * z < Len(all) THEN p * z ELSE Len(all))])
              = all
<1> DEFINE n == Len(all)
           P == Pages(n, z)
           upto(p) == IF p * z < n THEN p * z ELSE n
           pieces == [p \in 1..P |-> SubSeq(all, p * z - z + 1, upto(p))]
           g == [p \in 1..P |-> SubSeq(all, 1, upto(p))]
           Joins(h) == h = [p \in 1..P |-> IF p = 1 THEN pieces[p]
                                           ELSE h[p - 1] \o pieces[p]]
<1>1. n \in Nat /\ P \in Nat
  <2>1. n \in Nat
    OBVIOUS
  <2>2. n + z - 1 \in Nat
    BY <2>1
  <2>3. (n + z - 1) \div z \in Nat
    BY <2>2
  <2> QED
    BY <2>1, <2>3 DEF Pages
<1>2. \A p \in Nat : p < P <=> p * z < n
  BY <1>1, MorePages
<1> HIDE DEF n, P
<1>3. Len(pieces) = P /\ DOMAIN pieces = 1..P
  BY <1>1
<1>4. ASSUME NEW p \in 2..P
      PROVE  g[p - 1] \o pieces[p] = g[p]
  <2>1. p - 1 \in 1..P /\ p \in 1..P /\ p - 1 \in Nat /\ p - 1 < P
    BY <1>1
  <2>2. (p - 1) * z < n /\ (p - 1) * z = p * z - z
    BY <1>2, <2>1
  <2> DEFINE k == p * z - z
  <2>3. k \in Nat /\ k < n /\ upto(p - 1) = k
    BY <1>1, <2>1, <2>2
  <2>4. upto(p) \in k..n
    BY <1>1, <2>3
  <2>5. SubSeq(all, 1, k) \o SubSeq(all, k + 1, upto(p)) = SubSeq(all, 1, upto(p))
    <3>1. 1 \in 1..(Len(all) + 1) /\ k \in (1 - 1)..Len(all) /\ upto(p) \in k..Len(all)
      BY <1>1, <2>3, <2>4 DEF n
    <3> HIDE DEF k, upto
    <3> QED
      BY <3>1, ConcatAdjacentSubSeq
  <2> QED
    BY <2>1, <2>3, <2>5
<1>5. ASSUME 1 \in 1..P PROVE g[1] = pieces[1]
  <2>1. 1 * z - z + 1 = 1
    OBVIOUS
  <2> QED
    BY <1>5, <2>1
<1>6. Joins(g)
  <2> HIDE DEF pieces
  <2>1. ASSUME NEW p \in 1..P
        PROVE  g[p] = IF p = 1 THEN pieces[p] ELSE g[p - 1] \o pieces[p]
    <3>1. p = 1 \/ p \in 2..P
      BY <1>1
    <3> HIDE DEF g
    <3> QED
      BY <1>4, <1>5, <3>1
  <2>2. g = [p \in 1..P |-> g[p]]
    OBVIOUS
  <2> HIDE DEF g
  <2> QED
    BY <2>1, <2>2
<1>7. ASSUME NEW h, Joins(h), NEW q \in 1..P PROVE h[q] = g[q]
  <2> DEFINE bad == {p \in 1..P : h[p] # g[p]}
  <2> HIDE DEF g, pieces
  <2>1. ASSUME bad # {} PROVE FALSE
    <3>1. bad \in SUBSET (1..P)
      OBVIOUS
    <3>2. PICK k \in bad : \A m \in 1..(k - 1) : m \notin bad
      <4> HIDE DEF bad
      <4> QED
        BY <1>1, <2>1, <3>1, LeastNumber
    <3>3. k \in 1..P /\ (k = 1 \/ k \in 2..P)
      BY <1>1
    <3>4. h[k] = IF k = 1 THEN pieces[k] ELSE h[k - 1] \o pieces[k]
      BY <1>7, <3>3
    <3>5. CASE k = 1
      BY <1>5, <3>2, <3>3, <3>4, <3>5
    <3>6. CASE k \in 2..P
      <4>1. k - 1 \in 1..P /\ k - 1 \in 1..(k - 1) /\ k # 1
        BY <1>1, <3>6
      <4>2. h[k - 1] = g[k - 1]
        BY <3>2, <4>1
      <4> QED
        BY <1>4, <3>2, <3>4, <3>6, <4>1, <4>2
    <3> QED
      BY <3>3, <3>5, <3>6
  <2> QED
    BY <2>1
<1>8. CASE P = 0
  <2>1. ~(0 * z < n) /\ 0 * z = 0
    BY <1>2, <1>8
  <2>2. n = 0
    BY <1>1, <2>1
  <2>3. all = << >> /\ pieces = << >>
    BY <1>8, <2>2 DEF n
  <2>4. FlattenSeq(pieces) = pieces
    BY <1>3, <1>8 DEF FlattenSeq
  <2> HIDE DEF pieces
  <2>5. FlattenSeq(pieces) = all
    BY <2>3, <2>4
  <2> QED
    BY <2>5 DEF n, P, pieces
<1>9. CASE P # 0
  <2>1. P \in 1..P /\ ~(P * z < n)
    BY <1>1, <1>2, <1>9
  <2>2. g[P] = SubSeq(all, 1, Len(all))
    BY <2>1 DEF n
  <2>3. SubSeq(all, 1, Len(all)) = all
    BY SubSeqFull
  <2>4. FlattenSeq(pieces) = (CHOOSE h : Joins(h))[P]
    <3> HIDE DEF pieces
    <3> QED
      BY <1>3, <1>9 DEF FlattenSeq
  <2>5. Joins(CHOOSE h : Joins(h))
    <3> HIDE DEF Joins
    <3> QED
      BY <1>6
  <2>6. FlattenSeq(pieces) = g[P]
    <3> HIDE DEF Joins, pieces, g
    <3> QED
      BY <1>7, <2>1, <2>4, <2>5
  <2> HIDE DEF pieces, g
  <2>7. FlattenSeq(pieces) = all
    BY <2>2, <2>3, <2>6
  <2> QED
    BY <2>7 DEF n, P, pieces
<1> QED
  BY <1>8, <1>9

-----------------------------------------------------------------------------
(***************************************************************************)
(* The order of the rows: the rank numbers the rows that match.            *)
(***************************************************************************)
Tables == [Sessions -> Rows]

LEMMA Asked ==
    ASSUME NEW i \in Inputs
    PROVE  /\ PageAsked(i) \in Nat \ {0}
           /\ SizeAsked(i) \in Nat \ {0} /\ SizeAsked(i) <= LargestSize
<1>1. i.page \in Int /\ i.size \in Int
  BY ListingAssumption
<1>2. DefaultSize \in Nat \ {0} /\ LargestSize \in Nat \ {0} /\ DefaultSize <= LargestSize
  BY ListingAssumption
<1> QED
  BY <1>1, <1>2 DEF PageAsked, SizeAsked

LEMMA MatchedFinite ==
    ASSUME NEW tab, NEW i
    PROVE  /\ IsFiniteSet(Matched(tab, i)) /\ Matched(tab, i) \subseteq Sessions
           /\ Cardinality(Matched(tab, i)) \in 0..Cardinality(Sessions)
<1>1. IsFiniteSet(Sessions)
  BY ListingAssumption
<1>2. Matched(tab, i) \in SUBSET Sessions
  BY DEF Matched
<1>3. /\ IsFiniteSet(Matched(tab, i))
      /\ Cardinality(Matched(tab, i)) <= Cardinality(Sessions)
  BY <1>1, <1>2, FS_Subset
<1> QED
  BY <1>1, <1>2, <1>3, FS_CardinalityType

LEMMA BeforeIsTotal ==
    ASSUME NEW tab \in Tables, NEW i,
           NEW s \in Sessions, NEW t \in Sessions, NEW u \in Sessions
    PROVE  /\ Before(tab, i, s, s)
           /\ Before(tab, i, s, t) \/ Before(tab, i, t, s)
           /\ Before(tab, i, s, t) /\ Before(tab, i, t, s) => s = t
           /\ Before(tab, i, s, t) /\ Before(tab, i, t, u) => Before(tab, i, s, u)
<1>1. \A v \in Sessions : v \in Nat /\ SortKey(tab[v], i) \in Nat
  <2> TAKE v \in Sessions
  <2>1. tab[v] \in [status : Statuses, region : ListedRegions, updated : 0..MaxTime]
    BY DEF Tables, Rows
  <2>2. MaxTime \in Nat
    BY ListingAssumption
  <2>3. \A x \in ListedRegions \cup Sessions : x \in Nat
    BY ListingAssumption, Zenon
  <2>4. tab[v].region \in ListedRegions /\ tab[v].updated \in 0..MaxTime
    BY <2>1
  <2>5. tab[v].region \in Nat /\ tab[v].updated \in Nat /\ v \in Nat
    BY <2>2, <2>3, <2>4
  <2> QED
    BY <2>5 DEF SortKey
<1> QED
  BY <1>1 DEF Before

LEMMA RankNumbers ==
    ASSUME NEW tab \in Tables, NEW i
    PROVE  [s \in Matched(tab, i) |-> Rank(tab, i, s)]
               \in Bijection(Matched(tab, i), 1..Cardinality(Matched(tab, i)))
<1> DEFINE M == Matched(tab, i)
           n == Cardinality(M)
           To(s) == {t \in M : Before(tab, i, t, s)}
           f == [s \in M |-> Rank(tab, i, s)]
<1>1. IsFiniteSet(M) /\ M \subseteq Sessions /\ n \in Nat
  BY MatchedFinite
<1> HIDE DEF M
<1>2. ASSUME NEW s \in M
      PROVE  /\ s \in To(s) /\ IsFiniteSet(To(s))
             /\ Rank(tab, i, s) = Cardinality(To(s)) /\ Rank(tab, i, s) \in 1..n
  <2>1. s \in To(s)
    BY <1>1, BeforeIsTotal
  <2>2. To(s) \in SUBSET M
    OBVIOUS
  <2>3. IsFiniteSet(To(s)) /\ Cardinality(To(s)) <= n
    BY <1>1, <2>2, FS_Subset
  <2>4. Cardinality(To(s)) \in Nat /\ Cardinality(To(s)) # 0
    BY <2>1, <2>3, FS_CardinalityType, FS_EmptySet
  <2>5. Rank(tab, i, s) = Cardinality(To(s))
    BY DEF Rank, M
  <2> QED
    BY <1>1, <2>1, <2>3, <2>4, <2>5
<1>3. ASSUME NEW s \in M, NEW t \in M, Before(tab, i, s, t),
             Rank(tab, i, s) = Rank(tab, i, t)
      PROVE  s = t
  <2>1. \A u \in M : Before(tab, i, u, s) => Before(tab, i, u, t)
    BY <1>1, <1>3, BeforeIsTotal
  <2>2. To(s) \in SUBSET To(t)
    BY <2>1
  <2>3. Cardinality(To(s)) = Cardinality(To(t)) /\ IsFiniteSet(To(t)) /\ t \in To(t)
    BY <1>2, <1>3
  <2>4. To(s) = To(t)
    BY <2>2, <2>3, FS_Subset
  <2>5. Before(tab, i, t, s)
    BY <2>3, <2>4
  <2> QED
    BY <1>1, <1>3, <2>5, BeforeIsTotal
<1>4. f \in Injection(M, 1..n)
  <2>1. f \in [M -> 1..n]
    BY <1>2
  <2>2. ASSUME NEW s \in M, NEW t \in M, f[s] = f[t] PROVE s = t
    <3>1. Rank(tab, i, s) = Rank(tab, i, t)
      BY <2>2
    <3>2. Before(tab, i, s, t) \/ Before(tab, i, t, s)
      BY <1>1, BeforeIsTotal
    <3> QED
      BY <1>3, <3>1, <3>2
  <2> HIDE DEF f, n
  <2>3. IsInjective(f)
    BY <2>1, <2>2 DEF IsInjective
  <2> QED
    BY <2>1, <2>3 DEF Injection
<1>5. IsFiniteSet(1..n) /\ Cardinality(1..n) = n
  BY <1>1, FS_Interval
<1>6. f \in Surjection(M, 1..n)
  <2>1. Cardinality(M) = Cardinality(1..n)
    BY <1>5
  <2> HIDE DEF f, n
  <2> QED
    BY <1>4, <1>5, <2>1, FS_Injection
<1>7. f \in Bijection(M, 1..n)
  BY <1>4, <1>6 DEF Bijection
<1> QED
  BY <1>7 DEF M

\* InOrder lists the rows that match, each of them once.
LEMMA InOrderLists ==
    ASSUME NEW tab \in Tables, NEW i
    PROVE  /\ InOrder(tab, i) \in Seq(Matched(tab, i))
           /\ Len(InOrder(tab, i)) = Cardinality(Matched(tab, i))
           /\ ToSet(InOrder(tab, i)) = Matched(tab, i)
<1> DEFINE M == Matched(tab, i)
           n == Cardinality(M)
           f == [s \in M |-> Rank(tab, i, s)]
           all == InOrder(tab, i)
<1>1. n \in Nat
  BY MatchedFinite
<1>2. f \in Bijection(M, 1..n)
  BY RankNumbers
<1>3. /\ \A s \in M : Rank(tab, i, s) \in 1..n
      /\ \A s, t \in M : Rank(tab, i, s) = Rank(tab, i, t) => s = t
      /\ \A k \in 1..n : \E s \in M : Rank(tab, i, s) = k
  <2> HIDE DEF M, n
  <2> QED
    BY <1>2 DEF Bijection, Injection, Surjection, IsInjective
<1>4. all = [k \in 1..n |-> CHOOSE s \in M : Rank(tab, i, s) = k]
  BY DEF InOrder
<1> HIDE DEF M, n, all
<1>5. ASSUME NEW k \in 1..n PROVE all[k] \in M /\ Rank(tab, i, all[k]) = k
  BY <1>3, <1>4
<1>6. ASSUME NEW s \in M PROVE Rank(tab, i, s) \in 1..n /\ all[Rank(tab, i, s)] = s
  BY <1>3, <1>5
<1>7. all \in [1..n -> M] /\ DOMAIN all = 1..n
  BY <1>4, <1>5
<1>8. all \in Seq(M) /\ Len(all) = n
  BY <1>1, <1>7
<1>9. ToSet(all) = M
  BY <1>5, <1>6, <1>7 DEF ToSet
<1> QED
  BY <1>8, <1>9 DEF M, n, all

\* A page that ClampListSessionsPage lets through is there, unless nothing matches.
LEMMA PagesAreThere ==
    ASSUME NEW tab \in Tables, NEW i \in Inputs, NEW p \in Nat \ {0}
    PROVE  LET n == Cardinality(Matched(tab, i))
               c == ClampListSessionsPage(p, SizeAsked(i), n)
           IN  /\ c \in Nat \ {0}
               /\ RowsOf(tab, i, c) \in Seq(Matched(tab, i))
               /\ Len(RowsOf(tab, i, c)) <= LargestSize
               /\ n > 0 => Len(RowsOf(tab, i, c)) > 0
<1> DEFINE n == Cardinality(Matched(tab, i))
           z == SizeAsked(i)
           c == ClampListSessionsPage(p, z, n)
           all == InOrder(tab, i)
           last == IF c * z < n THEN c * z ELSE n
<1>1. n \in Nat /\ z \in Nat \ {0} /\ z <= LargestSize
  BY MatchedFinite, Asked
<1>2. all \in Seq(Matched(tab, i)) /\ Len(all) = n
  BY InOrderLists
<1>3. Pages(n, z) \in Int
  BY <1>1 DEF Pages
<1>4. c \in Nat \ {0} /\ (n > 0 => c - 1 < Pages(n, z))
  <2>1. CASE n = 0
    BY <2>1 DEF ClampListSessionsPage
  <2>2. CASE n > 0
    <3>1. 0 < Pages(n, z) <=> 0 * z < n
      <4> HIDE DEF n, z
      <4> QED
        BY <1>1, MorePages
    <3>2. Pages(n, z) > 0
      <4> HIDE DEF n, z
      <4> QED
        BY <1>1, <1>3, <2>2, <3>1
    <3> HIDE DEF n, z
    <3> QED
      BY <1>1, <1>3, <2>2, <3>2 DEF ClampListSessionsPage
  <2> QED
    BY <1>1, <2>1, <2>2
<1> HIDE DEF c
<1>5. n > 0 => (c - 1) * z < n
  <2>1. c - 1 \in Nat
    BY <1>4
  <2>2. c - 1 < Pages(n, z) <=> (c - 1) * z < n
    <3> HIDE DEF n, z
    <3> QED
      BY <1>1, <2>1, MorePages
  <2> QED
    BY <1>4, <2>2
<1>6. (c - 1) * z = c * z - z /\ c * z \in Nat /\ c * z - z \in Nat
  <2> HIDE DEF n, z
  <2>1. c - 1 \in Nat /\ c \in Nat
    BY <1>4
  <2>2. (c - 1) * z \in Nat
    BY <1>1, <2>1
  <2> QED
    BY <1>1, <2>1, <2>2
<1>7. RowsOf(tab, i, c) = SubSeq(all, c * z - z + 1, last)
  BY <1>2 DEF RowsOf
<1> HIDE DEF n, z, all
<1>8. last \in Nat /\ last <= n /\ last <= c * z
  BY <1>1, <1>6
<1>9. \A k \in (c * z - z + 1)..last : all[k] \in Matched(tab, i)
  BY <1>1, <1>2, <1>6, <1>8
<1>10. /\ SubSeq(all, c * z - z + 1, last) \in Seq(Matched(tab, i))
       /\ Len(SubSeq(all, c * z - z + 1, last))
            = IF c * z - z + 1 <= last THEN last - (c * z - z + 1) + 1 ELSE 0
  <2>1. c * z - z + 1 \in Int /\ last \in Int
    BY <1>1, <1>6, <1>8
  <2> HIDE DEF last
  <2> QED
    BY <1>9, <2>1, SubSeqProperties
<1>11. LargestSize \in Nat
  BY ListingAssumption
<1>12. Len(RowsOf(tab, i, c)) <= LargestSize
  BY <1>1, <1>6, <1>7, <1>8, <1>10, <1>11
<1>13. n > 0 => Len(RowsOf(tab, i, c)) > 0
  BY <1>1, <1>5, <1>6, <1>7, <1>8, <1>10
<1> QED
  BY <1>4, <1>7, <1>10, <1>12, <1>13 DEF n, z, c

-----------------------------------------------------------------------------
(***************************************************************************)
(* The invariant: what the queries of a quiet request found is so.         *)
(***************************************************************************)
AnswerInv ==
    quiet =>
        /\ stage \in {"status", "select"} => total = Cardinality(Matched(table, input))
        /\ stage = "select" => counts = CountsOf(table, input)
        /\ stage = "none" /\ answer # NoAnswer =>
              /\ answer.total = Cardinality(Matched(table, input))
              /\ answer.counts = CountsOf(table, input)
              /\ answer.total > 0 => Len(answer.rows) > 0

ListInv == ListTypeOK /\ AnswerInv

LEMMA CountsType ==
    ASSUME NEW tab, NEW i
    PROVE  CountsOf(tab, i) \in [Statuses -> 0..Cardinality(Sessions)]
<1> SUFFICES ASSUME NEW st \in Statuses
             PROVE  Cardinality({s \in Matched(tab, i) : tab[s].status = st})
                        \in 0..Cardinality(Sessions)
  BY DEF CountsOf
<1>1. {s \in Matched(tab, i) : tab[s].status = st} \in SUBSET Sessions
  BY DEF Matched
<1>2. IsFiniteSet(Sessions)
  BY ListingAssumption
<1> QED
  BY <1>1, <1>2, FS_Subset, FS_CardinalityType

LEMMA ListStarts == ListInit => ListInv
<1> SUFFICES ASSUME ListInit
             PROVE  ListInv
  OBVIOUS
<1>1. Inputs # {} /\ MaxTime \in Nat /\ MaxRequests \in Nat /\ LargestSize \in Nat
  BY ListingAssumption
<1>2. Cardinality(Sessions) \in Nat
  BY ListingAssumption, FS_CardinalityType
<1>3. table \in Tables
  <2>1. 0..clock \subseteq 0..MaxTime
    BY <1>1 DEF ListInit
  <2> QED
    BY <2>1 DEF ListInit, Tables, Rows
<1>4. NoCounts \in [Statuses -> 0..Cardinality(Sessions)]
  BY <1>2 DEF NoCounts
<1>5. NoAnswer \in [rows : Seq([id : Sessions, status : Statuses]), page : Nat \ {0},
                    total : 0..Cardinality(Sessions),
                    counts : [Statuses -> 0..Cardinality(Sessions)]]
  BY <1>2, <1>4 DEF NoAnswer
<1>6. Len(NoAnswer.rows) <= LargestSize
  BY <1>1 DEF NoAnswer
<1>7. ListTypeOK
  BY <1>1, <1>2, <1>3, <1>4, <1>5, <1>6 DEF ListInit, ListTypeOK, Tables
<1> QED
  BY <1>7 DEF ListInit, ListInv, AnswerInv

LEMMA AskStep ==
    ASSUME ListInv, NEW i \in Inputs, AskForList(i)
    PROVE  ListInv'
<1>1. MaxRequests \in Nat
  BY ListingAssumption
<1>2. requests' \in 0..MaxRequests
  BY <1>1 DEF ListInv, ListTypeOK, AskForList
<1>3. ListTypeOK'
  BY <1>2 DEF ListInv, ListTypeOK, AskForList
<1>4. AnswerInv'
  BY DEF AnswerInv, AskForList
<1> QED
  BY <1>3, <1>4 DEF ListInv

LEMMA CountStep ==
    ASSUME ListInv, CountSessions
    PROVE  ListInv'
<1>1. Cardinality(Matched(table, input)) \in 0..Cardinality(Sessions)
  BY MatchedFinite
<1>2. ListTypeOK'
  BY <1>1 DEF ListInv, ListTypeOK, CountSessions
<1>3. AnswerInv'
  BY DEF AnswerInv, CountSessions
<1> QED
  BY <1>2, <1>3 DEF ListInv

LEMMA StatusStep ==
    ASSUME ListInv, CountSessionsByStatus
    PROVE  ListInv'
<1>1. CountsOf(table, input) \in [Statuses -> 0..Cardinality(Sessions)]
  BY CountsType
<1>2. ListTypeOK'
  BY <1>1 DEF ListInv, ListTypeOK, CountSessionsByStatus
<1>3. AnswerInv'
  BY DEF ListInv, AnswerInv, CountSessionsByStatus
<1> QED
  BY <1>2, <1>3 DEF ListInv

\* The table may have changed since the rows were counted: the page is cut to the
\* count, and what is there is selected.
LEMMA RowsType ==
    ASSUME NEW tab \in Tables, NEW i \in Inputs, NEW p \in Nat \ {0}
    PROVE  /\ RowsOf(tab, i, p) \in Seq(Matched(tab, i))
           /\ Len(RowsOf(tab, i, p)) <= LargestSize
<1> DEFINE n == Len(InOrder(tab, i))
           z == SizeAsked(i)
           last == IF p * z < n THEN p * z ELSE n
<1>1. z \in Nat \ {0} /\ z <= LargestSize /\ LargestSize \in Nat
  BY Asked, ListingAssumption
<1>2. InOrder(tab, i) \in Seq(Matched(tab, i)) /\ n \in Nat
  BY InOrderLists
<1>3. RowsOf(tab, i, p) = SubSeq(InOrder(tab, i), p * z - z + 1, last)
  BY DEF RowsOf
<1> HIDE DEF z, n
<1>4. p * z - z \in Nat /\ p * z \in Nat
  <2>1. (p - 1) * z \in Nat /\ (p - 1) * z = p * z - z
    BY <1>1
  <2> QED
    BY <1>1, <2>1
<1>5. last \in Nat /\ last <= n /\ last <= p * z
  BY <1>2, <1>4
<1>6. \A k \in (p * z - z + 1)..last : InOrder(tab, i)[k] \in Matched(tab, i)
  <2>1. \A k \in 1..n : InOrder(tab, i)[k] \in Matched(tab, i)
    BY <1>2 DEF n
  <2> QED
    BY <1>2, <1>4, <1>5, <2>1
<1> HIDE DEF last
<1>7. p * z - z + 1 \in Int /\ last \in Int
  BY <1>4, <1>5
<1>8. /\ SubSeq(InOrder(tab, i), p * z - z + 1, last) \in Seq(Matched(tab, i))
      /\ Len(SubSeq(InOrder(tab, i), p * z - z + 1, last))
           = IF p * z - z + 1 <= last THEN last - (p * z - z + 1) + 1 ELSE 0
  BY <1>6, <1>7, SubSeqProperties
<1>9. Len(RowsOf(tab, i, p)) <= LargestSize
  BY <1>1, <1>3, <1>4, <1>5, <1>8
<1> QED
  BY <1>3, <1>8, <1>9

LEMMA SelectStep ==
    ASSUME ListInv, SelectSessions
    PROVE  ListInv'
<1> DEFINE page == ClampListSessionsPage(PageAsked(input), SizeAsked(input), total)
           rows == RowsOf(table, input, page)
           shown == [k \in DOMAIN rows |-> [id |-> rows[k], status |-> table[rows[k]].status]]
<1>1. /\ table \in Tables /\ input \in Inputs /\ total \in Nat
      /\ total \in 0..Cardinality(Sessions)
      /\ counts \in [Statuses -> 0..Cardinality(Sessions)]
  <2>1. Cardinality(Sessions) \in Nat
    BY ListingAssumption, FS_CardinalityType
  <2> QED
    BY <2>1 DEF ListInv, ListTypeOK, Tables
<1>2. PageAsked(input) \in Nat \ {0} /\ SizeAsked(input) \in Nat \ {0}
  BY <1>1, Asked
<1>3. page \in Nat \ {0}
  <2> DEFINE z == SizeAsked(input)
  <2>1. Pages(total, z) \in Int
    BY <1>1, <1>2 DEF Pages
  <2>2. 0 < Pages(total, z) <=> 0 * z < total
    <3> HIDE DEF z
    <3> QED
      BY <1>1, <1>2, MorePages DEF z
  <2>3. total > 0 => Pages(total, z) > 0
    BY <1>1, <1>2, <2>1, <2>2
  <2> QED
    BY <1>1, <1>2, <2>1, <2>3 DEF ClampListSessionsPage
<1>4. rows \in Seq(Matched(table, input)) /\ Len(rows) <= LargestSize
  BY <1>1, <1>3, RowsType
<1>5. answer' = [rows |-> shown, page |-> page, total |-> total, counts |-> counts]
  BY DEF SelectSessions
<1>6. quiet /\ total = Cardinality(Matched(table, input)) /\ total > 0 => Len(rows) > 0
  BY <1>1, <1>2, PagesAreThere
<1> HIDE DEF page, rows
<1>7. shown \in Seq([id : Sessions, status : Statuses]) /\ Len(shown) = Len(rows)
  <2>1. Len(rows) \in Nat /\ DOMAIN rows = 1..Len(rows)
    BY <1>4
  <2>2. \A k \in 1..Len(rows) : rows[k] \in Sessions
    BY <1>4, MatchedFinite
  <2>3. \A s \in Sessions : table[s].status \in Statuses
    BY <1>1 DEF Tables, Rows
  <2> DEFINE R == [id : Sessions, status : Statuses]
  <2>4. \A k \in 1..Len(rows) : shown[k] \in R
    BY <2>1, <2>2, <2>3
  <2> HIDE DEF R
  <2>5. shown \in [1..Len(rows) -> R]
    BY <2>1, <2>4
  <2> HIDE DEF shown
  <2>6. shown \in Seq(R)
    BY <2>1, <2>5
  <2>7. Len(shown) = Len(rows)
    BY <2>1, <2>5
  <2> QED
    BY <2>6, <2>7 DEF R
<1> HIDE DEF shown
<1>8. /\ answer' \in [rows : Seq([id : Sessions, status : Statuses]), page : Nat \ {0},
                      total : 0..Cardinality(Sessions),
                      counts : [Statuses -> 0..Cardinality(Sessions)]]
      /\ Len(answer'.rows) <= LargestSize
  BY <1>1, <1>3, <1>4, <1>5, <1>7
<1>9. ListTypeOK'
  BY <1>8 DEF ListInv, ListTypeOK, SelectSessions
<1>10. AnswerInv'
  <2>1. stage = "select" /\ stage' = "none"
        /\ UNCHANGED <<table, input, quiet>>
    BY DEF SelectSessions
  <2>2. quiet => total = Cardinality(Matched(table, input)) /\ counts = CountsOf(table, input)
    BY <2>1 DEF ListInv, AnswerInv
  <2> QED
    BY <1>5, <1>6, <1>7, <2>1, <2>2 DEF AnswerInv
<1> QED
  BY <1>9, <1>10 DEF ListInv

LEMMA WriteStep ==
    ASSUME ListInv, NEW s \in Sessions, NEW st \in Statuses, WriteRow(s, st)
    PROVE  ListInv'
<1>1. clock + 1 \in 0..MaxTime /\ clock' = clock + 1
  <2>1. MaxTime \in Nat
    BY ListingAssumption
  <2>2. clock \in 0..MaxTime /\ clock < MaxTime /\ clock' = clock + 1
    BY DEF ListInv, ListTypeOK, WriteRow
  <2> QED
    BY <2>1, <2>2
<1>2. table' \in [Sessions -> Rows]
  <2> DEFINE row == [table[s] EXCEPT !.status = st, !.updated = clock + 1]
  <2>1. table \in [Sessions -> Rows] /\ table[s] \in Rows
    BY DEF ListInv, ListTypeOK
  <2>2. row \in Rows
    BY <1>1, <2>1 DEF Rows
  <2>3. table' = [table EXCEPT ![s] = row]
    BY <2>1 DEF WriteRow, Rows
  <2> HIDE DEF row
  <2> QED
    BY <2>1, <2>2, <2>3
<1>3. ListTypeOK'
  BY <1>1, <1>2 DEF ListInv, ListTypeOK, WriteRow
<1>4. AnswerInv'
  BY DEF AnswerInv, WriteRow
<1> QED
  BY <1>3, <1>4 DEF ListInv

LEMMA ListStep == ListInv /\ [ListNext]_listVars => ListInv'
<1> SUFFICES ASSUME ListInv, [ListNext]_listVars
             PROVE  ListInv'
  OBVIOUS
<1>1. CASE UNCHANGED listVars
  BY <1>1 DEF listVars, ListInv, ListTypeOK, AnswerInv
<1> QED
  BY <1>1, AskStep, CountStep, StatusStep, SelectStep, WriteStep DEF ListNext

LEMMA AlwaysListInv == ListSpec => []ListInv
<1> QED
  BY ListStarts, ListStep, PTL DEF ListSpec

\* Type correctness of the lists: pages of answers included.
THEOREM ListTypeCorrect == ListSpec => []ListTypeOK
<1>1. ListInv => ListTypeOK
  BY DEF ListInv
<1> QED
  BY <1>1, AlwaysListInv, PTL

\* Whatever is asked of whatever table: page after page a client gets every
\* session that matches, each of them once, and a page beyond the last is the
\* last.
THEOREM PagesAlwaysPartition == ListSpec => []PagesPartition
<1>1. ASSUME ListInv PROVE PagesPartition
  <2> DEFINE M == Matched(table, input)
             n == Cardinality(M)
             z == SizeAsked(input)
             ordered == InOrder(table, input)
             pages == [p \in 1..Pages(n, z) |-> RowsOf(table, input, p)]
  <2>1. table \in Tables /\ input \in Inputs
    BY <1>1 DEF ListInv, ListTypeOK, Tables
  <2>2. n \in Nat /\ z \in Nat \ {0}
    BY <2>1, MatchedFinite, Asked
  <2>3. ordered \in Seq(M) /\ Len(ordered) = n /\ ToSet(ordered) = M
    BY <2>1, InOrderLists
  <2>4. FlattenSeq(pages) = ordered
    <3>1. \A p : RowsOf(table, input, p)
                    = SubSeq(ordered, p * z - z + 1,
                             IF p * z < Len(ordered) THEN p * z ELSE Len(ordered))
      BY DEF RowsOf
    <3>2. pages = [p \in 1..Pages(Len(ordered), z) |->
                      SubSeq(ordered, p * z - z + 1,
                             IF p * z < Len(ordered) THEN p * z ELSE Len(ordered))]
      BY <2>3, <3>1
    <3> HIDE DEF ordered, z, M, pages
    <3> QED
      BY <2>2, <2>3, <3>2, PiecesJoin
  <2>5. ASSUME NEW p \in 1..(n + 1), n > 0
        PROVE  RowsOf(table, input, ClampListSessionsPage(p, z, n)) # <<>>
    <3> DEFINE c == ClampListSessionsPage(p, z, n)
    <3>1. p \in Nat \ {0}
      BY <2>2
    <3>2. Len(RowsOf(table, input, c)) > 0
      BY <2>1, <2>5, <3>1, PagesAreThere
    <3> QED
      BY <3>2
  <2> QED
    BY <2>3, <2>4, <2>5 DEF PagesPartition
<1> QED
  BY <1>1, AlwaysListInv, PTL

\* There are finitely many statuses.
LEMMA StatusesFinite == IsFiniteSet(Statuses)
<1>1. \A S, x : IsFiniteSet(S) => IsFiniteSet(S \cup {x})
  BY FS_AddElement
<1>2. IsFiniteSet({"created", "provisioning", "waiting_for_dns", "ready"})
  <2>1. IsFiniteSet({} \cup {"created"})
    BY <1>1, FS_EmptySet
  <2>2. IsFiniteSet({} \cup {"created"} \cup {"provisioning"})
    BY <1>1, <2>1
  <2>3. IsFiniteSet({} \cup {"created"} \cup {"provisioning"} \cup {"waiting_for_dns"})
    BY <1>1, <2>2
  <2>4. IsFiniteSet({} \cup {"created"} \cup {"provisioning"} \cup {"waiting_for_dns"}
                    \cup {"ready"})
    BY <1>1, <2>3
  <2>5. {} \cup {"created"} \cup {"provisioning"} \cup {"waiting_for_dns"} \cup {"ready"}
          = {"created", "provisioning", "waiting_for_dns", "ready"}
    OBVIOUS
  <2> QED
    BY <2>4, <2>5
<1>3. IsFiniteSet({"active", "finalizing", "awaiting_manual_download", "teardown_pending"})
  <2>1. IsFiniteSet({} \cup {"active"})
    BY <1>1, FS_EmptySet
  <2>2. IsFiniteSet({} \cup {"active"} \cup {"finalizing"})
    BY <1>1, <2>1
  <2>3. IsFiniteSet({} \cup {"active"} \cup {"finalizing"} \cup {"awaiting_manual_download"})
    BY <1>1, <2>2
  <2>4. IsFiniteSet({} \cup {"active"} \cup {"finalizing"} \cup {"awaiting_manual_download"}
                    \cup {"teardown_pending"})
    BY <1>1, <2>3
  <2>5. {} \cup {"active"} \cup {"finalizing"} \cup {"awaiting_manual_download"}
            \cup {"teardown_pending"}
          = {"active", "finalizing", "awaiting_manual_download", "teardown_pending"}
    OBVIOUS
  <2> QED
    BY <2>4, <2>5
<1>4. IsFiniteSet({"tearing_down", "ended", "failed"})
  <2>1. IsFiniteSet({} \cup {"tearing_down"})
    BY <1>1, FS_EmptySet
  <2>2. IsFiniteSet({} \cup {"tearing_down"} \cup {"ended"})
    BY <1>1, <2>1
  <2>3. IsFiniteSet({} \cup {"tearing_down"} \cup {"ended"} \cup {"failed"})
    BY <1>1, <2>2
  <2>4. {} \cup {"tearing_down"} \cup {"ended"} \cup {"failed"}
          = {"tearing_down", "ended", "failed"}
    OBVIOUS
  <2> QED
    BY <2>3, <2>4
<1> DEFINE all == {"created", "provisioning", "waiting_for_dns", "ready"}
                  \cup {"active", "finalizing", "awaiting_manual_download", "teardown_pending"}
                  \cup {"tearing_down", "ended", "failed"}
<1>5. IsFiniteSet(all)
  BY <1>2, <1>3, <1>4, FS_Union
<1>6. Pollable \cup Settled = all
  BY DEF Pollable, Settled
<1>7. Statuses \in SUBSET all
  <2> HIDE DEF all
  <2> QED
    BY <1>6, ListingAssumption
<1> HIDE DEF all
<1> QED
  BY <1>5, <1>7, FS_Subset

\* The counts of a table by status add up to the rows that match, and those of
\* the pollable statuses to the pollable ones of them.
LEMMA CountsOfTable ==
    ASSUME NEW tab \in Tables, NEW i, NEW c, c = CountsOf(tab, i)
    PROVE  /\ FoldFunction(+, 0, c) = Cardinality(Matched(tab, i))
           /\ PollableCount(c) > 0 <=> \E s \in Matched(tab, i) : tab[s].status \in Pollable
<1> DEFINE M == Matched(tab, i)
           key == [s \in M |-> tab[s].status]
           Of(T) == {m \in M : key[m] \in T}
<1>1. IsFiniteSet(M) /\ M \subseteq Sessions
  BY MatchedFinite
<1>2. \A s \in M : tab[s].status \in Statuses
  BY <1>1 DEF Tables, Rows
<1>3. key \in [M -> Statuses]
  BY <1>2
<1>4. DOMAIN c = Statuses /\ \A st \in Statuses : c[st] = Cardinality({m \in M : key[m] = st})
  <2>1. \A st \in Statuses :
            {m \in M : key[m] = st} = {s \in Matched(tab, i) : tab[s].status = st}
    OBVIOUS
  <2> QED
    BY <2>1 DEF CountsOf
<1> HIDE DEF M, key
<1>5. ASSUME NEW T \in SUBSET Statuses
      PROVE  SumOver(c, T) = Cardinality(Of(T))
  <2>1. IsFiniteSet(T)
    BY StatusesFinite, FS_Subset
  <2> QED
    BY <1>1, <1>3, <1>4, <2>1, CountsAddUp
<1>6. FoldFunction(+, 0, c) = Cardinality(M)
  <2>1. FoldFunction(+, 0, c) = SumOver(c, Statuses)
    BY <1>4 DEF FoldFunction, FoldFunctionOnSet, SumOver
  <2>2. Of(Statuses) = M
    BY <1>3
  <2>3. SumOver(c, Statuses) = Cardinality(Of(Statuses))
    BY <1>5
  <2> QED
    BY <2>1, <2>2, <2>3
<1>7. PollableCount(c) > 0 <=> \E s \in M : tab[s].status \in Pollable
  <2> DEFINE N == Of(Statuses \cap Pollable)
  <2>1. PollableCount(c) = Cardinality(N)
    BY <1>5 DEF PollableCount, SumOver
  <2>2. IsFiniteSet(N)
    BY <1>1, FS_Subset
  <2>3. N # {} <=> \E s \in M : tab[s].status \in Pollable
    BY <1>2 DEF key
  <2> HIDE DEF N
  <2>4. Cardinality(N) \in Nat /\ (Cardinality(N) = 0 <=> N = {})
    BY <2>2, FS_CardinalityType, FS_EmptySet
  <2> QED
    BY <2>1, <2>3, <2>4
<1> QED
  BY <1>6, <1>7 DEF M

\* When nothing was written meanwhile, an answer agrees with the table: its page
\* exists, its counts add up, and has_pollable tells whether a matching session
\* can still change by itself.
THEOREM AnswerAlwaysAgrees == ListSpec => []AnswerAgrees
<1>1. ASSUME ListInv PROVE AnswerAgrees
  <2> SUFFICES ASSUME stage = "none", quiet, answer # NoAnswer
               PROVE  /\ answer.total = Cardinality(Matched(table, input))
                      /\ FoldFunction(+, 0, answer.counts) = answer.total
                      /\ answer.total > 0 => answer.rows # <<>>
                      /\ HasPollable <=> \E s \in Matched(table, input) :
                                             table[s].status \in Pollable
    BY DEF AnswerAgrees
  <2>1. /\ answer.total = Cardinality(Matched(table, input))
        /\ answer.counts = CountsOf(table, input)
        /\ answer.total > 0 => Len(answer.rows) > 0
    BY <1>1 DEF ListInv, AnswerInv
  <2>2. table \in Tables
    BY <1>1 DEF ListInv, ListTypeOK, Tables
  <2>3. /\ FoldFunction(+, 0, answer.counts) = Cardinality(Matched(table, input))
        /\ PollableCount(answer.counts) > 0
             <=> \E s \in Matched(table, input) : table[s].status \in Pollable
    BY <2>1, <2>2, CountsOfTable
  <2>4. answer.total > 0 => answer.rows # <<>>
    BY <2>1
  <2> QED
    BY <2>1, <2>3, <2>4 DEF HasPollable
<1> QED
  BY <1>1, AlwaysListInv, PTL

-----------------------------------------------------------------------------
(***************************************************************************)
(* EventPages.                                                             *)
(***************************************************************************)

\* What is known of the i-th page that was loaded.
PageIsRight(i) ==
    /\ loaded[i].page = i
    /\ loaded[i].total <= loaded[i].listed /\ loaded[i].listed <= events
    /\ \A id \in loaded[i].ids : id > loaded[i].listed - i * EventSize

\* Every event from the oldest that the i-th page may hold to those there were
\* at the beginning has been loaded.
ReachesBack(i) ==
    \A id \in 1..loaded[1].total :
        id > loaded[i].listed - i * EventSize => id \in LoadedIds

\* A request between its queries is for the page after those that were loaded.
CountedIsNext ==
    counted # NoRequest => counted.page = Len(loaded) + 1 /\ counted.total <= events

PagesInv ==
    /\ PagesTypeOK /\ CountedIsNext
    /\ \A i \in 1..Len(loaded) : PageIsRight(i) /\ ReachesBack(i)

LEMMA RecordType ==
    ASSUME NEW s \in Seq(PageRecords), NEW i \in 1..Len(s)
    PROVE  s[i] \in PageRecords /\ s[i].total \in Int /\ s[i].listed \in Int
<1>1. s[i] \in PageRecords
  OBVIOUS
<1>2. s[i].total \in 0..MaxEvents /\ s[i].listed \in 0..MaxEvents
  BY <1>1 DEF PageRecords
<1> QED
  BY <1>1, <1>2, PagesAssumption

\* A page that is there, or the first of an empty list, is not clamped.
LEMMA NotClamped ==
    ASSUME PagesTypeOK, NEW n \in Nat, n < Pages(events, EventSize) \/ n = 0
    PROVE  ClampListSessionsPage(n + 1, EventSize, events) = n + 1
<1>1. events \in Nat /\ EventSize \in Nat \ {0}
  BY PagesAssumption DEF PagesTypeOK
<1>2. Pages(events, EventSize) \in Int
  BY <1>1 DEF Pages
<1>3. CASE n = 0 /\ events # 0
  <2>1. 0 < Pages(events, EventSize)
    BY <1>1, <1>3, MorePages
  <2> QED
    BY <1>2, <1>3, <2>1 DEF ClampListSessionsPage
<1>4. CASE events = 0
  BY <1>4 DEF ClampListSessionsPage
<1>5. CASE n # 0
  BY <1>2, <1>5 DEF ClampListSessionsPage
<1> QED
  BY <1>3, <1>4, <1>5

LEMMA NoRequestType == NoRequest \in Counts
  BY PagesAssumption DEF NoRequest, Counts

\* Listing page n + 1 after n pages.
LEMMA LoadStep ==
    ASSUME PagesInv, ListEvents
    PROVE  PagesInv'
<1>0. PICK n \in Nat : n = Len(loaded)
  BY DEF PagesInv, PagesTypeOK
<1> DEFINE new == [page |-> counted.page, total |-> counted.total,
                 ids |-> EventPage(counted.page), listed |-> events]
<1>1. /\ events \in 0..MaxEvents /\ events \in Nat /\ EventSize \in Nat \ {0}
      /\ n \in Nat /\ counted.page = n + 1 /\ counted.total \in 0..MaxEvents
      /\ counted.total <= events /\ events' = events /\ counted' = NoRequest
  BY <1>0, PagesAssumption DEF PagesInv, PagesTypeOK, CountedIsNext, Counts, ListEvents
<1>2. new \in PageRecords
  <2>1. EventPage(counted.page) \in SUBSET (1..MaxEvents)
    BY <1>1, PagesAssumption DEF EventPage
  <2> QED
    BY <1>1, <2>1 DEF PageRecords
<1>3. loaded \in Seq(PageRecords)
  BY DEF PagesInv, PagesTypeOK
<1>4. /\ loaded' \in Seq(PageRecords) /\ Len(loaded') = n + 1 /\ loaded'[n + 1] = new
      /\ \A i \in 1..n : loaded'[i] = loaded[i]
  BY <1>0, <1>2, <1>3 DEF ListEvents
<1>5. LoadedIds' = LoadedIds \cup EventPage(n + 1)
  BY <1>0, <1>1, <1>3, <1>4 DEF LoadedIds
<1>6. ASSUME NEW i \in 1..(n + 1) PROVE PageIsRight(i)'
  <2>1. CASE i \in 1..n
    BY <1>0, <1>1, <1>4, <2>1 DEF PagesInv, PageIsRight
  <2>2. CASE i = n + 1
    BY <1>1, <1>4, <2>2 DEF PageIsRight, EventPage
  <2> QED
    BY <2>1, <2>2
<1>7. ASSUME NEW i \in 1..(n + 1) PROVE ReachesBack(i)'
  <2> SUFFICES ASSUME NEW id \in 1..loaded'[1].total,
                      id > loaded'[i].listed - i * EventSize
               PROVE  id \in LoadedIds'
    BY DEF ReachesBack
  <2>1. CASE i \in 1..n
    <3>1. loaded'[1] = loaded[1] /\ loaded'[i] = loaded[i]
      BY <1>4, <2>1
    <3> QED
      BY <1>0, <1>5, <2>1, <3>1 DEF PagesInv, ReachesBack
  <2>2. CASE i = n + 1
    <3>1. loaded'[1].total <= events
      <4>1. CASE n = 0
        BY <1>1, <1>4, <4>1
      <4>2. CASE n # 0
        <5>1. loaded'[1] = loaded[1] /\ PageIsRight(1) /\ 1 \in 1..n
          BY <1>0, <1>1, <1>4, <4>2 DEF PagesInv
        <5>2. loaded[1].total \in Int /\ loaded[1].listed \in Int
          BY <1>0, <1>3, <5>1, RecordType
        <5>3. loaded[1].total <= loaded[1].listed /\ loaded[1].listed <= events
          BY <5>1 DEF PageIsRight
        <5> QED
          BY <1>1, <5>1, <5>2, <5>3
      <4> QED
        BY <4>1, <4>2
    <3>2. id \in 1..events /\ id > events - (n + 1) * EventSize
      <4>1. loaded'[1].total \in Int
        BY <1>4, RecordType
      <4> QED
        BY <1>1, <1>4, <2>2, <3>1, <4>1
    <3>3. CASE id <= events - n * EventSize
      <4>1. id \in EventPage(n + 1)
        BY <3>2, <3>3 DEF EventPage
      <4> QED
        BY <1>5, <4>1
    <3>4. CASE id > events - n * EventSize
      <4>1. n # 0
        BY <1>1, <3>2, <3>4
      <4>2. loaded'[1] = loaded[1] /\ PageIsRight(n) /\ ReachesBack(n) /\ n \in 1..n
        BY <1>0, <1>1, <1>4, <4>1 DEF PagesInv
      <4>3. loaded[n].listed \in Int /\ loaded[n].listed <= events
        BY <1>0, <1>3, <4>2, RecordType DEF PageIsRight
      <4>4. id > loaded[n].listed - n * EventSize
        <5> DEFINE t == loaded[n].listed
                   before == n * EventSize
        <5>1. t \in Int /\ t <= events /\ before \in Int /\ events \in Int
          BY <1>1, <4>3
        <5>2. id \in Int /\ id > events - before
          BY <3>2, <3>4
        <5> HIDE DEF t, before
        <5>3. id > t - before
          BY <5>1, <5>2
        <5> QED
          BY <5>3 DEF t, before
      <4>5. id \in 1..loaded[1].total
        BY <4>2
      <4>6. id \in LoadedIds
        BY <4>2, <4>4, <4>5 DEF ReachesBack
      <4> QED
        BY <1>5, <4>6
    <3> QED
      BY <1>1, <3>2, <3>3, <3>4
  <2> QED
    BY <2>1, <2>2
<1> QED
  BY <1>0, <1>1, <1>4, <1>6, <1>7, NoRequestType DEF PagesInv, PagesTypeOK, CountedIsNext

\* A request that has counted the events is for the next page.
LEMMA PageCountStep ==
    ASSUME PagesInv, events' = events, loaded' = loaded,
           counted' = [page |-> Len(loaded) + 1, total |-> events]
    PROVE  PagesInv'
<1>1. /\ events \in 0..MaxEvents /\ events \in Nat
      /\ loaded \in Seq(PageRecords) /\ Len(loaded) \in Nat
  BY PagesAssumption DEF PagesInv, PagesTypeOK
<1>2. counted' \in Counts
  BY <1>1 DEF Counts
<1>3. CountedIsNext'
  BY <1>1 DEF CountedIsNext
<1>4. LoadedIds' = LoadedIds
  BY DEF LoadedIds
<1>5. ASSUME NEW i \in 1..Len(loaded) PROVE PageIsRight(i)' /\ ReachesBack(i)'
  <2>1. PageIsRight(i) /\ ReachesBack(i)
    BY DEF PagesInv
  <2> QED
    BY <1>4, <2>1 DEF PageIsRight, ReachesBack
<1> QED
  BY <1>1, <1>2, <1>3, <1>5 DEF PagesInv, PagesTypeOK

LEMMA PagesStep ==
    ASSUME PagesInv, [PagesNext]_pageVars
    PROVE  PagesInv'
<1>1. events \in 0..MaxEvents /\ EventSize \in Nat \ {0} /\ loaded \in Seq(PageRecords)
  BY PagesAssumption DEF PagesInv, PagesTypeOK
<1>2. CASE OpenEvents
  <2>1. Len(loaded) = 0 /\ CountEvents(0 + 1)
    BY <1>2 DEF OpenEvents
  <2>2. ClampListSessionsPage(0 + 1, EventSize, events) = 0 + 1
    BY NotClamped DEF PagesInv
  <2>3. /\ counted' = [page |-> 0 + 1, total |-> events]
        /\ events' = events /\ loaded' = loaded
    BY <2>1, <2>2 DEF CountEvents
  <2> QED
    BY <2>1, <2>3, PageCountStep
<1>3. CASE LoadMore
  <2>0. PICK n \in Nat : n = Len(loaded)
    BY <1>1
  <2>1. n \in 1..n /\ n \in 1..Len(loaded) /\ loaded[n] \in PageRecords
    BY <1>1, <1>3, <2>0 DEF LoadMore
  <2>2. /\ loaded[n].page = n /\ loaded[n].total \in Nat /\ loaded[n].listed \in Nat
        /\ loaded[n].total <= loaded[n].listed /\ loaded[n].listed <= events
    <3>1. PageIsRight(n)
      BY <2>1 DEF PagesInv
    <3>2. loaded[n].total \in Nat /\ loaded[n].listed \in Nat
      BY <2>1 DEF PageRecords
    <3> QED
      BY <3>1, <3>2 DEF PageIsRight
  <2>3. n < Pages(events, EventSize)
    <3>1. n < Pages(loaded[n].total, EventSize)
      BY <1>3, <2>0, <2>2 DEF LoadMore, HasNextPage, LastPage
    <3>2. n * EventSize < loaded[n].total
      BY <1>1, <2>1, <2>2, <3>1, MorePages
    <3>3. events \in Nat /\ n * EventSize < events
      BY <1>1, <2>1, <2>2, <3>2
    <3> QED
      BY <1>1, <2>1, <3>3, MorePages
  <2>4. CountEvents(n + 1)
    BY <1>3, <2>0, <2>2 DEF LoadMore, LastPage
  <2>5. ClampListSessionsPage(n + 1, EventSize, events) = n + 1
    BY <2>3, NotClamped DEF PagesInv
  <2>6. /\ counted' = [page |-> n + 1, total |-> events]
        /\ events' = events /\ loaded' = loaded
    BY <2>4, <2>5 DEF CountEvents
  <2> QED
    BY <2>0, <2>6, PageCountStep
<1>4. CASE AppendEvent
  <2>1. /\ events' = events + 1 /\ events' \in 0..MaxEvents
        /\ loaded' = loaded /\ counted' = counted
    BY <1>1, <1>4, PagesAssumption DEF AppendEvent
  <2>2. LoadedIds' = LoadedIds
    BY <2>1 DEF LoadedIds
  <2>3. ASSUME NEW i \in 1..Len(loaded) PROVE PageIsRight(i)' /\ ReachesBack(i)'
    <3>1. loaded[i].total \in Int /\ loaded[i].listed \in Int
      BY <1>1, RecordType
    <3>2. PageIsRight(i) /\ ReachesBack(i)
      BY DEF PagesInv
    <3>3. PageIsRight(i)'
      BY <1>1, <2>1, <3>1, <3>2 DEF PageIsRight
    <3>4. ReachesBack(i)'
      BY <2>1, <2>2, <3>2 DEF ReachesBack
    <3> QED
      BY <3>3, <3>4
  <2>4. CountedIsNext'
    <3>1. counted.total \in 0..MaxEvents
      BY DEF PagesInv, PagesTypeOK, Counts
    <3> QED
      BY <1>1, <2>1, <3>1 DEF PagesInv, CountedIsNext
  <2> QED
    BY <2>1, <2>3, <2>4 DEF PagesInv, PagesTypeOK
<1>5. CASE LoadFails \/ UNCHANGED pageVars
  <2>1. events' = events /\ loaded' = loaded /\ counted' \in {counted, NoRequest}
    BY <1>5 DEF LoadFails, pageVars
  <2>2. LoadedIds' = LoadedIds
    BY <2>1 DEF LoadedIds
  <2> QED
    BY <2>1, <2>2, NoRequestType
       DEF PagesInv, PagesTypeOK, CountedIsNext, PageIsRight, ReachesBack
<1> QED
  BY <1>2, <1>3, <1>4, <1>5, LoadStep DEF PagesNext

LEMMA AlwaysPagesInv == PagesSpec => []PagesInv
<1>1. PagesInit => PagesInv
  BY NoRequestType DEF PagesInit, PagesInv, PagesTypeOK, CountedIsNext
<1> QED
  BY <1>1, PagesStep, PTL DEF PagesSpec

\* Whatever is appended between the requests and within them, a client that loads
\* the events of a session page after page leaves no gap, and misses in the end at
\* most as many of the oldest as were appended between the two queries of its last
\* request, for any size of a page and any number of events.
THEOREM EventsAreComplete == PagesSpec => []EventsComplete
<1>1. PagesInv => EventsComplete
  <2> SUFFICES ASSUME PagesInv, loaded # <<>>, NEW n, n = Len(loaded)
               PROVE  /\ \A id \in LoadedIds : id..loaded[1].total \subseteq LoadedIds
                      /\ ~HasNextPage =>
                            (loaded[n].listed - loaded[n].total + 1)..loaded[1].total
                                \subseteq LoadedIds
    BY DEF EventsComplete, LastPage
  <2>1. /\ loaded \in Seq(PageRecords) /\ EventSize \in Nat \ {0}
        /\ n \in Nat /\ n \in 1..n /\ 1 \in 1..n
    BY PagesAssumption DEF PagesInv, PagesTypeOK
  <2>2. ASSUME NEW i \in 1..n
        PROVE  /\ loaded[i].total \in Nat /\ loaded[i].listed \in Nat
               /\ i * EventSize \in Int /\ loaded[i].ids \in SUBSET (1..MaxEvents)
    <3>1. loaded[i] \in PageRecords
      BY <2>1, RecordType
    <3>2. /\ loaded[i].total \in 0..MaxEvents /\ loaded[i].listed \in 0..MaxEvents
          /\ loaded[i].ids \in SUBSET (1..MaxEvents)
      BY <3>1 DEF PageRecords
    <3>3. i * EventSize \in Int
      BY <2>1
    <3> QED
      BY <3>2, <3>3, PagesAssumption
  <2>3. ASSUME NEW id \in LoadedIds, NEW later \in id..loaded[1].total
        PROVE  later \in LoadedIds
    <3>1. PICK i \in 1..n : id \in loaded[i].ids
      BY <2>1 DEF LoadedIds
    <3>2. id \in 1..MaxEvents /\ id > loaded[i].listed - i * EventSize
      BY <2>2, <3>1 DEF PagesInv, PageIsRight
    <3>3. later \in 1..loaded[1].total /\ later > loaded[i].listed - i * EventSize
      BY <2>1, <2>2, <2>3, <3>2, PagesAssumption
    <3> QED
      BY <3>1, <3>3 DEF PagesInv, ReachesBack
  <2>4. ASSUME ~HasNextPage,
               NEW id \in (loaded[n].listed - loaded[n].total + 1)..loaded[1].total
        PROVE  id \in LoadedIds
    <3>1. loaded[n].page = n /\ loaded[n].total <= loaded[n].listed
      BY <2>1 DEF PagesInv, PageIsRight
    <3>2. ~(n < Pages(loaded[n].total, EventSize))
      BY <2>4, <3>1 DEF HasNextPage, LastPage
    <3>3. ~(n * EventSize < loaded[n].total)
      BY <2>1, <2>2, <3>2, MorePages
    <3>4. id \in 1..loaded[1].total /\ id > loaded[n].listed - n * EventSize
      <4> DEFINE oldest == n * EventSize
                 amount == loaded[n].total
                 rowsThen == loaded[n].listed
      <4>1. /\ oldest \in Int /\ amount \in Nat /\ rowsThen \in Nat
            /\ amount <= rowsThen /\ ~(oldest < amount)
        BY <2>1, <2>2, <3>1, <3>3
      <4>2. id \in (rowsThen - amount + 1)..loaded[1].total
        BY <2>4
      <4>3. loaded[1].total \in Nat
        BY <2>1, <2>2
      <4> HIDE DEF oldest, amount, rowsThen
      <4>4. id \in 1..loaded[1].total /\ id > rowsThen - oldest
        BY <4>1, <4>2, <4>3
      <4> QED
        BY <4>4 DEF oldest, rowsThen
    <3> QED
      BY <2>1, <3>4 DEF PagesInv, ReachesBack
  <2> QED
    BY <2>3, <2>4
<1> QED
  BY AlwaysPagesInv, <1>1, PTL

-----------------------------------------------------------------------------
(***************************************************************************)
(* CreateSessionForm.                                                      *)
(***************************************************************************)

\* What was taken stays so: sessions keep their slugs, ended ones too.
SlugInv ==
    \A s \in FormSlugs :
        data[s] = "taken" \/ request[s] = "taken" => s \in taken

\* What is submitted is what the options offer.
PostInv ==
    /\ post.state = "sent" =>
          /\ post.slug \in FormSlugs /\ post.region \in Regions
          /\ post.size \in Available(post.options, post.region)
    /\ env \in Environments

FormInv == FormTypeOK /\ SlugInv /\ PostInv

LEMMA FormStarts == FormInit => FormInv
<1> SUFFICES ASSUME FormInit PROVE FormInv
  OBVIOUS
<1>1. 0 \in 0..MaxRestarts /\ 0 \in 0..MaxFailures
  <2>1. MaxRestarts \in Nat /\ MaxFailures \in Nat
    BY FormAssumption
  <2> QED
    BY <2>1
<1>2. NoPost \in [state : States, slug : FormSlugs \cup {Nothing},
                  region : Regions \cup {Nothing}, size : Sizes \cup {Nothing},
                  options : Environments \cup {Nothing}]
  BY DEF NoPost, States
<1>3. FormTypeOK
  BY <1>1, <1>2 DEF FormInit, FormTypeOK, Answers
<1>4. SlugInv /\ PostInv
  BY FormAssumption DEF FormInit, SlugInv, PostInv, NoPost
<1> QED
  BY <1>3, <1>4 DEF FormInv

LEMMA FormType ==
    ASSUME FormInv, [FormNext]_formVars
    PROVE  FormTypeOK'
<1> USE DEF FormInv, FormTypeOK, serverVars, slugVars, choiceVars
<1>b. MaxRestarts \in Nat /\ MaxFailures \in Nat
  BY FormAssumption
<1>f. ASSUME Failure PROVE failures' \in 0..MaxFailures
  BY <1>b, <1>f DEF Failure
<1>1. ASSUME NEW s \in FormSlugs \cup {Invalid}, Type(s) PROVE FormTypeOK'
  BY <1>1 DEF Type
<1>2. CASE Debounce
  <2>1. request' \in [FormSlugs -> Answers \cup {"no", "asked"}]
    BY <1>2 DEF Debounce, Ask
  <2> QED
    BY <1>2, <2>1 DEF Debounce
<1>3. ASSUME NEW s \in FormSlugs, CheckSlugAvailability(s) PROVE FormTypeOK'
  BY <1>3 DEF CheckSlugAvailability, Answers
<1>4. ASSUME NEW s \in FormSlugs, SlugAnswer(s) PROVE FormTypeOK'
  BY <1>4 DEF SlugAnswer
<1>5. ASSUME NEW s \in FormSlugs, SlugCheckFails(s) PROVE FormTypeOK'
  BY <1>5, <1>f DEF SlugCheckFails
<1>6. CASE LoadOptions
  BY <1>6 DEF LoadOptions, PostInv
<1>7. CASE ApplyDefaults
  BY <1>7 DEF ApplyDefaults, Available, Availability
<1>8. ASSUME NEW r \in Regions, UpdateRegion(r) PROVE FormTypeOK'
  <2>1. size' \in Sizes \cup {Nothing}
    BY <1>8, FormAssumption DEF UpdateRegion, SizeFor, Recommended
  <2> QED
    BY <1>8, <2>1 DEF UpdateRegion
<1>9. ASSUME NEW s \in Sizes, UpdateSize(s) PROVE FormTypeOK'
  BY <1>9 DEF UpdateSize
<1>10. CASE Submit
  <2>1. field \in FormSlugs
    BY <1>10 DEF Submit, SlugStatus
  <2> QED
    BY <1>10, <2>1 DEF Submit, States
<1>11. CASE CreateSession
  <2>1. taken' \in SUBSET FormSlugs
    BY <1>11 DEF CreateSession, PostInv
  <2>2. \E state \in States : post' = [post EXCEPT !.state = state]
    BY <1>11 DEF CreateSession, States
  <2> QED
    BY <1>11, <2>1, <2>2 DEF CreateSession
<1>12. CASE CreateLost
  <2>1. post' = [post EXCEPT !.state = "lost"] /\ "lost" \in States
    BY <1>12 DEF CreateLost, States
  <2> QED
    BY <1>12, <1>f, <2>1 DEF CreateLost
<1>13. CASE NewForm
  <2>1. NoPost \in [state : States, slug : FormSlugs \cup {Nothing},
                    region : Regions \cup {Nothing}, size : Sizes \cup {Nothing},
                    options : Environments \cup {Nothing}]
    BY DEF NoPost, States
  <2> QED
    BY <1>13, <2>1 DEF NewForm
<1>14. ASSUME NEW s \in FormSlugs, OthersCreate(s) PROVE FormTypeOK'
  BY <1>14 DEF OthersCreate
<1>15. CASE Restart
  BY <1>15, <1>b DEF Restart
<1>16. CASE UNCHANGED formVars
  BY <1>16 DEF formVars
<1> QED
  BY <1>1, <1>2, <1>3, <1>4, <1>5, <1>6, <1>7, <1>8, <1>9, <1>10, <1>11, <1>12, <1>13,
     <1>14, <1>15, <1>16
  DEF FormNext, Looks

\* A slug that was taken when it was looked up still is when the answer is shown.
LEMMA SlugStep ==
    ASSUME FormInv, [FormNext]_formVars
    PROVE  SlugInv'
<1> USE DEF FormInv, FormTypeOK, SlugInv, serverVars, slugVars, choiceVars
<1>1. taken \subseteq taken'
  BY DEF FormNext, Looks, Type, Debounce, CheckSlugAvailability, SlugAnswer, SlugCheckFails,
         LoadOptions, ApplyDefaults, UpdateRegion, UpdateSize, Submit, CreateSession,
         CreateLost, NewForm, OthersCreate, Restart, formVars
<1>2. CASE Debounce
  BY <1>1, <1>2 DEF Debounce, Ask
<1>3. ASSUME NEW s \in FormSlugs, CheckSlugAvailability(s) PROVE SlugInv'
  BY <1>1, <1>3 DEF CheckSlugAvailability
<1>4. ASSUME NEW s \in FormSlugs, SlugAnswer(s) PROVE SlugInv'
  BY <1>1, <1>4 DEF SlugAnswer
<1>5. ASSUME NEW s \in FormSlugs, SlugCheckFails(s) PROVE SlugInv'
  BY <1>1, <1>5 DEF SlugCheckFails
<1>6. CASE data' = data /\ request' = request
  BY <1>1, <1>6
<1> QED
  BY <1>2, <1>3, <1>4, <1>5, <1>6
  DEF FormNext, Looks, Type, LoadOptions, ApplyDefaults, UpdateRegion, UpdateSize, Submit,
      CreateSession, CreateLost, NewForm, OthersCreate, Restart, formVars

LEMMA PostStepInv ==
    ASSUME FormInv, [FormNext]_formVars
    PROVE  PostInv'
<1> USE DEF FormInv, FormTypeOK, PostInv, serverVars, slugVars, choiceVars
<1>1. env' \in Environments
  BY FormType
<1>2. CASE Submit
  <2>1. field \in FormSlugs
    BY <1>2 DEF Submit, SlugStatus
  <2> QED
    BY <1>1, <1>2, <2>1 DEF Submit, ValidInput
<1>3. CASE CreateSession \/ CreateLost \/ NewForm
  <2>1. post'.state # "sent"
    BY <1>3 DEF CreateSession, CreateLost, NewForm, NoPost
  <2> QED
    BY <1>1, <2>1
<1>4. CASE post' = post
  BY <1>1, <1>4
<1> QED
  BY <1>2, <1>3, <1>4
  DEF FormNext, Looks, Type, Debounce, CheckSlugAvailability, SlugAnswer, SlugCheckFails,
      LoadOptions, ApplyDefaults, UpdateRegion, UpdateSize, OthersCreate, Restart, formVars

LEMMA AlwaysFormInv == FormSpec => []FormInv
<1>1. FormInv /\ [FormNext]_formVars => FormInv'
  BY FormType, SlugStep, PostStepInv DEF FormInv
<1> QED
  BY FormStarts, <1>1, PTL DEF FormSpec

\* The form refuses a slug as taken only if a session has it, in whatever order
\* the answers to whatever was typed arrive.
THEOREM TakenIsAlwaysTrue == FormSpec => []TakenIsTrue
<1>1. FormInv => TakenIsTrue
  BY DEF FormInv, FormTypeOK, SlugInv, TakenIsTrue, SlugStatus
<1> QED
  BY AlwaysFormInv, <1>1, PTL

\* The server refuses a region or size that the form let through only if its
\* environment is not the one of the options that the form had.
THEOREM OfferedIsAlwaysAccepted == FormSpec => OfferedIsAccepted
<1>1. FormInv /\ [FormNext]_formVars =>
        [post.state = "sent" /\ post'.state = "refused" => post.options # env]_formVars
  <2> SUFFICES ASSUME FormInv, [FormNext]_formVars, post.state = "sent",
                      post'.state = "refused", post.options = env
               PROVE  FALSE
    OBVIOUS
  <2>1. CreateSession
    BY DEF FormNext, Looks, Type, Debounce, CheckSlugAvailability, SlugAnswer,
           SlugCheckFails, LoadOptions, ApplyDefaults, UpdateRegion, UpdateSize, Submit,
           CreateLost, NewForm, OthersCreate, Restart, formVars, slugVars, choiceVars,
           serverVars, FormInv, FormTypeOK
  <2>2. ~ValidSelection(env, post.region, post.size)
    BY <2>1 DEF CreateSession, FormInv, FormTypeOK
  <2>3. /\ post.region \in Regions /\ post.size \in Available(env, post.region)
        /\ env \in Environments
    BY DEF FormInv, PostInv
  <2> QED
    BY <2>2, <2>3 DEF ValidSelection, Available, Availability, Environments
<1> QED
  BY AlwaysFormInv, <1>1, PTL DEF FormSpec, OfferedIsAccepted
=============================================================================
