-------------------------- MODULE DropletProvider --------------------------
(***************************************************************************)
(* The DigitalOcean provider (internal/provisioning/digitalocean.go),      *)
(* request by request.  EnsureInstance and ForceDestroySessionServer take  *)
(* the session's lock, then send the tag, droplet and list requests one    *)
(* after the other.  Reconciler uses the two calls as one step each; this  *)
(* module is about calls that wait for one another with rows read before   *)
(* the wait, requests that fail halfway, answers that are lost, requests   *)
(* that take effect after their client gave up, and people who delete or   *)
(* untag droplets.                                                         *)
(*                                                                         *)
(* A caller stands for a goroutine of one process.  It reads the row of a  *)
(* session, makes the call and stores the result as the reconciler does.   *)
(* Failures, edits and restarts draw on one budget of MaxFaults.           *)
(***************************************************************************)
EXTENDS Integers, FiniteSets

CONSTANTS
    Sessions,   \* sessions
    Droplets,   \* droplets that can ever be created
    Callers,    \* goroutines that call the provider
    None,       \* no droplet, no lock holder
    MaxFaults,  \* bound on failures, edits and restarts
    MaxOverlapFaults \* the same once calls have overlapped

ASSUME NoneAssumption == None \notin Droplets \cup Callers
ASSUME MaxFaultsAssumption == MaxFaults \in Nat /\ MaxOverlapFaults \in 0..MaxFaults

TagKinds == {"base", "session"}   \* baseTag and sessionTag

\* A teardown, and the destruction of a droplet whose assignment was rejected.
Destroying == {"destroy", "reject"}

Call == [op : {"none", "ensure"} \cup Destroying, session : Sessions,
         id : Droplets \cup {None}, have : SUBSET TagKinds, todo : SUBSET Droplets,
         result : {"none", "ok", "error"}]

Request == [op : {"create", "delete"}, droplet : Droplets \cup {None},
            session : Sessions]

VARIABLES
    state,      \* of each droplet
    owner,      \* the session each droplet was created for
    tags,       \* which of the two tags each droplet carries
    knownTags,  \* tags that exist in the account: "base", or a session's
    wanted,     \* what the reconciler wants of each session
    stored,     \* the instance id of each row
    overlapped, \* sessions that two calls have run for at once
    lock,       \* the holder of each session's mutex
    pc,         \* what each caller does next
    call,       \* its call: row, droplet in hand, its tags, droplets to delete
    late,       \* requests without an answer that may still take effect
    quiet,      \* has nobody else touched the session's droplets since the lock?
    stray,      \* droplets that were born late or untagged by hand
    faults      \* faults so far

accountVars == <<state, owner, tags, knownTags>>
rowVars == <<wanted, stored, overlapped>>
callVars == <<lock, pc, call>>
historyVars == <<quiet, stray>>
vars == <<accountVars, rowVars, callVars, late, historyVars, faults>>

Requests == {"tag_base", "tag_session", "get", "list", "repair", "create",
             "delete_id", "delete"}

TypeOK ==
    /\ state \in [Droplets -> {"unborn", "live", "gone"}]
    /\ owner \in [Droplets -> Sessions]
    /\ tags \in [Droplets -> SUBSET TagKinds]
    /\ knownTags \in SUBSET ({"base"} \cup Sessions)
    /\ wanted \in [Sessions -> {"present", "failed", "gone", "removed"}]
    /\ stored \in [Sessions -> Droplets \cup {None}]
    /\ overlapped \in SUBSET Sessions
    /\ lock \in [Sessions -> Callers \cup {None}]
    /\ pc \in [Callers -> {"idle", "wait", "done"} \cup Requests]
    /\ call \in [Callers -> Call]
    /\ late \in SUBSET Request
    /\ quiet \in [Callers -> BOOLEAN]
    /\ stray \in SUBSET Droplets
    /\ faults \in 0..MaxFaults

Live(d) == state[d] = "live"
LiveOf(s) == {d \in Droplets : Live(d) /\ owner[d] = s}
Tagged(s) == {d \in LiveOf(s) : "session" \in tags[d]}
Unborn == {d \in Droplets : state[d] = "unborn"}

Fault ==
    /\ faults < IF overlapped = {} THEN MaxFaults ELSE MaxOverlapFaults
    /\ faults' = faults + 1

NoCall(s) == [op |-> "none", session |-> s, id |-> None, have |-> {}, todo |-> {},
              result |-> "none"]

Init ==
    /\ state = [d \in Droplets |-> "unborn"]
    /\ owner \in [Droplets -> Sessions]
    /\ tags = [d \in Droplets |-> {}]
    /\ knownTags = {}
    /\ wanted = [s \in Sessions |-> "present"]
    /\ stored = [s \in Sessions |-> None]
    /\ overlapped = {}
    /\ lock = [s \in Sessions |-> None]
    /\ pc = [c \in Callers |-> "idle"]
    /\ call \in [Callers -> {NoCall(s) : s \in Sessions}]
    /\ late = {}
    /\ quiet = [c \in Callers |-> TRUE]
    /\ stray = {}
    /\ faults = 0

-----------------------------------------------------------------------------
(***************************************************************************)
(* Bookkeeping shared by the actions.                                      *)
(***************************************************************************)
Goto(c, where) == pc' = [pc EXCEPT ![c] = where]

\* The call goes on; the lock stays with it.
Continue(c, where) == Goto(c, where) /\ UNCHANGED <<lock, call>>

\* The call returns and the deferred unlock runs.
Return(c, result) ==
    /\ Goto(c, "done")
    /\ call' = [call EXCEPT ![c].result = result]
    /\ lock' = [lock EXCEPT ![call[c].session] = None]

\* The droplets of s changed through something else than the call of c.
Disturb(s, c) ==
    quiet' = [b \in Callers |-> quiet[b] /\ (b = c \/ call[b].session # s)]

-----------------------------------------------------------------------------
(***************************************************************************)
(* A call: the row was read, then the session's lock is waited for.        *)
(***************************************************************************)
Begin(c, s, op) ==
    /\ pc[c] = "idle"
    /\ call' = [call EXCEPT ![c] = [NoCall(s) EXCEPT !.op = op, !.id = stored[s]]]
    /\ Goto(c, "wait")
    /\ overlapped' = overlapped \cup
            {t \in {s} : \E b \in Callers : pc[b] # "idle" /\ call[b].session = s}
    /\ UNCHANGED <<accountVars, wanted, stored, lock, late, historyVars, faults>>

EnsureInstance(c, s) ==
    wanted[s] = "present" /\ Begin(c, s, "ensure")

ForceDestroySessionServer(c, s) ==
    wanted[s] = "gone" /\ Begin(c, s, "destroy")

\* Where a call starts once it holds the lock.
FirstRequest(c) ==
    IF call[c].op = "ensure" THEN "tag_base"
    ELSE IF call[c].id # None THEN "delete_id" ELSE "list"

\* Mutant: nothing is locked.
LockNothing(c) ==
    /\ pc[c] = "wait"
    /\ lock' = [lock EXCEPT ![call[c].session] = c]
    /\ Goto(c, FirstRequest(c))
    /\ quiet' = [quiet EXCEPT ![c] = TRUE]
    /\ UNCHANGED <<accountVars, rowVars, call, late, stray, faults>>

LockSession(c) ==
    /\ pc[c] = "wait"
    /\ lock[call[c].session] = None
    /\ lock' = [lock EXCEPT ![call[c].session] = c]
    /\ Goto(c, FirstRequest(c))
    /\ quiet' = [quiet EXCEPT ![c] = TRUE]
    /\ UNCHANGED <<accountVars, rowVars, call, late, stray, faults>>

\* ensureTag: "already exists" is as good as created.
EnsureTag(c) ==
    /\ \/ /\ pc[c] = "tag_base"
          /\ knownTags' = knownTags \cup {"base"}
          /\ Continue(c, "tag_session")
       \/ /\ pc[c] = "tag_session"
          /\ knownTags' = knownTags \cup {call[c].session}
          /\ Continue(c, IF call[c].id # None THEN "get" ELSE "list")
    /\ UNCHANGED <<state, owner, tags, rowVars, late, historyVars, faults>>

\* The droplet in hand, with the tags it was read with, is repaired if a tag
\* is missing and returned otherwise.
Take(c, d) ==
    \/ /\ tags[d] = TagKinds
       /\ Goto(c, "done")
       /\ call' = [call EXCEPT ![c].id = d, ![c].have = tags[d], ![c].result = "ok"]
       /\ lock' = [lock EXCEPT ![call[c].session] = None]
    \/ /\ tags[d] # TagKinds
       /\ Goto(c, "repair")
       /\ call' = [call EXCEPT ![c].id = d, ![c].have = tags[d]]
       /\ UNCHANGED lock

GetDroplet(c) ==
    /\ pc[c] = "get"
    /\ \/ Live(call[c].id) /\ Take(c, call[c].id)
       \/ ~Live(call[c].id) /\ Continue(c, "list")
    /\ UNCHANGED <<accountVars, rowVars, late, historyVars, faults>>

\* What the list of the droplets with the session's tag leads to.
EnsureFromList(c) ==
    \/ Tagged(call[c].session) = {} /\ Continue(c, "create")
    \/ \E d \in Tagged(call[c].session) : Take(c, d)

DestroyFromList(c) ==
    \/ Tagged(call[c].session) = {} /\ Return(c, "ok")
    \/ /\ Tagged(call[c].session) # {}
       /\ Goto(c, "delete")
       /\ call' = [call EXCEPT ![c].todo = Tagged(call[c].session)]
       /\ UNCHANGED lock

ListDropletsByTag(c) ==
    /\ pc[c] = "list"
    /\ \/ call[c].op = "ensure" /\ EnsureFromList(c)
       \/ call[c].op \in Destroying /\ DestroyFromList(c)
    /\ UNCHANGED <<accountVars, rowVars, late, historyVars, faults>>

\* Mutant: only the first missing tag is added.
RepairOneTag(c) ==
    /\ pc[c] = "repair"
    /\ \E k \in TagKinds \ call[c].have :
        /\ tags' = [tags EXCEPT ![call[c].id] = @ \cup {k}]
        /\ Return(c, "ok")
    /\ UNCHANGED <<state, owner, knownTags, rowVars, late, historyVars, faults>>

\* repairTags, one TagResources request for each tag that was missing when the
\* droplet was read, the base tag first.
RepairTags(c) ==
    LET d == call[c].id
        k == IF "base" \notin call[c].have THEN "base" ELSE "session"
        tag == IF k = "base" THEN "base" ELSE call[c].session
    IN
    /\ pc[c] = "repair"
    /\ \/ /\ tag \notin knownTags \/ ~Live(d)
          /\ Return(c, "error")
          /\ UNCHANGED <<tags, quiet>>
       \/ /\ tag \in knownTags /\ Live(d)
          /\ tags' = [tags EXCEPT ![d] = @ \cup {k}]
          /\ Disturb(call[c].session, c)
          /\ IF call[c].have \cup {k} = TagKinds THEN Return(c, "ok")
             ELSE /\ call' = [call EXCEPT ![c].have = @ \cup {k}]
                  /\ UNCHANGED <<lock, pc>>
    /\ UNCHANGED <<state, owner, knownTags, rowVars, late, stray, faults>>

\* Mutant: the create request names the base tag only.
BornUntagged(d, s) ==
    /\ state' = [state EXCEPT ![d] = "live"]
    /\ owner' = [owner EXCEPT ![d] = s]
    /\ tags' = [tags EXCEPT ![d] = {"base"}]
    /\ knownTags' = knownTags \cup {"base", s}

\* A new droplet of session s, with both tags, which come to exist with it.
Born(d, s) ==
    /\ state' = [state EXCEPT ![d] = "live"]
    /\ owner' = [owner EXCEPT ![d] = s]
    /\ tags' = [tags EXCEPT ![d] = TagKinds]
    /\ knownTags' = knownTags \cup {"base", s}

Dies(d) ==
    /\ state' = [state EXCEPT ![d] = IF @ = "live" THEN "gone" ELSE @]
    /\ UNCHANGED <<owner, tags, knownTags>>

CreateDroplet(c) ==
    /\ pc[c] = "create"
    /\ \E d \in Unborn :
        /\ Born(d, call[c].session)
        /\ Goto(c, "done")
        /\ call' = [call EXCEPT ![c].id = d, ![c].result = "ok"]
        /\ lock' = [lock EXCEPT ![call[c].session] = None]
    /\ Disturb(call[c].session, c)
    /\ UNCHANGED <<rowVars, late, stray, faults>>

\* The account has reached its limit of droplets.
CreateRefused(c) ==
    /\ pc[c] = "create" /\ Unborn = {}
    /\ Return(c, "error")
    /\ UNCHANGED <<accountVars, rowVars, late, historyVars, faults>>

\* Mutant: a droplet that is gone already cannot be deleted.
DeleteStoredInsists(c) ==
    /\ pc[c] = "delete_id"
    /\ IF Live(call[c].id) THEN Dies(call[c].id) /\ Continue(c, "list")
       ELSE Return(c, "error") /\ UNCHANGED accountVars
    /\ Disturb(call[c].session, c)
    /\ UNCHANGED <<rowVars, late, stray, faults>>

\* deleteDroplet: "not found" is as good as deleted.
DeleteStored(c) ==
    /\ pc[c] = "delete_id"
    /\ Dies(call[c].id)
    /\ Continue(c, "list")
    /\ Disturb(call[c].session, c)
    /\ UNCHANGED <<rowVars, late, stray, faults>>

DeleteListed(c) ==
    /\ pc[c] = "delete"
    /\ \E d \in call[c].todo :
        /\ Dies(d)
        /\ IF call[c].todo = {d} THEN Return(c, "ok")
           ELSE /\ call' = [call EXCEPT ![c].todo = @ \ {d}]
                /\ UNCHANGED <<lock, pc>>
    /\ Disturb(call[c].session, c)
    /\ UNCHANGED <<rowVars, late, stray, faults>>

-----------------------------------------------------------------------------
(***************************************************************************)
(* Faults: a request fails before, after or long before its effect.        *)
(***************************************************************************)
RequestFails(c) ==
    /\ pc[c] \in Requests
    /\ Return(c, "error")
    /\ Fault
    /\ UNCHANGED <<accountVars, rowVars, late, historyVars>>

CreateLost(c) ==
    LET s == call[c].session IN
    /\ pc[c] = "create"
    /\ \/ \E d \in Unborn : Born(d, s) /\ UNCHANGED <<late, stray>>
       \/ /\ late' = late \cup {[op |-> "create", droplet |-> None, session |-> s]}
          /\ UNCHANGED <<accountVars, stray>>
    /\ Return(c, "error")
    /\ Disturb(s, c)
    /\ Fault
    /\ UNCHANGED rowVars

DeleteLost(c) ==
    LET D == IF pc[c] = "delete" THEN call[c].todo ELSE {call[c].id} IN
    /\ pc[c] \in {"delete_id", "delete"}
    /\ \E d \in D :
        \/ Dies(d) /\ UNCHANGED late
        \/ /\ late' = late \cup {[op |-> "delete", droplet |-> d,
                                 session |-> call[c].session]}
           /\ UNCHANGED accountVars
    /\ Return(c, "error")
    /\ Disturb(call[c].session, c)
    /\ Fault
    /\ UNCHANGED <<rowVars, stray>>

LateEffect(q) ==
    /\ late' = late \ {q}
    /\ \/ /\ q.op = "create"
          /\ \E d \in Unborn : Born(d, q.session) /\ stray' = stray \cup {d}
       \/ q.op = "delete" /\ Dies(q.droplet) /\ UNCHANGED stray
    /\ Disturb(q.session, None)
    /\ UNCHANGED <<rowVars, callVars, faults>>

DropletDeletedByHand(d) ==
    /\ Live(d)
    /\ Dies(d)
    /\ Disturb(owner[d], None)
    /\ Fault
    /\ UNCHANGED <<rowVars, callVars, late, stray>>

UntaggedByHand(d, k) ==
    /\ Live(d) /\ k \in tags[d]
    /\ tags' = [tags EXCEPT ![d] = @ \ {k}]
    /\ stray' = stray \cup {d}
    /\ Disturb(owner[d], None)
    /\ Fault
    /\ UNCHANGED <<state, owner, knownTags, rowVars, callVars, late>>

\* Deleting a tag takes it from all its droplets.
TagDeletedByHand(s) ==
    /\ s \in knownTags
    /\ knownTags' = knownTags \ {s}
    /\ tags' = [d \in Droplets |-> IF owner[d] = s THEN tags[d] \ {"session"} ELSE tags[d]]
    /\ stray' = stray \cup LiveOf(s)
    /\ Disturb(s, None)
    /\ Fault
    /\ UNCHANGED <<state, owner, rowVars, callVars, late>>

\* The process starts again, without calls and locks.
Restart ==
    /\ \E c \in Callers : pc[c] # "idle"
    /\ pc' = [c \in Callers |-> "idle"]
    /\ call' = [c \in Callers |-> NoCall(call[c].session)]
    /\ lock' = [s \in Sessions |-> None]
    /\ quiet' = [c \in Callers |-> TRUE]
    /\ Fault
    /\ UNCHANGED <<accountVars, rowVars, late, stray>>

-----------------------------------------------------------------------------
(***************************************************************************)
(* The reconciler and the admin.                                           *)
(***************************************************************************)
Forget(c) ==
    /\ Goto(c, "idle")
    /\ call' = [call EXCEPT ![c] = NoCall(call[c].session)]
    /\ quiet' = [quiet EXCEPT ![c] = TRUE]

\* AssignInstance takes the droplet unless the session has failed or ended;
\* the reconciler destroys a rejected one at once.
StoreInstance(c) ==
    LET s == call[c].session IN
    /\ pc[c] = "done" /\ call[c].op = "ensure" /\ call[c].result = "ok"
    /\ \/ /\ wanted[s] \in {"present", "gone"}
          /\ stored' = [stored EXCEPT ![s] = call[c].id]
          /\ Forget(c)
       \/ /\ wanted[s] \in {"failed", "removed"}
          /\ Goto(c, "wait")
          /\ call' = [call EXCEPT ![c] = [NoCall(s) EXCEPT !.op = "reject",
                                                          !.id = call[c].id]]
          /\ UNCHANGED <<stored, quiet>>
    /\ UNCHANGED <<accountVars, wanted, overlapped, lock, late, stray, faults>>

\* MarkProvisioningFailed, for a session still in provisioning.
StoreFailure(c) ==
    LET s == call[c].session IN
    /\ pc[c] = "done" /\ call[c].op = "ensure" /\ call[c].result = "error"
    /\ wanted' = [wanted EXCEPT ![s] = IF @ = "present" THEN "failed" ELSE @]
    /\ Forget(c)
    /\ UNCHANGED <<accountVars, stored, overlapped, lock, late, stray, faults>>

\* MarkForceDestroyed or MarkForceDestroyFailed, for a session still in
\* teardown; one that failed is not called again until the admin asks.
StoreDestroyed(c) ==
    LET s == call[c].session IN
    /\ pc[c] = "done" /\ call[c].op = "destroy"
    /\ wanted' = [wanted EXCEPT ![s] = IF @ # "gone" THEN @
                       ELSE IF call[c].result = "ok" THEN "removed" ELSE "failed"]
    /\ Forget(c)
    /\ UNCHANGED <<accountVars, stored, overlapped, lock, late, stray, faults>>

\* The outcome for a rejected droplet is only logged.
RejectionEnds(c) ==
    /\ pc[c] = "done" /\ call[c].op = "reject"
    /\ Forget(c)
    /\ UNCHANGED <<accountVars, rowVars, lock, late, stray, faults>>

\* The write fails and the row stays as it was.
StoreFails(c) ==
    /\ pc[c] = "done" /\ call[c].op # "reject"
    /\ Forget(c)
    /\ Fault
    /\ UNCHANGED <<accountVars, rowVars, lock, late, stray>>

Condemn(s) ==
    /\ wanted[s] \in {"present", "failed"}
    /\ wanted' = [wanted EXCEPT ![s] = "gone"]
    /\ UNCHANGED <<accountVars, stored, overlapped, callVars, late, historyVars, faults>>

Calls(c, s) == EnsureInstance(c, s) \/ ForceDestroySessionServer(c, s)

Answers(c) ==
    \/ EnsureTag(c) \/ GetDroplet(c) \/ ListDropletsByTag(c) \/ RepairTags(c)
    \/ CreateDroplet(c) \/ CreateRefused(c) \/ DeleteStored(c) \/ DeleteListed(c)
    \/ StoreInstance(c) \/ StoreFailure(c) \/ StoreDestroyed(c) \/ RejectionEnds(c)

Fails(c) == RequestFails(c) \/ CreateLost(c) \/ DeleteLost(c) \/ StoreFails(c)

Account ==
    \/ \E q \in late : LateEffect(q)
    \/ \E d \in Droplets : DropletDeletedByHand(d)
    \/ \E d \in Droplets, k \in TagKinds : UntaggedByHand(d, k)
    \/ \E s \in Sessions : TagDeletedByHand(s)

Next ==
    \/ \E c \in Callers : \/ \E s \in Sessions : Calls(c, s)
                          \/ LockSession(c) \/ Answers(c) \/ Fails(c)
    \/ \E s \in Sessions : Condemn(s)
    \/ Restart
    \/ Account

\* Every request ends, with an answer or an error of its connection (the client
\* of DigitalOcean has no timeout of its own), a mutex is passed on, and the
\* reconciler comes round to every session.  Nothing has to fail, and the admin
\* need not ask.
Fairness ==
    \A c \in Callers :
        /\ WF_vars(Answers(c))
        /\ SF_vars(LockSession(c))
        /\ \A s \in Sessions : SF_vars(Calls(c, s))

Spec == Init /\ [][Next]_vars

FairSpec == Spec /\ Fairness

-----------------------------------------------------------------------------

Succeeded(c, op) == pc[c] = "done" /\ call[c].op = op /\ call[c].result = "ok"

\* EnsureInstance returns a live droplet of the session that carries both tags,
\* so that a later destruction finds it also when the row was never written,
\* unless somebody else touched the session's droplets during the call.
EnsureTruth ==
    \A c \in Callers : Succeeded(c, "ensure") /\ quiet[c] =>
        LET d == call[c].id IN
        /\ d \in LiveOf(call[c].session)
        /\ tags[d] = TagKinds

\* Callers that wait for the same session with a row read before the wait do
\* not create a second droplet.  The lock promises it to any callers; today one
\* loop per process calls the provider, and nobody ever waits.
OneDropletPerSession ==
    faults = 0 => \A s \in Sessions : Cardinality(LiveOf(s)) <= 1

\* A session that is torn down leaves no droplet behind, whatever requests
\* failed or were lost and however often the process was restarted, except
\* what was born after its client gave up or was untagged by hand.  Calls of
\* two goroutines for one session may leave more: Reconciler has that case.
RemovedIsClean ==
    \A s \in Sessions : wanted[s] = "removed" /\ s \notin overlapped
                         => LiveOf(s) \subseteq stray

\* A teardown ends, or fails and waits for the admin; it cannot fail for ever
\* however often the admin asks again.
DestroyEnds ==
    \A s \in Sessions : []<>(wanted[s] # "failed")
                         => (wanted[s] = "gone" ~> wanted[s] = "removed")
=============================================================================
