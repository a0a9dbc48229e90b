------------------------ MODULE DropletProviderProofs ------------------------
(***************************************************************************)
(* Proofs about DropletProvider, for any number of sessions, droplets,     *)
(* callers and faults.  The invariant says of every droplet that a row, a  *)
(* call or a late request names that it is the session's own, and of the   *)
(* holder of a session's lock what it has seen and still can rely on.      *)
(***************************************************************************)
EXTENDS DropletProvider, FiniteSetTheorems, TLAPS

USE DEF Destroying

\* Droplet d was created for session s.
Own(d, s) == d \in Droplets /\ owner[d] = s /\ state[d] # "unborn"

RowInv == \A s \in Sessions : stored[s] # None => Own(stored[s], s)

LateInv == \A q \in late : q.op = "delete" => Own(q.droplet, q.session)

\* What a caller has in hand, and what of it is true when nobody interfered.
HandInv(c) ==
    /\ call[c].id # None => Own(call[c].id, call[c].session)
    /\ \A d \in call[c].todo : Own(d, call[c].session)
    /\ pc[c] \in {"get", "repair", "delete_id"} => call[c].id # None
    /\ pc[c] = "delete" => call[c].op \in Destroying
    /\ pc[c] = "repair" /\ quiet[c] =>
          Live(call[c].id) /\ call[c].have \subseteq tags[call[c].id]
    /\ Succeeded(c, "ensure") /\ quiet[c] =>
          call[c].id # None /\ Live(call[c].id) /\ tags[call[c].id] = TagKinds

\* Who sends requests holds the lock of its session.
LockInv == \A c \in Callers : pc[c] \in Requests => lock[call[c].session] = c

\* Before the first fault all droplets are found by their tags, and a caller
\* that has found none stays right until it has created one.
FaultlessInv ==
    faults = 0 =>
        /\ late = {}
        /\ \A d \in Droplets : Live(d) => tags[d] = TagKinds
        /\ \A d, e \in Droplets : Live(d) /\ Live(e) /\ owner[d] = owner[e] => d = e
        /\ \A c \in Callers : pc[c] = "create" => LiveOf(call[c].session) = {}

IInv ==
    /\ TypeOK /\ RowInv /\ LateInv /\ LockInv /\ FaultlessInv
    /\ \A c \in Callers : HandInv(c)

\* A caller that sends one of these requests ensures an instance.
EnsureRequests == {"tag_base", "tag_session", "get", "repair", "create"}

OpInv == \A c \in Callers : pc[c] \in EnsureRequests => call[c].op = "ensure"

\* Droplets can be found by their session, unless they are strays.
TagInv == \A d \in Droplets : Live(d) /\ d \notin stray => "session" \in tags[d]

\* No two calls run for a session that is not overlapped.
SoleInv ==
    \A b, c \in Callers :
        /\ pc[b] # "idle" /\ pc[c] # "idle" /\ call[b].session = call[c].session
        /\ call[b].session \notin overlapped
        => b = c

\* How far a destruction of s is, and how far one is that has s to itself.
Cleared(c, s) ==
    /\ pc[c] = "delete" => LiveOf(s) \subseteq stray \cup call[c].todo
    /\ pc[c] = "done" /\ call[c].result = "ok" => LiveOf(s) \subseteq stray

DestroyInv(c) ==
    \A s \in Sessions : call[c].op \in Destroying /\ call[c].session = s /\ s \notin overlapped
                        => Cleared(c, s)

RemovedInv(s) ==
    wanted[s] = "removed" /\ s \notin overlapped =>
        /\ LiveOf(s) \subseteq stray
        /\ \A c \in Callers : pc[c] # "idle" /\ call[c].session = s => call[c].op \in Destroying

TeardownInv ==
    /\ OpInv /\ TagInv /\ SoleInv
    /\ \A c \in Callers : DestroyInv(c)
    /\ \A s \in Sessions : RemovedInv(s)

\* A request about a single droplet has one in hand.
Named == \A c \in Callers : pc[c] \in {"get", "repair", "delete_id"} => call[c].id # None

LateNamed == \A q \in late : q.op = "delete" => q.droplet \in Droplets

-----------------------------------------------------------------------------
(***************************************************************************)
(* Types.                                                                  *)
(***************************************************************************)
LEMMA InitTypes == Init => TypeOK
  BY MaxFaultsAssumption DEF Init, TypeOK, Call, NoCall

LEMMA FaultTypes == TypeOK /\ Fault => faults' \in 0..MaxFaults
  BY MaxFaultsAssumption DEF TypeOK, Fault

\* The parts of TypeOK that belong together in the actions.
AccountOK ==
    /\ state \in [Droplets -> {"unborn", "live", "gone"}]
    /\ owner \in [Droplets -> Sessions]
    /\ tags \in [Droplets -> SUBSET TagKinds]
    /\ knownTags \in SUBSET ({"base"} \cup Sessions)

RowsOK ==
    /\ wanted \in [Sessions -> {"present", "failed", "gone", "removed"}]
    /\ stored \in [Sessions -> Droplets \cup {None}]
    /\ overlapped \in SUBSET Sessions

CallsOK ==
    /\ lock \in [Sessions -> Callers \cup {None}]
    /\ pc \in [Callers -> {"idle", "wait", "done"} \cup Requests]
    /\ call \in [Callers -> Call]

HistoryOK ==
    /\ late \in SUBSET Request
    /\ quiet \in [Callers -> BOOLEAN]
    /\ stray \in SUBSET Droplets
    /\ faults \in 0..MaxFaults

LEMMA Parts == TypeOK <=> AccountOK /\ RowsOK /\ CallsOK /\ HistoryOK
  BY DEF TypeOK, AccountOK, RowsOK, CallsOK, HistoryOK

LEMMA PartsNext == TypeOK' <=> AccountOK' /\ RowsOK' /\ CallsOK' /\ HistoryOK'
  BY DEF TypeOK, AccountOK, RowsOK, CallsOK, HistoryOK

LEMMA AccountTypes ==
    ASSUME AccountOK, NEW d \in Droplets, NEW s \in Sessions,
           Born(d, s) \/ Dies(d) \/ UNCHANGED accountVars
    PROVE  AccountOK'
<1>1. CASE Born(d, s)
  <2>1. TagKinds \in SUBSET TagKinds
    OBVIOUS
  <2> QED
    BY <1>1, <2>1 DEF AccountOK, Born
<1>2. CASE Dies(d)
  BY <1>2 DEF AccountOK, Dies
<1>3. CASE UNCHANGED accountVars
  BY <1>3 DEF AccountOK, accountVars
<1> QED
  BY <1>1, <1>2, <1>3

LEMMA CallFields ==
    ASSUME CallsOK, NEW c \in Callers
    PROVE  /\ pc[c] \in {"idle", "wait", "done"} \cup Requests
           /\ call[c] \in Call
           /\ call[c].op \in {"none", "ensure"} \cup Destroying
           /\ call[c].session \in Sessions
           /\ call[c].id \in Droplets \cup {None}
           /\ call[c].have \in SUBSET TagKinds
           /\ call[c].todo \in SUBSET Droplets
           /\ call[c].result \in {"none", "ok", "error"}
  BY DEF CallsOK, Call

LEMMA ReturnTypes ==
    ASSUME CallsOK, NEW c \in Callers, NEW r \in {"ok", "error"}, Return(c, r)
    PROVE  CallsOK'
<1> DEFINE new == [call[c] EXCEPT !.result = r]
<1>1. /\ call' = [call EXCEPT ![c] = new] /\ pc' = [pc EXCEPT ![c] = "done"]
      /\ lock' = [lock EXCEPT ![call[c].session] = None]
  BY DEF CallsOK, Return, Goto
<1>2. new \in Call
  BY DEF CallsOK, Call
<1> HIDE DEF new
<1> QED
  BY <1>1, <1>2, CallFields DEF CallsOK

LEMMA ContinueTypes ==
    ASSUME CallsOK, NEW c \in Callers, NEW w \in Requests, Continue(c, w)
    PROVE  CallsOK'
  BY DEF CallsOK, Continue, Goto

LEMMA TakeTypes ==
    ASSUME AccountOK, CallsOK, NEW c \in Callers, NEW d \in Droplets, Take(c, d)
    PROVE  CallsOK'
<1>1. tags[d] \in SUBSET TagKinds
  BY DEF AccountOK
<1>2. CASE tags[d] = TagKinds
  <2> DEFINE new == [call[c] EXCEPT !.id = d, !.have = tags[d], !.result = "ok"]
  <2>1. /\ call' = [call EXCEPT ![c] = new] /\ pc' = [pc EXCEPT ![c] = "done"]
        /\ lock' = [lock EXCEPT ![call[c].session] = None]
    BY <1>2 DEF CallsOK, Take, Goto
  <2>2. new \in Call
    BY <1>1, CallFields DEF Call
  <2> HIDE DEF new
  <2> QED
    BY <2>1, <2>2, CallFields DEF CallsOK
<1>3. CASE tags[d] # TagKinds
  <2>1. /\ call' = [call EXCEPT ![c].id = d, ![c].have = tags[d]]
        /\ pc' = [pc EXCEPT ![c] = "repair"] /\ lock' = lock
    BY <1>3 DEF Take, Goto
  <2>2. pc' \in [Callers -> {"idle", "wait", "done"} \cup Requests]
    BY <2>1 DEF CallsOK, Requests
  <2>3. call' \in [Callers -> Call]
    <3>1. [call[c] EXCEPT !.id = d, !.have = tags[d]] \in Call
      BY <1>1, CallFields DEF Call
    <3>2. call' = [call EXCEPT ![c] = [call[c] EXCEPT !.id = d, !.have = tags[d]]]
      BY <2>1 DEF CallsOK
    <3> QED
      BY <3>1, <3>2 DEF CallsOK
  <2> QED
    BY <2>1, <2>2, <2>3 DEF CallsOK
<1> QED
  BY <1>2, <1>3

LEMMA ForgetTypes ==
    ASSUME CallsOK, HistoryOK, NEW c \in Callers, Forget(c), UNCHANGED <<lock, late, stray>>,
           faults' \in 0..MaxFaults
    PROVE  CallsOK' /\ HistoryOK'
  BY CallFields DEF CallsOK, HistoryOK, Call, NoCall, Forget, Goto

LEMMA DisturbTypes ==
    ASSUME NEW s, NEW c, Disturb(s, c), quiet \in [Callers -> BOOLEAN]
    PROVE  quiet' \in [Callers -> BOOLEAN]
  BY DEF Disturb

LEMMA BeginTypes ==
    ASSUME TypeOK, NEW c \in Callers, NEW s \in Sessions, Calls(c, s)
    PROVE  TypeOK'
<1>1. PICK op \in {"ensure", "destroy"} : Begin(c, s, op)
  BY DEF Calls, EnsureInstance, ForceDestroySessionServer
<1>2. AccountOK /\ RowsOK /\ CallsOK /\ HistoryOK
  BY Parts
<1>3. [NoCall(s) EXCEPT !.op = op, !.id = stored[s]] \in Call
  BY <1>2 DEF RowsOK, NoCall, Call
<1>4. CallsOK'
  BY <1>1, <1>2, <1>3 DEF CallsOK, Begin, Goto
<1>5. RowsOK'
  <2>1. \A b \in Callers : call[b].session \in Sessions
    BY <1>2, CallFields
  <2> QED
    BY <1>1, <1>2, <2>1 DEF RowsOK, Begin
<1> QED
  BY <1>1, <1>2, <1>4, <1>5, PartsNext DEF AccountOK, HistoryOK, Begin, accountVars, historyVars

LEMMA LockTypes ==
    ASSUME TypeOK, NEW c \in Callers, LockSession(c)
    PROVE  TypeOK'
<1>1. FirstRequest(c) \in Requests
  BY DEF FirstRequest, Requests
<1> QED
  BY <1>1 DEF TypeOK, LockSession, Goto, accountVars, rowVars

LEMMA AnswerTypes ==
    ASSUME TypeOK, Named, NEW c \in Callers,
           \/ EnsureTag(c) \/ GetDroplet(c) \/ ListDropletsByTag(c) \/ RepairTags(c)
           \/ CreateDroplet(c) \/ CreateRefused(c) \/ DeleteStored(c) \/ DeleteListed(c)
    PROVE  TypeOK'
<1>0. AccountOK /\ RowsOK /\ CallsOK /\ HistoryOK
  BY Parts
<1>a. RowsOK'
  BY <1>0 DEF EnsureTag, GetDroplet, ListDropletsByTag, RepairTags, CreateDroplet,
              CreateRefused, DeleteStored, DeleteListed, RowsOK, rowVars
<1>b. HistoryOK'
  BY <1>0, DisturbTypes DEF EnsureTag, GetDroplet, ListDropletsByTag, RepairTags,
              CreateDroplet, CreateRefused, DeleteStored, DeleteListed, HistoryOK, historyVars
<1>1. CASE EnsureTag(c)
  <2>1. CallsOK'
    BY <1>0, <1>1, ContinueTypes DEF EnsureTag, Requests
  <2>2. AccountOK'
    BY <1>0, <1>1, CallFields DEF EnsureTag, AccountOK
  <2> QED
    BY <1>a, <1>b, <2>1, <2>2, PartsNext
<1>2. CASE GetDroplet(c)
  <2>1. CASE Live(call[c].id) /\ Take(c, call[c].id)
    <3>1. call[c].id \in Droplets
      BY <1>0, <1>2, CallFields DEF GetDroplet, Named
    <3> QED
      BY <1>0, <1>2, <1>a, <1>b, <2>1, <3>1, TakeTypes, PartsNext DEF GetDroplet, AccountOK,
         accountVars
  <2>2. CASE Continue(c, "list")
    BY <1>0, <1>2, <1>a, <1>b, <2>2, ContinueTypes, PartsNext
       DEF GetDroplet, AccountOK, accountVars, Requests
  <2> QED
    BY <1>2, <2>1, <2>2 DEF GetDroplet
<1>3. CASE ListDropletsByTag(c)
  <2>1. CallsOK'
    <3>1. CASE \E d \in Tagged(call[c].session) : Take(c, d)
      BY <1>0, <3>1, TakeTypes DEF Tagged, LiveOf
    <3>2. CASE Continue(c, "create")
      BY <1>0, <3>2, ContinueTypes DEF Requests
    <3>3. CASE Return(c, "ok")
      BY <1>0, <3>3, ReturnTypes
    <3>4. CASE /\ Goto(c, "delete")
               /\ call' = [call EXCEPT ![c].todo = Tagged(call[c].session)]
               /\ UNCHANGED lock
      <4> DEFINE new == [call[c] EXCEPT !.todo = Tagged(call[c].session)]
      <4>1. Tagged(call[c].session) \in SUBSET Droplets
        BY DEF Tagged, LiveOf
      <4>2. new \in Call
        BY <1>0, <4>1, CallFields DEF Call
      <4>3. call' = [call EXCEPT ![c] = new]
        BY <3>4
      <4>4. pc' \in [Callers -> {"idle", "wait", "done"} \cup Requests]
        BY <1>0, <3>4 DEF CallsOK, Goto, Requests
      <4> HIDE DEF new
      <4> QED
        BY <1>0, <3>4, <4>2, <4>3, <4>4 DEF CallsOK
    <3> QED
      BY <1>3, <3>1, <3>2, <3>3, <3>4
         DEF ListDropletsByTag, EnsureFromList, DestroyFromList
  <2> QED
    BY <1>0, <1>3, <1>a, <1>b, <2>1, PartsNext DEF ListDropletsByTag, AccountOK, accountVars
<1>4. CASE RepairTags(c)
  <2> DEFINE k == IF "base" \notin call[c].have THEN "base" ELSE "session"
  <2>1. k \in TagKinds
    BY DEF TagKinds
  <2>2. AccountOK'
    BY <1>0, <1>4, <2>1 DEF RepairTags, AccountOK
  <2>3. CASE Return(c, "error") \/ Return(c, "ok")
    BY <1>0, <1>a, <1>b, <2>2, <2>3, ReturnTypes, PartsNext
  <2>4. CASE call' = [call EXCEPT ![c].have = @ \cup {k}] /\ UNCHANGED <<lock, pc>>
    <3>1. [call[c] EXCEPT !.have = call[c].have \cup {k}] \in Call
      BY <1>0, <2>1, CallFields DEF Call
    <3>2. call' = [call EXCEPT ![c] = [call[c] EXCEPT !.have = call[c].have \cup {k}]]
      BY <2>4
    <3> QED
      BY <1>0, <1>a, <1>b, <2>2, <2>4, <3>1, <3>2, PartsNext DEF CallsOK
  <2> QED
    BY <1>4, <2>3, <2>4 DEF RepairTags
<1>5. CASE CreateDroplet(c)
  <2>1. PICK d \in Unborn :
            /\ Born(d, call[c].session) /\ Goto(c, "done")
            /\ call' = [call EXCEPT ![c].id = d, ![c].result = "ok"]
            /\ lock' = [lock EXCEPT ![call[c].session] = None]
    BY <1>5 DEF CreateDroplet
  <2>2. d \in Droplets
    BY DEF Unborn
  <2>3. [call[c] EXCEPT !.id = d, !.result = "ok"] \in Call
    BY <1>0, <2>2, CallFields DEF Call
  <2>4. call' = [call EXCEPT ![c] = [call[c] EXCEPT !.id = d, !.result = "ok"]]
    BY <1>0, <2>1 DEF CallsOK
  <2>5. CallsOK'
    BY <1>0, <2>1, <2>3, <2>4, CallFields DEF CallsOK, Goto
  <2>6. AccountOK'
    BY <1>0, <2>1, <2>2, AccountTypes, CallFields
  <2> QED
    BY <1>a, <1>b, <2>5, <2>6, PartsNext
<1>6. CASE CreateRefused(c)
  BY <1>0, <1>6, <1>a, <1>b, ReturnTypes, PartsNext DEF CreateRefused, AccountOK, accountVars
<1>7. CASE DeleteStored(c)
  <2>1. call[c].id \in Droplets
    BY <1>0, <1>7, CallFields DEF DeleteStored, Named
  <2>2. call[c].session \in Sessions
    BY <1>0, CallFields
  <2> QED
    BY <1>0, <1>7, <1>a, <1>b, <2>1, <2>2, ContinueTypes, AccountTypes, PartsNext
       DEF DeleteStored, Requests
<1>8. CASE DeleteListed(c)
  <2>1. PICK d \in call[c].todo :
            /\ Dies(d)
            /\ \/ Return(c, "ok")
               \/ call' = [call EXCEPT ![c].todo = @ \ {d}] /\ UNCHANGED <<lock, pc>>
    BY <1>8 DEF DeleteListed
  <2>2. d \in Droplets /\ call[c].session \in Sessions
    BY <1>0, CallFields
  <2>3. CASE Return(c, "ok")
    BY <1>0, <1>a, <1>b, <2>1, <2>2, <2>3, ReturnTypes, AccountTypes, PartsNext
  <2>4. CASE call' = [call EXCEPT ![c].todo = @ \ {d}] /\ UNCHANGED <<lock, pc>>
    <3>1. [call[c] EXCEPT !.todo = call[c].todo \ {d}] \in Call
      BY <1>0, CallFields DEF Call
    <3>2. call' = [call EXCEPT ![c] = [call[c] EXCEPT !.todo = call[c].todo \ {d}]]
      BY <2>4
    <3>3. CallsOK'
      BY <1>0, <2>4, <3>1, <3>2 DEF CallsOK
    <3> QED
      BY <1>0, <1>a, <1>b, <2>1, <2>2, <3>3, AccountTypes, PartsNext
  <2> QED
    BY <2>1, <2>3, <2>4
<1> QED
  BY <1>1, <1>2, <1>3, <1>4, <1>5, <1>6, <1>7, <1>8

LEMMA StoreTypes ==
    ASSUME TypeOK, NEW c \in Callers,
           \/ StoreInstance(c) \/ StoreFailure(c) \/ StoreDestroyed(c)
           \/ RejectionEnds(c) \/ StoreFails(c)
    PROVE  TypeOK'
<1>0. AccountOK /\ RowsOK /\ CallsOK /\ HistoryOK
  BY Parts
<1>1. AccountOK'
  BY <1>0 DEF StoreInstance, StoreFailure, StoreDestroyed, RejectionEnds, StoreFails,
              AccountOK, accountVars
<1>2. faults' \in 0..MaxFaults
  BY FaultTypes DEF TypeOK, StoreInstance, StoreFailure, StoreDestroyed, RejectionEnds,
                    StoreFails
<1>3. RowsOK'
  <2>1. call[c].id \in Droplets \cup {None} /\ call[c].session \in Sessions
    BY <1>0, CallFields
  <2>2. CASE StoreInstance(c)
    BY <1>0, <2>1, <2>2 DEF StoreInstance, RowsOK
  <2>3. CASE StoreFailure(c)
    BY <1>0, <2>1, <2>3 DEF StoreFailure, RowsOK
  <2>4. CASE StoreDestroyed(c)
    BY <1>0, <2>1, <2>4 DEF StoreDestroyed, RowsOK
  <2>5. CASE RejectionEnds(c) \/ StoreFails(c)
    BY <1>0, <2>5 DEF RejectionEnds, StoreFails, RowsOK, rowVars
  <2> QED
    BY <2>2, <2>3, <2>4, <2>5
<1>4. CASE Forget(c)
  <2>1. UNCHANGED <<lock, late, stray>>
    BY DEF StoreInstance, StoreFailure, StoreDestroyed, RejectionEnds, StoreFails
  <2> QED
    BY <1>0, <1>1, <1>2, <1>3, <1>4, <2>1, ForgetTypes, PartsNext
<1>5. CASE StoreInstance(c) /\ wanted[call[c].session] \in {"failed", "removed"} /\ ~Forget(c)
  <2> DEFINE s == call[c].session
             new == [NoCall(s) EXCEPT !.op = "reject", !.id = call[c].id]
  <2>1. Goto(c, "wait") /\ call' = [call EXCEPT ![c] = new] /\ UNCHANGED <<quiet, lock>>
    BY <1>5 DEF StoreInstance
  <2>2. new \in Call
    BY <1>0, CallFields DEF Call, NoCall
  <2>3. CallsOK'
    BY <1>0, <2>1, <2>2 DEF CallsOK, Goto
  <2>4. HistoryOK'
    BY <1>0, <1>5 DEF HistoryOK, StoreInstance
  <2> QED
    BY <1>1, <1>3, <2>3, <2>4, PartsNext
<1> QED
  BY <1>4, <1>5 DEF StoreInstance, StoreFailure, StoreDestroyed, RejectionEnds, StoreFails

LEMMA FailTypes ==
    ASSUME TypeOK, Named, NEW c \in Callers, RequestFails(c) \/ CreateLost(c) \/ DeleteLost(c)
    PROVE  TypeOK'
<1>0. AccountOK /\ RowsOK /\ CallsOK /\ HistoryOK
  BY Parts
<1>1. RowsOK' /\ CallsOK'
  BY <1>0, ReturnTypes DEF RequestFails, CreateLost, DeleteLost, RowsOK, rowVars
<1>2. faults' \in 0..MaxFaults /\ quiet' \in [Callers -> BOOLEAN]
  BY FaultTypes, DisturbTypes
     DEF TypeOK, RequestFails, CreateLost, DeleteLost, historyVars
<1>3. call[c].session \in Sessions
  BY <1>0, CallFields
<1>4. CASE RequestFails(c)
  BY <1>0, <1>1, <1>2, <1>4, PartsNext DEF RequestFails, AccountOK, HistoryOK, accountVars,
     historyVars
<1>5. CASE CreateLost(c)
  <2>1. AccountOK'
    <3>1. \/ \E d \in Unborn : Born(d, call[c].session)
          \/ UNCHANGED accountVars
      BY <1>5 DEF CreateLost
    <3>2. CASE UNCHANGED accountVars
      BY <1>0, <3>2 DEF AccountOK, accountVars
    <3>3. ASSUME NEW d \in Unborn, Born(d, call[c].session)
          PROVE  AccountOK'
      BY <1>0, <1>3, <3>3, AccountTypes DEF Unborn
    <3> QED
      BY <3>1, <3>2, <3>3
  <2>2. [op |-> "create", droplet |-> None, session |-> call[c].session] \in Request
    BY <1>3 DEF Request
  <2> QED
    BY <1>0, <1>1, <1>2, <1>5, <2>1, <2>2, PartsNext DEF CreateLost, HistoryOK
<1>6. CASE DeleteLost(c)
  <2>1. PICK d \in IF pc[c] = "delete" THEN call[c].todo ELSE {call[c].id} :
            \/ Dies(d) /\ UNCHANGED late
            \/ /\ late' = late \cup {[op |-> "delete", droplet |-> d,
                                      session |-> call[c].session]}
               /\ UNCHANGED accountVars
    BY <1>6 DEF DeleteLost
  <2>2. d \in Droplets
    BY <1>0, <1>6, CallFields DEF DeleteLost, Named
  <2>3. AccountOK'
    BY <1>0, <1>3, <2>1, <2>2, AccountTypes
  <2>4. [op |-> "delete", droplet |-> d, session |-> call[c].session] \in Request
    BY <1>3, <2>2 DEF Request
  <2> QED
    BY <1>0, <1>1, <1>2, <1>6, <2>1, <2>3, <2>4, PartsNext DEF DeleteLost, HistoryOK
<1> QED
  BY <1>4, <1>5, <1>6

LEMMA OtherTypes ==
    ASSUME TypeOK, LateNamed, Account \/ Restart \/ \E s \in Sessions : Condemn(s)
    PROVE  TypeOK'
<1>0. AccountOK /\ RowsOK /\ CallsOK /\ HistoryOK
  BY Parts
<1>1. ASSUME NEW q \in late, LateEffect(q)
      PROVE  TypeOK'
  <2>1. q \in Request /\ q.session \in Sessions
    BY <1>0 DEF HistoryOK, Request
  <2>2. AccountOK' /\ stray' \in SUBSET Droplets
    BY <1>0, <1>1, <2>1, AccountTypes DEF LateEffect, Unborn, HistoryOK, LateNamed
  <2>3. quiet' \in [Callers -> BOOLEAN]
    BY <1>0, <1>1, DisturbTypes DEF LateEffect, HistoryOK
  <2> QED
    BY <1>0, <1>1, <2>2, <2>3, PartsNext DEF LateEffect, HistoryOK, RowsOK, CallsOK, rowVars,
       callVars
<1>2. ASSUME NEW d \in Droplets, DropletDeletedByHand(d)
      PROVE  TypeOK'
  <2>1. AccountOK'
    BY <1>0, <1>2, AccountTypes DEF DropletDeletedByHand, AccountOK
  <2>2. faults' \in 0..MaxFaults /\ quiet' \in [Callers -> BOOLEAN]
    BY <1>2, FaultTypes, DisturbTypes DEF DropletDeletedByHand, TypeOK
  <2> QED
    BY <1>0, <1>2, <2>1, <2>2, PartsNext DEF DropletDeletedByHand, HistoryOK, RowsOK, CallsOK,
       rowVars, callVars
<1>3. ASSUME NEW d \in Droplets, NEW k \in TagKinds, UntaggedByHand(d, k)
      PROVE  TypeOK'
  <2>1. AccountOK'
    BY <1>0, <1>3 DEF UntaggedByHand, AccountOK
  <2>2. faults' \in 0..MaxFaults /\ quiet' \in [Callers -> BOOLEAN]
    BY <1>3, FaultTypes, DisturbTypes DEF UntaggedByHand, TypeOK
  <2> QED
    BY <1>0, <1>3, <2>1, <2>2, PartsNext DEF UntaggedByHand, HistoryOK, RowsOK, CallsOK,
       rowVars, callVars
<1>4. ASSUME NEW s \in Sessions, TagDeletedByHand(s)
      PROVE  TypeOK'
  <2>1. AccountOK' /\ stray' \in SUBSET Droplets
    BY <1>0, <1>4 DEF TagDeletedByHand, AccountOK, HistoryOK, LiveOf
  <2>2. faults' \in 0..MaxFaults /\ quiet' \in [Callers -> BOOLEAN]
    BY <1>4, FaultTypes, DisturbTypes DEF TagDeletedByHand, TypeOK
  <2> QED
    BY <1>0, <1>4, <2>1, <2>2, PartsNext DEF TagDeletedByHand, HistoryOK, RowsOK, CallsOK,
       rowVars, callVars
<1>5. CASE Restart
  <2>1. \A c \in Callers : NoCall(call[c].session) \in Call
    BY <1>0, CallFields DEF NoCall, Call
  <2> QED
    BY <1>0, <1>5, <2>1, FaultTypes, PartsNext DEF Restart, AccountOK, HistoryOK, RowsOK, CallsOK,
       rowVars, accountVars
<1>6. ASSUME NEW s \in Sessions, Condemn(s)
      PROVE  TypeOK'
  BY <1>6 DEF TypeOK, Condemn, accountVars, callVars, historyVars
<1> QED
  BY <1>1, <1>2, <1>3, <1>4, <1>5, <1>6 DEF Account

LEMMA StepTypes == TypeOK /\ Named /\ LateNamed /\ [Next]_vars => TypeOK'
<1>1. TypeOK /\ UNCHANGED vars => TypeOK'
  BY DEF TypeOK, vars, accountVars, rowVars, callVars, historyVars
<1> QED
  BY <1>1, BeginTypes, LockTypes, AnswerTypes, StoreTypes, FailTypes, OtherTypes
     DEF Next, Answers, Fails

-----------------------------------------------------------------------------
(***************************************************************************)
(* What a step does to droplets, and to the callers that do not take it.   *)
(***************************************************************************)
OwnersStay ==
    \A d \in Droplets : state[d] # "unborn" => owner'[d] = owner[d] /\ state'[d] # "unborn"

\* Caller b does nothing, and only if it is no longer quiet its droplets have
\* died or lost a tag.
Stays(b) ==
    /\ pc'[b] = pc[b] /\ call'[b] = call[b]
    /\ quiet'[b] => /\ quiet[b]
                    /\ \A d \in LiveOf(call[b].session) :
                          state'[d] = "live" /\ tags[d] \subseteq tags'[d]

LEMMA OwnStays ==
    ASSUME OwnersStay, NEW d, NEW s, Own(d, s)
    PROVE  Own(d, s)'
  BY DEF OwnersStay, Own

LEMMA BornKeeps ==
    ASSUME AccountOK, NEW d \in Unborn, NEW s \in Sessions, Born(d, s)
    PROVE  /\ OwnersStay
           /\ Own(d, s)' /\ Live(d)' /\ tags'[d] = TagKinds
           /\ \A e \in Droplets : Live(e) =>
                 e # d /\ state'[e] = "live" /\ tags'[e] = tags[e] /\ owner'[e] = owner[e]
           /\ \A e \in Droplets : Live(e)' => e = d \/ Live(e)
  BY DEF AccountOK, Unborn, Born, OwnersStay, Own, Live

LEMMA DiesKeeps ==
    ASSUME AccountOK, NEW d \in Droplets, Dies(d)
    PROVE  /\ OwnersStay
           /\ tags' = tags /\ owner' = owner
           /\ \A e \in Droplets : e # d => state'[e] = state[e]
           /\ \A e \in Droplets : Live(e)' => Live(e)
  BY DEF AccountOK, Dies, OwnersStay, Live

LEMMA StillKeeps ==
    ASSUME AccountOK, UNCHANGED <<state, owner>>
    PROVE  OwnersStay
  BY DEF OwnersStay

\* What is to be shown of a step of caller c: it does no harm to others, and
\* what it has in hand afterwards is as HandInv says.
Harmless(c) == OwnersStay /\ \A b \in Callers : b # c => Stays(b)

LEMMA AloneKeeps ==
    ASSUME TypeOK, NEW c \in Callers, UNCHANGED <<state, owner, tags>>,
           \A b \in Callers : b # c => pc'[b] = pc[b] /\ call'[b] = call[b]
                                       /\ quiet'[b] = quiet[b]
    PROVE  Harmless(c)
  BY DEF TypeOK, Harmless, OwnersStay, Stays, LiveOf, Live

LEMMA BeginHand ==
    ASSUME IInv, NEW c \in Callers, NEW s \in Sessions, Calls(c, s)
    PROVE  Harmless(c) /\ HandInv(c)'
<1>1. PICK op \in {"ensure", "destroy"} : Begin(c, s, op)
  BY DEF Calls, EnsureInstance, ForceDestroySessionServer
<1>2. Harmless(c)
  BY <1>1, AloneKeeps DEF IInv, TypeOK, Begin, Goto, accountVars, historyVars
<1>3. /\ pc'[c] = "wait" /\ call'[c].id = stored[s] /\ call'[c].todo = {}
      /\ call'[c].session = s
  BY <1>1 DEF IInv, TypeOK, Begin, Goto, NoCall
<1>4. \A d : Own(d, s) => Own(d, s)'
  BY <1>2, OwnStays DEF Harmless
<1> QED
  BY <1>2, <1>3, <1>4 DEF IInv, RowInv, HandInv, Succeeded

LEMMA LockHand ==
    ASSUME IInv, NEW c \in Callers, LockSession(c)
    PROVE  Harmless(c) /\ HandInv(c)'
<1>1. Harmless(c)
  BY AloneKeeps DEF IInv, TypeOK, LockSession, Goto, accountVars
<1>2. pc'[c] = FirstRequest(c) /\ call' = call
  BY DEF IInv, TypeOK, LockSession, Goto
<1>3. /\ pc'[c] \in {"tag_base", "delete_id", "list"}
      /\ pc'[c] = "delete_id" => call[c].id # None
  BY <1>2 DEF FirstRequest
<1> QED
  BY <1>1, <1>2, <1>3, OwnStays DEF IInv, HandInv, Succeeded, Harmless

\* Nothing is claimed of a call that has failed, or that goes on with a request
\* other than a repair.
LEMMA FailedHand ==
    ASSUME TypeOK, NEW c \in Callers, HandInv(c), OwnersStay, Return(c, "error")
    PROVE  HandInv(c)'
<1>1. /\ pc'[c] = "done" /\ call'[c].result = "error" /\ call'[c].id = call[c].id
      /\ call'[c].session = call[c].session /\ call'[c].todo = call[c].todo
  BY Parts DEF TypeOK, Return, Goto, Call
<1> QED
  BY <1>1, OwnStays DEF HandInv, Succeeded

LEMMA ContinuedHand ==
    ASSUME TypeOK, NEW c \in Callers, HandInv(c), OwnersStay,
           NEW w \in Requests \ {"repair", "delete"}, Continue(c, w),
           w \in {"get", "delete_id"} => call[c].id # None
    PROVE  HandInv(c)'
<1>1. pc'[c] = w /\ call' = call
  BY DEF TypeOK, Continue, Goto
<1> QED
  BY <1>1, OwnStays DEF HandInv, Succeeded, Requests

LEMMA OthersGo ==
    ASSUME TypeOK, NEW c \in Callers,
           \/ \E w : Continue(c, w)
           \/ \E r : Return(c, r)
           \/ \E d : Take(c, d)
    PROVE  \A b \in Callers : b # c => pc'[b] = pc[b] /\ call'[b] = call[b]
<1>1. ASSUME NEW w, Continue(c, w)
      PROVE  \A b \in Callers : b # c => pc'[b] = pc[b] /\ call'[b] = call[b]
  BY <1>1 DEF TypeOK, Continue, Goto
<1>2. ASSUME NEW r, Return(c, r)
      PROVE  \A b \in Callers : b # c => pc'[b] = pc[b] /\ call'[b] = call[b]
  BY <1>2 DEF TypeOK, Return, Goto
<1>3. ASSUME NEW d, Take(c, d)
      PROVE  \A b \in Callers : b # c => pc'[b] = pc[b] /\ call'[b] = call[b]
  <2>1. pc \in [Callers -> {"idle", "wait", "done"} \cup Requests] /\ call \in [Callers -> Call]
    BY DEF TypeOK
  <2>2. CASE tags[d] = TagKinds
    BY <1>3, <2>1, <2>2 DEF Take, Goto
  <2>3. CASE tags[d] # TagKinds
    BY <1>3, <2>1, <2>3 DEF Take, Goto
  <2> QED
    BY <2>2, <2>3
<1> QED
  BY <1>1, <1>2, <1>3

LEMMA TakeHand ==
    ASSUME TypeOK, NEW c \in Callers, HandInv(c), NEW d \in Droplets,
           Own(d, call[c].session), Live(d), Take(c, d), UNCHANGED accountVars
    PROVE  HandInv(c)'
<1>1. /\ call'[c].id = d /\ call'[c].session = call[c].session
      /\ call'[c].todo = call[c].todo /\ call'[c].have = tags[d]
      /\ pc'[c] = IF tags[d] = TagKinds THEN "done" ELSE "repair"
  BY DEF TypeOK, Call, Take, Goto
<1>2. OwnersStay
  BY StillKeeps, Parts DEF accountVars
<1> QED
  BY <1>1, <1>2, OwnStays, NoneAssumption DEF HandInv, Succeeded, Live, accountVars

\* Other callers for the session are told when a droplet of it changes.
LEMMA DisturbKeeps ==
    ASSUME TypeOK, NEW c \in Callers, NEW s, Disturb(s, c), OwnersStay,
           \A d \in Droplets : Live(d) /\ owner[d] # s =>
               state'[d] = "live" /\ tags'[d] = tags[d],
           \A b \in Callers : b # c => pc'[b] = pc[b] /\ call'[b] = call[b]
    PROVE  Harmless(c) /\ quiet'[c] = quiet[c]
  BY DEF TypeOK, Disturb, Harmless, Stays, LiveOf

LEMMA EnsureTagHand ==
    ASSUME IInv, NEW c \in Callers, EnsureTag(c)
    PROVE  Harmless(c) /\ HandInv(c)'
<1>1. PICK w \in {"tag_session", "get", "list"} :
          Continue(c, w) /\ (w = "get" => call[c].id # None)
  BY DEF EnsureTag
<1>2. Harmless(c)
  BY <1>1, AloneKeeps, OthersGo DEF IInv, TypeOK, EnsureTag, historyVars
<1> QED
  BY <1>1, <1>2, ContinuedHand DEF IInv, Harmless, Requests

LEMMA GetHand ==
    ASSUME IInv, NEW c \in Callers, GetDroplet(c)
    PROVE  Harmless(c) /\ HandInv(c)'
<1>1. Harmless(c)
  BY AloneKeeps, OthersGo DEF IInv, TypeOK, GetDroplet, accountVars, historyVars
<1>2. CASE Live(call[c].id) /\ Take(c, call[c].id)
  <2>1. HandInv(c) /\ pc[c] = "get" /\ UNCHANGED accountVars
    BY DEF IInv, GetDroplet
  <2>2. Own(call[c].id, call[c].session)
    BY <2>1 DEF HandInv
  <2> QED
    BY <1>1, <1>2, <2>1, <2>2, TakeHand DEF IInv, Own
<1>3. CASE Continue(c, "list")
  BY <1>1, <1>3, ContinuedHand DEF IInv, Harmless, Requests
<1> QED
  BY <1>1, <1>2, <1>3 DEF GetDroplet

LEMMA ListHand ==
    ASSUME IInv, NEW c \in Callers, ListDropletsByTag(c)
    PROVE  Harmless(c) /\ HandInv(c)'
<1> DEFINE T == Tagged(call[c].session)
<1>0. UNCHANGED accountVars /\ UNCHANGED historyVars /\ IInv
  BY DEF ListDropletsByTag
<1>1. \A d \in T : d \in Droplets /\ Own(d, call[c].session) /\ Live(d)
  BY DEF Tagged, LiveOf, Live, Own
<1>2. CASE \E d \in T : Take(c, d)
  <2>1. Harmless(c)
    BY <1>0, <1>2, AloneKeeps, OthersGo DEF IInv, TypeOK, accountVars, historyVars
  <2> QED
    BY <1>0, <1>1, <1>2, <2>1, TakeHand DEF IInv
<1>3. CASE Continue(c, "create")
  <2>1. Harmless(c)
    BY <1>0, <1>3, AloneKeeps, OthersGo DEF IInv, TypeOK, accountVars, historyVars
  <2> QED
    BY <1>3, <2>1, ContinuedHand DEF IInv, Harmless, Requests
<1>4. CASE call[c].op \in Destroying /\ DestroyFromList(c)
  <2>1. /\ pc'[c] \in {"done", "delete"} /\ call'[c].session = call[c].session
        /\ call'[c].op \in Destroying /\ call'[c].id = call[c].id
        /\ call'[c].todo \in {call[c].todo, T}
        /\ \A b \in Callers : b # c => pc'[b] = pc[b] /\ call'[b] = call[b]
    BY <1>0, <1>4 DEF IInv, TypeOK, Call, DestroyFromList, Return, Goto
  <2>2. Harmless(c)
    BY <1>0, <2>1, AloneKeeps DEF IInv, TypeOK, accountVars, historyVars
  <2>3. \A d \in call'[c].todo : Own(d, call[c].session)
    BY <1>0, <1>1, <2>1 DEF IInv, HandInv
  <2>4. PICK s \in Sessions : s = call[c].session
    BY CallFields, Parts DEF IInv
  <2>5. \A d : Own(d, s) => Own(d, s)'
    BY <2>2, OwnStays DEF Harmless
  <2> QED
    BY <2>1, <2>2, <2>3, <2>4, <2>5 DEF IInv, HandInv, Succeeded
<1> QED
  BY <1>2, <1>3, <1>4 DEF ListDropletsByTag, EnsureFromList

LEMMA RepairHand ==
    ASSUME IInv, NEW c \in Callers, RepairTags(c)
    PROVE  Harmless(c) /\ HandInv(c)'
<1> DEFINE d == call[c].id
           k == IF "base" \notin call[c].have THEN "base" ELSE "session"
<1>1. TypeOK /\ HandInv(c) /\ pc[c] = "repair" /\ d # None /\ Own(d, call[c].session)
  BY DEF IInv, RepairTags, HandInv
<1>2. UNCHANGED <<state, owner>> /\ OwnersStay
  BY <1>1, StillKeeps, Parts DEF RepairTags
<1>3. CASE Return(c, "error") /\ UNCHANGED <<tags, quiet>>
  <2>1. Harmless(c)
    BY <1>1, <1>2, <1>3, AloneKeeps, OthersGo
  <2> QED
    BY <1>1, <1>2, <1>3, <2>1, FailedHand
<1>4. CASE /\ Live(d) /\ tags' = [tags EXCEPT ![d] = @ \cup {k}]
           /\ Disturb(call[c].session, c)
           /\ \/ call[c].have \cup {k} = TagKinds /\ Return(c, "ok")
              \/ /\ call' = [call EXCEPT ![c].have = @ \cup {k}]
                 /\ UNCHANGED <<lock, pc>>
  <2>1. \A b \in Callers : b # c => pc'[b] = pc[b] /\ call'[b] = call[b]
    BY <1>1, <1>4, OthersGo DEF TypeOK
  <2>2. Harmless(c) /\ quiet'[c] = quiet[c]
    BY <1>1, <1>2, <1>4, <2>1, DisturbKeeps DEF Own, TypeOK, Live
  <2>3. /\ call'[c].id = d /\ call'[c].session = call[c].session
        /\ call'[c].todo = call[c].todo
        /\ tags'[d] = tags[d] \cup {k} /\ tags'[d] \subseteq TagKinds
    BY <1>1, <1>4 DEF TypeOK, Call, Return, Own, TagKinds
  <2>4. Live(d)'
    BY <1>2, <1>4, <2>3 DEF Live
  <2>5. CASE call[c].have \cup {k} = TagKinds /\ Return(c, "ok")
    BY <1>1, <1>2, <2>2, <2>3, <2>4, <2>5, OwnStays
       DEF HandInv, Succeeded, Return, Goto, TypeOK
  <2>6. CASE call' = [call EXCEPT ![c].have = @ \cup {k}] /\ UNCHANGED <<lock, pc>>
    <3>1. call'[c].have = call[c].have \cup {k}
      BY <1>1, <2>6 DEF TypeOK, Call
    <3> QED
      BY <1>1, <1>2, <2>2, <2>3, <2>4, <2>6, <3>1, OwnStays DEF HandInv, Succeeded
  <2> QED
    BY <1>4, <2>5, <2>6
<1> QED
  BY <1>3, <1>4 DEF RepairTags

LEMMA CreateHand ==
    ASSUME IInv, NEW c \in Callers, CreateDroplet(c)
    PROVE  Harmless(c) /\ HandInv(c)'
<1>1. PICK d \in Unborn :
          /\ Born(d, call[c].session) /\ Goto(c, "done")
          /\ call' = [call EXCEPT ![c].id = d, ![c].result = "ok"]
  BY DEF CreateDroplet
<1>2. PICK s \in Sessions : s = call[c].session
  BY CallFields, Parts DEF IInv
<1>3. /\ OwnersStay /\ Own(d, s)' /\ Live(d)' /\ tags'[d] = TagKinds
      /\ \A e \in Droplets : Live(e) =>
            e # d /\ state'[e] = "live" /\ tags'[e] = tags[e] /\ owner'[e] = owner[e]
  BY <1>1, <1>2, BornKeeps, Parts DEF IInv
<1>4. \A b \in Callers : b # c => pc'[b] = pc[b] /\ call'[b] = call[b]
  BY <1>1 DEF IInv, TypeOK, Goto
<1>5. Harmless(c)
  BY <1>3, <1>4, DisturbKeeps DEF IInv, CreateDroplet
<1>6. /\ pc'[c] = "done" /\ call'[c].id = d /\ call'[c].session = s
      /\ call'[c].todo = call[c].todo
  BY <1>1, <1>2 DEF IInv, TypeOK, Call, Goto
<1>7. \A e \in call[c].todo : Own(e, s)'
  BY <1>2, <1>3, OwnStays DEF IInv, HandInv
<1> QED
  BY <1>2, <1>3, <1>5, <1>6, <1>7, NoneAssumption DEF HandInv, Succeeded, Own

LEMMA RefusedHand ==
    ASSUME IInv, NEW c \in Callers, CreateRefused(c) \/ RequestFails(c)
    PROVE  Harmless(c) /\ HandInv(c)'
<1>1. Return(c, "error") /\ UNCHANGED accountVars /\ UNCHANGED historyVars
  BY DEF CreateRefused, RequestFails
<1>2. Harmless(c)
  BY <1>1, AloneKeeps, OthersGo DEF IInv, accountVars, historyVars
<1> QED
  BY <1>1, <1>2, FailedHand DEF IInv, Harmless

\* A caller deletes only droplets of its session, and tells the others.
LEMMA DyingHarmless ==
    ASSUME IInv, NEW c \in Callers, NEW d, Own(d, call[c].session), Dies(d),
           Disturb(call[c].session, c),
           \A b \in Callers : b # c => pc'[b] = pc[b] /\ call'[b] = call[b]
    PROVE  Harmless(c)
<1>1. OwnersStay /\ tags' = tags /\ \A e \in Droplets : e # d => state'[e] = state[e]
  BY DiesKeeps, Parts DEF IInv, Own
<1>2. \A e \in Droplets : Live(e) /\ owner[e] # call[c].session =>
          state'[e] = "live" /\ tags'[e] = tags[e]
  BY <1>1 DEF Own, Live
<1> QED
  BY <1>1, <1>2, DisturbKeeps DEF IInv

LEMMA DeleteHand ==
    ASSUME IInv, NEW c \in Callers, DeleteStored(c) \/ DeleteListed(c)
    PROVE  Harmless(c) /\ HandInv(c)'
<1>1. CASE DeleteStored(c)
  <2>1. /\ Own(call[c].id, call[c].session) /\ Dies(call[c].id) /\ Continue(c, "list")
        /\ Disturb(call[c].session, c)
    BY <1>1 DEF IInv, HandInv, DeleteStored
  <2>2. Harmless(c)
    BY <2>1, DyingHarmless, OthersGo DEF IInv
  <2> QED
    BY <2>1, <2>2, ContinuedHand DEF IInv, Harmless, Requests
<1>2. CASE DeleteListed(c)
  <2>1. PICK d \in call[c].todo :
            /\ Dies(d)
            /\ \/ Return(c, "ok")
               \/ call' = [call EXCEPT ![c].todo = @ \ {d}] /\ UNCHANGED <<lock, pc>>
    BY <1>2 DEF DeleteListed
  <2>2. \A b \in Callers : b # c => pc'[b] = pc[b] /\ call'[b] = call[b]
    BY <2>1, OthersGo DEF IInv, TypeOK
  <2>3. Harmless(c)
    BY <1>2, <2>1, <2>2, DyingHarmless DEF IInv, HandInv, DeleteListed
  <2>4. /\ pc[c] = "delete" /\ pc'[c] \in {"done", "delete"}
        /\ call[c].op \in Destroying /\ call'[c].op \in Destroying
        /\ call'[c].session = call[c].session /\ call'[c].id = call[c].id
        /\ call'[c].todo \subseteq call[c].todo
    BY <1>2, <2>1 DEF IInv, HandInv, TypeOK, Call, Return, Goto, DeleteListed
  <2>5. PICK s \in Sessions : s = call[c].session
    BY CallFields, Parts DEF IInv
  <2>6. \A e : Own(e, s) => Own(e, s)'
    BY <2>3, OwnStays DEF Harmless
  <2> QED
    BY <2>3, <2>4, <2>5, <2>6 DEF IInv, HandInv, Succeeded
<1> QED
  BY <1>1, <1>2

LEMMA StoreHand ==
    ASSUME IInv, NEW c \in Callers,
           \/ StoreInstance(c) \/ StoreFailure(c) \/ StoreDestroyed(c)
           \/ RejectionEnds(c) \/ StoreFails(c)
    PROVE  Harmless(c) /\ HandInv(c)'
<1>1. /\ UNCHANGED <<accountVars, late, lock>>
      /\ \A b \in Callers : b # c =>
            pc'[b] = pc[b] /\ call'[b] = call[b] /\ quiet'[b] = quiet[b]
  BY DEF IInv, TypeOK, StoreInstance, StoreFailure, StoreDestroyed, RejectionEnds,
         StoreFails, Forget, Goto
<1>2. Harmless(c)
  BY <1>1, AloneKeeps DEF IInv, accountVars
<1>3. CASE Forget(c)
  <2>1. pc \in [Callers -> {"idle", "wait", "done"} \cup Requests] /\ call \in [Callers -> Call]
    BY DEF IInv, TypeOK
  <2>2. pc'[c] = "idle"
    BY <1>3, <2>1 DEF Forget, Goto
  <2>3. call'[c].id = None /\ call'[c].todo = {}
    BY <1>3, <2>1 DEF Forget, NoCall
  <2> QED
    BY <1>2, <2>2, <2>3 DEF HandInv, Succeeded
<1>4. CASE StoreInstance(c) /\ ~Forget(c)
  <2>1. /\ pc'[c] = "wait" /\ call'[c].id = call[c].id /\ call'[c].todo = {}
        /\ call'[c].session = call[c].session
    <3>1. pc \in [Callers -> {"idle", "wait", "done"} \cup Requests] /\ call \in [Callers -> Call]
      BY DEF IInv, TypeOK
    <3>2. /\ Goto(c, "wait")
          /\ call' = [call EXCEPT ![c] = [NoCall(call[c].session) EXCEPT
                                             !.op = "reject", !.id = call[c].id]]
      BY <1>4 DEF StoreInstance
    <3> QED
      BY <3>1, <3>2 DEF Goto, NoCall
  <2>2. PICK s \in Sessions : s = call[c].session
    BY CallFields, Parts DEF IInv
  <2>3. \A d : Own(d, s) => Own(d, s)'
    BY <1>2, OwnStays DEF Harmless
  <2> QED
    BY <1>2, <2>1, <2>2, <2>3 DEF IInv, HandInv, Succeeded
<1> QED
  BY <1>3, <1>4 DEF StoreInstance, StoreFailure, StoreDestroyed, RejectionEnds, StoreFails

LEMMA LostHand ==
    ASSUME IInv, NEW c \in Callers, CreateLost(c) \/ DeleteLost(c)
    PROVE  Harmless(c) /\ HandInv(c)'
<1> DEFINE s == call[c].session
<1>1. TypeOK /\ AccountOK /\ HandInv(c) /\ Return(c, "error") /\ Disturb(s, c) /\ s \in Sessions
  BY CallFields, Parts DEF IInv, CreateLost, DeleteLost
<1>2. \A b \in Callers : b # c => pc'[b] = pc[b] /\ call'[b] = call[b]
  BY <1>1, OthersGo
<1>3. CASE UNCHANGED accountVars
  <2>1. OwnersStay
    BY <1>1, <1>3, StillKeeps DEF accountVars
  <2>2. \A d \in Droplets : Live(d) => state'[d] = "live" /\ tags'[d] = tags[d]
    BY <1>3 DEF Live, accountVars
  <2> QED
    BY <1>1, <1>2, <2>1, <2>2, DisturbKeeps, FailedHand
<1>4. ASSUME NEW d \in Unborn, Born(d, s)
      PROVE  Harmless(c) /\ HandInv(c)'
  BY <1>1, <1>2, <1>4, BornKeeps, DisturbKeeps, FailedHand
<1>5. ASSUME NEW d, Own(d, s), Dies(d)
      PROVE  Harmless(c) /\ HandInv(c)'
  BY <1>1, <1>2, <1>5, DyingHarmless, FailedHand DEF Harmless
<1>6. CASE DeleteLost(c)
  <2>1. PICK d \in IF pc[c] = "delete" THEN call[c].todo ELSE {call[c].id} :
            Dies(d) \/ UNCHANGED accountVars
    BY <1>6 DEF DeleteLost
  <2>2. Own(d, s)
    BY <1>1, <1>6 DEF DeleteLost, HandInv
  <2> QED
    BY <1>3, <1>5, <2>1, <2>2
<1> QED
  BY <1>3, <1>4, <1>6 DEF CreateLost

LEMMA CallerHand ==
    ASSUME IInv, NEW c \in Callers,
           (\E s \in Sessions : Calls(c, s)) \/ LockSession(c) \/ Answers(c) \/ Fails(c)
    PROVE  Harmless(c) /\ HandInv(c)'
  BY BeginHand, LockHand, EnsureTagHand, GetHand, ListHand, RepairHand, CreateHand,
     RefusedHand, DeleteHand, StoreHand, LostHand DEF Answers, Fails

LEMMA StaysHand ==
    ASSUME TypeOK, TypeOK', OwnersStay, NEW b \in Callers, HandInv(b), Stays(b)
    PROVE  HandInv(b)'
<1>1. PICK s \in Sessions : s = call[b].session
  BY CallFields, Parts
<1>2. \A d : Own(d, s) => Own(d, s)'
  BY OwnStays
<1>3. /\ pc'[b] = pc[b] /\ call'[b] = call[b]
      /\ quiet'[b] => quiet[b]
  BY DEF Stays
<1>4. call[b].id # None /\ Live(call[b].id) /\ quiet'[b] =>
          state'[call[b].id] = "live" /\ tags[call[b].id] \subseteq tags'[call[b].id]
  BY <1>3 DEF HandInv, Own, Stays, LiveOf, Live
<1>5. call[b].id # None => tags'[call[b].id] \subseteq TagKinds
  BY DEF HandInv, Own, TypeOK
<1>6. pc'[b] = "repair" /\ quiet'[b] =>
          state'[call'[b].id] = "live" /\ call'[b].have \subseteq tags'[call'[b].id]
  BY <1>3, <1>4 DEF HandInv
<1>7. Succeeded(b, "ensure")' /\ quiet'[b] =>
          /\ call'[b].id # None /\ state'[call'[b].id] = "live"
          /\ tags'[call'[b].id] = TagKinds
  <2> SUFFICES ASSUME Succeeded(b, "ensure")', quiet'[b]
               PROVE  /\ call'[b].id # None /\ state'[call'[b].id] = "live"
                      /\ tags'[call'[b].id] = TagKinds
    OBVIOUS
  <2>1. call[b].id # None /\ Live(call[b].id) /\ tags[call[b].id] = TagKinds
    BY <1>3 DEF HandInv, Succeeded
  <2>2. state'[call[b].id] = "live" /\ tags[call[b].id] \subseteq tags'[call[b].id]
    BY <1>4, <2>1
  <2>3. tags'[call[b].id] \subseteq TagKinds /\ TagKinds \subseteq tags'[call[b].id]
    BY <1>5, <2>1, <2>2
  <2>4. tags'[call[b].id] = TagKinds
    BY <2>3
  <2> QED
    BY <1>3, <2>1, <2>2, <2>4
<1>8. (call[b].id # None => Own(call[b].id, call[b].session))'
  BY <1>1, <1>2, <1>3 DEF HandInv
<1>9. (\A d \in call[b].todo : Own(d, call[b].session))'
  BY <1>1, <1>2, <1>3 DEF HandInv
<1>10. /\ pc'[b] \in {"get", "repair", "delete_id"} => call'[b].id # None
       /\ pc'[b] = "delete" => call'[b].op \in Destroying
  BY <1>3 DEF HandInv
<1> QED
  BY <1>1, <1>3, <1>6, <1>7, <1>8, <1>9, <1>10 DEF HandInv, Live

\* The same for changes that are no caller's.
LEMMA NobodysKeeps ==
    ASSUME TypeOK, NEW s, Disturb(s, None), OwnersStay, UNCHANGED callVars,
           \A d \in Droplets : Live(d) /\ owner[d] # s =>
               state'[d] = "live" /\ tags'[d] = tags[d]
    PROVE  \A b \in Callers : Stays(b)
  BY NoneAssumption DEF TypeOK, Disturb, Stays, LiveOf, callVars

LEMMA AccountHand ==
    ASSUME IInv, Account
    PROVE  OwnersStay /\ \A b \in Callers : Stays(b)
<1>0. TypeOK /\ AccountOK
  BY Parts DEF IInv
<1>1. ASSUME NEW q \in late, LateEffect(q)
      PROVE  OwnersStay /\ \A b \in Callers : Stays(b)
  <2>1. CASE q.op = "create"
    <3>1. PICK d \in Unborn : Born(d, q.session)
      BY <1>1, <2>1 DEF LateEffect
    <3>2. q.session \in Sessions
      BY <1>0 DEF TypeOK, Request
    <3> QED
      BY <1>0, <1>1, <3>1, <3>2, BornKeeps, NobodysKeeps DEF LateEffect
  <2>2. CASE q.op = "delete"
    <3>1. Dies(q.droplet) /\ Own(q.droplet, q.session) /\ q.droplet \in Droplets
      BY <1>1, <2>2 DEF LateEffect, IInv, LateInv, Own
    <3>2. /\ OwnersStay /\ tags' = tags
          /\ \A e \in Droplets : e # q.droplet => state'[e] = state[e]
      BY <1>0, <3>1, DiesKeeps
    <3>3. \A e \in Droplets : Live(e) /\ owner[e] # q.session =>
              state'[e] = "live" /\ tags'[e] = tags[e]
      BY <3>1, <3>2 DEF Own, Live
    <3> QED
      BY <1>0, <1>1, <3>2, <3>3, NobodysKeeps DEF LateEffect
  <2> QED
    BY <1>1, <2>1, <2>2 DEF LateEffect
<1>2. ASSUME NEW d \in Droplets, DropletDeletedByHand(d)
      PROVE  OwnersStay /\ \A b \in Callers : Stays(b)
  <2>1. /\ OwnersStay /\ tags' = tags
        /\ \A e \in Droplets : e # d => state'[e] = state[e]
    BY <1>0, <1>2, DiesKeeps DEF DropletDeletedByHand
  <2>2. \A e \in Droplets : Live(e) /\ owner[e] # owner[d] =>
            state'[e] = "live" /\ tags'[e] = tags[e]
    BY <2>1 DEF Live
  <2> QED
    BY <1>0, <1>2, <2>1, <2>2, NobodysKeeps DEF DropletDeletedByHand
<1>3. ASSUME NEW d \in Droplets, NEW k \in TagKinds, UntaggedByHand(d, k)
      PROVE  OwnersStay /\ \A b \in Callers : Stays(b)
  <2>1. /\ OwnersStay /\ state' = state
        /\ \A e \in Droplets : e # d => tags'[e] = tags[e]
    BY <1>0, <1>3, StillKeeps DEF UntaggedByHand, TypeOK
  <2>2. \A e \in Droplets : Live(e) /\ owner[e] # owner[d] =>
            state'[e] = "live" /\ tags'[e] = tags[e]
    BY <2>1 DEF Live
  <2> QED
    BY <1>0, <1>3, <2>1, <2>2, NobodysKeeps DEF UntaggedByHand
<1>4. ASSUME NEW s \in Sessions, TagDeletedByHand(s)
      PROVE  OwnersStay /\ \A b \in Callers : Stays(b)
  <2>1. OwnersStay /\ state' = state
    BY <1>0, <1>4, StillKeeps DEF TagDeletedByHand
  <2>2. \A e \in Droplets : Live(e) /\ owner[e] # s =>
            state'[e] = "live" /\ tags'[e] = tags[e]
    BY <1>4, <2>1 DEF Live, TagDeletedByHand
  <2> QED
    BY <1>0, <1>4, <2>1, <2>2, NobodysKeeps DEF TagDeletedByHand
<1> QED
  BY <1>1, <1>2, <1>3, <1>4 DEF Account

LEMMA HandStep ==
    ASSUME IInv, TypeOK', [Next]_vars
    PROVE  OwnersStay /\ \A b \in Callers : HandInv(b)'
<1>1. ASSUME NEW c \in Callers,
             (\E s \in Sessions : Calls(c, s)) \/ LockSession(c) \/ Answers(c) \/ Fails(c)
      PROVE  OwnersStay /\ \A b \in Callers : HandInv(b)'
  BY <1>1, CallerHand, StaysHand DEF IInv, Harmless
<1>2. CASE Account
  BY <1>2, AccountHand, StaysHand DEF IInv
<1>3. CASE UNCHANGED vars \/ \E s \in Sessions : Condemn(s)
  <2>1. UNCHANGED <<accountVars, callVars, quiet>>
    BY <1>3 DEF vars, Condemn, historyVars
  <2>2. OwnersStay /\ \A b \in Callers : Stays(b)
    BY <2>1 DEF IInv, TypeOK, OwnersStay, Stays, LiveOf, Live, accountVars, callVars
  <2> QED
    BY <2>2, StaysHand DEF IInv
<1>4. CASE Restart
  <2>1. OwnersStay
    BY <1>4 DEF Restart, OwnersStay, accountVars
  <2>2. \A b \in Callers : pc'[b] = "idle" /\ call'[b].id = None /\ call'[b].todo = {}
    BY <1>4 DEF Restart, NoCall
  <2> QED
    BY <2>1, <2>2 DEF HandInv, Succeeded
<1> QED
  BY <1>1, <1>2, <1>3, <1>4 DEF Next

-----------------------------------------------------------------------------
(***************************************************************************)
(* Rows, late requests and locks.                                          *)
(***************************************************************************)
\* Only storing a result and condemning a session change a row.
LEMMA RowsStay ==
    ASSUME [Next]_vars
    PROVE  \/ UNCHANGED <<wanted, stored>>
           \/ \E c \in Callers : StoreInstance(c) \/ StoreFailure(c) \/ StoreDestroyed(c)
           \/ \E s \in Sessions : Condemn(s)
<1>1. ASSUME NEW c \in Callers, NEW s \in Sessions, Calls(c, s)
      PROVE  UNCHANGED <<wanted, stored>>
  BY <1>1 DEF Calls, EnsureInstance, ForceDestroySessionServer, Begin
<1>2. ASSUME NEW c \in Callers, LockSession(c) \/ Fails(c)
      PROVE  UNCHANGED <<wanted, stored>>
  BY <1>2 DEF LockSession, Fails, RequestFails, CreateLost, DeleteLost, StoreFails, rowVars
<1>3. ASSUME NEW c \in Callers, Answers(c)
      PROVE  UNCHANGED <<wanted, stored>> \/ StoreInstance(c) \/ StoreFailure(c)
      \/ StoreDestroyed(c)
  BY <1>3 DEF Answers, EnsureTag, GetDroplet, ListDropletsByTag, RepairTags, CreateDroplet,
       CreateRefused, DeleteStored, DeleteListed, RejectionEnds, rowVars
<1>4. Account \/ Restart \/ UNCHANGED vars => UNCHANGED <<wanted, stored>>
  BY DEF Account, LateEffect, DropletDeletedByHand, UntaggedByHand, TagDeletedByHand,
         Restart, rowVars, vars
<1> QED
  BY <1>1, <1>2, <1>3, <1>4 DEF Next

LEMMA RowStep ==
    ASSUME IInv, OwnersStay, [Next]_vars
    PROVE  RowInv'
<1>1. \A s \in Sessions : \A d : Own(d, s) => Own(d, s)'
  BY OwnStays
<1>2. CASE stored' = stored
  BY <1>1, <1>2 DEF IInv, RowInv
<1>3. ASSUME NEW c \in Callers, StoreInstance(c)
      PROVE  RowInv'
  <2>1. CallsOK /\ RowsOK /\ HandInv(c)
    BY Parts DEF IInv
  <2>2. PICK s \in Sessions : s = call[c].session
    BY <2>1, CallFields
  <2>3. stored' = stored \/ stored' = [stored EXCEPT ![s] = call[c].id]
    BY <1>3, <2>2 DEF StoreInstance
  <2>4. call[c].id # None => Own(call[c].id, s)
    BY <2>1, <2>2 DEF HandInv
  <2>5. PICK i : i = call[c].id
    OBVIOUS
  <2>6. i # None => Own(i, s)'
    BY <1>1, <2>2, <2>4, <2>5
  <2>7. CASE stored' = [stored EXCEPT ![s] = i]
    BY <1>1, <2>1, <2>6, <2>7 DEF IInv, RowInv, RowsOK
  <2> QED
    BY <1>2, <2>3, <2>5, <2>7
<1>4. [Next]_vars => stored' = stored \/ \E c \in Callers : StoreInstance(c)
  BY RowsStay DEF StoreFailure, StoreDestroyed, Condemn
<1> QED
  BY <1>2, <1>3, <1>4

LEMMA LateStep ==
    ASSUME IInv, OwnersStay, [Next]_vars
    PROVE  LateInv'
<1>0. HistoryOK /\ CallsOK
  BY Parts DEF IInv
<1>1. \A d, s : Own(d, s) => Own(d, s)'
  BY OwnStays
<1>2. CASE late' \subseteq late
  BY <1>1, <1>2 DEF IInv, LateInv
<1>3. ASSUME NEW c \in Callers, CreateLost(c)
      PROVE  LateInv'
  BY <1>1, <1>3 DEF IInv, LateInv, CreateLost
<1>4. ASSUME NEW c \in Callers, DeleteLost(c)
      PROVE  LateInv'
  <2>1. PICK d \in IF pc[c] = "delete" THEN call[c].todo ELSE {call[c].id} :
            \/ late' = late
            \/ late' = late \cup {[op |-> "delete", droplet |-> d,
                                   session |-> call[c].session]}
    BY <1>4 DEF DeleteLost
  <2>2. Own(d, call[c].session)
    BY <1>4 DEF DeleteLost, IInv, HandInv
  <2>3. PICK s : s = call[c].session
    OBVIOUS
  <2>4. Own(d, s)'
    BY <1>1, <2>2, <2>3
  <2> QED
    BY <1>1, <2>1, <2>3, <2>4 DEF IInv, LateInv
<1>5. [Next]_vars => \/ late' \subseteq late
                     \/ \E c \in Callers : CreateLost(c) \/ DeleteLost(c)
  BY DEF Next, Calls, EnsureInstance, ForceDestroySessionServer, Begin, LockSession, Answers,
         EnsureTag, GetDroplet, ListDropletsByTag, RepairTags, CreateDroplet, CreateRefused,
         DeleteStored, DeleteListed, StoreInstance, StoreFailure, StoreDestroyed,
         RejectionEnds, Fails,
         RequestFails, StoreFails, Account, LateEffect, DropletDeletedByHand,
         UntaggedByHand, TagDeletedByHand, Restart, Condemn, vars
<1> QED
  BY <1>2, <1>3, <1>4, <1>5

\* How a step of c moves its lock: not at all, back, or to c.
LockMoves(c) ==
    \/ /\ lock' = lock
       /\ pc'[c] \in Requests =>
             pc[c] \in Requests /\ call'[c].session = call[c].session
    \/ /\ pc[c] \in Requests /\ pc'[c] = "done"
       /\ lock' = [lock EXCEPT ![call[c].session] = None]
    \/ /\ lock[call[c].session] = None /\ call'[c].session = call[c].session
       /\ lock' = [lock EXCEPT ![call[c].session] = c]

LEMMA ReturnMoves ==
    ASSUME TypeOK, NEW c \in Callers, pc[c] \in Requests,
           \/ \E r : Return(c, r)
           \/ \E w : Continue(c, w)
           \/ \E d : Take(c, d)
    PROVE  LockMoves(c)
<1>1. CASE \E r : Return(c, r)
  BY <1>1 DEF TypeOK, LockMoves, Return, Goto
<1>2. CASE \E w : Continue(c, w)
  BY <1>2 DEF LockMoves, Continue
<1>3. ASSUME NEW d, Take(c, d)
      PROVE  LockMoves(c)
  <2>1. call'[c].session = call[c].session
    <3>1. call[c] \in Call /\ DOMAIN call = Callers
      BY DEF TypeOK
    <3>2. \/ call' = [call EXCEPT ![c].id = d, ![c].have = tags[d], ![c].result = "ok"]
          \/ call' = [call EXCEPT ![c].id = d, ![c].have = tags[d]]
      BY <1>3 DEF Take
    <3> QED
      BY <3>1, <3>2 DEF TypeOK, Call
  <2>2. CASE pc' = [pc EXCEPT ![c] = "done"]
    BY <1>3, <2>1, <2>2 DEF TypeOK, LockMoves, Take, Goto
  <2> QED
    BY <1>3, <2>1, <2>2 DEF LockMoves, Take, Goto
<1> QED
  BY <1>1, <1>2, <1>3

LEMMA AnswerMoves ==
    ASSUME IInv, NEW c \in Callers,
           \/ EnsureTag(c) \/ GetDroplet(c) \/ ListDropletsByTag(c) \/ RepairTags(c)
           \/ CreateDroplet(c) \/ CreateRefused(c) \/ DeleteStored(c) \/ DeleteListed(c)
    PROVE  LockMoves(c)
<1>0. TypeOK /\ pc[c] \in Requests
  BY DEF IInv, Requests, EnsureTag, GetDroplet, ListDropletsByTag, RepairTags, CreateDroplet,
         CreateRefused, DeleteStored, DeleteListed
<1>1. CASE EnsureTag(c) \/ GetDroplet(c) \/ CreateRefused(c) \/ DeleteStored(c)
  BY <1>0, <1>1, ReturnMoves DEF EnsureTag, GetDroplet, CreateRefused, DeleteStored
<1>2. CASE ListDropletsByTag(c)
  <2>1. CASE /\ Goto(c, "delete") /\ UNCHANGED lock
             /\ call' = [call EXCEPT ![c].todo = Tagged(call[c].session)]
    BY <1>0, <2>1 DEF TypeOK, Call, LockMoves
  <2> QED
    BY <1>0, <1>2, <2>1, ReturnMoves DEF ListDropletsByTag, EnsureFromList, DestroyFromList
<1>3. CASE RepairTags(c)
  <2>1. CASE pc' = pc /\ lock' = lock /\ call'[c].session = call[c].session
    BY <1>0, <2>1 DEF LockMoves
  <2> QED
    BY <1>0, <1>3, <2>1, ReturnMoves DEF RepairTags, TypeOK, Call
<1>4. CASE CreateDroplet(c)
  BY <1>0, <1>4 DEF CreateDroplet, TypeOK, Call, LockMoves, Goto
<1>5. CASE DeleteListed(c)
  <2>1. CASE pc' = pc /\ lock' = lock /\ call'[c].session = call[c].session
    BY <1>0, <2>1 DEF LockMoves
  <2> QED
    BY <1>0, <1>5, <2>1, ReturnMoves DEF DeleteListed, TypeOK, Call
<1> QED
  BY <1>1, <1>2, <1>3, <1>4, <1>5

LEMMA CallerMoves ==
    ASSUME IInv, NEW c \in Callers,
           (\E s \in Sessions : Calls(c, s)) \/ LockSession(c) \/ Answers(c) \/ Fails(c)
    PROVE  LockMoves(c)
<1>0. TypeOK
  BY DEF IInv
<1>1. CASE \E s \in Sessions : Calls(c, s)
  BY <1>0, <1>1 DEF TypeOK, Calls, EnsureInstance, ForceDestroySessionServer, Begin, Goto,
                    LockMoves, Requests
<1>2. CASE LockSession(c)
  BY <1>0, <1>2 DEF LockSession, LockMoves
<1>3. CASE StoreInstance(c) \/ StoreFailure(c) \/ StoreDestroyed(c) \/ RejectionEnds(c)
     \/ StoreFails(c)
  <2>1. lock' = lock /\ pc'[c] \in {"idle", "wait"}
    BY <1>0, <1>3 DEF TypeOK, StoreInstance, StoreFailure, StoreDestroyed, RejectionEnds,
                      StoreFails,
                      Forget, Goto
  <2> QED
    BY <2>1 DEF LockMoves, Requests
<1>4. CASE RequestFails(c) \/ CreateLost(c) \/ DeleteLost(c)
  BY <1>0, <1>4, ReturnMoves DEF RequestFails, CreateLost, DeleteLost, Requests
<1> QED
  BY <1>1, <1>2, <1>3, <1>4, AnswerMoves DEF Answers, Fails

LEMMA LockStep ==
    ASSUME IInv, [Next]_vars
    PROVE  LockInv'
<1>0. TypeOK /\ LockInv
  BY DEF IInv
<1>1. ASSUME NEW c \in Callers,
             (\E s \in Sessions : Calls(c, s)) \/ LockSession(c) \/ Answers(c) \/ Fails(c)
      PROVE  LockInv'
  <2>1. \A b \in Callers : b # c => pc'[b] = pc[b] /\ call'[b] = call[b]
    BY <1>1, CallerHand DEF Harmless, Stays
  <2>2. \A b \in Callers : call[b].session \in Sessions
    BY CallFields, Parts DEF IInv
  <2>3. LockMoves(c)
    BY <1>1, CallerMoves
  <2>4. "done" \notin Requests
    BY DEF Requests
  <2> QED
    BY <1>0, <2>1, <2>2, <2>3, <2>4, NoneAssumption DEF TypeOK, LockInv, LockMoves
<1>2. CASE Account \/ UNCHANGED vars \/ \E s \in Sessions : Condemn(s)
  <2>1. UNCHANGED callVars
    BY <1>2 DEF Account, LateEffect, DropletDeletedByHand, UntaggedByHand, TagDeletedByHand,
                Condemn, vars
  <2> QED
    BY <1>0, <2>1 DEF LockInv, callVars
<1>3. CASE Restart
  BY <1>3 DEF Restart, LockInv, Requests
<1> QED
  BY <1>1, <1>2, <1>3 DEF Next

-----------------------------------------------------------------------------
(***************************************************************************)
(* Before the first fault.                                                 *)
(***************************************************************************)
LEMMA NoFaultMove ==
    ASSUME IInv, [Next]_vars, faults' = 0
    PROVE  /\ faults = 0 /\ late = {} /\ late' = {}
           /\ \/ \E c \in Callers :
                    \/ \E s \in Sessions : Calls(c, s)
                    \/ LockSession(c) \/ Answers(c)
              \/ \E s \in Sessions : Condemn(s)
              \/ UNCHANGED vars
<1>1. \A n \in 0..MaxFaults : n + 1 # 0
  BY MaxFaultsAssumption
<1>2. ~Fault
  BY <1>1 DEF IInv, TypeOK, Fault
<1>3. \/ \E c \in Callers : \/ \E s \in Sessions : Calls(c, s)
                            \/ LockSession(c) \/ Answers(c)
      \/ \E s \in Sessions : Condemn(s)
      \/ \E q \in late : LateEffect(q)
      \/ UNCHANGED vars
  BY <1>2 DEF Next, Fails, RequestFails, CreateLost, DeleteLost, StoreFails, Account,
              DropletDeletedByHand, UntaggedByHand, TagDeletedByHand, Restart
<1>4. faults = 0
  BY <1>3 DEF Calls, EnsureInstance, ForceDestroySessionServer, Begin, LockSession, Answers,
              EnsureTag, GetDroplet, ListDropletsByTag, RepairTags, CreateDroplet,
              CreateRefused, DeleteStored, DeleteListed, StoreInstance, StoreFailure,
              StoreDestroyed, RejectionEnds, Condemn, LateEffect, vars
<1>5. late = {}
  BY <1>4 DEF IInv, FaultlessInv
<1>6. late' = late
  BY <1>3, <1>5 DEF Calls, EnsureInstance, ForceDestroySessionServer, Begin, LockSession,
              Answers, EnsureTag, GetDroplet, ListDropletsByTag, RepairTags, CreateDroplet,
              CreateRefused, DeleteStored, DeleteListed, StoreInstance, StoreFailure,
              StoreDestroyed, RejectionEnds, Condemn, vars
<1> QED
  BY <1>3, <1>4, <1>5, <1>6

\* Steps after which no droplet is live that was not before, and after which only
\* a caller that has just found none goes on to create one.
LEMMA NoBirth ==
    ASSUME IInv, faults = 0, late' = {},
           \A d \in Droplets :
               Live(d)' => Live(d) /\ owner'[d] = owner[d] /\ tags[d] \subseteq tags'[d],
           tags' \in [Droplets -> SUBSET TagKinds],
           \A b \in Callers : pc'[b] = "create" =>
               /\ call'[b].session = call[b].session
               /\ pc[b] = "create" \/ Tagged(call[b].session) = {}
    PROVE  FaultlessInv'
<1>1. \A d \in Droplets : Live(d) => tags[d] = TagKinds
  BY DEF IInv, FaultlessInv
<1>2. \A d \in Droplets : Live(d)' => tags'[d] = TagKinds
  <2>1. \A A \in SUBSET TagKinds : TagKinds \subseteq A => A = TagKinds
    OBVIOUS
  <2> HIDE DEF TagKinds
  <2> QED
    BY <1>1, <2>1
<1>3. \A d, e \in Droplets : Live(d)' /\ Live(e)' /\ owner'[d] = owner'[e] => d = e
  BY DEF IInv, FaultlessInv
<1>4. \A s \in Sessions : Tagged(s) = {} => LiveOf(s) = {}
  BY <1>1 DEF Tagged, LiveOf, TagKinds
<1>5. \A b \in Callers : pc'[b] = "create" => LiveOf(call[b].session) = {}
  BY <1>4, CallFields, Parts DEF IInv, FaultlessInv
<1>6. \A s : LiveOf(s) = {} => LiveOf(s)' = {}
  BY DEF LiveOf
<1>7. \A b \in Callers : pc'[b] = "create" => (LiveOf(call[b].session) = {})'
  <2>1. ASSUME NEW b \in Callers, pc'[b] = "create"
        PROVE  (LiveOf(call[b].session) = {})'
    <3>1. PICK s : s = call[b].session
      OBVIOUS
    <3>2. call'[b].session = s /\ LiveOf(s)' = {}
      BY <1>5, <1>6, <2>1, <3>1
    <3> QED
      BY <3>2
  <2> QED
    BY <2>1
<1> QED
  BY <1>2, <1>3, <1>7 DEF FaultlessInv

LEMMA BirthFaultless ==
    ASSUME IInv, faults = 0, late' = {}, NEW c \in Callers, CreateDroplet(c)
    PROVE  FaultlessInv'
<1>1. PICK d \in Unborn :
          Born(d, call[c].session) /\ Goto(c, "done")
          /\ call' = [call EXCEPT ![c].id = d, ![c].result = "ok"]
  BY DEF CreateDroplet
<1>2. PICK s \in Sessions : s = call[c].session
  BY CallFields, Parts DEF IInv
<1>3. /\ Own(d, s)' /\ Live(d)' /\ tags'[d] = TagKinds
      /\ \A e \in Droplets : Live(e) =>
            e # d /\ state'[e] = "live" /\ tags'[e] = tags[e] /\ owner'[e] = owner[e]
      /\ \A e \in Droplets : Live(e)' => e = d \/ Live(e)
  BY <1>1, <1>2, BornKeeps, Parts DEF IInv
<1>4. pc[c] = "create" /\ lock[s] = c /\ LiveOf(s) = {}
  BY <1>2 DEF CreateDroplet, IInv, LockInv, FaultlessInv, Requests
<1>5. \A e \in Droplets : Live(e)' => tags'[e] = TagKinds
  BY <1>3 DEF IInv, FaultlessInv
<1>6. \A e, f \in Droplets : Live(e)' /\ Live(f)' /\ owner'[e] = owner'[f] => e = f
  <2>1. \A e \in Droplets : Live(e) => owner[e] # s
    BY <1>4 DEF LiveOf
  <2>2. owner'[d] = s
    BY <1>3 DEF Own
  <2> QED
    BY <1>3, <2>1, <2>2 DEF IInv, FaultlessInv
<1>7. ASSUME NEW b \in Callers, pc'[b] = "create"
      PROVE  (LiveOf(call[b].session) = {})'
  <2>1. b # c /\ pc[b] = "create" /\ call'[b] = call[b]
    BY <1>1, <1>7 DEF IInv, TypeOK, Goto
  <2>2. PICK t : t = call[b].session
    OBVIOUS
  <2>3. LiveOf(t) = {} /\ t # s
    BY <1>4, <2>1, <2>2 DEF IInv, FaultlessInv, LockInv, Requests
  <2>4. LiveOf(t)' = {}
    BY <1>3, <2>3 DEF LiveOf, Own
  <2> QED
    BY <2>1, <2>2, <2>4
<1> QED
  BY <1>5, <1>6, <1>7 DEF FaultlessInv

LEMMA FaultlessStep ==
    ASSUME IInv, TypeOK', [Next]_vars
    PROVE  FaultlessInv'
<1> SUFFICES ASSUME faults' = 0
             PROVE  FaultlessInv'
  BY DEF FaultlessInv
<1>0. TypeOK /\ AccountOK /\ faults = 0 /\ late = {} /\ late' = {}
  BY NoFaultMove, Parts DEF IInv
<1>1. CASE UNCHANGED vars \/ \E s \in Sessions : Condemn(s)
  <2>1. UNCHANGED <<accountVars, callVars>>
    BY <1>1 DEF Condemn, vars
  <2> QED
    BY <1>0, <2>1, NoBirth DEF TypeOK, Live, accountVars, callVars
<1>2. ASSUME NEW c \in Callers,
             \/ \E s \in Sessions : Calls(c, s)
             \/ LockSession(c) \/ EnsureTag(c) \/ GetDroplet(c) \/ ListDropletsByTag(c)
             \/ RepairTags(c) \/ CreateRefused(c) \/ DeleteStored(c) \/ DeleteListed(c)
             \/ StoreInstance(c) \/ StoreFailure(c) \/ StoreDestroyed(c) \/ RejectionEnds(c)
      PROVE  FaultlessInv'
  <2>1. \A b \in Callers : b # c => pc'[b] = pc[b] /\ call'[b] = call[b]
    BY <1>2, CallerHand DEF Answers, Harmless, Stays
  <2>2. pc'[c] = "create" =>
            call'[c].session = call[c].session /\ Tagged(call[c].session) = {}
    <3>1. CASE ListDropletsByTag(c)
      BY <1>0, <3>1 DEF TypeOK, ListDropletsByTag, EnsureFromList, DestroyFromList, Take,
                        Continue, Return, Goto
    <3>2. CASE \/ \E s \in Sessions : Calls(c, s)
               \/ LockSession(c) \/ EnsureTag(c) \/ GetDroplet(c) \/ DeleteStored(c)
      BY <1>0, <3>2 DEF TypeOK, Calls, EnsureInstance, ForceDestroySessionServer, Begin,
                        LockSession, FirstRequest, EnsureTag, GetDroplet, DeleteStored, Take,
                        Continue, Goto
    <3>3. CASE RepairTags(c) \/ CreateRefused(c) \/ DeleteListed(c)
      BY <1>0, <3>3 DEF TypeOK, RepairTags, CreateRefused, DeleteListed, Return, Goto
    <3>4. CASE StoreInstance(c) \/ StoreFailure(c) \/ StoreDestroyed(c) \/ RejectionEnds(c)
      BY <1>0, <3>4 DEF TypeOK, StoreInstance, StoreFailure, StoreDestroyed, RejectionEnds,
                        Forget, Goto
    <3> QED
      BY <1>2, <3>1, <3>2, <3>3, <3>4
  <2>3. \A d \in Droplets :
            Live(d)' => Live(d) /\ owner'[d] = owner[d] /\ tags[d] \subseteq tags'[d]
    <3>1. CASE UNCHANGED <<state, owner, tags>>
      BY <3>1 DEF Live
    <3>2. CASE RepairTags(c)
      BY <1>0, <3>2 DEF TypeOK, RepairTags, Live
    <3>3. ASSUME NEW d, Dies(d)
          PROVE  \A e \in Droplets : Live(e)' => Live(e) /\ owner'[e] = owner[e]
                                                         /\ tags[e] \subseteq tags'[e]
      BY <1>0, <3>3 DEF TypeOK, Dies, Live
    <3> QED
      BY <1>2, <3>1, <3>2, <3>3
         DEF Calls, EnsureInstance, ForceDestroySessionServer, Begin, LockSession, EnsureTag,
             GetDroplet, ListDropletsByTag, CreateRefused, DeleteStored, DeleteListed,
             StoreInstance, StoreFailure, StoreDestroyed, RejectionEnds, accountVars
  <2> QED
    BY <1>0, <2>1, <2>2, <2>3, NoBirth DEF TypeOK
<1>3. ASSUME NEW c \in Callers, CreateDroplet(c)
      PROVE  FaultlessInv'
  BY <1>0, <1>3, BirthFaultless
<1> QED
  BY <1>1, <1>2, <1>3, NoFaultMove DEF Answers

-----------------------------------------------------------------------------
LEMMA InitInv == Init => IInv
<1> SUFFICES ASSUME Init
             PROVE  IInv
  OBVIOUS
<1>1. TypeOK
  BY InitTypes
<1>2. RowInv /\ LateInv /\ LockInv
  BY DEF Init, RowInv, LateInv, LockInv, Requests
<1>3. FaultlessInv
  BY DEF Init, FaultlessInv, Live
<1>4. \A c \in Callers : pc[c] = "idle" /\ call[c].id = None /\ call[c].todo = {}
  BY DEF Init, NoCall
<1>5. \A c \in Callers : HandInv(c)
  BY <1>4 DEF HandInv, Succeeded
<1> QED
  BY <1>1, <1>2, <1>3, <1>5 DEF IInv

LEMMA StepInv == IInv /\ [Next]_vars => IInv'
<1> SUFFICES ASSUME IInv, [Next]_vars
             PROVE  IInv'
  OBVIOUS
<1>1. TypeOK /\ Named /\ LateNamed
  BY DEF IInv, HandInv, LateInv, Named, LateNamed, Own
<1>2. TypeOK'
  BY <1>1, StepTypes
<1> QED
  BY <1>2, HandStep, RowStep, LateStep, LockStep, FaultlessStep DEF IInv

LEMMA Invariant == Spec => []IInv
  BY InitInv, StepInv, PTL DEF Spec

-----------------------------------------------------------------------------
(***************************************************************************)
(* Teardowns.                                                              *)
(***************************************************************************)
\* Only a caller that creates adds a droplet of s that is no stray.
Births(s) ==
    \/ \A d \in LiveOf(s)' : d \in LiveOf(s) \/ d \in stray'
    \/ \E c \in Callers : pc[c] = "create" /\ call[c].session = s

LEMMA SteadyBirths ==
    ASSUME AccountOK, NEW s, stray \subseteq stray',
           \A d \in Droplets : Live(d)' => Live(d) /\ owner'[d] = owner[d]
    PROVE  Births(s)
  BY DEF Births, LiveOf

LEMMA BirthStep ==
    ASSUME IInv, TypeOK', OwnersStay, [Next]_vars, NEW s \in Sessions
    PROVE  stray \subseteq stray' /\ Births(s)
<1>0. AccountOK /\ TypeOK /\ HistoryOK
  BY Parts DEF IInv
<1>1. stray \subseteq stray'
  <2>1. ASSUME NEW c \in Callers, NEW q \in Sessions, Calls(c, q)
        PROVE  stray' = stray
    BY <2>1 DEF Calls, EnsureInstance, ForceDestroySessionServer, Begin, historyVars
  <2>2. ASSUME NEW c \in Callers, LockSession(c) \/ Fails(c)
        PROVE  stray' = stray
    BY <2>2 DEF LockSession, Fails, RequestFails, CreateLost, DeleteLost, StoreFails, historyVars
  <2>3. ASSUME NEW c \in Callers, Answers(c)
        PROVE  stray' = stray
    BY <2>3 DEF Answers, EnsureTag, GetDroplet, ListDropletsByTag, RepairTags, CreateDroplet,
         CreateRefused, DeleteStored, DeleteListed, StoreInstance, StoreFailure,
         StoreDestroyed, RejectionEnds, historyVars
  <2>4. Account => stray \subseteq stray'
    BY DEF Account, LateEffect, DropletDeletedByHand, UntaggedByHand, TagDeletedByHand,
         historyVars
  <2>5. Restart \/ (\E q \in Sessions : Condemn(q)) \/ UNCHANGED vars => stray' = stray
    BY DEF Restart, Condemn, vars, historyVars
  <2> QED
    BY <2>1, <2>2, <2>3, <2>4, <2>5 DEF Next
<1>2. CASE UNCHANGED <<state, owner>>
  BY <1>0, <1>1, <1>2, SteadyBirths DEF Live
<1>3. ASSUME NEW d, Dies(d)
      PROVE  Births(s)
  BY <1>0, <1>1, <1>3, SteadyBirths DEF Dies, Live, AccountOK
<1>4. ASSUME NEW c \in Callers, NEW d \in Unborn, pc[c] = "create", Born(d, call[c].session)
      PROVE  Births(s)
  <2>1. \A e \in Droplets : Live(e)' => e = d \/ Live(e)
    BY <1>0, <1>4, BornKeeps, CallFields, Parts
  <2>2. CASE call[c].session = s
    BY <1>4, <2>2 DEF Births
  <2>3. CASE call[c].session # s
    BY <1>0, <1>4, <2>1, <2>3 DEF Births, LiveOf, Born, Live, AccountOK, Unborn
  <2> QED
    BY <2>2, <2>3
<1>5. ASSUME NEW q \in late, NEW d \in Unborn, Born(d, q.session), stray' = stray \cup {d}
      PROVE  Births(s)
  <2>1. q.session \in Sessions
    BY <1>0 DEF HistoryOK, Request
  <2>2. \A e \in Droplets : Live(e)' => e = d \/ Live(e)
    BY <1>0, <1>5, <2>1, BornKeeps
  <2>3. \A e \in Droplets : e # d => owner'[e] = owner[e]
    BY <1>0, <1>5 DEF Born, AccountOK
  <2> QED
    BY <1>5, <2>2, <2>3 DEF Births, LiveOf
<1>6. ASSUME NEW c \in Callers,
             (\E t \in Sessions : Calls(c, t)) \/ LockSession(c) \/ Answers(c) \/ Fails(c)
      PROVE  Births(s)
  <2>1. CASE CreateDroplet(c) \/ CreateLost(c)
    BY <1>2, <1>4, <2>1 DEF CreateDroplet, CreateLost, accountVars
  <2>2. CASE DeleteStored(c) \/ DeleteListed(c) \/ DeleteLost(c)
    BY <1>2, <1>3, <2>2 DEF DeleteStored, DeleteListed, DeleteLost, accountVars
  <2> QED
    BY <1>2, <1>6, <2>1, <2>2
       DEF Calls, EnsureInstance, ForceDestroySessionServer, Begin, LockSession, Answers,
           EnsureTag, GetDroplet, ListDropletsByTag, RepairTags, CreateRefused,
           StoreInstance, StoreFailure, StoreDestroyed, RejectionEnds, Fails, RequestFails,
           StoreFails,
           accountVars
<1>7. CASE Account
  BY <1>2, <1>3, <1>5, <1>7
     DEF Account, LateEffect, DropletDeletedByHand, UntaggedByHand, TagDeletedByHand
<1>8. CASE Restart \/ UNCHANGED vars \/ \E t \in Sessions : Condemn(t)
  BY <1>2, <1>8 DEF Restart, Condemn, vars, accountVars
<1> QED
  BY <1>1, <1>6, <1>7, <1>8 DEF Next

LEMMA TagStep ==
    ASSUME IInv, TeardownInv, TypeOK', [Next]_vars
    PROVE  TagInv'
<1>0. AccountOK /\ TypeOK /\ HistoryOK /\ CallsOK /\ TagInv
  BY Parts DEF IInv, TeardownInv
<1>1. ASSUME stray \subseteq stray',
             \A d \in Droplets : Live(d)' => Live(d) /\ tags[d] \subseteq tags'[d]
      PROVE  TagInv'
  BY <1>0, <1>1 DEF TagInv
<1>2. ASSUME NEW d \in Unborn, NEW t \in Sessions, Born(d, t), stray \subseteq stray'
      PROVE  TagInv'
  BY <1>0, <1>2, BornKeeps DEF TagInv, TagKinds
<1>3. ASSUME NEW d, Dies(d), stray \subseteq stray'
      PROVE  TagInv'
  BY <1>0, <1>1, <1>3 DEF Dies, Live, AccountOK
<1>4. ASSUME NEW c \in Callers,
             (\E s \in Sessions : Calls(c, s)) \/ LockSession(c) \/ Answers(c) \/ Fails(c)
      PROVE  TagInv'
  <2>1. call[c].session \in Sessions
    BY <1>0, CallFields
  <2>2. CASE UNCHANGED <<state, tags, stray>>
    BY <1>1, <2>2 DEF Live
  <2>3. CASE RepairTags(c)
    BY <1>0, <1>1, <2>3 DEF RepairTags, AccountOK, Live
  <2> QED
    BY <1>2, <1>3, <1>4, <2>1, <2>2, <2>3
       DEF Calls, EnsureInstance, ForceDestroySessionServer, Begin, LockSession, Answers,
           EnsureTag, GetDroplet, ListDropletsByTag, CreateDroplet, CreateRefused,
           DeleteStored, DeleteListed, StoreInstance, StoreFailure, StoreDestroyed,
           RejectionEnds, Fails,
           RequestFails, CreateLost, DeleteLost, StoreFails, accountVars, historyVars
<1>5. ASSUME NEW q \in late, LateEffect(q)
      PROVE  TagInv'
  BY <1>0, <1>2, <1>3, <1>5 DEF LateEffect, HistoryOK, Request
<1>6. ASSUME NEW d \in Droplets, DropletDeletedByHand(d)
      PROVE  TagInv'
  BY <1>3, <1>6 DEF DropletDeletedByHand
<1>7. ASSUME NEW d \in Droplets, NEW k \in TagKinds, UntaggedByHand(d, k)
      PROVE  TagInv'
  BY <1>0, <1>7 DEF UntaggedByHand, TagInv, AccountOK, Live
<1>8. ASSUME NEW s \in Sessions, TagDeletedByHand(s)
      PROVE  TagInv'
  BY <1>0, <1>8 DEF TagDeletedByHand, TagInv, AccountOK, LiveOf, Live
<1>9. CASE Restart \/ UNCHANGED vars \/ \E s \in Sessions : Condemn(s)
  BY <1>1, <1>9 DEF Restart, Condemn, vars, accountVars, historyVars, Live
<1> QED
  BY <1>4, <1>5, <1>6, <1>7, <1>8, <1>9 DEF Next, Account

\* What a step makes of a caller: it keeps at its call, possibly to destroy what
\* it has just ensured, or it starts one.
Carries(b) ==
    /\ pc[b] # "idle" /\ call'[b].session = call[b].session
    /\ \/ pc'[b] = "wait" /\ call'[b].op \in Destroying
       \/ /\ call'[b].op = call[b].op
          /\ pc'[b] \in EnsureRequests =>
                pc[b] \in EnsureRequests \/ call[b].op = "ensure"

Joins(b) ==
    LET s == call'[b].session IN
    /\ pc'[b] = "wait" /\ s \in Sessions
    /\ wanted[s] \in {"present", "gone"}
    /\ \A c \in Callers : c # b => pc'[c] = pc[c] /\ call'[c] = call[c]
    /\ \A c \in Callers : pc[c] # "idle" /\ call[c].session = s => s \in overlapped'

Moves(b) == pc'[b] = "idle" \/ Carries(b) \/ Joins(b)

LEMMA StayMoves ==
    ASSUME NEW b, pc'[b] = pc[b], call'[b] = call[b]
    PROVE  Moves(b)
  BY DEF Moves, Carries

LEMMA BeginMoves ==
    ASSUME TypeOK, NEW b \in Callers, NEW s \in Sessions, Calls(b, s)
    PROVE  Joins(b)
<1>1. PICK op \in {"ensure", "destroy"} : Begin(b, s, op) /\ wanted[s] \in {"present", "gone"}
  BY DEF Calls, EnsureInstance, ForceDestroySessionServer
<1>2. call'[b].session = s /\ pc'[b] = "wait"
  BY <1>1 DEF TypeOK, Begin, NoCall, Goto
<1> QED
  BY <1>1, <1>2 DEF TypeOK, Begin, Goto, Joins

LEMMA OwnMoves ==
    ASSUME TypeOK, Named, NEW b \in Callers, LockSession(b) \/ Answers(b) \/ Fails(b)
    PROVE  Moves(b)
<1>0. AccountOK /\ CallsOK
  BY Parts
<1>1. ASSUME pc[b] # "idle", call'[b].session = call[b].session, call'[b].op = call[b].op,
             pc'[b] \in EnsureRequests => pc[b] \in EnsureRequests \/ call[b].op = "ensure"
      PROVE  Moves(b)
  BY <1>1 DEF Moves, Carries
<1>2. ASSUME NEW r, Return(b, r), pc[b] # "idle"
      PROVE  Moves(b)
  BY <1>0, <1>1, <1>2 DEF Return, Goto, EnsureRequests, CallsOK, Call
<1>3. ASSUME NEW w, Continue(b, w), pc[b] # "idle",
             w \in EnsureRequests => pc[b] \in EnsureRequests \/ call[b].op = "ensure"
      PROVE  Moves(b)
  BY <1>0, <1>1, <1>3 DEF Continue, Goto, CallsOK
<1>4. ASSUME NEW d, Take(b, d),
             pc[b] \in EnsureRequests \/ (pc[b] = "list" /\ call[b].op = "ensure")
      PROVE  Moves(b)
  BY <1>0, <1>1, <1>4 DEF Take, Goto, EnsureRequests, CallsOK, Call
<1>5. ASSUME call' = [call EXCEPT ![b].todo = call'[b].todo], pc[b] # "idle",
             pc'[b] \notin EnsureRequests
      PROVE  Moves(b)
  BY <1>0, <1>1, <1>5 DEF CallsOK, Call
<1>6. CASE LockSession(b)
  BY <1>0, <1>1, <1>6 DEF LockSession, FirstRequest, Goto, EnsureRequests, CallsOK
<1>7. CASE EnsureTag(b) \/ GetDroplet(b)
  <2>1. pc[b] \in EnsureRequests /\ pc[b] # "idle"
    BY <1>7 DEF EnsureTag, GetDroplet, EnsureRequests
  <2>2. CASE EnsureTag(b)
    <3>1. PICK w : Continue(b, w)
      BY <2>2 DEF EnsureTag
    <3> QED
      BY <1>3, <2>1, <3>1
  <2>3. CASE GetDroplet(b)
    <3>1. CASE Take(b, call[b].id)
      BY <1>0, <1>1, <2>1, <3>1 DEF Take, Goto, EnsureRequests, CallsOK, Call
    <3>2. CASE Continue(b, "list")
      BY <1>3, <2>1, <3>2
    <3> QED
      BY <2>3, <3>1, <3>2 DEF GetDroplet
  <2> QED
    BY <1>7, <2>2, <2>3
<1>8. CASE ListDropletsByTag(b)
  <2>1. CASE EnsureFromList(b) /\ call[b].op = "ensure"
    BY <1>3, <1>4, <1>8, <2>1 DEF ListDropletsByTag, EnsureFromList, EnsureRequests
  <2>2. CASE DestroyFromList(b)
    <3>1. CASE Return(b, "ok")
      BY <1>2, <1>8, <3>1 DEF ListDropletsByTag
    <3>2. CASE Goto(b, "delete") /\ call' = [call EXCEPT ![b].todo = Tagged(call[b].session)]
      BY <1>0, <1>1, <1>8, <3>2 DEF ListDropletsByTag, Goto, EnsureRequests, CallsOK, Call
    <3> QED
      BY <2>2, <3>1, <3>2 DEF DestroyFromList
  <2> QED
    BY <1>8, <2>1, <2>2 DEF ListDropletsByTag
<1>9. CASE RepairTags(b)
  <2>1. CASE Return(b, "ok") \/ Return(b, "error")
    BY <1>2, <1>9, <2>1 DEF RepairTags
  <2>2. ASSUME NEW k, call' = [call EXCEPT ![b].have = @ \cup {k}], UNCHANGED pc
        PROVE  Moves(b)
    BY <1>0, <1>1, <1>9, <2>2 DEF RepairTags, CallsOK, Call
  <2> QED
    BY <1>9, <2>1, <2>2 DEF RepairTags
<1>10. CASE CreateDroplet(b)
  BY <1>0, <1>1, <1>10 DEF CreateDroplet, Goto, EnsureRequests, CallsOK, Call
<1>11. CASE CreateRefused(b) \/ DeleteStored(b)
  BY <1>2, <1>3, <1>11 DEF CreateRefused, DeleteStored, EnsureRequests
<1>12. CASE DeleteListed(b)
  <2>1. CASE Return(b, "ok")
    BY <1>2, <1>12, <2>1 DEF DeleteListed
  <2>2. ASSUME NEW d, call' = [call EXCEPT ![b].todo = @ \ {d}], UNCHANGED pc
        PROVE  Moves(b)
    BY <1>0, <1>1, <1>12, <2>2 DEF DeleteListed, CallsOK, Call
  <2> QED
    BY <1>12, <2>1, <2>2 DEF DeleteListed
<1>13. CASE StoreInstance(b)
  <2>1. CASE Forget(b)
    BY <1>0, <2>1 DEF Forget, Goto, CallsOK, Moves
  <2>2. CASE /\ Goto(b, "wait")
             /\ call' = [call EXCEPT ![b] = [NoCall(call[b].session) EXCEPT
                                                !.op = "reject", !.id = call[b].id]]
    BY <1>0, <1>13, <2>2 DEF StoreInstance, Goto, NoCall, CallsOK, Moves, Carries
  <2> QED
    BY <1>13, <2>1, <2>2 DEF StoreInstance
<1>14. CASE StoreFailure(b) \/ StoreDestroyed(b) \/ RejectionEnds(b) \/ StoreFails(b)
  BY <1>0, <1>14 DEF StoreFailure, StoreDestroyed, RejectionEnds, StoreFails, Forget, Goto,
                     CallsOK, Moves
<1>15. CASE RequestFails(b) \/ CreateLost(b) \/ DeleteLost(b)
  BY <1>2, <1>15 DEF RequestFails, CreateLost, DeleteLost, Requests
<1> QED
  BY <1>6, <1>7, <1>8, <1>9, <1>10, <1>11, <1>12, <1>13, <1>14, <1>15 DEF Answers, Fails

LEMMA CallersMove ==
    ASSUME IInv, [Next]_vars
    PROVE  overlapped \subseteq overlapped' /\ \A b \in Callers : Moves(b)
<1>0. TypeOK /\ Named
  BY DEF IInv, HandInv, Named
<1>1. overlapped \subseteq overlapped'
  <2>1. ASSUME NEW c \in Callers, NEW s \in Sessions, Calls(c, s)
        PROVE  overlapped \subseteq overlapped'
    BY <2>1 DEF Calls, EnsureInstance, ForceDestroySessionServer, Begin
  <2>2. ASSUME NEW c \in Callers, LockSession(c) \/ Fails(c)
        PROVE  overlapped' = overlapped
    BY <2>2 DEF LockSession, Fails, RequestFails, CreateLost, DeleteLost, StoreFails, rowVars
  <2>3. ASSUME NEW c \in Callers, Answers(c)
        PROVE  overlapped' = overlapped
    BY <2>3 DEF Answers, EnsureTag, GetDroplet, ListDropletsByTag, RepairTags, CreateDroplet,
         CreateRefused, DeleteStored, DeleteListed, StoreInstance, StoreFailure,
         StoreDestroyed, RejectionEnds, rowVars
  <2>4. Account \/ Restart => overlapped' = overlapped
    BY DEF Account, LateEffect, DropletDeletedByHand, UntaggedByHand, TagDeletedByHand,
         Restart, rowVars
  <2>5. \A s \in Sessions : Condemn(s) => overlapped' = overlapped
    BY DEF Condemn
  <2>6. UNCHANGED vars => overlapped' = overlapped
    BY DEF vars, rowVars
  <2> QED
    BY <2>1, <2>2, <2>3, <2>4, <2>5, <2>6 DEF Next
<1>2. ASSUME NEW c \in Callers,
             (\E s \in Sessions : Calls(c, s)) \/ LockSession(c) \/ Answers(c) \/ Fails(c)
      PROVE  \A b \in Callers : Moves(b)
  <2>1. \A b \in Callers : b # c => Moves(b)
    BY <1>2, CallerHand, StayMoves DEF Harmless, Stays
  <2>2. Moves(c)
    BY <1>0, <1>2, BeginMoves, OwnMoves DEF Moves
  <2> QED
    BY <2>1, <2>2
<1>3. CASE Restart
  BY <1>1, <1>3 DEF Restart, Moves
<1>4. CASE Account \/ UNCHANGED vars \/ \E s \in Sessions : Condemn(s)
  <2>1. UNCHANGED <<pc, call>>
    BY <1>4 DEF Account, LateEffect, DropletDeletedByHand, UntaggedByHand, TagDeletedByHand,
                Condemn, vars, callVars
  <2> QED
    BY <1>1, <2>1, StayMoves
<1> QED
  BY <1>1, <1>2, <1>3, <1>4 DEF Next

LEMMA OpStep ==
    ASSUME IInv, OpInv, [Next]_vars
    PROVE  OpInv'
  BY CallersMove DEF OpInv, Moves, Carries, Joins, EnsureRequests

LEMMA SoleStep ==
    ASSUME IInv, SoleInv, [Next]_vars
    PROVE  SoleInv'
<1> SUFFICES ASSUME NEW b \in Callers, NEW c \in Callers, b # c,
                    pc'[b] # "idle", pc'[c] # "idle", call'[b].session = call'[c].session,
                    call'[b].session \notin overlapped'
             PROVE  FALSE
  BY DEF SoleInv
<1>1. ASSUME NEW x \in Callers, NEW y \in Callers, x # y, Joins(x), pc'[y] # "idle",
             call'[x].session = call'[y].session
      PROVE  call'[x].session \in overlapped'
  BY <1>1 DEF Joins
<1>2. ~Joins(b) /\ ~Joins(c)
  BY <1>1
<1>3. Carries(b) /\ Carries(c)
  BY <1>2, CallersMove DEF Moves
<1> QED
  BY <1>3, CallersMove DEF Carries, SoleInv

\* A destruction that has its session to itself sees no droplet born.
LEMMA NoBirthDuring ==
    ASSUME IInv, TeardownInv, TypeOK', OwnersStay, [Next]_vars, NEW c \in Callers,
           NEW s \in Sessions, call[c].session = s, s \notin overlapped,
           pc[c] # "idle", call[c].op \in Destroying
    PROVE  LiveOf(s)' \subseteq LiveOf(s) \cup stray'
<1>1. ~\E b \in Callers : pc[b] = "create" /\ call[b].session = s
  BY DEF TeardownInv, OpInv, SoleInv, EnsureRequests
<1> QED
  BY <1>1, BirthStep DEF Births

\* How a destruction comes to the deletes, and to its end.
Listed(c) ==
    /\ UNCHANGED <<state, owner>>
    /\ \/ pc'[c] = "done" /\ Tagged(call[c].session) = {}
       \/ pc'[c] = "delete" /\ call'[c].todo = Tagged(call[c].session)

Deleted(c) ==
    /\ pc[c] = "delete"
    /\ \E d \in call[c].todo :
        /\ Dies(d)
        /\ \/ pc'[c] = "done" /\ call[c].todo = {d}
           \/ pc'[c] = "delete" /\ call'[c].todo = call[c].todo \ {d}

LEMMA DestroyGoes ==
    ASSUME TypeOK, OpInv, NEW c \in Callers, LockSession(c) \/ Answers(c) \/ Fails(c),
           call[c].op \in Destroying,
           pc'[c] = "delete" \/ (pc'[c] = "done" /\ call'[c].result = "ok")
    PROVE  Listed(c) \/ Deleted(c)
<1>0. CallsOK
  BY Parts
<1>1. ASSUME NEW r, Return(c, r)
      PROVE  pc'[c] = "done" /\ call'[c].result = r
  BY <1>0, <1>1 DEF Return, Goto, CallsOK, Call
<1>2. ASSUME NEW w, Continue(c, w)
      PROVE  pc'[c] = w
  BY <1>0, <1>2 DEF Continue, Goto, CallsOK
<1>3. pc[c] \notin EnsureRequests
  BY DEF OpInv
<1>4. CASE LockSession(c)
  BY <1>0, <1>4 DEF LockSession, FirstRequest, Goto, CallsOK
<1>5. CASE EnsureTag(c) \/ GetDroplet(c) \/ RepairTags(c) \/ CreateDroplet(c)
           \/ CreateRefused(c) \/ CreateLost(c)
  BY <1>3, <1>5 DEF EnsureTag, GetDroplet, RepairTags, CreateDroplet, CreateRefused,
                    CreateLost, EnsureRequests
<1>6. CASE ListDropletsByTag(c)
  <2>1. CASE Return(c, "ok") /\ Tagged(call[c].session) = {}
    BY <1>1, <1>6, <2>1 DEF ListDropletsByTag, Listed, accountVars
  <2>2. CASE Goto(c, "delete") /\ call' = [call EXCEPT ![c].todo = Tagged(call[c].session)]
    BY <1>0, <1>6, <2>2 DEF ListDropletsByTag, Listed, Goto, CallsOK, Call, accountVars
  <2> QED
    BY <1>6, <2>1, <2>2 DEF ListDropletsByTag, DestroyFromList
<1>7. CASE DeleteStored(c)
  BY <1>2, <1>7 DEF DeleteStored
<1>8. CASE DeleteListed(c)
  <2>1. PICK d \in call[c].todo :
            /\ Dies(d)
            /\ IF call[c].todo = {d} THEN Return(c, "ok")
               ELSE call' = [call EXCEPT ![c].todo = @ \ {d}] /\ UNCHANGED <<lock, pc>>
    BY <1>8 DEF DeleteListed
  <2>2. CASE call[c].todo = {d}
    BY <1>1, <1>8, <2>1, <2>2 DEF DeleteListed, Deleted
  <2>3. CASE call[c].todo # {d}
    BY <1>0, <1>8, <2>1, <2>3 DEF DeleteListed, Deleted, CallsOK, Call
  <2> QED
    BY <2>2, <2>3
<1>9. CASE StoreInstance(c) \/ StoreFailure(c)
  BY <1>9 DEF StoreInstance, StoreFailure
<1>10. CASE StoreDestroyed(c) \/ RejectionEnds(c) \/ StoreFails(c)
  BY <1>0, <1>10 DEF StoreDestroyed, RejectionEnds, StoreFails, Forget, Goto, CallsOK
<1>11. CASE RequestFails(c) \/ DeleteLost(c)
  BY <1>1, <1>11 DEF RequestFails, DeleteLost
<1> QED
  BY <1>4, <1>5, <1>6, <1>7, <1>8, <1>9, <1>10, <1>11 DEF Answers, Fails

LEMMA DestroyStep ==
    ASSUME IInv, TeardownInv, TypeOK', OwnersStay, [Next]_vars, NEW c \in Callers
    PROVE  DestroyInv(c)'
<1> SUFFICES ASSUME NEW s \in Sessions, call'[c].op \in Destroying, call'[c].session = s,
                    s \notin overlapped'
             PROVE  Cleared(c, s)'
  BY DEF DestroyInv
<1> SUFFICES ASSUME pc'[c] = "delete" \/ (pc'[c] = "done" /\ call'[c].result = "ok")
             PROVE  Cleared(c, s)'
  BY DEF Cleared
<1>0. TypeOK /\ AccountOK /\ OpInv /\ TagInv /\ DestroyInv(c)
  BY Parts DEF IInv, TeardownInv
<1>1. /\ pc[c] # "idle" /\ call[c].session = s /\ call[c].op \in Destroying
      /\ s \notin overlapped
  BY CallersMove DEF Moves, Joins, Carries
<1>2. stray \subseteq stray' /\ LiveOf(s)' \subseteq LiveOf(s) \cup stray'
  BY <1>1, BirthStep, NoBirthDuring
<1>3. CASE pc'[c] = pc[c] /\ call'[c] = call[c]
  BY <1>0, <1>1, <1>2, <1>3 DEF DestroyInv, Cleared
<1>4. CASE Listed(c)
  <2>1. LiveOf(s)' = LiveOf(s)
    BY <1>4 DEF Listed, LiveOf, Live
  <2>2. LiveOf(s) \subseteq stray \cup Tagged(s)
    BY <1>0 DEF TagInv, LiveOf, Tagged
  <2> QED
    BY <1>1, <1>2, <1>4, <2>1, <2>2 DEF Listed, Cleared
<1>5. CASE Deleted(c)
  <2>1. PICK d \in call[c].todo :
            /\ Dies(d)
            /\ \/ pc'[c] = "done" /\ call[c].todo = {d}
               \/ pc'[c] = "delete" /\ call'[c].todo = call[c].todo \ {d}
    BY <1>5 DEF Deleted
  <2>2. d \notin LiveOf(s)'
    BY <1>0, <2>1 DEF Dies, LiveOf, Live, AccountOK
  <2>3. LiveOf(s) \subseteq stray \cup call[c].todo
    BY <1>0, <1>1, <1>5 DEF Deleted, DestroyInv, Cleared
  <2> QED
    BY <1>2, <2>1, <2>2, <2>3 DEF Cleared
<1>6. ASSUME NEW b \in Callers,
             (\E t \in Sessions : Calls(b, t)) \/ LockSession(b) \/ Answers(b) \/ Fails(b)
      PROVE  (pc'[c] = pc[c] /\ call'[c] = call[c]) \/ Listed(c) \/ Deleted(c)
  <2>1. CASE b # c
    BY <1>6, <2>1, CallerHand DEF Harmless, Stays
  <2>2. CASE b = c
    BY <1>0, <1>1, <1>6, <2>2, DestroyGoes
       DEF Calls, EnsureInstance, ForceDestroySessionServer, Begin
  <2> QED
    BY <2>1, <2>2
<1>7. CASE Restart
  BY <1>7 DEF Restart
<1>8. CASE Account \/ UNCHANGED vars \/ \E t \in Sessions : Condemn(t)
  BY <1>3, <1>8 DEF Account, LateEffect, DropletDeletedByHand, UntaggedByHand,
                    TagDeletedByHand, Condemn, vars, callVars
<1> QED
  BY <1>3, <1>4, <1>5, <1>6, <1>7, <1>8 DEF Next

\* A session that has just been marked as destroyed was destroyed by its one call.
LEMMA JustRemoved ==
    ASSUME IInv, TeardownInv, [Next]_vars, NEW s \in Sessions, s \notin overlapped',
           wanted[s] # "removed", wanted'[s] = "removed"
    PROVE  /\ LiveOf(s)' \subseteq stray'
           /\ \A c \in Callers : pc'[c] # "idle" => call'[c].session # s
<1>0. TypeOK /\ CallsOK /\ SoleInv
  BY Parts DEF IInv, TeardownInv
<1>1. PICK c \in Callers : StoreDestroyed(c)
  <2>1. ASSUME NEW c \in Callers, StoreFailure(c)
        PROVE  FALSE
    BY <1>0, <2>1 DEF StoreFailure, TypeOK
  <2>2. ASSUME NEW t \in Sessions, Condemn(t)
        PROVE  FALSE
    BY <1>0, <2>2 DEF Condemn, TypeOK
  <2>3. wanted' # wanted
    OBVIOUS
  <2> QED
    BY <2>1, <2>2, <2>3, RowsStay DEF StoreInstance
<1>2. /\ call[c].session = s /\ pc[c] = "done" /\ call[c].op = "destroy"
      /\ call[c].result = "ok" /\ s \notin overlapped
  BY <1>0, <1>1 DEF StoreDestroyed, TypeOK
<1>3. LiveOf(s) \subseteq stray
  BY <1>2 DEF TeardownInv, DestroyInv, Cleared
<1>4. LiveOf(s)' \subseteq stray'
  BY <1>1, <1>3 DEF StoreDestroyed, accountVars, LiveOf, Live
<1>5. \A b \in Callers : b # c /\ pc[b] # "idle" => call[b].session # s
  BY <1>0, <1>2 DEF SoleInv
<1>6. \A b \in Callers : b # c => pc'[b] = pc[b] /\ call'[b] = call[b]
  BY <1>1, CallerHand DEF Answers, Harmless, Stays
<1>7. pc'[c] = "idle"
  BY <1>0, <1>1 DEF StoreDestroyed, Forget, Goto, CallsOK
<1> QED
  BY <1>4, <1>5, <1>6, <1>7

LEMMA RemovedStep ==
    ASSUME IInv, TeardownInv, TypeOK', OwnersStay, [Next]_vars, NEW s \in Sessions
    PROVE  RemovedInv(s)'
<1> SUFFICES ASSUME s \notin overlapped', wanted'[s] = "removed"
             PROVE  /\ LiveOf(s)' \subseteq stray'
                    /\ \A c \in Callers : pc'[c] # "idle" /\ call'[c].session = s =>
                          call'[c].op \in Destroying
  BY DEF RemovedInv
<1>1. CASE wanted[s] # "removed"
  BY <1>1, JustRemoved
<1>2. CASE wanted[s] = "removed"
  <2>1. /\ s \notin overlapped /\ LiveOf(s) \subseteq stray
        /\ \A c \in Callers : pc[c] # "idle" /\ call[c].session = s => call[c].op \in Destroying
    BY <1>2, CallersMove DEF TeardownInv, RemovedInv
  <2>2. ~\E c \in Callers : pc[c] = "create" /\ call[c].session = s
    BY <2>1 DEF TeardownInv, OpInv, EnsureRequests
  <2>3. LiveOf(s)' \subseteq stray'
    BY <2>1, <2>2, BirthStep DEF Births
  <2>4. ASSUME NEW c \in Callers, pc'[c] # "idle", call'[c].session = s
        PROVE  call'[c].op \in Destroying
    BY <1>2, <2>1, <2>4, CallersMove DEF Moves, Joins, Carries
  <2> QED
    BY <2>3, <2>4
<1> QED
  BY <1>1, <1>2

LEMMA TeardownInit == Init => TeardownInv
<1> SUFFICES ASSUME Init
             PROVE  TeardownInv
  OBVIOUS
<1>1. OpInv /\ SoleInv
  BY DEF Init, OpInv, SoleInv, EnsureRequests
<1>2. TagInv
  BY DEF Init, TagInv, Live
<1>3. \A c \in Callers : DestroyInv(c)
  BY DEF Init, DestroyInv, Cleared
<1>4. \A s \in Sessions : RemovedInv(s)
  BY DEF Init, RemovedInv
<1> QED
  BY <1>1, <1>2, <1>3, <1>4 DEF TeardownInv

LEMMA TeardownStep == IInv /\ IInv' /\ TeardownInv /\ [Next]_vars => TeardownInv'
<1> SUFFICES ASSUME IInv, IInv', TeardownInv, [Next]_vars
             PROVE  TeardownInv'
  OBVIOUS
<1>1. TypeOK' /\ OwnersStay
  BY HandStep DEF IInv
<1> QED
  BY <1>1, OpStep, SoleStep, TagStep, DestroyStep, RemovedStep DEF TeardownInv

-----------------------------------------------------------------------------
\* The variables keep their types.
THEOREM TypeCorrect == Spec => []TypeOK
<1>1. IInv => TypeOK
  BY DEF IInv
<1> QED
  BY <1>1, Invariant, PTL

\* EnsureInstance reports a live droplet of the session with both tags, however
\* many calls, restarts and failures there are, unless somebody else changed the
\* session's droplets meanwhile (digitalocean.go, ensureDroplet and repairTags).
THEOREM EnsureIsTrue == Spec => []EnsureTruth
<1>1. IInv => EnsureTruth
  BY DEF IInv, HandInv, EnsureTruth, LiveOf, Live, Own
<1> QED
  BY <1>1, Invariant, PTL

\* As long as nothing fails, a session has at most one droplet, however many
\* callers wait for its lock with rows read before (digitalocean.go, lockSession).
THEOREM OneDropletAlways == Spec => []OneDropletPerSession
<1>1. IInv => OneDropletPerSession
  <2> SUFFICES ASSUME IInv, faults = 0, NEW s \in Sessions
               PROVE  Cardinality(LiveOf(s)) <= 1
    BY DEF OneDropletPerSession
  <2>1. \A d, e \in LiveOf(s) : d = e
    BY DEF IInv, FaultlessInv, LiveOf
  <2>2. CASE LiveOf(s) = {}
    <3>1. Cardinality({}) = 0
      BY FS_EmptySet
    <3> QED
      BY <2>2, <3>1
  <2>3. ASSUME NEW d \in LiveOf(s)
        PROVE  Cardinality(LiveOf(s)) <= 1
    <3>1. LiveOf(s) = {d}
      BY <2>1
    <3>2. Cardinality({d}) = 1
      BY FS_Singleton
    <3> QED
      BY <3>1, <3>2
  <2> QED
    BY <2>2, <2>3
<1> QED
  BY <1>1, Invariant, PTL

\* Whatever requests failed or were lost and however often the process started
\* again, a session marked as destroyed has no live droplet left but those born
\* late or untagged by hand, if its calls never ran two at a time
\* (digitalocean.go, forceDestroy; reconciler.go, MarkForceDestroyed).
THEOREM RemovedIsAlwaysClean == Spec => []RemovedIsClean
<1>1. TeardownInv => RemovedIsClean
  BY DEF TeardownInv, RemovedInv, RemovedIsClean
<1>2. Spec => []TeardownInv
  BY Invariant, TeardownInit, TeardownStep, PTL DEF Spec
<1> QED
  BY <1>1, <1>2, PTL
=============================================================================
