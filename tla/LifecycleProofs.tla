-------------------------- MODULE LifecycleProofs --------------------------
(***************************************************************************)
(* More theorems about Reconciler: what holds when reconciler loops        *)
(* overlap, and that a single loop implements SessionLifecycle.            *)
(***************************************************************************)
EXTENDS ReconcilerProofs

-----------------------------------------------------------------------------
(***************************************************************************)
(* The row of an ended session, however many loops run.                    *)
(***************************************************************************)

RowKept(s) ==
    /\ status'[s] = status[s]
    /\ instanceID'[s] = instanceID[s] /\ publicIP'[s] = publicIP[s]
    /\ dnsRecordID'[s] = dnsRecordID[s]
    /\ lastErrorPhase'[s] = lastErrorPhase[s]
    /\ lastEvent'[s] = lastEvent[s]

\* The repository's writes change one row only, and never an ended one.
LEMMA TransitionKeeps ==
    ASSUME StoreTypeOK, NEW s \in Sessions, NEW t \in Sessions, t # s,
           NEW new, NEW phase, NEW event, Transition(t, new, phase, event)
    PROVE  RowKept(s)
  BY DEF Transition, SetStatus, SetError, Record, RowKept, StoreTypeOK

LEMMA StatusWritesKeep ==
    ASSUME StoreTypeOK, NEW s \in Sessions, status[s] = "ended",
           NEW t \in Sessions,
           \/ CreateSession(t) \/ MarkProvisioningStarted(t)
           \/ MarkProvisioningFailed(t) \/ MarkForceDestroyStarted(t)
           \/ MarkForceDestroyed(t) \/ MarkForceDestroyFailed(t)
    PROVE  RowKept(s)
<1>1. \/ UNCHANGED storeVars
      \/ /\ status[t] # "ended"
         /\ \E new, phase, event : Transition(t, new, phase, event)
  BY DEF CreateSession, MarkProvisioningStarted, MarkProvisioningFailed,
     MarkForceDestroyStarted, MarkForceDestroyed, MarkForceDestroyFailed
<1>2. CASE UNCHANGED storeVars
  BY <1>2 DEF storeVars, RowKept
<1> QED
  BY <1>1, <1>2, TransitionKeeps

LEMMA AssignInstanceKeeps ==
    ASSUME StoreTypeOK, NEW s \in Sessions, status[s] = "ended",
           NEW t \in Sessions, NEW d, NEW ip, NEW adopted,
           AssignInstance(t, d, ip, adopted)
    PROVE  RowKept(s)
<1>1. \/ UNCHANGED storeVars
      \/ /\ t # s /\ Place(t, d, ip)
         /\ \E event : Record(t, event)
         /\ UNCHANGED <<status, dnsRecordID, lastErrorPhase>>
      \/ /\ t # s /\ Place(t, d, ip)
         /\ \E event : Record(t, event)
         /\ \E new : SetStatus(t, new)
         /\ SetError(t, "none") /\ UNCHANGED dnsRecordID
  BY DEF AssignInstance
<1>2. CASE UNCHANGED storeVars
  BY <1>2 DEF storeVars, RowKept
<1> QED
  BY <1>1, <1>2 DEF Place, Record, SetStatus, SetError, RowKept, StoreTypeOK

LEMMA DNSWritesKeep ==
    ASSUME StoreTypeOK, NEW s \in Sessions, status[s] = "ended",
           NEW t \in Sessions, NEW id, NEW operation,
           \/ MarkDNSConfigured(t, id, operation)
           \/ MarkDNSFailed(t) \/ MarkDNSDeleted(t)
    PROVE  RowKept(s)
<1>1. CASE UNCHANGED storeVars
  BY <1>1 DEF storeVars, RowKept
<1>2. ASSUME ~UNCHANGED storeVars
      PROVE  t # s
  BY <1>2 DEF MarkDNSConfigured, MarkDNSFailed, MarkDNSDeleted, DNSStatuses
<1> QED
  BY <1>1, <1>2 DEF MarkDNSConfigured, MarkDNSFailed, MarkDNSDeleted, Record,
     SetError, RowKept, StoreTypeOK

LEMMA EndedKept ==
    ASSUME TypeOK, [Next]_vars, NEW s \in Sessions, status[s] = "ended"
    PROVE  RowKept(s)
<1>0. StoreTypeOK
  BY DEF TypeOK
<1>1. CASE UNCHANGED storeVars
  BY <1>1 DEF storeVars, RowKept
<1>2. ASSUME NEW l \in Loops, LoopStep(l) \/ Crash(l)
      PROVE  RowKept(s)
  <2>1. \A r \in batch[l] : r.session \in Sessions
    BY DEF TypeOK, LoopTypeOK, Row
  <2>2. pc[l] \in WritePCs => job[l].session \in Sessions
    BY DEF TypeOK, LoopTypeOK
  <2>3. CASE Provisions(l)
    <3>1. CASE Claim(l)
      BY <1>0, <2>1, <3>1, StatusWritesKeep DEF Claim
    <3>2. CASE WriteProvisioningFailed(l)
      BY <1>0, <2>2, <3>2, StatusWritesKeep DEF WriteProvisioningFailed, WritePCs
    <3>3. CASE WriteAssignment(l) \/ AssignmentRejected(l)
      BY <1>0, <2>2, <3>3, AssignInstanceKeeps
      DEF WriteAssignment, AssignmentRejected, WritePCs
    <3>4. CASE \/ ClaimFails(l) \/ EnsureInstanceAdopts(l)
               \/ EnsureInstanceCreates(l) \/ EnsureInstanceFails(l)
               \/ EnsureInstanceRefused(l) \/ DestroyRejected(l)
      BY <1>1, <3>4 DEF ClaimFails, EnsureInstanceAdopts,
         EnsureInstanceCreates, EnsureInstanceFails, EnsureInstanceRefused,
         DestroyRejected
    <3> QED
      BY <2>3, <3>1, <3>2, <3>3, <3>4 DEF Provisions
  <2>4. CASE TearsDown(l)
    <3>1. CASE WriteDestroyed(l) \/ WriteDestroyFailed(l)
      BY <1>0, <2>2, <3>1, StatusWritesKeep
      DEF WriteDestroyed, WriteDestroyFailed, WritePCs
    <3>2. CASE WriteDNSDeleteFailed(l) \/ WriteDNSDeleted(l)
      BY <1>0, <2>2, <3>2, DNSWritesKeep
      DEF WriteDNSDeleteFailed, WriteDNSDeleted, WritePCs
    <3>3. CASE \/ DeleteRecord(l) \/ DeleteRecordFails(l) \/ DestroyServer(l)
               \/ DestroyServerFails(l)
      BY <1>1, <3>3 DEF DeleteRecord, DeleteRecordFails, DestroyServer,
         DestroyServerFails
    <3> QED
      BY <2>4, <3>1, <3>2, <3>3 DEF TearsDown
  <2>5. CASE Names(l)
    <3>1. CASE WriteDNSConfigured(l) \/ WriteDNSFailed(l)
      BY <1>0, <2>2, <3>1, DNSWritesKeep
      DEF WriteDNSConfigured, WriteDNSFailed, WritePCs
    <3> QED
      BY <1>1, <2>5, <3>1 DEF Names, EnsureARecord, EnsureARecordFails
  <2>6. CASE Lists(l) \/ WriteFails(l) \/ Crash(l)
    BY <1>1, <2>6 DEF Lists, ListCreated, ListProvisioning, ListDNS,
       ListTearingDown, EndStep, ListFails, WriteFails, Crash
  <2> QED
    BY <1>2, <2>3, <2>4, <2>5, <2>6 DEF LoopStep
<1>3. CASE Admin
  BY <1>0, <1>3, StatusWritesKeep DEF Admin, AdminCreates, AdminForceDestroys
<1>4. CASE Accounts \/ UNCHANGED vars
  BY <1>1, <1>4 DEF Accounts, AddressArrives, DropletLost, RecordDrifts, vars
<1> QED
  BY <1>2, <1>3, <1>4 DEF Next

\* However many loops run and however late their results arrive, the row of an
\* ended session never changes again (the status guards in the WHERE clauses
\* of repository.go).
THEOREM EndedRowIsFrozen == Spec => EndedIsFrozen
<1>1. TypeOK /\ [Next]_vars =>
        [\A s \in Sessions : status[s] = "ended" =>
            /\ status'[s] = "ended"
            /\ instanceID'[s] = instanceID[s] /\ publicIP'[s] = publicIP[s]
            /\ dnsRecordID'[s] = dnsRecordID[s]
            /\ lastErrorPhase'[s] = lastErrorPhase[s]
            /\ lastEvent'[s] = lastEvent[s]]_vars
  BY EndedKept DEF RowKept
<1> QED
  BY <1>1, TypeCorrect, PTL DEF Spec, EndedIsFrozen

-----------------------------------------------------------------------------
(***************************************************************************)
(* Two loops overlap and nothing fails: where a server goes that is        *)
(* created while its session is torn down.                                 *)
(***************************************************************************)
TwoLoops == \A k, l, m \in Loops : k = l \/ l = m \/ k = m

\* Without failures, a teardown is not given up and what is being torn down
\* can only end.
TearingDown ==
    \A l \in Loops :
        /\ pc[l] \in TeardownPCs =>
            /\ pc[l] \notin {"dns_delete_failed", "destroy_failed"}
            /\ status[job[l].session] \in {"tearing_down", "ended"}
        /\ pc[l] \in TeardownPCs \cup {"teardown"} => \A r \in batch[l] :
                status[r.session] \in {"tearing_down", "ended"}

\* A teardown of s has found nothing more to destroy.
Emptied(s) == \/ status[s] = "ended"
              \/ \E l \in Loops : pc[l] = "destroyed" /\ job[l].session = s

InHand(l, d) == pc[l] \in {"assign", "reject"} /\ job[l].instance = d

\* Loop l can still write another instance into the row of s.
MayPlace(l, s) ==
    /\ pc[l] \in ProvisionPCs \cup {"reject"}
    /\ \/ pc[l] = "assign" /\ job[l].session = s
       \/ \E r \in batch[l] : r.session = s

Stored(s, d) ==
    /\ instanceID[s] = d
    /\ status[s] # "ended" => \A l \in Loops : ~MayPlace(l, s)

Traced ==
    \A s \in Sessions : Emptied(s) => \A d \in LiveOf(s) :
        Stored(s, d) \/ \E l \in Loops : InHand(l, d)

TracedInv == /\ OwnInv /\ RowsDistinct
             /\ faults = 0 => TearingDown /\ Traced

LEMMA FaultsStep ==
    ASSUME TypeOK, [Next]_vars, faults' = 0
    PROVE  faults = 0 /\ ~Fault
<1>1. faults \in Nat
  BY MaxFaultsAssumption DEF TypeOK
<1>2. ~Fault
  BY <1>1 DEF Fault
<1>3. ASSUME NEW l \in Loops, LoopStep(l) \/ Crash(l)
      PROVE  UNCHANGED faults \/ Fault
  <2>1. CASE Lists(l)
    BY <2>1 DEF Lists, ListCreated, ListProvisioning, ListDNS,
       ListTearingDown, EndStep, ListFails
  <2>2. CASE Provisions(l)
    BY <2>2 DEF Provisions, Claim, ClaimFails, EnsureInstanceAdopts,
       EnsureInstanceCreates, EnsureInstanceFails, EnsureInstanceRefused,
       WriteProvisioningFailed, WriteAssignment, AssignmentRejected,
       DestroyRejected
  <2>3. CASE Names(l) \/ TearsDown(l)
    BY <2>3 DEF Names, EnsureARecord, EnsureARecordFails, WriteDNSConfigured,
       WriteDNSFailed, TearsDown, DeleteRecord, DeleteRecordFails,
       WriteDNSDeleteFailed, WriteDNSDeleted, DestroyServer,
       DestroyServerFails, WriteDestroyed, WriteDestroyFailed
  <2>4. CASE WriteFails(l) \/ Crash(l)
    BY <2>4 DEF WriteFails, Crash
  <2> QED
    BY <1>3, <2>1, <2>2, <2>3, <2>4 DEF LoopStep
<1>4. Admin \/ Accounts \/ UNCHANGED vars => UNCHANGED faults \/ Fault
  BY DEF Admin, AdminCreates, AdminForceDestroys, Accounts, AddressArrives,
     DropletLost, RecordDrifts, vars
<1> QED
  BY <1>2, <1>3, <1>4 DEF Next

\* A loop that gives up a teardown has met a failure.
LEMMA GivesUpStep ==
    ASSUME TypeOK, [Next]_vars, ~Fault, NEW l \in Loops,
           pc'[l] \in {"dns_delete_failed", "destroy_failed"}
    PROVE  pc'[l] = pc[l] /\ job'[l] = job[l]
<1>1. ASSUME NEW r, NEW where, NEW result, Keep(l, r, where, result)
      PROVE  pc'[l] = where
  BY <1>1 DEF Keep, Goto, TypeOK, LoopTypeOK
<1>2. ASSUME NEW where, Goto(l, where)
      PROVE  pc'[l] = where
  BY <1>2 DEF Goto, TypeOK, LoopTypeOK
<1>3. ~Lists(l)
  BY <1>2 DEF Lists, ListCreated, ListProvisioning, ListDNS, ListTearingDown,
     EndStep, ListFails, EnterPhase
<1>4. ASSUME Provisions(l) PROVE pc'[l] = pc[l] /\ job'[l] = job[l]
  BY <1>1, <1>2, <1>4 DEF Provisions, Claim, ClaimFails, EnsureInstanceAdopts,
     EnsureInstanceCreates, EnsureInstanceFails, EnsureInstanceRefused,
     WriteProvisioningFailed, WriteAssignment, AssignmentRejected,
     DestroyRejected, Finish
<1>5. ~Names(l)
  BY <1>1, <1>2 DEF Names, EnsureARecord, EnsureARecordFails,
     WriteDNSConfigured, WriteDNSFailed, Finish
<1>6. ~TearsDown(l)
  BY <1>1, <1>2 DEF TearsDown, DeleteRecord, DeleteRecordFails,
     WriteDNSDeleteFailed, WriteDNSDeleted, DestroyServer, DestroyServerFails,
     WriteDestroyed, WriteDestroyFailed, Finish
<1>7. ~WriteFails(l) /\ ~Crash(l)
  BY DEF WriteFails, Crash
<1>8. ASSUME NEW m \in Loops, m # l, LoopStep(m) \/ Crash(m)
      PROVE  pc'[l] = pc[l] /\ job'[l] = job[l]
  BY <1>8, OthersStay
<1>9. Admin \/ Accounts \/ UNCHANGED vars => UNCHANGED loopVars
  BY DEF Admin, AdminCreates, AdminForceDestroys, Accounts, AddressArrives,
     DropletLost, RecordDrifts, vars
<1> QED
  BY <1>3, <1>4, <1>5, <1>6, <1>7, <1>8, <1>9 DEF Next, LoopStep, loopVars

\* What becomes of an instance in hand when nothing fails.
LEMMA HandStep ==
    ASSUME TypeOK, [Next]_vars, ~Fault, NEW l \in Loops,
           pc[l] \in {"assign", "reject"}
    PROVE  \/ pc'[l] \in {"assign", "reject"} /\ job'[l] = job[l]
           \/ pc[l] = "assign" /\ WriteAssignment(l)
           \/ pc[l] = "reject" /\ DestroyDroplets(DestroyTargets(l))
<1>1. CASE LoopStep(l) \/ Crash(l)
  <2>1. ~Lists(l) /\ ~Names(l) /\ ~TearsDown(l) /\ ~WriteFails(l) /\ ~Crash(l)
    BY DEF Lists, ListCreated, ListProvisioning, ListDNS, ListTearingDown,
       EndStep, ListFails, Names, EnsureARecord, EnsureARecordFails,
       WriteDNSConfigured, WriteDNSFailed, TearsDown, DeleteRecord,
       DeleteRecordFails, WriteDNSDeleteFailed, WriteDNSDeleted, DestroyServer,
       DestroyServerFails, WriteDestroyed, WriteDestroyFailed, WriteFails, Crash
  <2>2. WriteAssignment(l) \/ AssignmentRejected(l) \/ DestroyRejected(l)
    BY <1>1, <2>1 DEF LoopStep, Provisions, Claim, ClaimFails,
       EnsureInstanceAdopts, EnsureInstanceCreates, EnsureInstanceFails,
       EnsureInstanceRefused, WriteProvisioningFailed
  <2>3. AssignmentRejected(l) => pc'[l] = "reject" /\ job'[l] = job[l]
    BY DEF AssignmentRejected, Goto, TypeOK, LoopTypeOK
  <2> QED
    BY <2>2, <2>3 DEF WriteAssignment, DestroyRejected
<1>2. ASSUME NEW m \in Loops, m # l, LoopStep(m) \/ Crash(m)
      PROVE  pc'[l] = pc[l] /\ job'[l] = job[l]
  BY <1>2, OthersStay
<1>3. Admin \/ Accounts \/ UNCHANGED vars => UNCHANGED loopVars
  BY DEF Admin, AdminCreates, AdminForceDestroys, Accounts, AddressArrives,
     DropletLost, RecordDrifts, vars
<1> QED
  BY <1>1, <1>2, <1>3 DEF Next, loopVars

\* A droplet that is created without a failure is in the hand of its loop.
LEMMA BirthStep ==
    ASSUME OwnInv, [Next]_vars, ~Fault, NEW d \in Droplets,
           dropletState[d] # "live", dropletState'[d] = "live"
    PROVE  \E l \in Loops : pc'[l] = "assign" /\ job'[l].instance = d
<1>0. TypeOK
  BY DEF OwnInv
<1>1. ~UNCHANGED providerVars
  BY DEF providerVars
<1>2. ASSUME NEW l \in Loops, EnsureInstanceCreates(l)
      PROVE  pc'[l] = "assign" /\ job'[l].instance = d
  <2>1. PICK r \in batch[l], e \in Unborn :
            /\ CreateDroplet(e, r.session)
            /\ Keep(l, r, "assign", InstanceJob(r, e, addressed', "created"))
    BY <1>2 DEF EnsureInstanceCreates
  <2>2. e = d
    BY <1>0, <2>1 DEF CreateDroplet, TypeOK, ProviderTypeOK
  <2>3. pc'[l] = "assign" /\ job'[l] = InstanceJob(r, e, addressed', "created")
    BY <1>0, <2>1 DEF Keep, Goto, TypeOK, LoopTypeOK
  <2> QED
    BY <2>2, <2>3 DEF InstanceJob
<1>3. ASSUME NEW l \in Loops, LoopStep(l) \/ Crash(l)
      PROVE  EnsureInstanceCreates(l)
  <2>1. ~DestroyRejected(l) /\ ~DestroyServer(l)
    BY <1>0 DEF DestroyRejected, DestroyServer, DestroyDroplets, TypeOK,
       ProviderTypeOK
  <2>2. ~Lists(l) /\ ~WriteFails(l) /\ ~Crash(l)
    BY <1>1 DEF Lists, ListCreated, ListProvisioning, ListDNS,
       ListTearingDown, EndStep, ListFails, WriteFails, Crash
  <2>3. ~Names(l)
    BY <1>1 DEF Names, EnsureARecord, EnsureARecordFails, WriteDNSConfigured,
       WriteDNSFailed
  <2>4. ~TearsDown(l)
    BY <1>1, <2>1 DEF TearsDown, DeleteRecord, DeleteRecordFails,
       WriteDNSDeleteFailed, WriteDNSDeleted, DestroyServerFails,
       WriteDestroyed, WriteDestroyFailed
  <2>5. Provisions(l) => EnsureInstanceCreates(l)
    BY <1>1, <2>1 DEF Provisions, Claim, ClaimFails, EnsureInstanceAdopts,
       EnsureInstanceFails, EnsureInstanceRefused, WriteProvisioningFailed,
       WriteAssignment, AssignmentRejected
  <2> QED
    BY <1>3, <2>2, <2>3, <2>4, <2>5 DEF LoopStep
<1>4. ~Admin /\ ~UNCHANGED vars
  BY <1>1 DEF Admin, AdminCreates, AdminForceDestroys, vars
<1>5. ~Accounts
  BY <1>0, <1>1 DEF Accounts, AddressArrives, DropletLost, RecordDrifts
<1> QED
  BY <1>2, <1>3, <1>4, <1>5 DEF Next

LEMMA TearingDownStays ==
    ASSUME TypeOK, TearingDown, [Next]_vars, NEW s \in Sessions,
           status[s] \in {"tearing_down", "ended"}
    PROVE  status'[s] \in {"tearing_down", "ended"}
  BY StatusStep DEF StatusMove, TearingDown, TeardownPCs

LEMMA TearingDownStep ==
    ASSUME TypeOK, RowsDistinct, TearingDown, [Next]_vars, ~Fault
    PROVE  TearingDown'
<1> SUFFICES ASSUME NEW l \in Loops
             PROVE  /\ pc'[l] \in TeardownPCs =>
                        /\ pc'[l] \notin {"dns_delete_failed", "destroy_failed"}
                        /\ status'[job'[l].session] \in {"tearing_down", "ended"}
                    /\ pc'[l] \in TeardownPCs \cup {"teardown"} =>
                        \A r \in batch'[l] :
                            status'[r.session] \in {"tearing_down", "ended"}
  BY DEF TearingDown
<1>1. pc'[l] \notin {"dns_delete_failed", "destroy_failed"}
  BY GivesUpStep DEF TearingDown, TeardownPCs
<1>2. pc[l] \in TeardownPCs => job[l].session \in Sessions
  BY DEF TypeOK, LoopTypeOK, TeardownPCs, CallPCs, WritePCs
<1>3. \A r \in batch[l] : r.session \in Sessions
  BY DEF TypeOK, LoopTypeOK, Row
<1>4. /\ pc[l] \in TeardownPCs =>
            status'[job[l].session] \in {"tearing_down", "ended"}
      /\ pc[l] \in TeardownPCs \cup {"teardown"} => \A r \in batch[l] :
            status'[r.session] \in {"tearing_down", "ended"}
  BY <1>2, <1>3, TearingDownStays DEF TearingDown
<1>5. CASE pc'[l] = pc[l] /\ batch'[l] = batch[l] /\ job'[l] = job[l]
  BY <1>1, <1>4, <1>5
<1>6. CASE Rests(l)
  BY <1>6 DEF Rests, PhasePCs, TeardownPCs
<1>7. CASE \/ Enters(l, "claim", WithStatus("created"))
           \/ Enters(l, "provision", WithStatus("provisioning"))
           \/ Enters(l, "dns", DNSCandidates)
  BY <1>7 DEF Enters, TeardownPCs
<1>8. CASE Enters(l, "teardown", WithStatus("tearing_down"))
  BY <1>8, SnapshotRows DEF Enters, WithStatus, TeardownPCs, storeVars
<1>9. CASE Claims(l)
  BY <1>9 DEF Claims, TeardownPCs
<1>10. ASSUME NEW r \in batch[l], Keeps(l, r)
       PROVE  /\ pc'[l] \in TeardownPCs =>
                    status'[job'[l].session] \in {"tearing_down", "ended"}
              /\ pc'[l] \in TeardownPCs \cup {"teardown"} =>
                    \A q \in batch'[l] :
                        status'[q.session] \in {"tearing_down", "ended"}
  BY <1>4, <1>10 DEF Keeps, TeardownPCs
<1>11. CASE Finishes(l)
  BY <1>4, <1>11 DEF Finishes, TeardownPCs
<1>12. CASE Continues(l)
  BY <1>1, <1>4, <1>12 DEF Continues, TeardownPCs
<1> QED
  BY <1>1, <1>5, <1>6, <1>7, <1>8, <1>9, <1>10, <1>11, <1>12, LoopMoves
  DEF LoopMove

\* A teardown that has emptied a session is over, or has just emptied it.
LEMMA EmptiedStep ==
    ASSUME TypeOK, RowsDistinct, [Next]_vars, NEW s \in Sessions, Emptied(s)',
           LiveOf(s)' # {}
    PROVE  Emptied(s)
<1>1. CASE status'[s] = "ended"
  BY <1>1, StatusStep DEF Emptied, StatusMove
<1>2. ASSUME NEW l \in Loops, pc'[l] = "destroyed", job'[l].session = s
      PROVE  Emptied(s)
  <2>1. pc[l] = "destroyed" /\ job[l].session = s
    BY <1>2, LoopMoves DEF LoopMove, Rests, Enters, Claims, Keeps, Finishes,
       Continues, PhasePCs
  <2> QED
    BY <2>1 DEF Emptied
<1> QED
  BY <1>1, <1>2 DEF Emptied

\* Once a session is torn down, no loop gets it into its provisioning batch.
LEMMA MayPlaceStep ==
    ASSUME TypeOK, RowsDistinct, [Next]_vars, NEW s \in Sessions,
           status[s] # "provisioning", NEW l \in Loops, MayPlace(l, s)'
    PROVE  MayPlace(l, s)
<1>1. /\ pc'[l] \in ProvisionPCs \cup {"reject"}
      /\ \/ pc'[l] = "assign" /\ job'[l].session = s
         \/ \E r \in batch'[l] : r.session = s
  BY DEF MayPlace
<1>2. CASE pc'[l] = pc[l] /\ batch'[l] = batch[l] /\ job'[l] = job[l]
  BY <1>1, <1>2 DEF MayPlace
<1>3. CASE Rests(l)
  BY <1>1, <1>3 DEF Rests, PhasePCs
<1>4. CASE Enters(l, "provision", WithStatus("provisioning"))
  BY <1>1, <1>4, SnapshotRows DEF Enters, WithStatus
<1>5. CASE \/ Enters(l, "claim", WithStatus("created"))
           \/ Enters(l, "dns", DNSCandidates)
           \/ Enters(l, "teardown", WithStatus("tearing_down"))
  BY <1>1, <1>5 DEF Enters, ProvisionPCs
<1>6. CASE Claims(l)
  BY <1>1, <1>6 DEF Claims, ProvisionPCs
<1>7. ASSUME NEW r \in batch[l], Keeps(l, r)
      PROVE  MayPlace(l, s)
  BY <1>1, <1>7 DEF Keeps, ProvisionPCs, MayPlace
<1>8. CASE Finishes(l)
  BY <1>1, <1>8 DEF Finishes, ProvisionPCs, TeardownPCs, MayPlace
<1>9. CASE Continues(l)
  BY <1>1, <1>9 DEF Continues, ProvisionPCs, MayPlace
<1> QED
  BY <1>2, <1>3, <1>4, <1>5, <1>6, <1>7, <1>8, <1>9, LoopMoves DEF LoopMove

\* The stored instance of a session that nobody may place stays the same.
LEMMA StoredStep ==
    ASSUME TypeOK, RowsDistinct, TearingDown, [Next]_vars, NEW s \in Sessions,
           Emptied(s), NEW d \in Droplets, Stored(s, d)
    PROVE  Stored(s, d)'
<1>1. CASE status[s] = "ended"
  BY <1>1, EndedKept DEF RowKept, Stored
<1>2. CASE status[s] # "ended"
  <2>1. status[s] = "tearing_down"
    BY <1>2 DEF Emptied, TearingDown, TeardownPCs
  <2>2. \A l \in Loops : ~MayPlace(l, s)
    BY <1>2 DEF Stored
  <2>3. \A l \in Loops : ~MayPlace(l, s)'
    BY <2>1, <2>2, MayPlaceStep
  <2>4. ASSUME NEW l \in Loops, WriteAssignment(l)
        PROVE  instanceID'[s] = instanceID[s]
    <3>1. /\ pc[l] = "assign" /\ job[l].session \in Sessions
          /\ AssignInstance(job[l].session, job[l].instance, job[l].ip,
                            job[l].operation = "adopted")
      BY <2>4 DEF WriteAssignment, TypeOK, LoopTypeOK, WritePCs
    <3>2. job[l].session # s
      BY <2>2, <3>1 DEF MayPlace, ProvisionPCs
    <3> QED
      BY <3>1, <3>2 DEF AssignInstance, Place, storeVars, TypeOK, StoreTypeOK
  <2>5. instanceID'[s] = instanceID[s]
    BY <2>4, QuietStep DEF Quiet
  <2> QED
    BY <2>3, <2>5 DEF Stored
<1> QED
  BY <1>1, <1>2

\* The instance in hand is stored, or destroyed, or still in hand.
LEMMA InHandStep ==
    ASSUME TwoLoops, OwnInv, RowsDistinct, TearingDown, [Next]_vars, ~Fault,
           NEW s \in Sessions, Emptied(s), NEW d \in LiveOf(s)',
           d \in LiveOf(s), NEW l \in Loops, InHand(l, d)
    PROVE  Stored(s, d)' \/ InHand(l, d)'
<1>0. TypeOK /\ d \in Droplets /\ dropletOf[d] = s
  BY DEF OwnInv, LiveOf
<1>1. /\ pc[l] \in {"assign", "reject"} /\ job[l].instance = d
      /\ job[l].session = s
  BY <1>0 DEF InHand, OwnInv, CopiesOwn, Owned
<1>2. CASE pc'[l] \in {"assign", "reject"} /\ job'[l] = job[l]
  BY <1>1, <1>2 DEF InHand
<1>3. CASE DestroyDroplets(DestroyTargets(l))
  <2>1. d \in DestroyTargets(l)
    BY <1>0, <1>1 DEF DestroyTargets, LiveOf
  <2> QED
    BY <1>0, <1>3, <2>1 DEF DestroyDroplets, LiveOf, Live
<1>4. CASE pc[l] = "assign" /\ WriteAssignment(l)
  <2>1. /\ Accepts(s) /\ AssignInstance(s, d, job[l].ip, job[l].operation = "adopted")
        /\ Finish(l, "provision")
    BY <1>1, <1>4 DEF WriteAssignment
  <2>2. PICK a \in Loops : pc[a] = "destroyed" /\ job[a].session = s
    BY <2>1 DEF Accepts, Emptied
  <2>3. status[s] = "tearing_down"
    BY <2>1, <2>2 DEF Accepts, TearingDown, TeardownPCs
  <2>4. instanceID'[s] = d
    BY <1>0, <2>1, <2>3
    DEF AssignInstance, AlreadyAssigned, Accepts, Place, storeVars, TypeOK, StoreTypeOK
  <2>5. pc'[l] = "provision" /\ batch' = batch
    BY <1>0, <2>1 DEF Finish, Goto, TypeOK, LoopTypeOK
  <2>6. ~MayPlace(l, s)'
    BY <1>1, <2>5 DEF MayPlace, RowsDistinct
  <2>7. a # l
    BY <1>4, <2>2
  <2>8. pc'[a] = "destroyed"
    BY <1>0, <2>1, <2>2, <2>7 DEF Finish, Goto, TypeOK, LoopTypeOK
  <2>9. ~MayPlace(a, s)'
    BY <2>8 DEF MayPlace, ProvisionPCs
  <2>10. \A m \in Loops : ~MayPlace(m, s)'
    BY <2>6, <2>7, <2>9 DEF TwoLoops
  <2> QED
    BY <2>4, <2>10 DEF Stored
<1> QED
  BY <1>0, <1>1, <1>2, <1>3, <1>4, HandStep

LEMMA TracedStep ==
    ASSUME TwoLoops, OwnInv, RowsDistinct, TearingDown, Traced, [Next]_vars,
           ~Fault
    PROVE  Traced'
<1>0. TypeOK
  BY DEF OwnInv
<1> SUFFICES ASSUME NEW s \in Sessions, Emptied(s)', NEW d \in LiveOf(s)'
             PROVE  Stored(s, d)' \/ \E l \in Loops : InHand(l, d)'
  BY DEF Traced
<1>1. d \in Droplets /\ dropletState'[d] = "live" /\ dropletOf'[d] = s
  BY DEF LiveOf, Live
<1>2. CASE dropletState[d] # "live"
  BY <1>1, <1>2, BirthStep DEF InHand
<1>3. CASE dropletState[d] = "live"
  <2>1. dropletOf[d] = s
    BY <1>1, <1>3, DropletStep DEF DropletMove
  <2>2. d \in LiveOf(s)
    BY <1>1, <1>3, <2>1 DEF LiveOf, Live
  <2>3. Emptied(s)
    BY <1>0, EmptiedStep
  <2>4. Stored(s, d) \/ \E l \in Loops : InHand(l, d)
    BY <2>2, <2>3 DEF Traced
  <2> QED
    BY <1>0, <1>1, <2>2, <2>3, <2>4, StoredStep, InHandStep
<1> QED
  BY <1>2, <1>3

LEMMA TracedInvInit == Init => TracedInv
<1> SUFFICES ASSUME Init PROVE TracedInv
  OBVIOUS
<1>1. OwnInv /\ RowsDistinct
  BY OwnInvInit DEF Init, RowsDistinct
<1>2. TearingDown
  BY DEF Init, TearingDown, TeardownPCs
<1>3. Traced
  BY DEF Init, Traced, LiveOf, Live
<1> QED
  BY <1>1, <1>2, <1>3 DEF TracedInv

LEMMA TracedInvNext == TwoLoops /\ TracedInv /\ [Next]_vars => TracedInv'
<1> SUFFICES ASSUME TwoLoops, TracedInv, [Next]_vars PROVE TracedInv'
  OBVIOUS
<1>1. OwnInv /\ TypeOK /\ RowsDistinct
  BY DEF TracedInv, OwnInv
<1>2. OwnInv' /\ RowsDistinct'
  BY <1>1, OwnInvNext, RowsDistinctStep
<1>3. ASSUME faults' = 0 PROVE TearingDown' /\ Traced'
  <2>1. faults = 0 /\ ~Fault
    BY <1>1, <1>3, FaultsStep
  <2>2. TearingDown /\ Traced
    BY <2>1 DEF TracedInv
  <2> QED
    BY <1>1, <2>1, <2>2, TearingDownStep, TracedStep
<1> QED
  BY <1>2, <1>3 DEF TracedInv

\* Two overlapping loops can leave a server behind an ended session, but as
\* long as nothing fails it is never lost track of: a loop still has it in
\* hand or the session's row names it (reconciler.go, the rejection of an
\* assignment, and AssignInstance in repository.go).  Three loops could lose it.
THEOREM LeftoverIsAlwaysTraced ==
    ASSUME TwoLoops PROVE Spec => []LeftoverIsTraced
<1>1. TracedInv => LeftoverIsTraced
  BY DEF TracedInv, Traced, LeftoverIsTraced, Emptied, Stored, InHand
<1>2. TracedInv /\ [Next]_vars => TracedInv'
  BY TracedInvNext
<1> QED
  BY <1>1, <1>2, TracedInvInit, PTL DEF Spec

-----------------------------------------------------------------------------
(***************************************************************************)
(* A single loop implements SessionLifecycle.  A step changes the status   *)
(* of one session, or the servers of one, or the name of one.              *)
(***************************************************************************)
ServersChange ==
    /\ \/ \E l \in Loops : \E r \in batch[l] : \E d \in Unborn :
            pc[l] = "provision" /\ CreateDroplet(d, r.session)
       \/ \E l \in Loops : \E D \in SUBSET DestroyTargets(l) :
            pc[l] \in CallPCs /\ DestroyDroplets(D)
       \/ \E d \in Droplets : DropletLost(d)
    /\ UNCHANGED <<storeVars, zoneVars>>

NamesChange ==
    /\ \/ \E l \in Loops : \E r \in batch[l] :
            pc[l] = "dns" /\ PutRecord(r.session, r.ip)
       \/ \E l \in Loops : \E r \in batch[l] :
            pc[l] = "teardown" /\ DropRecord(r.session)
       \/ \E s \in Sessions : RecordDrifts(s)
    /\ UNCHANGED <<storeVars, providerVars>>

LEMMA StepKinds ==
    ASSUME [Next]_vars
    PROVE  \/ UNCHANGED <<dropletState, dropletOf, aRecord>>
           \/ ServersChange
           \/ NamesChange
<1>1. CASE UNCHANGED <<providerVars, zoneVars>>
  BY <1>1 DEF providerVars, zoneVars
<1>2. ASSUME NEW l \in Loops, LoopStep(l) \/ Crash(l),
             ~UNCHANGED <<providerVars, zoneVars>>
      PROVE  ServersChange \/ NamesChange
  <2>1. ~Lists(l) /\ ~WriteFails(l) /\ ~Crash(l)
    BY <1>2 DEF Lists, ListCreated, ListProvisioning, ListDNS,
       ListTearingDown, EndStep, ListFails, WriteFails, Crash
  <2>2. CASE EnsureInstanceCreates(l) \/ EnsureInstanceFails(l)
    BY <1>2, <2>2 DEF EnsureInstanceCreates, EnsureInstanceFails, ServersChange
  <2>3. CASE DestroyRejected(l) \/ DestroyServer(l) \/ DestroyServerFails(l)
    BY <2>3 DEF DestroyRejected, DestroyServer, DestroyServerFails, CallPCs,
       ServersChange
  <2>4. CASE EnsureARecord(l) \/ EnsureARecordFails(l)
    BY <1>2, <2>4 DEF EnsureARecord, EnsureARecordFails, NamesChange
  <2>5. CASE DeleteRecord(l) \/ DeleteRecordFails(l)
    BY <1>2, <2>5 DEF DeleteRecord, DeleteRecordFails, NamesChange
  <2>6. CASE Provisions(l)
    BY <1>2, <2>2, <2>3, <2>6 DEF Provisions, Claim, ClaimFails,
       EnsureInstanceAdopts, EnsureInstanceRefused, WriteProvisioningFailed,
       WriteAssignment, AssignmentRejected
  <2>7. CASE Names(l) \/ TearsDown(l)
    BY <1>2, <2>3, <2>4, <2>5, <2>7 DEF Names, WriteDNSConfigured,
       WriteDNSFailed, TearsDown, WriteDNSDeleteFailed, WriteDNSDeleted,
       WriteDestroyed, WriteDestroyFailed
  <2> QED
    BY <1>2, <2>1, <2>6, <2>7 DEF LoopStep
<1>3. Admin \/ UNCHANGED vars => UNCHANGED <<providerVars, zoneVars>>
  BY DEF Admin, AdminCreates, AdminForceDestroys, vars
<1>4. CASE Accounts
  <2>1. CASE \E d \in Droplets : AddressArrives(d)
    BY <2>1 DEF AddressArrives, zoneVars
  <2>2. CASE \E d \in Droplets : DropletLost(d)
    BY <2>2 DEF DropletLost, ServersChange
  <2>3. CASE \E s \in Sessions : RecordDrifts(s)
    BY <2>3 DEF RecordDrifts, NamesChange
  <2> QED
    BY <1>4, <2>1, <2>2, <2>3 DEF Accounts
<1> QED
  BY <1>1, <1>2, <1>3, <1>4 DEF Next

LEMMA OneStatus ==
    ASSUME TypeOK, [Next]_vars
    PROVE  \/ UNCHANGED status
           \/ \E t \in Sessions : \E new : status' = [status EXCEPT ![t] = new]
<1> DEFINE One == \/ UNCHANGED status
                  \/ \E t \in Sessions : \E new :
                        status' = [status EXCEPT ![t] = new]
<1> SUFFICES One
  OBVIOUS
<1>1. CASE UNCHANGED storeVars
  BY <1>1 DEF storeVars
<1>2. ASSUME NEW t \in Sessions,
             \/ CreateSession(t) \/ MarkProvisioningStarted(t)
             \/ MarkProvisioningFailed(t) \/ MarkForceDestroyStarted(t)
             \/ MarkForceDestroyed(t) \/ MarkForceDestroyFailed(t)
      PROVE  One
  <2>1. UNCHANGED storeVars \/ \E new, phase, event : Transition(t, new, phase, event)
    BY <1>2 DEF CreateSession, MarkProvisioningStarted, MarkProvisioningFailed,
       MarkForceDestroyStarted, MarkForceDestroyed, MarkForceDestroyFailed
  <2> QED
    BY <1>1, <2>1 DEF Transition, SetStatus
<1>3. ASSUME NEW t \in Sessions, NEW d, NEW ip, NEW adopted,
             AssignInstance(t, d, ip, adopted)
      PROVE  One
  <2>1. UNCHANGED storeVars \/ UNCHANGED status \/ \E new : SetStatus(t, new)
    BY <1>3 DEF AssignInstance
  <2> QED
    BY <1>1, <2>1 DEF SetStatus
<1>4. ASSUME NEW t, NEW id, NEW operation,
             \/ MarkDNSConfigured(t, id, operation)
             \/ MarkDNSFailed(t) \/ MarkDNSDeleted(t)
      PROVE  UNCHANGED status
  BY <1>4 DEF MarkDNSConfigured, MarkDNSFailed, MarkDNSDeleted, storeVars
<1> HIDE DEF One
<1>5. UNCHANGED storeVars => One
  BY DEF storeVars, One
<1>6. UNCHANGED status => One
  BY DEF One
<1>7. ASSUME NEW l \in Loops, LoopStep(l) \/ Crash(l)
      PROVE  One
  <2>1. \A r \in batch[l] : r.session \in Sessions
    BY DEF TypeOK, LoopTypeOK, Row
  <2>2. pc[l] \in WritePCs => job[l].session \in Sessions
    BY DEF TypeOK, LoopTypeOK
  <2>3. CASE Provisions(l)
    <3>1. CASE Claim(l)
      BY <1>2, <2>1, <3>1 DEF Claim
    <3>2. CASE WriteProvisioningFailed(l)
      BY <1>2, <2>2, <3>2 DEF WriteProvisioningFailed, WritePCs
    <3>3. CASE WriteAssignment(l) \/ AssignmentRejected(l)
      BY <1>3, <2>2, <3>3 DEF WriteAssignment, AssignmentRejected, WritePCs
    <3> QED
      BY <1>5, <2>3, <3>1, <3>2, <3>3 DEF Provisions, ClaimFails,
         EnsureInstanceAdopts, EnsureInstanceCreates, EnsureInstanceFails,
         EnsureInstanceRefused, DestroyRejected
  <2>4. CASE TearsDown(l)
    <3>1. CASE WriteDestroyed(l) \/ WriteDestroyFailed(l)
      BY <1>2, <2>2, <3>1 DEF WriteDestroyed, WriteDestroyFailed, WritePCs
    <3> QED
      BY <1>4, <1>5, <1>6, <2>4, <3>1 DEF TearsDown, WriteDNSDeleteFailed,
         WriteDNSDeleted, DeleteRecord, DeleteRecordFails, DestroyServer,
         DestroyServerFails
  <2>5. CASE Names(l)
    BY <1>4, <1>5, <1>6, <2>5 DEF Names, EnsureARecord, EnsureARecordFails,
       WriteDNSConfigured, WriteDNSFailed
  <2>6. CASE Lists(l) \/ WriteFails(l) \/ Crash(l)
    BY <1>5, <2>6 DEF Lists, ListCreated, ListProvisioning, ListDNS,
       ListTearingDown, EndStep, ListFails, WriteFails, Crash
  <2> QED
    BY <1>7, <2>3, <2>4, <2>5, <2>6 DEF LoopStep
<1>8. CASE Admin
  BY <1>2, <1>8 DEF Admin, AdminCreates, AdminForceDestroys
<1>9. CASE Accounts \/ UNCHANGED vars
  BY <1>5, <1>9 DEF Accounts, AddressArrives, DropletLost, RecordDrifts, vars
<1> QED
  BY <1>7, <1>8, <1>9 DEF Next

Served == {s \in Sessions : LiveOf(s) # {}}
Named == {s \in Sessions : aRecord[s] # None}

LEMMA StatusSimulates ==
    ASSUME TypeOK, JobCurrent, [Next]_vars, ~UNCHANGED status
    PROVE  \E s \in Sessions : Abstract!Live(s)
<1>1. PICK s \in Sessions : \E new : status' = [status EXCEPT ![s] = new]
  BY OneStatus
<1>2. status'[s] # status[s]
  BY <1>1 DEF TypeOK, StoreTypeOK
<1>3. StatusMove(s) /\ UNCHANGED <<providerVars, zoneVars>>
  BY <1>2, StatusStep
<1>4. Served' = Served /\ Named' = Named
  BY <1>3 DEF Served, Named, LiveOf, Live, providerVars, zoneVars
<1>5. status' = [status EXCEPT ![s] = status'[s]]
  BY <1>1 DEF TypeOK, StoreTypeOK
<1>6. CASE status'[s] = "ended"
  <2>1. PICK l \in Loops : pc[l] = "destroyed" /\ job[l].session = s
    BY <1>3, <1>6 DEF StatusMove
  <2>2. s \notin Served \cup Named
    BY <2>1 DEF JobCurrent, TeardownPCs, Served, Named
  <2>3. status[s] = "tearing_down"
    BY <1>3, <1>6 DEF StatusMove
  <2>4. Abstract!End(s)
    BY <1>4, <1>5, <1>6, <2>2, <2>3 DEF Abstract!End, Abstract!Move, Served, Named
  <2> QED
    BY <2>4 DEF Abstract!Live
<1>7. CASE status'[s] # "ended"
  <2>1. \/ status[s] = "absent" /\ status'[s] = "created"
        \/ status[s] = "created" /\ status'[s] = "provisioning"
        \/ status[s] = "provisioning" /\ status'[s] = "waiting_for_dns"
        \/ status[s] \in {"provisioning", "tearing_down"} /\ status'[s] = "failed"
        \/ /\ status[s] \in {"provisioning", "waiting_for_dns", "failed"}
           /\ status'[s] = "tearing_down"
    BY <1>3, <1>7 DEF StatusMove
  <2>2. ASSUME NEW from, NEW to, status[s] \in from, status'[s] = to
        PROVE  Abstract!Move(s, from, to)
    BY <1>4, <1>5, <2>2 DEF Abstract!Move, Served, Named
  <2>3. \/ Abstract!Open(s) \/ Abstract!Start(s) \/ Abstract!Place(s)
        \/ Abstract!Fail(s) \/ Abstract!Condemn(s)
    BY <2>1, <2>2 DEF Abstract!Open, Abstract!Start, Abstract!Place,
       Abstract!Fail, Abstract!Condemn
  <2> QED
    BY <2>3 DEF Abstract!Live
<1> QED
  BY <1>6, <1>7

\* The servers of one session change, and it may get one only while it is
\* provisioned or torn down.
LEMMA ServersChangeOfOne ==
    ASSUME OwnInv, RowsCurrent, ServersChange
    PROVE  \/ Served' = Served
           \/ \E s \in Sessions :
                \/ Served' = Served \ {s}
                \/ /\ Served' = Served \cup {s}
                   /\ status[s] \in {"provisioning", "tearing_down"}
<1>0. TypeOK /\ TagsOK /\ CopiesOwn
  BY DEF OwnInv
<1>1. ASSUME NEW l \in Loops, NEW r \in batch[l], NEW d \in Unborn,
             pc[l] = "provision", CreateDroplet(d, r.session)
      PROVE  /\ Served' = Served \cup {r.session}
             /\ r.session \in Sessions
             /\ status[r.session] \in {"provisioning", "tearing_down"}
  <2>1. r.session \in Sessions /\ d \in Droplets /\ dropletState[d] = "unborn"
    BY <1>0 DEF TypeOK, LoopTypeOK, Row, Unborn
  <2>2. \A s \in Sessions : s # r.session => LiveOf(s)' = LiveOf(s)
    BY <1>0, <1>1, <2>1
    DEF CreateDroplet, LiveOf, Live, TypeOK, ProviderTypeOK
  <2>3. d \in LiveOf(r.session)'
    BY <1>0, <1>1, <2>1
    DEF CreateDroplet, LiveOf, Live, TypeOK, ProviderTypeOK
  <2>4. Served' = Served \cup {r.session}
    BY <2>1, <2>2, <2>3 DEF Served
  <2> QED
    BY <1>1, <2>1, <2>4 DEF RowsCurrent, ProvisionPCs
<1>2. ASSUME NEW l \in Loops, NEW D \in SUBSET DestroyTargets(l),
             pc[l] \in CallPCs, DestroyDroplets(D)
      PROVE  Served' \in {Served, Served \ {job[l].session}}
  <2>1. \A d \in D : d \in Droplets /\ dropletOf[d] = job[l].session
    BY <1>0 DEF DestroyTargets, CopiesOwn, Owned
  <2>2. \A s \in Sessions : s # job[l].session => LiveOf(s)' = LiveOf(s)
    BY <1>2, <2>1 DEF DestroyDroplets, LiveOf, Live
  <2>3. \A s \in Sessions : LiveOf(s)' \subseteq LiveOf(s)
    BY <1>2 DEF DestroyDroplets, LiveOf, Live
  <2> QED
    BY <2>2, <2>3 DEF Served
<1>3. ASSUME NEW d \in Droplets, DropletLost(d)
      PROVE  Served' \in {Served, Served \ {dropletOf[d]}}
  <2>1. \A s \in Sessions : s # dropletOf[d] => LiveOf(s)' = LiveOf(s)
    BY <1>0, <1>3 DEF DropletLost, LiveOf, Live, TypeOK, ProviderTypeOK
  <2>2. \A s \in Sessions : LiveOf(s)' \subseteq LiveOf(s)
    BY <1>0, <1>3 DEF DropletLost, LiveOf, Live, TypeOK, ProviderTypeOK
  <2> QED
    BY <2>1, <2>2 DEF Served
<1>4. \A l \in Loops : pc[l] \in CallPCs => job[l].session \in Sessions
  BY <1>0 DEF TypeOK, LoopTypeOK
<1>5. \A s : Served \ {s} = Served \/ s \in Sessions
  BY DEF Served
<1> QED
  BY <1>1, <1>2, <1>3, <1>4, <1>5 DEF ServersChange

\* The name of one session changes, while it waits for DNS or is torn down.
LEMMA NamesChangeOfOne ==
    ASSUME TypeOK, RowsCurrent, RecordHasSession, NamesChange
    PROVE  \E s \in Sessions :
                /\ status[s] \in {"waiting_for_dns", "tearing_down"}
                /\ Named' \in {Named \cup {s}, Named \ {s}}
<1>1. \A s \in Sessions : \A content :
        aRecord' = [aRecord EXCEPT ![s] = content]
            => Named' \in {Named \cup {s}, Named \ {s}}
  <2> SUFFICES ASSUME NEW s \in Sessions, NEW content,
                      aRecord' = [aRecord EXCEPT ![s] = content]
               PROVE  Named' \in {Named \cup {s}, Named \ {s}}
    OBVIOUS
  <2>1. \A t \in Sessions : aRecord'[t] = IF t = s THEN content ELSE aRecord[t]
    BY DEF TypeOK, ZoneTypeOK
  <2>2. CASE content = None
    BY <2>1, <2>2 DEF Named
  <2>3. CASE content # None
    BY <2>1, <2>3 DEF Named
  <2> QED
    BY <2>2, <2>3
<1>2. ASSUME NEW l \in Loops, NEW r \in batch[l], pc[l] \in {"dns", "teardown"}
      PROVE  /\ r.session \in Sessions
             /\ status[r.session] \in {"waiting_for_dns", "tearing_down"}
  BY <1>2 DEF RowsCurrent, DNSPCs, TypeOK, LoopTypeOK, Row
<1>3. ASSUME NEW s \in Sessions, RecordDrifts(s)
      PROVE  /\ status[s] \in {"waiting_for_dns", "tearing_down"}
             /\ \E content : aRecord' = [aRecord EXCEPT ![s] = content]
  BY <1>3 DEF RecordDrifts, RecordHasSession
<1>4. PICK s \in Sessions :
            /\ status[s] \in {"waiting_for_dns", "tearing_down"}
            /\ \E content : aRecord' = [aRecord EXCEPT ![s] = content]
  <2>1. ASSUME NEW l \in Loops, NEW r \in batch[l],
               \/ pc[l] = "dns" /\ PutRecord(r.session, r.ip)
               \/ pc[l] = "teardown" /\ DropRecord(r.session)
        PROVE  /\ r.session \in Sessions
               /\ status[r.session] \in {"waiting_for_dns", "tearing_down"}
               /\ \E content : aRecord' = [aRecord EXCEPT ![r.session] = content]
    BY <1>2, <2>1 DEF PutRecord, DropRecord
  <2> QED
    BY <1>3, <2>1 DEF NamesChange
<1> QED
  BY <1>1, <1>4

LEMMA BeginImplemented == Init => Abstract!Begin
  BY DEF Init, StoreInit, Abstract!Begin, LiveOf, Live

LEMMA LifecycleStep ==
    ASSUME IInv, [Next]_vars
    PROVE  [\E s \in Sessions : Abstract!Live(s)]_(Abstract!lifecycleVars)
<1>0. /\ OwnInv /\ TypeOK /\ RowsCurrent /\ JobCurrent /\ RecordHasSession
  BY DEF IInv, OwnInv
<1>1. CASE ~UNCHANGED status
  BY <1>0, <1>1, StatusSimulates
<1>2. CASE UNCHANGED <<status, dropletState, dropletOf, aRecord>>
  BY <1>2 DEF Abstract!lifecycleVars, LiveOf, Live
<1>3. CASE ServersChange
  <2>1. UNCHANGED <<status, aRecord>>
    BY <1>3 DEF ServersChange, storeVars, zoneVars
  <2>2. CASE Served' = Served
    BY <2>1, <2>2 DEF Abstract!lifecycleVars, Served
  <2>3. ASSUME NEW s \in Sessions, Served' = Served \ {s}
        PROVE  Abstract!LoseServer(s)
    BY <2>1, <2>3 DEF Abstract!LoseServer, Served
  <2>4. ASSUME NEW s \in Sessions, Served' = Served \cup {s},
               status[s] \in {"provisioning", "tearing_down"}
        PROVE  Abstract!Boot(s)
    BY <2>1, <2>4 DEF Abstract!Boot, Served
  <2> QED
    BY <1>0, <1>3, <2>2, <2>3, <2>4, ServersChangeOfOne DEF Abstract!Live
<1>4. CASE NamesChange
  <2>1. UNCHANGED <<status, dropletState, dropletOf>>
    BY <1>4 DEF NamesChange, storeVars, providerVars
  <2>2. PICK s \in Sessions : /\ status[s] \in {"waiting_for_dns", "tearing_down"}
                              /\ Named' \in {Named \cup {s}, Named \ {s}}
    BY <1>0, <1>4, NamesChangeOfOne
  <2>3. Abstract!Publish(s) \/ Abstract!LoseName(s)
    BY <2>1, <2>2 DEF Abstract!Publish, Abstract!LoseName, Named, LiveOf, Live
  <2> QED
    BY <2>3 DEF Abstract!Live
<1> QED
  BY <1>0, <1>1, <1>2, <1>3, <1>4, StepKinds

\* A single reconciler loop, with all its batches, calls, failures, crashes and
\* retries, implements SessionLifecycle: a session goes through the statuses
\* of the lifecycle and has a server and a name only where it may have them.
THEOREM LifecycleImplemented == ASSUME SingleLoop PROVE Spec => Lifecycle
<1>1. IInv /\ [Next]_vars
        => [\E s \in Sessions : Abstract!Live(s)]_(Abstract!lifecycleVars)
  BY LifecycleStep
<1> QED
  BY <1>1, BeginImplemented, IInvAlways, PTL
  DEF Spec, Lifecycle, Abstract!LifecycleSpec
=============================================================================
