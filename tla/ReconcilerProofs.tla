-------------------------- MODULE ReconcilerProofs --------------------------
(***************************************************************************)
(* Theorems about Reconciler, for every value of its constants.            *)
(***************************************************************************)
EXTENDS Reconciler, FiniteSetTheorems, TLAPS

-----------------------------------------------------------------------------
(***************************************************************************)
(* The operations of SessionStore.                                         *)
(***************************************************************************)

\* Writing a row keeps the order of updated_at within the naturals.
LEMMA TouchType ==
    ASSUME StoreTypeOK, NEW s \in Sessions, Touch(s)
    PROVE  updatedAt' \in [Sessions -> Nat]
<1>1. Cardinality(Sessions) \in Nat
  BY FS_CardinalityType, SessionsAssumption
<1>2. \A t \in Sessions : updatedAt[t] \in Nat
  BY DEF StoreTypeOK
<1>3. \A t \in Sessions : updatedAt[t] > updatedAt[s] => updatedAt[t] - 1 \in Nat
  BY <1>2
<1> QED
  BY <1>1, <1>2, <1>3 DEF Touch

LEMMA RecordType ==
    ASSUME StoreTypeOK, NEW s \in Sessions, NEW event \in EventTypes,
           Record(s, event)
    PROVE  /\ updatedAt' \in [Sessions -> Nat]
           /\ lastEvent' \in [Sessions -> EventTypes]
           /\ condemned' \in SUBSET Sessions
  BY TouchType DEF Record, StoreTypeOK

LEMMA TransitionType ==
    ASSUME StoreTypeOK, NEW s \in Sessions, NEW new \in Statuses,
           NEW phase \in Phases, NEW event \in EventTypes,
           Transition(s, new, phase, event)
    PROVE  StoreTypeOK'
<1>1. Record(s, event)
  BY DEF Transition
<1>2. /\ updatedAt' \in [Sessions -> Nat] /\ lastEvent' \in [Sessions -> EventTypes]
      /\ condemned' \in SUBSET Sessions
  BY <1>1, RecordType
<1> QED
  BY <1>2 DEF Transition, StoreTypeOK, SetStatus, SetError

\* A write that does not match the row leaves the store as it was.
LEMMA UnchangedType ==
    ASSUME StoreTypeOK, UNCHANGED storeVars
    PROVE  StoreTypeOK'
  BY DEF StoreTypeOK, storeVars

\* Every write of a status only.
LEMMA StatusWritesType ==
    ASSUME StoreTypeOK, NEW s \in Sessions,
           \/ CreateSession(s) \/ MarkProvisioningStarted(s)
           \/ MarkProvisioningFailed(s) \/ MarkForceDestroyStarted(s)
           \/ MarkForceDestroyed(s) \/ MarkForceDestroyFailed(s)
    PROVE  StoreTypeOK'
<1> USE DEF Statuses, Phases, EventTypes
<1>1. CASE CreateSession(s)
  BY <1>1, TransitionType DEF CreateSession
<1>2. CASE MarkProvisioningStarted(s)
  BY <1>2, TransitionType, UnchangedType DEF MarkProvisioningStarted
<1>3. CASE MarkProvisioningFailed(s)
  BY <1>3, TransitionType, UnchangedType DEF MarkProvisioningFailed
<1>4. CASE MarkForceDestroyStarted(s)
  BY <1>4, TransitionType DEF MarkForceDestroyStarted
<1>5. CASE MarkForceDestroyed(s)
  BY <1>5, TransitionType, UnchangedType DEF MarkForceDestroyed
<1>6. CASE MarkForceDestroyFailed(s)
  BY <1>6, TransitionType, UnchangedType DEF MarkForceDestroyFailed
<1> QED
  BY <1>1, <1>2, <1>3, <1>4, <1>5, <1>6

LEMMA AssignInstanceType ==
    ASSUME StoreTypeOK, NEW s \in Sessions, NEW d \in Droplets,
           NEW ip \in Droplets \cup {None}, NEW adopted \in BOOLEAN,
           AssignInstance(s, d, ip, adopted)
    PROVE  StoreTypeOK'
<1>1. CASE UNCHANGED storeVars
  BY <1>1, UnchangedType
<1>2. ASSUME NEW event \in EventTypes, Record(s, event)
      PROVE  /\ updatedAt' \in [Sessions -> Nat]
             /\ lastEvent' \in [Sessions -> EventTypes]
             /\ condemned' \in SUBSET Sessions
  BY <1>2, RecordType
<1>3. ASSUME Place(s, d, ip)
      PROVE  /\ instanceID' \in [Sessions -> Droplets \cup {None}]
             /\ publicIP' \in [Sessions -> Droplets \cup {None}]
  BY <1>3 DEF Place, StoreTypeOK
<1>4. CASE /\ Place(s, d, ip)
           /\ Record(s, "teardown.instance_discovered")
           /\ UNCHANGED <<status, dnsRecordID, lastErrorPhase>>
  BY <1>2, <1>3, <1>4 DEF StoreTypeOK, EventTypes
<1>5. CASE /\ SetStatus(s, IF ip = None THEN "provisioning" ELSE "waiting_for_dns")
           /\ Place(s, d, ip)
           /\ SetError(s, "none")
           /\ Record(s, AssignmentEvent(ip, adopted))
           /\ UNCHANGED dnsRecordID
  <2>1. AssignmentEvent(ip, adopted) \in EventTypes
    BY DEF AssignmentEvent, EventTypes
  <2>2. status' \in [Sessions -> Statuses]
    BY <1>5 DEF SetStatus, StoreTypeOK, Statuses
  <2> QED
    BY <1>2, <1>3, <1>5, <2>1, <2>2 DEF SetError, StoreTypeOK, Phases
<1> QED
  BY <1>1, <1>4, <1>5 DEF AssignInstance

LEMMA DNSWritesType ==
    ASSUME StoreTypeOK, NEW s \in Sessions, NEW id \in Nat, NEW operation,
           \/ MarkDNSConfigured(s, id, operation)
           \/ MarkDNSFailed(s) \/ MarkDNSDeleted(s)
    PROVE  StoreTypeOK'
<1>1. CASE UNCHANGED storeVars
  BY <1>1, UnchangedType
<1>2. ASSUME NEW event \in EventTypes, Record(s, event)
      PROVE  /\ updatedAt' \in [Sessions -> Nat]
             /\ lastEvent' \in [Sessions -> EventTypes]
             /\ condemned' \in SUBSET Sessions
  BY <1>2, RecordType
<1>3. CASE /\ dnsRecordID' = [dnsRecordID EXCEPT ![s] = id]
           /\ SetError(s, "none") /\ Record(s, "dns.configured")
           /\ UNCHANGED <<status, instanceID, publicIP>>
  BY <1>2, <1>3 DEF StoreTypeOK, SetError, EventTypes, Phases
<1>4. CASE /\ SetError(s, "dns") /\ Record(s, "dns.failed")
           /\ UNCHANGED <<status, instanceID, publicIP, dnsRecordID>>
  BY <1>2, <1>4 DEF StoreTypeOK, SetError, EventTypes, Phases
<1>5. CASE /\ dnsRecordID' = [dnsRecordID EXCEPT ![s] = NoRecord]
           /\ Record(s, "dns.deleted")
           /\ UNCHANGED <<status, instanceID, publicIP, lastErrorPhase>>
  BY <1>2, <1>5 DEF StoreTypeOK, EventTypes, NoRecord
<1> QED
  BY <1>1, <1>3, <1>4, <1>5 DEF MarkDNSConfigured, MarkDNSFailed, MarkDNSDeleted

-----------------------------------------------------------------------------
(***************************************************************************)
(* The inductive invariant.  Its first half holds for any number of loops. *)
(***************************************************************************)

\* If d is a droplet at all, it is one of session s.
Owned(s, d) == d \in Droplets => s \in Sessions /\ dropletOf[d] = s

TagsOK == \A d \in Droplets : dropletState[d] = "unborn" => dropletOf[d] = None

\* What the loops copied from the table or hold in hand is of its session.
CopiesOwn ==
    \A l \in Loops :
        /\ \A r \in batch[l] :
            Owned(r.session, r.instance) /\ Owned(r.session, r.ip)
        /\ Owned(job[l].session, job[l].instance)
        /\ Owned(job[l].session, job[l].ip)

StoreOwn ==
    \A s \in Sessions :
        Owned(s, aRecord[s]) /\ Owned(s, instanceID[s]) /\ Owned(s, publicIP[s])

WaitingHasServer ==
    \A s \in Sessions : status[s] = "waiting_for_dns" =>
        instanceID[s] \in Droplets /\ publicIP[s] = instanceID[s]

OwnInv == TypeOK /\ TagsOK /\ CopiesOwn /\ StoreOwn /\ WaitingHasServer

\* The second half needs a single loop.
SingleLoop == \A l, m \in Loops : l = m

ProvisionPCs == {"provision", "assign", "provision_failed"}
DNSPCs == {"dns", "dns_ensured", "dns_failed"}
TeardownPCs == {"dns_deleted", "dns_delete_failed", "destroy", "destroyed",
                "destroy_failed"}

\* The rows of a batch are of different sessions, none of them the one in hand.
RowsDistinct ==
    \A l \in Loops :
        /\ pc[l] \in {"sleep"} \cup PhasePCs => job[l] = NoJob
        /\ \A r \in batch[l] : r.session # job[l].session
        /\ \A q, r \in batch[l] : q.session = r.session => q = r

\* Since a row was listed its session can only have been condemned.
RowsCurrent ==
    \A l \in Loops : \A r \in batch[l] :
        /\ pc[l] \in ProvisionPCs =>
                status[r.session] \in {"provisioning", "tearing_down"}
        /\ pc[l] \in DNSPCs =>
            /\ status[r.session] \in {"waiting_for_dns", "tearing_down"}
            /\ \A d \in Droplets :
                dropletOf[d] = r.session => dropletState[d] # "destroyed"
        /\ pc[l] \in TeardownPCs \cup {"teardown"} =>
                status[r.session] = "tearing_down"

\* What the loop has done so far for the row in hand.
JobCurrent ==
    \A l \in Loops :
        /\ pc[l] # "reject"
        /\ pc[l] \in {"assign", "provision_failed"} =>
                status[job[l].session] \in {"provisioning", "tearing_down"}
        /\ pc[l] \in TeardownPCs => status[job[l].session] = "tearing_down"
        /\ pc[l] \in TeardownPCs \ {"dns_delete_failed"} =>
                aRecord[job[l].session] = None
        /\ pc[l] = "destroyed" => LiveOf(job[l].session) = {}

RecordHasSession ==
    \A s \in Sessions :
        aRecord[s] # None => status[s] \in {"waiting_for_dns", "tearing_down"}

\* A session whose server was destroyed never comes back to life ...
DestroyedIsOver ==
    \A d \in Droplets : dropletState[d] = "destroyed" =>
        status[dropletOf[d]] \in {"tearing_down", "failed", "ended"}

\* ... and no teardown begins without the admin's request.
OverIsCondemned ==
    \A s \in Sessions : status[s] \in {"tearing_down", "ended"} => s \in condemned

DestroyedHasTag ==
    \A d \in Droplets : dropletState[d] = "destroyed" => dropletOf[d] \in Sessions

IInv == /\ OwnInv
        /\ RowsDistinct /\ RowsCurrent /\ JobCurrent
        /\ RecordHasSession /\ DestroyedHasTag
        /\ EndedIsClean /\ NoDanglingRecord
        /\ DestroyedIsOver /\ OverIsCondemned /\ DestroyedOnRequest

-----------------------------------------------------------------------------
(***************************************************************************)
(* Type correctness.  First, how the loop moves.                           *)
(***************************************************************************)

AllPCs == {"sleep"} \cup PhasePCs \cup CallPCs \cup WritePCs

LEMMA FinishType ==
    ASSUME LoopTypeOK, NEW l \in Loops, NEW phase \in {"sleep"} \cup PhasePCs,
           Finish(l, phase)
    PROVE  LoopTypeOK'
<1>1. NoJob \in Job
  BY DEF NoJob, Job, NoRecord, Operations
<1>2. pc' \in [Loops -> AllPCs] /\ batch' = batch /\ job' \in [Loops -> Job]
  BY <1>1 DEF Finish, Goto, LoopTypeOK, AllPCs
<1>3. pc'[l] \notin CallPCs \cup WritePCs
  BY DEF Finish, Goto, LoopTypeOK, PhasePCs, CallPCs, WritePCs
<1>4. \A m \in Loops : m # l => pc'[m] = pc[m] /\ job'[m] = job[m]
  BY DEF Finish, Goto, LoopTypeOK
<1> QED
  BY <1>2, <1>3, <1>4 DEF LoopTypeOK, AllPCs, CallPCs, WritePCs

LEMMA EnterPhaseType ==
    ASSUME StoreTypeOK, LoopTypeOK, NEW l \in Loops, NEW phase \in PhasePCs,
           NEW S \in SUBSET Sessions, EnterPhase(l, phase, S)
    PROVE  LoopTypeOK'
<1>1. Snapshot(S) \in SUBSET Row
  <2> SUFFICES ASSUME NEW s \in Oldest(S)
               PROVE  [session |-> s, instance |-> instanceID[s],
                       ip |-> publicIP[s], position |-> updatedAt[s]] \in Row
    BY DEF Snapshot
  <2>1. s \in Sessions
    BY DEF Oldest
  <2> QED
    BY <2>1 DEF Row, StoreTypeOK
<1>2. pc' \in [Loops -> AllPCs] /\ batch' \in [Loops -> SUBSET Row] /\ job' = job
  BY <1>1 DEF EnterPhase, Goto, LoopTypeOK, AllPCs
<1>3. pc'[l] \notin CallPCs \cup WritePCs
  BY DEF EnterPhase, Goto, LoopTypeOK, PhasePCs, CallPCs, WritePCs
<1>4. \A m \in Loops : m # l => pc'[m] = pc[m]
  BY DEF EnterPhase, Goto, LoopTypeOK
<1> QED
  BY <1>2, <1>3, <1>4 DEF LoopTypeOK, AllPCs, CallPCs, WritePCs

LEMMA KeepType ==
    ASSUME LoopTypeOK, NEW l \in Loops, NEW r \in batch[l],
           NEW where \in WritePCs, NEW result \in Job,
           result.session \in Sessions,
           where = "assign" =>
                result.instance \in Droplets /\ result.ip \in {None, result.instance},
           Keep(l, r, where, result)
    PROVE  LoopTypeOK'
<1>1. /\ pc' \in [Loops -> AllPCs]
      /\ batch' \in [Loops -> SUBSET Row]
      /\ job' \in [Loops -> Job]
  BY DEF Keep, Goto, LoopTypeOK, AllPCs
<1>2. pc'[l] = where /\ job'[l] = result
  BY DEF Keep, Goto, LoopTypeOK
<1>3. where # "reject"
  BY DEF WritePCs
<1>4. \A m \in Loops : m # l => pc'[m] = pc[m] /\ job'[m] = job[m]
  BY DEF Keep, Goto, LoopTypeOK
<1> QED
  BY <1>1, <1>2, <1>3, <1>4 DEF LoopTypeOK, AllPCs

\* The loop goes on with the row it has in hand.
LEMMA GotoType ==
    ASSUME LoopTypeOK, NEW l \in Loops, NEW where \in AllPCs,
           where \in CallPCs \cup WritePCs => job[l].session \in Sessions,
           where \in {"assign", "reject"} => pc[l] = "assign",
           Goto(l, where), UNCHANGED job,
           batch' \in [Loops -> SUBSET Row]
    PROVE  LoopTypeOK'
<1>1. pc' \in [Loops -> AllPCs]
  BY DEF Goto, LoopTypeOK, AllPCs
<1>2. pc'[l] = where
  BY DEF Goto, LoopTypeOK
<1>3. \A m \in Loops : m # l => pc'[m] = pc[m]
  BY DEF Goto, LoopTypeOK
<1> QED
  BY <1>1, <1>2, <1>3 DEF LoopTypeOK, AllPCs

LEMMA RowJobType ==
    ASSUME NEW r \in Row
    PROVE  /\ RowJob(r) \in Job
           /\ RowJob(r).session = r.session
           /\ RowJob(r).instance = r.instance
           /\ RowJob(r).ip = r.ip
           /\ r.session \in Sessions
           /\ r.instance \in Droplets \cup {None}
           /\ r.ip \in Droplets \cup {None}
  BY DEF RowJob, NoJob, Job, Row, NoRecord, Operations

LEMMA InstanceJobType ==
    ASSUME NEW r \in Row, NEW d \in Droplets, NEW has,
           NEW operation \in Operations
    PROVE  /\ InstanceJob(r, d, has, operation) \in Job
           /\ InstanceJob(r, d, has, operation).session = r.session
           /\ InstanceJob(r, d, has, operation).instance = d
           /\ InstanceJob(r, d, has, operation).ip \in {None, d}
           /\ InstanceJob(r, d, has, operation).operation = operation
  BY DEF InstanceJob, NoJob, Job, Row, NoRecord, Operations

LEMMA RecordJobType ==
    ASSUME NEW r \in Row, NEW id \in Nat, NEW operation \in Operations
    PROVE  /\ RecordJob(r, id, operation) \in Job
           /\ RecordJob(r, id, operation).session = r.session
           /\ RecordJob(r, id, operation).instance = r.instance
           /\ RecordJob(r, id, operation).ip = r.ip
  BY DEF RecordJob, Job, Row

\* Which parts of the state the groups of variables hold.
LEMMA UnchangedTypes ==
    ASSUME TypeOK
    PROVE  /\ UNCHANGED storeVars => StoreTypeOK'
           /\ UNCHANGED loopVars => LoopTypeOK'
           /\ UNCHANGED providerVars => ProviderTypeOK'
           /\ UNCHANGED zoneVars => ZoneTypeOK'
           /\ UNCHANGED faults => (faults \in 0..MaxFaults)'
           /\ Fault => (faults \in 0..MaxFaults)'
<1>1. UNCHANGED storeVars => StoreTypeOK'
  BY UnchangedType DEF TypeOK
<1>2. UNCHANGED loopVars => LoopTypeOK'
  BY DEF TypeOK, LoopTypeOK, loopVars
<1>3. UNCHANGED providerVars => ProviderTypeOK'
  BY DEF TypeOK, ProviderTypeOK, providerVars
<1>4. UNCHANGED zoneVars => ZoneTypeOK'
  BY DEF TypeOK, ZoneTypeOK, zoneVars
<1>5. UNCHANGED faults => (faults \in 0..MaxFaults)'
  BY DEF TypeOK
<1>6. Fault => (faults \in 0..MaxFaults)'
  BY MaxFaultsAssumption DEF TypeOK, Fault
<1> QED
  BY <1>1, <1>2, <1>3, <1>4, <1>5, <1>6

LEMMA CreateDropletType ==
    ASSUME TypeOK, NEW d \in Droplets, NEW s \in Sessions, CreateDroplet(d, s)
    PROVE  ProviderTypeOK'
  BY DEF TypeOK, ProviderTypeOK, CreateDroplet

LEMMA DestroyDropletsType ==
    ASSUME TypeOK, NEW D, DestroyDroplets(D)
    PROVE  ProviderTypeOK'
  BY DEF TypeOK, ProviderTypeOK, DestroyDroplets

LEMMA PutRecordType ==
    ASSUME TypeOK, NEW s \in Sessions, NEW ip \in Droplets \cup {None},
           PutRecord(s, ip)
    PROVE  ZoneTypeOK' /\ serial'[s] \in Nat
  BY DEF TypeOK, ZoneTypeOK, PutRecord

LEMMA DropRecordType ==
    ASSUME TypeOK, NEW s \in Sessions, DropRecord(s)
    PROVE  ZoneTypeOK'
  BY DEF TypeOK, ZoneTypeOK, DropRecord

-----------------------------------------------------------------------------
(***************************************************************************)
(* Each group of actions preserves TypeOK.                                 *)
(***************************************************************************)

LEMMA ListsType ==
    ASSUME TypeOK, NEW l \in Loops, Lists(l)
    PROVE  TypeOK'
<1>1. ASSUME NEW phase \in PhasePCs, NEW S \in SUBSET Sessions,
             EnterPhase(l, phase, S)
      PROVE  LoopTypeOK'
  BY <1>1, EnterPhaseType DEF TypeOK
<1>2. ASSUME Goto(l, "sleep"), UNCHANGED <<batch, job>>
      PROVE  LoopTypeOK'
  BY <1>2, GotoType DEF TypeOK, LoopTypeOK, AllPCs, CallPCs, WritePCs
<1>3. WithStatus("created") \in SUBSET Sessions
      /\ WithStatus("provisioning") \in SUBSET Sessions
      /\ WithStatus("tearing_down") \in SUBSET Sessions
      /\ DNSCandidates \in SUBSET Sessions
  BY DEF WithStatus, DNSCandidates
<1>4. LoopTypeOK'
  BY <1>1, <1>2, <1>3 DEF Lists, ListCreated, ListProvisioning, ListDNS,
     ListTearingDown, EndStep, ListFails, PhasePCs
<1>5. UNCHANGED <<storeVars, providerVars, zoneVars>>
  BY DEF Lists, ListCreated, ListProvisioning, ListDNS, ListTearingDown,
     EndStep, ListFails
<1>6. UNCHANGED faults \/ Fault
  BY DEF Lists, ListCreated, ListProvisioning, ListDNS, ListTearingDown,
     EndStep, ListFails
<1> QED
  BY <1>4, <1>5, <1>6, UnchangedTypes DEF TypeOK

\* The writes that end the handling of a row.
LEMMA WritesType ==
    ASSUME TypeOK, NEW l \in Loops,
           \/ WriteProvisioningFailed(l) \/ WriteAssignment(l)
           \/ WriteDNSConfigured(l) \/ WriteDNSFailed(l)
           \/ WriteDNSDeleteFailed(l)
           \/ WriteDestroyed(l) \/ WriteDestroyFailed(l)
    PROVE  TypeOK'
<1> DEFINE s == job[l].session
<1>1. pc[l] \in WritePCs => s \in Sessions /\ job[l] \in Job
  BY DEF TypeOK, LoopTypeOK
<1>2. LoopTypeOK'
  BY FinishType DEF TypeOK, WriteProvisioningFailed, WriteAssignment,
     WriteDNSConfigured, WriteDNSFailed, WriteDNSDeleteFailed, WriteDestroyed,
     WriteDestroyFailed, PhasePCs
<1>3. UNCHANGED <<providerVars, zoneVars, faults>>
  BY DEF WriteProvisioningFailed, WriteAssignment, WriteDNSConfigured,
     WriteDNSFailed, WriteDNSDeleteFailed, WriteDestroyed, WriteDestroyFailed
<1>4. StoreTypeOK'
  <2>1. CASE WriteAssignment(l)
    <3>1. s \in Sessions /\ job[l].instance \in Droplets
          /\ job[l].ip \in Droplets \cup {None}
      BY <2>1, <1>1 DEF WriteAssignment, TypeOK, LoopTypeOK, WritePCs, Job
    <3>2. AssignInstance(s, job[l].instance, job[l].ip,
                         job[l].operation = "adopted")
      BY <2>1 DEF WriteAssignment
    <3>3. (job[l].operation = "adopted") \in BOOLEAN
      OBVIOUS
    <3> HIDE DEF s
    <3> QED
      BY <3>1, <3>2, <3>3, AssignInstanceType DEF TypeOK
  <2>2. CASE \/ WriteProvisioningFailed(l) \/ WriteDestroyed(l)
             \/ WriteDestroyFailed(l)
    <3>1. s \in Sessions
      BY <2>2, <1>1 DEF WriteProvisioningFailed, WriteDestroyed,
         WriteDestroyFailed, WritePCs
    <3>2. MarkProvisioningFailed(s) \/ MarkForceDestroyed(s)
          \/ MarkForceDestroyFailed(s)
      BY <2>2 DEF WriteProvisioningFailed, WriteDestroyed, WriteDestroyFailed
    <3> QED
      BY <3>1, <3>2, StatusWritesType DEF TypeOK
  <2>3. CASE \/ WriteDNSConfigured(l) \/ WriteDNSFailed(l)
             \/ WriteDNSDeleteFailed(l)
    <3>1. s \in Sessions /\ job[l].record \in Nat
      BY <2>3, <1>1 DEF WriteDNSConfigured, WriteDNSFailed,
         WriteDNSDeleteFailed, WritePCs, Job
    <3>2. MarkDNSConfigured(s, job[l].record, job[l].operation)
          \/ MarkDNSFailed(s)
      BY <2>3 DEF WriteDNSConfigured, WriteDNSFailed, WriteDNSDeleteFailed
    <3> QED
      BY <3>1, <3>2, DNSWritesType DEF TypeOK
  <2> QED
    BY <2>1, <2>2, <2>3
<1> QED
  BY <1>2, <1>3, <1>4, UnchangedTypes DEF TypeOK

LEMMA ProvisionsType ==
    ASSUME TypeOK, NEW l \in Loops, Provisions(l)
    PROVE  TypeOK'
<1>1. \A r \in batch[l] : r \in Row /\ r.session \in Sessions
  BY DEF TypeOK, LoopTypeOK, Row
<1>2. CASE Claim(l)
  <2>1. PICK r \in batch[l] : /\ MarkProvisioningStarted(r.session)
                              /\ batch' = [batch EXCEPT ![l] = @ \ {r}]
    BY <1>2 DEF Claim
  <2>2. StoreTypeOK'
    BY <1>1, <2>1, StatusWritesType DEF TypeOK
  <2>3. LoopTypeOK'
    BY <1>2, <2>1 DEF Claim, TypeOK, LoopTypeOK
  <2> QED
    BY <1>2, <2>2, <2>3, UnchangedTypes DEF Claim, TypeOK
<1>3. CASE ClaimFails(l)
  <2>1. LoopTypeOK'
    BY <1>3 DEF ClaimFails, TypeOK, LoopTypeOK
  <2> QED
    BY <1>3, <2>1, UnchangedTypes DEF ClaimFails, TypeOK
<1>4. CASE EnsureInstanceAdopts(l)
  <2>0. PICK r \in batch[l] : \E d \in Found(r) :
            Keep(l, r, "assign", InstanceJob(r, d, addressed, "adopted"))
    BY <1>4 DEF EnsureInstanceAdopts
  <2>1. PICK d \in Found(r) :
            Keep(l, r, "assign", InstanceJob(r, d, addressed, "adopted"))
    BY <2>0
  <2>2. d \in Droplets
    BY <2>1 DEF Found, LiveOf
  <2>3. LoopTypeOK'
    BY <1>1, <2>1, <2>2, InstanceJobType, KeepType
    DEF TypeOK, WritePCs, Operations
  <2> QED
    BY <1>4, <2>3, UnchangedTypes DEF EnsureInstanceAdopts, TypeOK
<1>5. CASE EnsureInstanceCreates(l)
  <2>1. PICK r \in batch[l], d \in Unborn :
            /\ CreateDroplet(d, r.session)
            /\ Keep(l, r, "assign", InstanceJob(r, d, addressed', "created"))
    BY <1>5 DEF EnsureInstanceCreates
  <2>2. d \in Droplets
    BY <2>1 DEF Unborn
  <2>3. LoopTypeOK'
    BY <1>1, <2>1, <2>2, InstanceJobType, KeepType
    DEF TypeOK, WritePCs, Operations
  <2>4. ProviderTypeOK'
    BY <1>1, <2>1, <2>2, CreateDropletType
  <2> QED
    BY <1>5, <2>3, <2>4, UnchangedTypes DEF EnsureInstanceCreates, TypeOK
<1>6. CASE EnsureInstanceFails(l)
  <2>1. PICK r \in batch[l] :
            /\ Keep(l, r, "provision_failed", RowJob(r))
            /\ UNCHANGED providerVars
               \/ \E d \in Unborn : CreateDroplet(d, r.session)
    BY <1>6 DEF EnsureInstanceFails
  <2>2. LoopTypeOK'
    BY <1>1, <2>1, RowJobType, KeepType DEF TypeOK, WritePCs
  <2>3. ProviderTypeOK'
    BY <1>1, <2>1, CreateDropletType, UnchangedTypes DEF Unborn
  <2> QED
    BY <1>6, <2>2, <2>3, UnchangedTypes DEF EnsureInstanceFails, TypeOK
<1>7. CASE EnsureInstanceRefused(l)
  <2>1. LoopTypeOK'
    BY <1>1, <1>7, RowJobType, KeepType
    DEF EnsureInstanceRefused, TypeOK, WritePCs
  <2> QED
    BY <1>7, <2>1, UnchangedTypes DEF EnsureInstanceRefused, TypeOK
<1>8. CASE WriteProvisioningFailed(l) \/ WriteAssignment(l)
  BY <1>8, WritesType
<1>9. CASE AssignmentRejected(l)
  <2>1. StoreTypeOK'
    BY <1>9, UnchangedTypes, UnchangedType
    DEF AssignmentRejected, AssignInstance, Accepts, TypeOK
  <2>2. LoopTypeOK'
    BY <1>9, GotoType DEF AssignmentRejected, TypeOK, LoopTypeOK, AllPCs,
       CallPCs, WritePCs
  <2> QED
    BY <1>9, <2>1, <2>2, UnchangedTypes DEF AssignmentRejected, TypeOK
<1>10. CASE DestroyRejected(l)
  <2>1. LoopTypeOK'
    BY <1>10, FinishType DEF DestroyRejected, TypeOK, PhasePCs
  <2>2. ProviderTypeOK'
    BY <1>10, DestroyDropletsType DEF DestroyRejected
  <2> QED
    BY <1>10, <2>1, <2>2, UnchangedTypes DEF DestroyRejected, TypeOK
<1> QED
  BY <1>2, <1>3, <1>4, <1>5, <1>6, <1>7, <1>8, <1>9, <1>10 DEF Provisions

LEMMA NamesType ==
    ASSUME TypeOK, NEW l \in Loops, Names(l)
    PROVE  TypeOK'
<1>1. \A r \in batch[l] : r \in Row /\ r.session \in Sessions
                           /\ r.ip \in Droplets \cup {None}
  BY DEF TypeOK, LoopTypeOK, Row
<1>2. CASE EnsureARecord(l)
  <2>1. PICK r \in batch[l] :
            /\ PutRecord(r.session, r.ip)
            /\ Keep(l, r, "dns_ensured",
                    RecordJob(r, serial'[r.session],
                              EnsureOperation(r.session, r.ip)))
    BY <1>2 DEF EnsureARecord
  <2>2. ZoneTypeOK' /\ serial'[r.session] \in Nat
    BY <1>1, <2>1, PutRecordType
  <2>3. EnsureOperation(r.session, r.ip) \in Operations
    BY DEF EnsureOperation, Operations
  <2>4. LoopTypeOK'
    BY <1>1, <2>1, <2>2, <2>3, RecordJobType, KeepType DEF TypeOK, WritePCs
  <2> QED
    BY <1>2, <2>2, <2>4, UnchangedTypes DEF EnsureARecord, TypeOK
<1>3. CASE EnsureARecordFails(l)
  <2>1. PICK r \in batch[l] : /\ UNCHANGED zoneVars \/ PutRecord(r.session, r.ip)
                              /\ Keep(l, r, "dns_failed", RowJob(r))
    BY <1>3 DEF EnsureARecordFails
  <2>2. ZoneTypeOK'
    BY <1>1, <2>1, PutRecordType, UnchangedTypes
  <2>3. LoopTypeOK'
    BY <1>1, <2>1, RowJobType, KeepType DEF TypeOK, WritePCs
  <2> QED
    BY <1>3, <2>2, <2>3, UnchangedTypes DEF EnsureARecordFails, TypeOK
<1> QED
  BY <1>2, <1>3, WritesType DEF Names

LEMMA TearsDownType ==
    ASSUME TypeOK, NEW l \in Loops, TearsDown(l)
    PROVE  TypeOK'
<1>1. \A r \in batch[l] : r \in Row /\ r.session \in Sessions
  BY DEF TypeOK, LoopTypeOK, Row
<1>2. pc[l] \in WritePCs \cup CallPCs => job[l].session \in Sessions
  BY DEF TypeOK, LoopTypeOK
<1>3. CASE DeleteRecord(l)
  <2>1. PICK r \in batch[l] : /\ DropRecord(r.session)
                              /\ Keep(l, r, "dns_deleted", RowJob(r))
    BY <1>3 DEF DeleteRecord
  <2>2. ZoneTypeOK'
    BY <1>1, <2>1, DropRecordType
  <2>3. LoopTypeOK'
    BY <1>1, <2>1, RowJobType, KeepType DEF TypeOK, WritePCs
  <2> QED
    BY <1>3, <2>2, <2>3, UnchangedTypes DEF DeleteRecord, TypeOK
<1>4. CASE DeleteRecordFails(l)
  <2>1. PICK r \in batch[l] : /\ UNCHANGED zoneVars \/ DropRecord(r.session)
                              /\ Keep(l, r, "dns_delete_failed", RowJob(r))
    BY <1>4 DEF DeleteRecordFails
  <2>2. ZoneTypeOK'
    BY <1>1, <2>1, DropRecordType, UnchangedTypes
  <2>3. LoopTypeOK'
    BY <1>1, <2>1, RowJobType, KeepType DEF TypeOK, WritePCs
  <2> QED
    BY <1>4, <2>2, <2>3, UnchangedTypes DEF DeleteRecordFails, TypeOK
<1>5. CASE WriteDNSDeleted(l)
  <2>1. StoreTypeOK'
    BY <1>2, <1>5, DNSWritesType DEF WriteDNSDeleted, TypeOK, WritePCs
  <2>2. LoopTypeOK'
    BY <1>2, <1>5, GotoType
    DEF WriteDNSDeleted, TypeOK, LoopTypeOK, AllPCs, CallPCs, WritePCs
  <2> QED
    BY <1>5, <2>1, <2>2, UnchangedTypes DEF WriteDNSDeleted, TypeOK
<1>6. CASE DestroyServer(l) \/ DestroyServerFails(l)
  <2>1. ProviderTypeOK'
    BY <1>6, DestroyDropletsType DEF DestroyServer, DestroyServerFails
  <2>2. LoopTypeOK'
    BY <1>2, <1>6, GotoType
    DEF DestroyServer, DestroyServerFails, TypeOK, LoopTypeOK, AllPCs,
        CallPCs, WritePCs
  <2>3. UNCHANGED <<storeVars, zoneVars>> /\ (UNCHANGED faults \/ Fault)
    BY <1>6 DEF DestroyServer, DestroyServerFails
  <2> QED
    BY <2>1, <2>2, <2>3, UnchangedTypes DEF TypeOK
<1>7. CASE WriteDNSDeleteFailed(l) \/ WriteDestroyed(l) \/ WriteDestroyFailed(l)
  BY <1>7, WritesType
<1> QED
  BY <1>3, <1>4, <1>5, <1>6, <1>7 DEF TearsDown

LEMMA FailuresType ==
    ASSUME TypeOK, NEW l \in Loops, WriteFails(l) \/ Crash(l)
    PROVE  TypeOK'
<1>1. CASE WriteFails(l)
  <2>1. PhaseOf(pc[l]) \in PhasePCs
    BY DEF PhaseOf, PhasePCs
  <2>2. LoopTypeOK'
    BY <1>1, <2>1, FinishType DEF WriteFails, TypeOK
  <2> QED
    BY <1>1, <2>2, UnchangedTypes DEF WriteFails, TypeOK
<1>2. CASE Crash(l)
  <2>1. NoJob \in Job
    BY DEF NoJob, Job, NoRecord, Operations
  <2>2. LoopTypeOK'
    BY <1>2, <2>1 DEF Crash, Goto, TypeOK, LoopTypeOK, CallPCs, WritePCs
  <2> QED
    BY <1>2, <2>2, UnchangedTypes DEF Crash, TypeOK
<1> QED
  BY <1>1, <1>2

LEMMA AdminType ==
    ASSUME TypeOK, Admin
    PROVE  TypeOK'
<1>1. PICK s \in Sessions : AdminCreates(s) \/ AdminForceDestroys(s)
  BY DEF Admin
<1>2. StoreTypeOK'
  BY <1>1, StatusWritesType DEF AdminCreates, AdminForceDestroys, TypeOK
<1>3. UNCHANGED <<loopVars, providerVars, zoneVars, faults>>
  BY <1>1 DEF AdminCreates, AdminForceDestroys
<1> QED
  BY <1>2, <1>3, UnchangedTypes DEF TypeOK

LEMMA AccountsType ==
    ASSUME TypeOK, Accounts
    PROVE  TypeOK'
<1>1. CASE \E d \in Droplets : AddressArrives(d) \/ DropletLost(d)
  <2>1. PICK d \in Droplets : AddressArrives(d) \/ DropletLost(d)
    BY <1>1
  <2>2. ProviderTypeOK'
    BY <2>1 DEF AddressArrives, DropletLost, TypeOK, ProviderTypeOK
  <2>3. /\ UNCHANGED <<storeVars, loopVars, zoneVars>>
        /\ UNCHANGED faults \/ Fault
    BY <2>1 DEF AddressArrives, DropletLost
  <2> QED
    BY <2>2, <2>3, UnchangedTypes DEF TypeOK
<1>2. CASE \E s \in Sessions : RecordDrifts(s)
  <2>1. PICK s \in Sessions : RecordDrifts(s)
    BY <1>2
  <2>2. ZoneTypeOK'
    BY <2>1 DEF RecordDrifts, TypeOK, ZoneTypeOK
  <2> QED
    BY <2>1, <2>2, UnchangedTypes DEF RecordDrifts, TypeOK
<1> QED
  BY <1>1, <1>2 DEF Accounts

LEMMA InitType == Init => TypeOK
<1> SUFFICES ASSUME Init PROVE TypeOK
  OBVIOUS
<1>1. StoreTypeOK
  BY DEF Init, StoreInit, StoreTypeOK, Statuses, Phases, EventTypes, NoRecord
<1>2. LoopTypeOK
  BY DEF Init, LoopTypeOK, NoJob, Job, NoRecord, Operations, CallPCs, WritePCs
<1>3. ProviderTypeOK /\ ZoneTypeOK
  BY DEF Init, ProviderTypeOK, ZoneTypeOK
<1> QED
  BY <1>1, <1>2, <1>3, MaxFaultsAssumption DEF Init, TypeOK

LEMMA NextType == TypeOK /\ [Next]_vars => TypeOK'
<1> SUFFICES ASSUME TypeOK, [Next]_vars PROVE TypeOK'
  OBVIOUS
<1>1. CASE \E l \in Loops : LoopStep(l) \/ Crash(l)
  BY <1>1, ListsType, ProvisionsType, NamesType, TearsDownType, FailuresType
  DEF LoopStep
<1>2. CASE Admin
  BY <1>2, AdminType
<1>3. CASE Accounts
  BY <1>3, AccountsType
<1>4. CASE UNCHANGED vars
  BY <1>4, UnchangedTypes DEF vars, TypeOK
<1> QED
  BY <1>1, <1>2, <1>3, <1>4 DEF Next

\* Every variable keeps its type, and a loop about to write or to call again
\* has a row in hand, whatever fails or crashes and however many loops run.
THEOREM TypeCorrect == Spec => []TypeOK
  BY InitType, NextType, PTL DEF Spec

-----------------------------------------------------------------------------
(***************************************************************************)
(* Ownership: a droplet never changes hands.                               *)
(***************************************************************************)

LEMMA OwnInvImpliesServerIsOwn == OwnInv => ServerIsOwn
  BY DEF OwnInv, StoreOwn, WaitingHasServer, Owned, ServerIsOwn

TagsKept == \A d \in Droplets : dropletOf[d] \in Sessions => dropletOf'[d] = dropletOf[d]

LEMMA CreateDropletTags ==
    ASSUME TypeOK, TagsOK, NEW d \in Unborn, NEW s \in Sessions, CreateDroplet(d, s)
    PROVE  TagsOK' /\ TagsKept /\ dropletOf'[d] = s
  BY NoneAssumption
  DEF TypeOK, ProviderTypeOK, TagsOK, TagsKept, Unborn, CreateDroplet

LEMMA DestroyDropletsTags ==
    ASSUME TypeOK, TagsOK, NEW D, DestroyDroplets(D),
           \A d \in Droplets \cap D : dropletState[d] # "unborn"
    PROVE  TagsOK' /\ TagsKept
  BY DEF TypeOK, ProviderTypeOK, TagsOK, TagsKept, DestroyDroplets

LEMMA TagsUnchanged ==
    ASSUME TagsOK, UNCHANGED providerVars
    PROVE  TagsOK' /\ TagsKept
  BY DEF TagsOK, TagsKept, providerVars

LEMMA TagsStep ==
    ASSUME TypeOK, TagsOK, [Next]_vars
    PROVE  TagsOK' /\ TagsKept
<1>1. CASE UNCHANGED providerVars
  BY <1>1, TagsUnchanged
<1>2. ASSUME NEW l \in Loops, EnsureInstanceCreates(l) \/ EnsureInstanceFails(l)
      PROVE  TagsOK' /\ TagsKept
  <2>1. UNCHANGED providerVars
        \/ \E r \in batch[l] : \E d \in Unborn : CreateDroplet(d, r.session)
    BY <1>2 DEF EnsureInstanceCreates, EnsureInstanceFails
  <2>2. \A r \in batch[l] : r.session \in Sessions
    BY DEF TypeOK, LoopTypeOK, Row
  <2> QED
    BY <2>1, <2>2, TagsUnchanged, CreateDropletTags
<1>3. ASSUME NEW l \in Loops,
             DestroyRejected(l) \/ DestroyServer(l) \/ DestroyServerFails(l)
      PROVE  TagsOK' /\ TagsKept
  <2>1. PICK D \in SUBSET DestroyTargets(l) : DestroyDroplets(D)
    BY <1>3 DEF DestroyRejected, DestroyServer, DestroyServerFails
  <2>2. \A d \in Droplets \cap D : dropletState[d] # "unborn"
    BY <2>1 DEF DestroyTargets, Live
  <2> QED
    BY <2>1, <2>2, DestroyDropletsTags
<1>4. ASSUME NEW d \in Droplets, AddressArrives(d) \/ DropletLost(d)
      PROVE  TagsOK' /\ TagsKept
  BY <1>4 DEF AddressArrives, DropletLost, Live, TypeOK, ProviderTypeOK,
     TagsOK, TagsKept
<1>5. \/ UNCHANGED providerVars
      \/ \E l \in Loops : \/ EnsureInstanceCreates(l) \/ EnsureInstanceFails(l)
                         \/ DestroyRejected(l) \/ DestroyServer(l)
                         \/ DestroyServerFails(l)
      \/ \E d \in Droplets : AddressArrives(d) \/ DropletLost(d)
  <2>1. ASSUME NEW l \in Loops, Lists(l)
        PROVE  UNCHANGED providerVars
    BY <2>1 DEF Lists, ListCreated, ListProvisioning, ListDNS,
       ListTearingDown, EndStep, ListFails
  <2>2. ASSUME NEW l \in Loops, Provisions(l), ~EnsureInstanceCreates(l),
               ~EnsureInstanceFails(l), ~DestroyRejected(l)
        PROVE  UNCHANGED providerVars
    BY <2>2 DEF Provisions, Claim, ClaimFails, EnsureInstanceAdopts,
       EnsureInstanceRefused, WriteProvisioningFailed, WriteAssignment,
       AssignmentRejected
  <2>3. ASSUME NEW l \in Loops, Names(l)
        PROVE  UNCHANGED providerVars
    BY <2>3 DEF Names, EnsureARecord, EnsureARecordFails, WriteDNSConfigured,
       WriteDNSFailed
  <2>4. ASSUME NEW l \in Loops, TearsDown(l), ~DestroyServer(l),
               ~DestroyServerFails(l)
        PROVE  UNCHANGED providerVars
    BY <2>4 DEF TearsDown, DeleteRecord, DeleteRecordFails,
       WriteDNSDeleteFailed, WriteDNSDeleted, WriteDestroyed, WriteDestroyFailed
  <2>5. ASSUME NEW l \in Loops, WriteFails(l) \/ Crash(l)
        PROVE  UNCHANGED providerVars
    BY <2>5 DEF WriteFails, Crash
  <2>6. Admin => UNCHANGED providerVars
    BY DEF Admin, AdminCreates, AdminForceDestroys
  <2>7. ASSUME NEW s \in Sessions, RecordDrifts(s)
        PROVE  UNCHANGED providerVars
    BY <2>7 DEF RecordDrifts
  <2>8. UNCHANGED vars => UNCHANGED providerVars
    BY DEF vars
  <2> QED
    BY <2>1, <2>2, <2>3, <2>4, <2>5, <2>6, <2>7, <2>8
    DEF Next, LoopStep, Accounts
<1> QED
  BY <1>1, <1>2, <1>3, <1>4, <1>5

\* Rows and results that are owned before a step are owned after it.
OwnedRows(B) ==
    \A r \in B : Owned(r.session, r.instance) /\ Owned(r.session, r.ip)
OwnedJob(j) == Owned(j.session, j.instance) /\ Owned(j.session, j.ip)

LEMMA OwnedKept ==
    ASSUME TagsKept, NEW s, NEW d, Owned(s, d)
    PROVE  d \in Droplets => s \in Sessions /\ dropletOf'[d] = s
  BY DEF TagsKept, Owned

LEMMA CopiesKept ==
    ASSUME TagsKept, \A l \in Loops : OwnedRows(batch'[l]) /\ OwnedJob(job'[l])
    PROVE  CopiesOwn'
<1> SUFFICES ASSUME NEW l \in Loops
             PROVE  /\ \A r \in batch'[l] : Owned(r.session, r.instance)'
                                           /\ Owned(r.session, r.ip)'
                    /\ Owned(job[l].session, job[l].instance)'
                    /\ Owned(job[l].session, job[l].ip)'
  BY DEF CopiesOwn
<1>1. OwnedRows(batch'[l]) /\ OwnedJob(job'[l])
  OBVIOUS
<1>2. ASSUME NEW r \in batch'[l]
      PROVE  Owned(r.session, r.instance)' /\ Owned(r.session, r.ip)'
  <2>1. Owned(r.session, r.instance) /\ Owned(r.session, r.ip)
    BY <1>1 DEF OwnedRows
  <2> QED
    BY <2>1 DEF TagsKept, Owned
<1>3. /\ Owned(job[l].session, job[l].instance)'
      /\ Owned(job[l].session, job[l].ip)'
  BY <1>1 DEF OwnedJob, TagsKept, Owned
<1> QED
  BY <1>2, <1>3

\* The rows a loop lists are of the table's owners.
LEMMA SnapshotOwn ==
    ASSUME TypeOK, CopiesOwn, StoreOwn, TagsKept, NEW l \in Loops, NEW phase,
           NEW S \in SUBSET Sessions, EnterPhase(l, phase, S)
    PROVE  CopiesOwn'
<1>1. OwnedRows(Snapshot(S))
  <2> SUFFICES ASSUME NEW s \in Oldest(S)
               PROVE  Owned(s, instanceID[s]) /\ Owned(s, publicIP[s])
    BY DEF Snapshot, OwnedRows
  <2> QED
    BY DEF Oldest, StoreOwn
<1>2. \A m \in Loops : batch'[m] \in {batch[m], Snapshot(S)} /\ job'[m] = job[m]
  BY DEF EnterPhase, TypeOK, LoopTypeOK
<1>3. \A m \in Loops : OwnedRows(batch[m]) /\ OwnedJob(job[m])
  BY DEF CopiesOwn, OwnedRows, OwnedJob
<1> QED
  BY <1>1, <1>2, <1>3, CopiesKept

\* The rows a loop still has are rows it had.
LEMMA SmallerBatchOwn ==
    ASSUME CopiesOwn, TagsKept,
           \A m \in Loops : batch'[m] \subseteq batch[m],
           \A m \in Loops : job'[m] = job[m] \/ job'[m] = NoJob
    PROVE  CopiesOwn'
<1>1. OwnedJob(NoJob)
  BY NoneAssumption DEF NoJob, OwnedJob, Owned
<1>2. \A m \in Loops : OwnedRows(batch'[m])
  BY DEF CopiesOwn, OwnedRows
<1>3. \A m \in Loops : OwnedJob(job'[m])
  BY <1>1 DEF CopiesOwn, OwnedJob
<1> QED
  BY <1>2, <1>3, CopiesKept

LEMMA KeepOwn ==
    ASSUME TypeOK, CopiesOwn, TagsKept, NEW l \in Loops, NEW r \in batch[l],
           NEW where, NEW result, Keep(l, r, where, result),
           result.session \in Sessions,
           result.instance \in Droplets => dropletOf'[result.instance] = result.session,
           result.ip \in Droplets => dropletOf'[result.ip] = result.session
    PROVE  CopiesOwn'
<1>1. \A m \in Loops : batch'[m] \subseteq batch[m]
  BY DEF Keep, TypeOK, LoopTypeOK
<1>2. \A m \in Loops : job'[m] \in {job[m], result}
  BY DEF Keep, TypeOK, LoopTypeOK
<1>3. ASSUME NEW m \in Loops, NEW q \in batch'[m]
      PROVE  Owned(q.session, q.instance)' /\ Owned(q.session, q.ip)'
  <2>1. Owned(q.session, q.instance) /\ Owned(q.session, q.ip)
    BY <1>1 DEF CopiesOwn
  <2> QED
    BY <2>1 DEF TagsKept, Owned
<1>4. ASSUME NEW m \in Loops
      PROVE  /\ Owned(job[m].session, job[m].instance)'
             /\ Owned(job[m].session, job[m].ip)'
  <2>1. Owned(job[m].session, job[m].instance) /\ Owned(job[m].session, job[m].ip)
    BY DEF CopiesOwn
  <2> QED
    BY <1>2, <2>1 DEF TagsKept, Owned
<1> QED
  BY <1>3, <1>4 DEF CopiesOwn

LEMMA CopiesStep ==
    ASSUME TypeOK, TagsOK, CopiesOwn, StoreOwn, [Next]_vars
    PROVE  CopiesOwn'
<1>0. TagsKept
  BY TagsStep
<1>1. ASSUME NEW l \in Loops, NEW r \in batch[l]
      PROVE  /\ r \in Row /\ r.session \in Sessions
             /\ r.instance \in Droplets => dropletOf'[r.instance] = r.session
             /\ r.ip \in Droplets => dropletOf'[r.ip] = r.session
  <2>1. r \in Row /\ r.session \in Sessions
    BY DEF TypeOK, LoopTypeOK, Row
  <2>2. Owned(r.session, r.instance) /\ Owned(r.session, r.ip)
    BY DEF CopiesOwn
  <2> QED
    BY <1>0, <2>1, <2>2, OwnedKept
<1>2. ASSUME NEW l \in Loops, NEW r \in batch[l], NEW where,
             Keep(l, r, where, RowJob(r))
      PROVE  CopiesOwn'
  BY <1>0, <1>1, <1>2, KeepOwn, RowJobType
<1>3. ASSUME NEW l \in Loops, Finish(l, "claim") \/ Finish(l, "provision")
             \/ Finish(l, "dns") \/ Finish(l, "teardown")
      PROVE  CopiesOwn'
  <2>1. \A m \in Loops : batch'[m] \subseteq batch[m]
                       /\ (job'[m] = job[m] \/ job'[m] = NoJob)
    BY <1>3 DEF Finish, TypeOK, LoopTypeOK
  <2> QED
    BY <1>0, <2>1, SmallerBatchOwn
<1>4. CASE UNCHANGED <<batch, job>>
  BY <1>0, <1>4, SmallerBatchOwn
<1>5. ASSUME NEW l \in Loops, Lists(l)
      PROVE  CopiesOwn'
  <2>1. \/ UNCHANGED <<batch, job>>
        \/ \E phase : \E S \in SUBSET Sessions : EnterPhase(l, phase, S)
    BY <1>5 DEF Lists, ListCreated, ListProvisioning, ListDNS, ListTearingDown,
       EndStep, ListFails, WithStatus, DNSCandidates
  <2> QED
    BY <1>0, <1>4, <2>1, SnapshotOwn
<1>6. ASSUME NEW l \in Loops, Provisions(l)
      PROVE  CopiesOwn'
  <2>1. CASE Claim(l) \/ ClaimFails(l)
    <3>1. \A m \in Loops : batch'[m] \subseteq batch[m] /\ job'[m] = job[m]
      BY <2>1 DEF Claim, ClaimFails, TypeOK, LoopTypeOK
    <3> QED
      BY <1>0, <3>1, SmallerBatchOwn
  <2>2. CASE EnsureInstanceAdopts(l)
    <3>1. PICK r \in batch[l] : \E d \in Found(r) :
              Keep(l, r, "assign", InstanceJob(r, d, addressed, "adopted"))
      BY <2>2 DEF EnsureInstanceAdopts
    <3>2. PICK d \in Found(r) :
              Keep(l, r, "assign", InstanceJob(r, d, addressed, "adopted"))
      BY <3>1
    <3>3. d \in Droplets /\ dropletOf[d] = r.session
      BY <1>1 DEF Found, LiveOf, CopiesOwn, Owned
    <3>4. dropletOf'[d] = r.session
      BY <1>0, <1>1, <3>3 DEF TagsKept
    <3> QED
      BY <1>0, <1>1, <3>2, <3>3, <3>4, KeepOwn, InstanceJobType, NoneAssumption
      DEF Operations
  <2>3. CASE EnsureInstanceCreates(l)
    <3>1. PICK r \in batch[l], d \in Unborn :
              /\ CreateDroplet(d, r.session)
              /\ Keep(l, r, "assign", InstanceJob(r, d, addressed', "created"))
      BY <2>3 DEF EnsureInstanceCreates
    <3>2. d \in Droplets /\ dropletOf'[d] = r.session
      BY <1>1, <3>1, CreateDropletTags DEF Unborn
    <3> QED
      BY <1>0, <1>1, <3>1, <3>2, KeepOwn, InstanceJobType, NoneAssumption
      DEF Operations
  <2>4. CASE EnsureInstanceFails(l) \/ EnsureInstanceRefused(l)
    BY <2>4, <1>2 DEF EnsureInstanceFails, EnsureInstanceRefused
  <2>5. CASE WriteProvisioningFailed(l) \/ WriteAssignment(l) \/ DestroyRejected(l)
    BY <2>5, <1>3 DEF WriteProvisioningFailed, WriteAssignment, DestroyRejected
  <2>6. CASE AssignmentRejected(l)
    BY <2>6, <1>4 DEF AssignmentRejected
  <2> QED
    BY <1>6, <2>1, <2>2, <2>3, <2>4, <2>5, <2>6 DEF Provisions
<1>7. ASSUME NEW l \in Loops, Names(l)
      PROVE  CopiesOwn'
  <2>1. CASE EnsureARecord(l)
    <3>1. PICK r \in batch[l] : \E id, operation :
              Keep(l, r, "dns_ensured", RecordJob(r, id, operation))
      BY <2>1 DEF EnsureARecord
    <3>2. PICK id, operation :
              Keep(l, r, "dns_ensured", RecordJob(r, id, operation))
      BY <3>1
    <3> QED
      BY <1>0, <1>1, <3>2, KeepOwn DEF RecordJob
  <2>2. CASE EnsureARecordFails(l)
    BY <2>2, <1>2 DEF EnsureARecordFails
  <2>3. CASE WriteDNSConfigured(l) \/ WriteDNSFailed(l)
    BY <2>3, <1>3 DEF WriteDNSConfigured, WriteDNSFailed
  <2> QED
    BY <1>7, <2>1, <2>2, <2>3 DEF Names
<1>8. ASSUME NEW l \in Loops, TearsDown(l)
      PROVE  CopiesOwn'
  <2>1. CASE DeleteRecord(l) \/ DeleteRecordFails(l)
    BY <2>1, <1>2 DEF DeleteRecord, DeleteRecordFails
  <2>2. CASE WriteDNSDeleteFailed(l) \/ WriteDestroyed(l) \/ WriteDestroyFailed(l)
    BY <2>2, <1>3 DEF WriteDNSDeleteFailed, WriteDestroyed, WriteDestroyFailed
  <2>3. CASE WriteDNSDeleted(l) \/ DestroyServer(l) \/ DestroyServerFails(l)
    BY <2>3, <1>4 DEF WriteDNSDeleted, DestroyServer, DestroyServerFails
  <2> QED
    BY <1>8, <2>1, <2>2, <2>3 DEF TearsDown
<1>9. ASSUME NEW l \in Loops, WriteFails(l)
      PROVE  CopiesOwn'
  <2>1. PhaseOf(pc[l]) \in {"provision", "dns", "teardown"}
    BY Zenon DEF PhaseOf
  <2> QED
    BY <1>3, <1>9, <2>1 DEF WriteFails
<1>10. ASSUME NEW l \in Loops, Crash(l)
       PROVE  CopiesOwn'
  <2>1. \A m \in Loops : batch'[m] \subseteq batch[m]
                       /\ (job'[m] = job[m] \/ job'[m] = NoJob)
    BY <1>10 DEF Crash, TypeOK, LoopTypeOK
  <2> QED
    BY <1>0, <2>1, SmallerBatchOwn
<1>11. (Admin \/ Accounts \/ UNCHANGED vars) => UNCHANGED <<batch, job>>
  BY DEF Admin, Accounts, AdminCreates, AdminForceDestroys, AddressArrives,
     DropletLost, RecordDrifts, vars, loopVars
<1> QED
  BY <1>4, <1>5, <1>6, <1>7, <1>8, <1>9, <1>10, <1>11 DEF Next, LoopStep

\* All writes but an assignment leave instances and addresses alone and make
\* no session wait for DNS.
Quiet ==
    /\ UNCHANGED <<instanceID, publicIP>>
    /\ \A s \in Sessions :
        status'[s] = "waiting_for_dns" => status[s] = "waiting_for_dns"

LEMMA QuietStep ==
    ASSUME TypeOK, [Next]_vars, \A l \in Loops : ~WriteAssignment(l)
    PROVE  Quiet
<1> USE DEF Quiet
<1>1. CASE UNCHANGED storeVars
  BY <1>1 DEF storeVars
<1>2. ASSUME NEW s \in Sessions, NEW new \in Statuses \ {"waiting_for_dns"},
             NEW phase, NEW event, Transition(s, new, phase, event)
      PROVE  Quiet
  BY <1>2 DEF Transition, SetStatus, TypeOK, StoreTypeOK
<1>3. ASSUME NEW s \in Sessions,
             \/ CreateSession(s) \/ MarkProvisioningStarted(s)
             \/ MarkProvisioningFailed(s) \/ MarkForceDestroyStarted(s)
             \/ MarkForceDestroyed(s) \/ MarkForceDestroyFailed(s)
      PROVE  Quiet
  <2>1. \/ UNCHANGED storeVars
        \/ \E new \in Statuses \ {"waiting_for_dns"} : \E phase, event :
                Transition(s, new, phase, event)
    BY <1>3, Zenon DEF CreateSession, MarkProvisioningStarted, MarkProvisioningFailed,
       MarkForceDestroyStarted, MarkForceDestroyed, MarkForceDestroyFailed, Statuses
  <2> QED
    BY <1>1, <1>2, <2>1
<1>4. ASSUME NEW s, NEW id, NEW operation,
             \/ MarkDNSConfigured(s, id, operation)
             \/ MarkDNSFailed(s) \/ MarkDNSDeleted(s)
      PROVE  Quiet
  BY <1>1, <1>4 DEF MarkDNSConfigured, MarkDNSFailed, MarkDNSDeleted
<1>5. ASSUME NEW l \in Loops, LoopStep(l) \/ Crash(l)
      PROVE  Quiet
  <2>1. \A r \in batch[l] : r.session \in Sessions
    BY DEF TypeOK, LoopTypeOK, Row
  <2>2. pc[l] \in WritePCs => job[l].session \in Sessions
    BY DEF TypeOK, LoopTypeOK
  <2>3. CASE Provisions(l)
    <3>1. CASE Claim(l)
      BY <1>3, <2>1, <3>1 DEF Claim
    <3>2. CASE WriteProvisioningFailed(l)
      BY <1>3, <2>2, <3>2 DEF WriteProvisioningFailed, WritePCs
    <3>3. CASE AssignmentRejected(l)
      BY <1>1, <3>3 DEF AssignmentRejected, AssignInstance, Accepts
    <3>4. CASE \/ ClaimFails(l) \/ EnsureInstanceAdopts(l)
               \/ EnsureInstanceCreates(l) \/ EnsureInstanceFails(l)
               \/ EnsureInstanceRefused(l) \/ DestroyRejected(l)
      BY <1>1, <3>4 DEF ClaimFails, EnsureInstanceAdopts,
         EnsureInstanceCreates, EnsureInstanceFails, EnsureInstanceRefused,
         DestroyRejected
    <3> QED
      BY <2>3, <3>1, <3>2, <3>3, <3>4 DEF Provisions
  <2>4. CASE TearsDown(l)
    <3>1. CASE WriteDestroyed(l) \/ WriteDestroyFailed(l)
      BY <1>3, <2>2, <3>1 DEF WriteDestroyed, WriteDestroyFailed, WritePCs
    <3>2. CASE WriteDNSDeleteFailed(l) \/ WriteDNSDeleted(l)
      BY <1>4, <3>2 DEF WriteDNSDeleteFailed, WriteDNSDeleted
    <3>3. CASE \/ DeleteRecord(l) \/ DeleteRecordFails(l) \/ DestroyServer(l)
               \/ DestroyServerFails(l)
      BY <1>1, <3>3 DEF DeleteRecord, DeleteRecordFails, DestroyServer,
         DestroyServerFails
    <3> QED
      BY <2>4, <3>1, <3>2, <3>3 DEF TearsDown
  <2>5. CASE Names(l)
    BY <1>1, <1>4, <2>5 DEF Names, EnsureARecord, EnsureARecordFails,
       WriteDNSConfigured, WriteDNSFailed
  <2>6. CASE Lists(l)
    BY <1>1, <2>6 DEF Lists, ListCreated, ListProvisioning, ListDNS,
       ListTearingDown, EndStep, ListFails
  <2>7. CASE WriteFails(l) \/ Crash(l)
    BY <1>1, <2>7 DEF WriteFails, Crash
  <2> QED
    BY <1>5, <2>3, <2>4, <2>5, <2>6, <2>7 DEF LoopStep
<1>6. CASE Admin
  BY <1>3, <1>6 DEF Admin, AdminCreates, AdminForceDestroys
<1>7. CASE Accounts
  BY <1>1, <1>7 DEF Accounts, AddressArrives, DropletLost, RecordDrifts
<1> QED
  BY <1>1, <1>5, <1>6, <1>7 DEF Next, vars

\* A record gets the address of a listed row, or something foreign.
LEMMA RecordStep ==
    ASSUME TypeOK, [Next]_vars, NEW s \in Sessions
    PROVE  \/ aRecord'[s] \in {aRecord[s], None}
           \/ aRecord'[s] = Elsewhere /\ aRecord[s] # None
           \/ \E l \in Loops : \E r \in batch[l] :
                /\ pc[l] = "dns" /\ pc'[l] \in {"dns_ensured", "dns_failed"}
                /\ r.session = s /\ r.ip = aRecord'[s]
                /\ batch'[l] = batch[l] \ {r}
                /\ UNCHANGED <<storeVars, providerVars>>
<1> DEFINE Ensured(l) == \E r \in batch[l] :
                /\ pc[l] = "dns" /\ pc'[l] \in {"dns_ensured", "dns_failed"}
                /\ r.session = s /\ r.ip = aRecord'[s]
                /\ batch'[l] = batch[l] \ {r}
                /\ UNCHANGED <<storeVars, providerVars>>
<1> DEFINE Kept == \/ aRecord'[s] \in {aRecord[s], None}
                   \/ aRecord'[s] = Elsewhere /\ aRecord[s] # None
<1>2. ASSUME NEW l \in Loops, EnsureARecord(l) \/ EnsureARecordFails(l)
      PROVE  aRecord'[s] = aRecord[s] \/ Ensured(l)
  <2>1. PICK r \in batch[l] :
            /\ UNCHANGED zoneVars \/ PutRecord(r.session, r.ip)
            /\ \E where \in {"dns_ensured", "dns_failed"} : \E result :
                    Keep(l, r, where, result)
    BY <1>2 DEF EnsureARecord, EnsureARecordFails
  <2>2. aRecord'[s] = aRecord[s] \/ (r.session = s /\ r.ip = aRecord'[s])
    BY <2>1 DEF PutRecord, zoneVars, TypeOK, ZoneTypeOK
  <2>3. pc[l] = "dns" /\ UNCHANGED <<storeVars, providerVars>>
    BY <1>2 DEF EnsureARecord, EnsureARecordFails
  <2>4. pc'[l] \in {"dns_ensured", "dns_failed"} /\ batch'[l] = batch[l] \ {r}
    BY <2>1 DEF Keep, Goto, TypeOK, LoopTypeOK
  <2> QED
    BY <2>2, <2>3, <2>4
<1>3. ASSUME NEW l \in Loops, DeleteRecord(l) \/ DeleteRecordFails(l)
      PROVE  aRecord'[s] \in {aRecord[s], None}
  BY <1>3 DEF DeleteRecord, DeleteRecordFails, DropRecord, zoneVars, TypeOK,
     ZoneTypeOK
<1>4. ASSUME NEW t \in Sessions, RecordDrifts(t)
      PROVE  Kept
  BY <1>4 DEF RecordDrifts, TypeOK, ZoneTypeOK
<1>5. ASSUME NEW l \in Loops, LoopStep(l) \/ Crash(l), ~EnsureARecord(l),
             ~EnsureARecordFails(l), ~DeleteRecord(l), ~DeleteRecordFails(l)
      PROVE  UNCHANGED zoneVars
  <2>1. CASE Provisions(l)
    BY <2>1 DEF Provisions, Claim, ClaimFails, EnsureInstanceAdopts,
       EnsureInstanceCreates, EnsureInstanceFails, EnsureInstanceRefused,
       WriteProvisioningFailed, WriteAssignment, AssignmentRejected,
       DestroyRejected
  <2>2. CASE TearsDown(l) \/ Names(l)
    BY <1>5, <2>2 DEF TearsDown, Names, WriteDNSDeleteFailed, WriteDNSDeleted,
       DestroyServer, DestroyServerFails, WriteDestroyed, WriteDestroyFailed,
       WriteDNSConfigured, WriteDNSFailed
  <2>3. CASE Lists(l) \/ WriteFails(l) \/ Crash(l)
    BY <2>3 DEF Lists, ListCreated, ListProvisioning, ListDNS,
       ListTearingDown, EndStep, ListFails, WriteFails, Crash
  <2> QED
    BY <1>5, <2>1, <2>2, <2>3 DEF LoopStep
<1>6. ASSUME \/ Admin \/ UNCHANGED vars
             \/ \E d \in Droplets : AddressArrives(d) \/ DropletLost(d)
      PROVE  aRecord'[s] = aRecord[s]
  BY <1>6 DEF zoneVars, Admin, AdminCreates, AdminForceDestroys, AddressArrives,
     DropletLost, vars
<1> HIDE DEF Ensured
<1>7. ASSUME NEW l \in Loops, LoopStep(l) \/ Crash(l)
      PROVE  Kept \/ Ensured(l)
  BY <1>2, <1>3, <1>5, <1>7 DEF zoneVars
<1>8. \/ \E l \in Loops : LoopStep(l) \/ Crash(l)
      \/ \E t \in Sessions : RecordDrifts(t)
      \/ Admin \/ (\E d \in Droplets : AddressArrives(d) \/ DropletLost(d))
      \/ UNCHANGED vars
  BY DEF Next, Accounts
<1>9. Kept \/ \E l \in Loops : Ensured(l)
  BY <1>4, <1>6, <1>7, <1>8
<1> QED
  BY <1>9 DEF Ensured

LEMMA StoreOwnStep ==
    ASSUME OwnInv, [Next]_vars
    PROVE  StoreOwn' /\ WaitingHasServer'
<1>0. TypeOK /\ TagsKept
  BY TagsStep DEF OwnInv
<1>1. ASSUME NEW s \in Sessions
      PROVE  Owned(s, aRecord[s])'
  <2>1. CASE aRecord'[s] \in {aRecord[s], None, Elsewhere}
    BY <1>0, <2>1, NoneAssumption, ElsewhereAssumption
    DEF OwnInv, StoreOwn, Owned, TagsKept
  <2>2. ASSUME NEW l \in Loops, NEW r \in batch[l], r.session = s,
               r.ip = aRecord'[s]
        PROVE  Owned(s, aRecord[s])'
    BY <1>0, <2>2 DEF OwnInv, CopiesOwn, Owned, TagsKept
  <2> QED
    BY <1>0, <2>1, <2>2, RecordStep
<1>2. CASE Quiet
  <2>1. \A s \in Sessions : Owned(s, instanceID[s])' /\ Owned(s, publicIP[s])'
    BY <1>0, <1>2 DEF Quiet, OwnInv, StoreOwn, Owned, TagsKept
  <2>2. WaitingHasServer'
    BY <1>2 DEF Quiet, OwnInv, WaitingHasServer
  <2> QED
    BY <1>1, <2>1, <2>2 DEF StoreOwn
<1>3. ASSUME NEW l \in Loops, WriteAssignment(l)
      PROVE  StoreOwn' /\ WaitingHasServer'
  <2> DEFINE s == job[l].session
             d == job[l].instance
             ip == job[l].ip
  <2>1. s \in Sessions /\ d \in Droplets /\ ip \in {None, d}
    BY <1>0, <1>3 DEF WriteAssignment, TypeOK, LoopTypeOK, WritePCs
  <2>2. dropletOf' = dropletOf
    BY <1>3 DEF WriteAssignment, providerVars
  <2>3. Owned(s, d) /\ Owned(s, ip)
    BY DEF OwnInv, CopiesOwn
  <2>4. AssignInstance(s, d, ip, job[l].operation = "adopted")
    BY <1>3 DEF WriteAssignment
  <2> HIDE DEF s, d, ip
  <2>5. \/ UNCHANGED storeVars
        \/ /\ Place(s, d, ip)
           /\ status' = status
           /\ status[s] = "tearing_down"
        \/ /\ Place(s, d, ip)
           /\ SetStatus(s, IF ip = None THEN "provisioning" ELSE "waiting_for_dns")
    BY <2>4 DEF AssignInstance
  <2>6. \A t \in Sessions : Owned(t, instanceID[t])' /\ Owned(t, publicIP[t])'
    BY <1>0, <2>1, <2>2, <2>3, <2>5
    DEF Place, storeVars, OwnInv, StoreOwn, Owned, TypeOK, StoreTypeOK
  <2>7. ASSUME NEW t \in Sessions, status'[t] = "waiting_for_dns"
        PROVE  instanceID'[t] \in Droplets /\ publicIP'[t] = instanceID'[t]
    <3>1. CASE t = s
      BY <1>0, <2>1, <2>5, <2>7, <3>1, NoneAssumption
      DEF Place, SetStatus, storeVars, OwnInv, WaitingHasServer, TypeOK,
          StoreTypeOK
    <3>2. CASE t # s
      BY <1>0, <2>5, <2>7, <3>2
      DEF Place, SetStatus, storeVars, OwnInv, WaitingHasServer, TypeOK,
          StoreTypeOK
    <3> QED
      BY <3>1, <3>2
  <2> QED
    BY <1>1, <2>6, <2>7 DEF StoreOwn, WaitingHasServer
<1> QED
  BY <1>0, <1>2, <1>3, QuietStep

LEMMA OwnInvInit == Init => OwnInv
<1> SUFFICES ASSUME Init PROVE OwnInv
  OBVIOUS
<1>1. TypeOK
  BY InitType
<1>2. TagsOK
  BY DEF Init, TagsOK
<1>3. CopiesOwn
  BY NoneAssumption DEF Init, CopiesOwn, NoJob, Owned
<1>4. StoreOwn /\ WaitingHasServer
  BY NoneAssumption DEF Init, StoreInit, StoreOwn, Owned, WaitingHasServer
<1> QED
  BY <1>1, <1>2, <1>3, <1>4 DEF OwnInv

LEMMA OwnInvNext == OwnInv /\ [Next]_vars => OwnInv'
  BY NextType, TagsStep, CopiesStep, StoreOwnStep DEF OwnInv

LEMMA OwnInvAlways == Spec => []OwnInv
  BY OwnInvInit, OwnInvNext, PTL DEF Spec

\* However many loops run and whatever fails, a room domain, a stored instance
\* and a stored address are never those of another session's server.
THEOREM ServerIsAlwaysOwn == Spec => []ServerIsOwn
  BY OwnInvAlways, OwnInvImpliesServerIsOwn, PTL

-----------------------------------------------------------------------------
(***************************************************************************)
(* How a step changes the statuses, the droplets and a loop.               *)
(***************************************************************************)

\* Why the status of s changed.
StatusMove(s) ==
    \/ status[s] = "absent" /\ status'[s] = "created"
    \/ status[s] = "created" /\ status'[s] = "provisioning"
    \/ /\ status[s] \in {"provisioning", "waiting_for_dns", "failed"}
       /\ status'[s] = "tearing_down" /\ s \in condemned'
    \/ \E l \in Loops :
        /\ job[l].session = s /\ pc'[l] \in PhasePCs
        /\ \/ pc[l] = "provision_failed" /\ status[s] = "provisioning"
                                         /\ status'[s] = "failed"
           \/ pc[l] = "assign" /\ status[s] = "provisioning"
                               /\ status'[s] = "waiting_for_dns"
           \/ pc[l] = "destroyed" /\ status[s] = "tearing_down"
                                  /\ status'[s] = "ended"
           \/ pc[l] = "destroy_failed" /\ status[s] = "tearing_down"
                                       /\ status'[s] = "failed"

LEMMA TransitionMove ==
    ASSUME TypeOK, NEW s \in Sessions, NEW t \in Sessions, NEW new, NEW phase,
           NEW event, Transition(t, new, phase, event), status'[s] # status[s]
    PROVE  s = t /\ status'[s] = new
  BY DEF Transition, SetStatus, TypeOK, StoreTypeOK

LEMMA StatusStep ==
    ASSUME TypeOK, [Next]_vars, NEW s \in Sessions, status'[s] # status[s]
    PROVE  StatusMove(s) /\ UNCHANGED <<providerVars, zoneVars>>
<1>1. ~UNCHANGED status
  OBVIOUS
<1>2. ASSUME NEW l \in Loops, LoopStep(l) \/ Crash(l)
      PROVE  StatusMove(s) /\ UNCHANGED <<providerVars, zoneVars>>
  <2>1. pc[l] \in WritePCs => job[l].session \in Sessions
    BY DEF TypeOK, LoopTypeOK
  <2>2. \A r \in batch[l] : r.session \in Sessions
    BY DEF TypeOK, LoopTypeOK, Row
  <2>3. ~UNCHANGED storeVars
    BY <1>1 DEF storeVars
  <2>4. \/ Claim(l) \/ WriteProvisioningFailed(l) \/ WriteAssignment(l)
        \/ WriteDestroyed(l) \/ WriteDestroyFailed(l)
    <3>1. ~Lists(l)
      BY <2>3 DEF Lists, ListCreated, ListProvisioning, ListDNS,
         ListTearingDown, EndStep, ListFails
    <3>2. ASSUME Names(l) PROVE FALSE
      BY <1>1, <2>3, <3>2 DEF Names, EnsureARecord, EnsureARecordFails,
         WriteDNSConfigured, WriteDNSFailed, MarkDNSConfigured, MarkDNSFailed
    <3>3. ~WriteFails(l) /\ ~Crash(l)
      BY <2>3 DEF WriteFails, Crash
    <3>4. ~AssignmentRejected(l)
      BY <2>3 DEF AssignmentRejected, AssignInstance, Accepts
    <3>5. /\ ~ClaimFails(l) /\ ~EnsureInstanceAdopts(l)
          /\ ~EnsureInstanceCreates(l) /\ ~EnsureInstanceFails(l)
          /\ ~EnsureInstanceRefused(l) /\ ~DestroyRejected(l)
      BY <2>3 DEF ClaimFails, EnsureInstanceAdopts, EnsureInstanceCreates,
         EnsureInstanceFails, EnsureInstanceRefused, DestroyRejected
    <3>6. /\ ~DeleteRecord(l) /\ ~DeleteRecordFails(l)
          /\ ~DestroyServer(l) /\ ~DestroyServerFails(l)
      BY <2>3 DEF DeleteRecord, DeleteRecordFails, DestroyServer,
         DestroyServerFails
    <3>7. ~WriteDNSDeleteFailed(l) /\ ~WriteDNSDeleted(l)
      BY <1>1, <2>3 DEF WriteDNSDeleteFailed, WriteDNSDeleted, MarkDNSFailed,
         MarkDNSDeleted
    <3> QED
      BY <1>2, <3>1, <3>2, <3>3, <3>4, <3>5, <3>6, <3>7
      DEF LoopStep, Provisions, TearsDown
  <2>5. UNCHANGED <<providerVars, zoneVars>>
    BY <2>4 DEF Claim, WriteProvisioningFailed, WriteAssignment,
       WriteDestroyed, WriteDestroyFailed
  <2>6. CASE Claim(l)
    BY <2>2, <2>3, <2>6, TransitionMove
    DEF Claim, MarkProvisioningStarted, StatusMove
  <2>7. CASE WriteProvisioningFailed(l)
    BY <2>1, <2>3, <2>7, TransitionMove
    DEF WriteProvisioningFailed, MarkProvisioningFailed, StatusMove, WritePCs, PhasePCs,
        Finish,
        Goto, TypeOK, LoopTypeOK
  <2>8. CASE WriteAssignment(l)
    BY <1>1, <2>1, <2>3, <2>8
    DEF WriteAssignment, AssignInstance, SetStatus, StatusMove, WritePCs,
        PhasePCs, Finish, Goto, TypeOK, StoreTypeOK, LoopTypeOK
  <2>9. CASE WriteDestroyed(l)
    BY <2>1, <2>3, <2>9, TransitionMove
    DEF WriteDestroyed, MarkForceDestroyed, StatusMove, WritePCs, PhasePCs, Finish, Goto,
        TypeOK, LoopTypeOK
  <2>10. CASE WriteDestroyFailed(l)
    BY <2>1, <2>3, <2>10, TransitionMove
    DEF WriteDestroyFailed, MarkForceDestroyFailed, StatusMove, WritePCs, PhasePCs, Finish,
        Goto, TypeOK, LoopTypeOK
  <2> QED
    BY <2>4, <2>5, <2>6, <2>7, <2>8, <2>9, <2>10
<1>3. ASSUME NEW t \in Sessions, AdminCreates(t) \/ AdminForceDestroys(t)
      PROVE  StatusMove(s) /\ UNCHANGED <<providerVars, zoneVars>>
  <2>1. ASSUME MarkForceDestroyStarted(t) PROVE t \in condemned'
    BY <2>1 DEF MarkForceDestroyStarted, Transition, Record
  <2> QED
    BY <1>3, <2>1, TransitionMove
    DEF AdminCreates, AdminForceDestroys, CreateSession,
        MarkForceDestroyStarted, StatusMove
<1>4. ~Accounts /\ ~UNCHANGED vars
  BY <1>1 DEF Accounts, AddressArrives, DropletLost, RecordDrifts, storeVars, vars
<1> QED
  BY <1>2, <1>3, <1>4 DEF Next, Admin

\* Why the state of droplet d changed.
DropletMove(d) ==
    \/ dropletState'[d] = "lost" /\ dropletOf'[d] = dropletOf[d]
    \/ /\ dropletState[d] = "unborn" /\ dropletState'[d] = "live"
       /\ \E l \in Loops : /\ pc[l] = "provision"
                           /\ \E r \in batch[l] : dropletOf'[d] = r.session
    \/ /\ dropletState[d] = "live" /\ dropletState'[d] = "destroyed"
       /\ dropletOf'[d] = dropletOf[d]
       /\ \E l \in Loops : /\ pc[l] \in CallPCs
                           /\ dropletOf[d] = job[l].session

LEMMA DropletStep ==
    ASSUME OwnInv, [Next]_vars, NEW d \in Droplets
    PROVE  \/ dropletState'[d] = dropletState[d] /\ dropletOf'[d] = dropletOf[d]
           \/ DropletMove(d) /\ UNCHANGED <<storeVars, zoneVars>>
<1> DEFINE Same == dropletState'[d] = dropletState[d] /\ dropletOf'[d] = dropletOf[d]
           Moved == DropletMove(d) /\ UNCHANGED <<storeVars, zoneVars>>
<1>0. TypeOK
  BY DEF OwnInv
<1>1. UNCHANGED providerVars => Same
  BY DEF providerVars
<1>2. ASSUME NEW l \in Loops, EnsureInstanceCreates(l) \/ EnsureInstanceFails(l)
      PROVE  Same \/ Moved
  <2>1. \/ UNCHANGED providerVars
        \/ \E r \in batch[l] : \E e \in Unborn : CreateDroplet(e, r.session)
    BY <1>2 DEF EnsureInstanceCreates, EnsureInstanceFails
  <2>2. pc[l] = "provision" /\ UNCHANGED <<storeVars, zoneVars>>
    BY <1>2 DEF EnsureInstanceCreates, EnsureInstanceFails
  <2>3. ASSUME NEW r \in batch[l], NEW e \in Unborn, CreateDroplet(e, r.session)
        PROVE  Same \/ DropletMove(d)
    BY <1>0, <2>2, <2>3
    DEF CreateDroplet, Unborn, DropletMove, TypeOK, ProviderTypeOK
  <2> QED
    BY <1>1, <2>1, <2>2, <2>3
<1>3. ASSUME NEW l \in Loops,
             DestroyRejected(l) \/ DestroyServer(l) \/ DestroyServerFails(l)
      PROVE  Same \/ Moved
  <2>1. PICK D \in SUBSET DestroyTargets(l) : DestroyDroplets(D)
    BY <1>3 DEF DestroyRejected, DestroyServer, DestroyServerFails
  <2>2. pc[l] \in CallPCs /\ UNCHANGED <<storeVars, zoneVars>>
    BY <1>3 DEF DestroyRejected, DestroyServer, DestroyServerFails, CallPCs
  <2>3. d \in D => dropletState[d] = "live" /\ dropletOf[d] = job[l].session
    BY <2>1 DEF DestroyTargets, Live, OwnInv, CopiesOwn, Owned
  <2> QED
    BY <2>1, <2>2, <2>3 DEF DestroyDroplets, DropletMove
<1>4. ASSUME NEW e \in Droplets, AddressArrives(e) \/ DropletLost(e)
      PROVE  Same \/ Moved
  BY <1>0, <1>4
  DEF AddressArrives, DropletLost, DropletMove, TypeOK, ProviderTypeOK
<1>5. ASSUME NEW l \in Loops, LoopStep(l) \/ Crash(l), ~EnsureInstanceCreates(l),
             ~EnsureInstanceFails(l), ~DestroyRejected(l), ~DestroyServer(l),
             ~DestroyServerFails(l)
      PROVE  UNCHANGED providerVars
  <2>1. CASE Provisions(l)
    BY <1>5, <2>1 DEF Provisions, Claim, ClaimFails, EnsureInstanceAdopts,
       EnsureInstanceRefused, WriteProvisioningFailed, WriteAssignment,
       AssignmentRejected
  <2>2. CASE TearsDown(l) \/ Names(l)
    BY <1>5, <2>2 DEF TearsDown, Names, DeleteRecord, DeleteRecordFails,
       WriteDNSDeleteFailed, WriteDNSDeleted, WriteDestroyed,
       WriteDestroyFailed, EnsureARecord, EnsureARecordFails,
       WriteDNSConfigured, WriteDNSFailed
  <2>3. CASE Lists(l) \/ WriteFails(l) \/ Crash(l)
    BY <2>3 DEF Lists, ListCreated, ListProvisioning, ListDNS,
       ListTearingDown, EndStep, ListFails, WriteFails, Crash
  <2> QED
    BY <1>5, <2>1, <2>2, <2>3 DEF LoopStep
<1>6. Admin \/ UNCHANGED vars \/ (\E s \in Sessions : RecordDrifts(s))
        => UNCHANGED providerVars
  BY DEF Admin, AdminCreates, AdminForceDestroys, RecordDrifts, vars
<1> HIDE DEF Same, Moved
<1>7. ASSUME NEW l \in Loops, LoopStep(l) \/ Crash(l)
      PROVE  Same \/ Moved
  BY <1>1, <1>2, <1>3, <1>5, <1>7
<1>8. Same \/ Moved
  BY <1>1, <1>4, <1>6, <1>7 DEF Next, Accounts
<1> QED
  BY <1>8 DEF Same, Moved

\* The ways in which a step can move loop l.
Rests(l) ==
    pc'[l] \in {"sleep"} \cup PhasePCs /\ batch'[l] = {} /\ job'[l] = NoJob

Enters(l, phase, S) ==
    /\ pc[l] \in {"sleep"} \cup PhasePCs /\ pc'[l] = phase
    /\ batch'[l] = Snapshot(S) /\ job'[l] = job[l]
    /\ UNCHANGED <<storeVars, providerVars, zoneVars>>

Claims(l) ==
    /\ pc[l] = "claim" /\ pc'[l] = "claim"
    /\ batch'[l] \subseteq batch[l] /\ job'[l] = job[l]

Keeps(l, r) ==
    /\ batch'[l] = batch[l] \ {r} /\ job'[l].session = r.session
    /\ status' = status
    /\ \/ pc[l] = "provision" /\ pc'[l] \in {"assign", "provision_failed"}
       \/ pc[l] = "dns" /\ pc'[l] \in {"dns_ensured", "dns_failed"}
       \/ /\ pc[l] = "teardown" /\ pc'[l] \in {"dns_deleted", "dns_delete_failed"}
          /\ pc'[l] = "dns_deleted" => aRecord'[r.session] = None

Finishes(l) ==
    /\ batch'[l] = batch[l] /\ job'[l] = NoJob
    /\ \/ pc[l] \in {"assign", "provision_failed", "reject"} /\ pc'[l] = "provision"
       \/ pc[l] \in {"dns_ensured", "dns_failed"} /\ pc'[l] = "dns"
       \/ /\ pc[l] \in TeardownPCs
          /\ pc'[l] = "teardown"

Continues(l) ==
    /\ batch'[l] = batch[l] /\ job'[l] = job[l]
    /\ \/ /\ pc[l] = "assign" /\ pc'[l] = "reject"
          /\ ~Accepts(job[l].session)
       \/ pc[l] = "dns_deleted" /\ pc'[l] = "destroy"
       \/ pc[l] = "destroy" /\ pc'[l] = "destroy_failed"
       \/ pc[l] = "destroy" /\ pc'[l] = "destroyed" /\ LiveOf(job[l].session)' = {}

LoopMove(l) ==
    \/ pc'[l] = pc[l] /\ batch'[l] = batch[l] /\ job'[l] = job[l]
    \/ Rests(l)
    \/ Enters(l, "claim", WithStatus("created"))
    \/ Enters(l, "provision", WithStatus("provisioning"))
    \/ Enters(l, "dns", DNSCandidates)
    \/ Enters(l, "teardown", WithStatus("tearing_down"))
    \/ Claims(l)
    \/ \E r \in batch[l] : Keeps(l, r)
    \/ Finishes(l)
    \/ Continues(l)

LEMMA LoopStepMoves ==
    ASSUME TypeOK, RowsDistinct, NEW l \in Loops, LoopStep(l) \/ Crash(l)
    PROVE  LoopMove(l)
<1> USE DEF LoopMove
<1>1. ASSUME NEW phase, NEW S, EnterPhase(l, phase, S),
             UNCHANGED <<storeVars, providerVars, zoneVars>>,
             pc[l] \in {"sleep"} \cup PhasePCs
      PROVE  Enters(l, phase, S)
  BY <1>1 DEF EnterPhase, Goto, Enters, TypeOK, LoopTypeOK
<1>2. ASSUME NEW r \in batch[l], NEW where, NEW result, Keep(l, r, where, result)
      PROVE  /\ batch'[l] = batch[l] \ {r}
             /\ pc'[l] = where
             /\ job'[l] = result
  BY <1>2 DEF Keep, Goto, TypeOK, LoopTypeOK
<1>3. ASSUME NEW phase, Finish(l, phase)
      PROVE  batch'[l] = batch[l] /\ job'[l] = NoJob /\ pc'[l] = phase
  BY <1>3 DEF Finish, Goto, TypeOK, LoopTypeOK
<1>4. ASSUME NEW where, Goto(l, where)
      PROVE  pc'[l] = where
  BY <1>4 DEF Goto, TypeOK, LoopTypeOK
<1>5. \A r \in batch[l] : r \in Row
  BY DEF TypeOK, LoopTypeOK
<1>6. ASSUME NEW r \in batch[l]
      PROVE  RowJob(r).session = r.session
  BY <1>5, RowJobType
<1>7. CASE Lists(l)
  <2>1. CASE ListCreated(l)
    BY <1>1, <2>1, Zenon DEF ListCreated
  <2>2. CASE ListProvisioning(l)
    BY <1>1, <2>2, Zenon DEF ListProvisioning, PhasePCs
  <2>3. CASE ListDNS(l)
    BY <1>1, <2>3, Zenon DEF ListDNS, PhasePCs
  <2>4. CASE ListTearingDown(l)
    BY <1>1, <2>4, Zenon DEF ListTearingDown, PhasePCs
  <2>5. CASE EndStep(l) \/ ListFails(l)
    BY <1>4, <2>5 DEF EndStep, ListFails, Rests, RowsDistinct, PhasePCs
  <2> QED
    BY <1>7, <2>1, <2>2, <2>3, <2>4, <2>5 DEF Lists
<1>8. CASE Provisions(l)
  <2>1. CASE Claim(l) \/ ClaimFails(l)
    BY <2>1 DEF Claim, ClaimFails, Claims, TypeOK, LoopTypeOK
  <2>2. CASE EnsureInstanceAdopts(l)
    <3>1. PICK r \in batch[l] : \E d :
              Keep(l, r, "assign", InstanceJob(r, d, addressed, "adopted"))
      BY <2>2 DEF EnsureInstanceAdopts
    <3> QED
      BY <1>2, <2>2, <3>1
      DEF EnsureInstanceAdopts, Keeps, InstanceJob, storeVars
  <2>3. CASE EnsureInstanceCreates(l)
    <3>1. PICK r \in batch[l] : \E d :
              Keep(l, r, "assign", InstanceJob(r, d, addressed', "created"))
      BY <2>3 DEF EnsureInstanceCreates
    <3> QED
      BY <1>2, <2>3, <3>1
      DEF EnsureInstanceCreates, Keeps, InstanceJob, storeVars
  <2>4. CASE EnsureInstanceFails(l) \/ EnsureInstanceRefused(l)
    <3>1. PICK r \in batch[l] : Keep(l, r, "provision_failed", RowJob(r))
      BY <2>4 DEF EnsureInstanceFails, EnsureInstanceRefused
    <3> QED
      BY <1>2, <1>6, <2>4, <3>1
      DEF EnsureInstanceFails, EnsureInstanceRefused, Keeps, storeVars
  <2>5. CASE WriteProvisioningFailed(l) \/ WriteAssignment(l) \/ DestroyRejected(l)
    BY <1>3, <2>5
    DEF WriteProvisioningFailed, WriteAssignment, DestroyRejected, Finishes
  <2>6. CASE AssignmentRejected(l)
    BY <1>4, <2>6 DEF AssignmentRejected, Continues
  <2> QED
    BY <1>8, <2>1, <2>2, <2>3, <2>4, <2>5, <2>6 DEF Provisions
<1>9. CASE Names(l)
  <2>1. CASE EnsureARecord(l)
    <3>1. PICK r \in batch[l] : \E id, operation :
              Keep(l, r, "dns_ensured", RecordJob(r, id, operation))
      BY <2>1 DEF EnsureARecord
    <3> QED
      BY <1>2, <2>1, <3>1 DEF EnsureARecord, Keeps, RecordJob, storeVars
  <2>2. CASE EnsureARecordFails(l)
    BY <1>2, <1>6, <2>2 DEF EnsureARecordFails, Keeps, storeVars
  <2>3. CASE WriteDNSConfigured(l) \/ WriteDNSFailed(l)
    BY <1>3, <2>3 DEF WriteDNSConfigured, WriteDNSFailed, Finishes
  <2> QED
    BY <1>9, <2>1, <2>2, <2>3 DEF Names
<1>10. CASE TearsDown(l)
  <2>1. CASE DeleteRecord(l)
    <3>1. PICK r \in batch[l] : /\ DropRecord(r.session)
                                /\ Keep(l, r, "dns_deleted", RowJob(r))
      BY <2>1 DEF DeleteRecord
    <3>2. aRecord'[r.session] = None
      BY <1>5, <3>1 DEF DropRecord, TypeOK, ZoneTypeOK, Row
    <3> QED
      BY <1>2, <1>6, <2>1, <3>1, <3>2 DEF DeleteRecord, Keeps, storeVars
  <2>2. CASE DeleteRecordFails(l)
    BY <1>2, <1>6, <2>2 DEF DeleteRecordFails, Keeps, storeVars
  <2>3. CASE WriteDNSDeleteFailed(l) \/ WriteDestroyed(l) \/ WriteDestroyFailed(l)
    BY <1>3, <2>3
    DEF WriteDNSDeleteFailed, WriteDestroyed, WriteDestroyFailed, Finishes,
        TeardownPCs
  <2>4. CASE WriteDNSDeleted(l) \/ DestroyServerFails(l)
    BY <1>4, <2>4 DEF WriteDNSDeleted, DestroyServerFails, Continues
  <2>5. CASE DestroyServer(l)
    <3>1. LiveOf(job[l].session)' = {}
      BY <2>5 DEF DestroyServer, LiveOf, Live, DestroyDroplets, DestroyTargets
    <3> QED
      BY <1>4, <2>5, <3>1 DEF DestroyServer, Continues
  <2> QED
    BY <1>10, <2>1, <2>2, <2>3, <2>4, <2>5 DEF TearsDown
<1>11. CASE WriteFails(l)
  <2>1. /\ pc[l] \in {"assign", "provision_failed"} => PhaseOf(pc[l]) = "provision"
        /\ pc[l] \in {"dns_ensured", "dns_failed"} => PhaseOf(pc[l]) = "dns"
        /\ pc[l] \in WritePCs \ {"assign", "provision_failed", "dns_ensured",
                                "dns_failed"} => PhaseOf(pc[l]) = "teardown"
    BY Zenon DEF PhaseOf
  <2> QED
    BY <1>3, <1>11, <2>1 DEF WriteFails, Finishes, WritePCs, TeardownPCs
<1>12. CASE Crash(l)
  BY <1>4, <1>12 DEF Crash, Rests, TypeOK, LoopTypeOK
<1> QED
  BY <1>7, <1>8, <1>9, <1>10, <1>11, <1>12 DEF LoopStep

\* A step of one loop leaves the others where they are.
LEMMA OthersStay ==
    ASSUME TypeOK, NEW m \in Loops, LoopStep(m) \/ Crash(m),
           NEW l \in Loops, l # m
    PROVE  pc'[l] = pc[l] /\ batch'[l] = batch[l] /\ job'[l] = job[l]
<1> DEFINE Stays == pc'[l] = pc[l] /\ batch'[l] = batch[l] /\ job'[l] = job[l]
<1> SUFFICES Stays
  OBVIOUS
<1>1. ASSUME NEW phase, NEW S, EnterPhase(m, phase, S) PROVE Stays
  BY <1>1 DEF EnterPhase, Goto, TypeOK, LoopTypeOK
<1>2. ASSUME NEW r, NEW where, NEW result, Keep(m, r, where, result) PROVE Stays
  BY <1>2 DEF Keep, Goto, TypeOK, LoopTypeOK
<1>3. ASSUME NEW phase, Finish(m, phase) PROVE Stays
  BY <1>3 DEF Finish, Goto, TypeOK, LoopTypeOK
<1>4. ASSUME NEW where, Goto(m, where), UNCHANGED <<batch, job>> PROVE Stays
  BY <1>4 DEF Goto, TypeOK, LoopTypeOK
<1> HIDE DEF Stays
<1>5. CASE Lists(m)
  BY <1>1, <1>4, <1>5 DEF Lists, ListCreated, ListProvisioning, ListDNS,
     ListTearingDown, EndStep, ListFails
<1>6. CASE Provisions(m)
  <2>1. CASE Claim(m) \/ ClaimFails(m)
    BY <2>1 DEF Claim, ClaimFails, TypeOK, LoopTypeOK, Stays
  <2>2. CASE \/ EnsureInstanceAdopts(m) \/ EnsureInstanceCreates(m)
             \/ EnsureInstanceFails(m) \/ EnsureInstanceRefused(m)
    BY <1>2, <2>2 DEF EnsureInstanceAdopts, EnsureInstanceCreates,
       EnsureInstanceFails, EnsureInstanceRefused
  <2>3. CASE \/ WriteProvisioningFailed(m) \/ WriteAssignment(m)
             \/ DestroyRejected(m)
    BY <1>3, <2>3 DEF WriteProvisioningFailed, WriteAssignment, DestroyRejected
  <2>4. CASE AssignmentRejected(m)
    BY <1>4, <2>4 DEF AssignmentRejected
  <2> QED
    BY <1>6, <2>1, <2>2, <2>3, <2>4 DEF Provisions
<1>7. CASE Names(m)
  BY <1>2, <1>3, <1>7 DEF Names, EnsureARecord, EnsureARecordFails,
     WriteDNSConfigured, WriteDNSFailed
<1>8. CASE TearsDown(m)
  BY <1>2, <1>3, <1>4, <1>8 DEF TearsDown, DeleteRecord, DeleteRecordFails,
     WriteDNSDeleteFailed, WriteDNSDeleted, DestroyServer, DestroyServerFails,
     WriteDestroyed, WriteDestroyFailed
<1>9. CASE WriteFails(m)
  BY <1>3, <1>9 DEF WriteFails
<1>10. CASE Crash(m)
  BY <1>10 DEF Crash, Goto, TypeOK, LoopTypeOK, Stays
<1> QED
  BY <1>5, <1>6, <1>7, <1>8, <1>9, <1>10 DEF LoopStep

LEMMA LoopMoves ==
    ASSUME TypeOK, RowsDistinct, [Next]_vars, NEW l \in Loops
    PROVE  LoopMove(l)
<1>1. CASE LoopStep(l) \/ Crash(l)
  BY <1>1, LoopStepMoves
<1>2. CASE UNCHANGED loopVars
  BY <1>2 DEF loopVars, LoopMove
<1>3. ASSUME NEW m \in Loops, LoopStep(m) \/ Crash(m), m # l
      PROVE  LoopMove(l)
  BY <1>3, OthersStay DEF LoopMove
<1>4. Admin \/ Accounts \/ UNCHANGED vars => UNCHANGED loopVars
  BY DEF Admin, AdminCreates, AdminForceDestroys, Accounts, AddressArrives,
     DropletLost, RecordDrifts, vars
<1> QED
  BY <1>1, <1>2, <1>3, <1>4 DEF Next

LEMMA SnapshotRows ==
    ASSUME NEW S, NEW r \in Snapshot(S)
    PROVE  /\ r.session \in S
           /\ \A q \in Snapshot(S) : q.session = r.session => q = r
<1> DEFINE RowOf(s) == [session |-> s, instance |-> instanceID[s],
                        ip |-> publicIP[s], position |-> updatedAt[s]]
<1>1. \A q \in Snapshot(S) : \E s \in Oldest(S) : q = RowOf(s)
  BY DEF Snapshot
<1>2. \A s : RowOf(s).session = s
  OBVIOUS
<1>3. \A q \in Snapshot(S) : q.session \in Oldest(S) /\ q = RowOf(q.session)
  BY <1>1, <1>2
<1> HIDE DEF RowOf
<1> QED
  BY <1>3 DEF Oldest

-----------------------------------------------------------------------------
(***************************************************************************)
(* With a single loop, the second half is preserved, part by part.         *)
(***************************************************************************)

\* This part needs no single loop.
LEMMA RowsDistinctStep ==
    ASSUME TypeOK, RowsDistinct, [Next]_vars
    PROVE  RowsDistinct'
<1>0. TypeOK /\ RowsDistinct
  OBVIOUS
<1> SUFFICES ASSUME NEW l \in Loops
             PROVE  /\ pc'[l] \in {"sleep"} \cup PhasePCs => job'[l] = NoJob
                    /\ \A r \in batch'[l] : r.session # job'[l].session
                    /\ \A q, r \in batch'[l] : q.session = r.session => q = r
  BY DEF RowsDistinct
<1>1. \A r \in batch'[l] : r.session # None
  BY <1>0, NextType, NoneAssumption DEF TypeOK, LoopTypeOK, Row
<1>2. NoJob.session = None
  BY DEF NoJob
<1>3. CASE pc'[l] = pc[l] /\ batch'[l] = batch[l] /\ job'[l] = job[l]
  BY <1>0, <1>3 DEF RowsDistinct
<1>4. CASE Rests(l)
  BY <1>4 DEF Rests
<1>5. ASSUME NEW phase, NEW S, Enters(l, phase, S)
      PROVE  /\ job'[l] = NoJob
             /\ \A q, r \in batch'[l] : q.session = r.session => q = r
  BY <1>0, <1>5, SnapshotRows DEF Enters, RowsDistinct
<1>6. CASE Claims(l)
  BY <1>0, <1>6 DEF Claims, RowsDistinct
<1>7. ASSUME NEW r \in batch[l], Keeps(l, r)
      PROVE  /\ pc'[l] \notin {"sleep"} \cup PhasePCs
             /\ \A q \in batch'[l] : q.session # job'[l].session
             /\ batch'[l] \subseteq batch[l]
  BY <1>0, <1>7 DEF Keeps, PhasePCs, RowsDistinct
<1>8. CASE Finishes(l)
  BY <1>0, <1>1, <1>2, <1>8 DEF Finishes, RowsDistinct
<1>9. CASE Continues(l)
  BY <1>0, <1>9 DEF Continues, PhasePCs, RowsDistinct
<1> QED
  BY <1>0, <1>1, <1>2, <1>3, <1>4, <1>5, <1>6, <1>7, <1>8, <1>9, LoopMoves
  DEF LoopMove, RowsDistinct

\* What can happen to the status of a session that is not in hand.
LEMMA CondemnedOnly ==
    ASSUME SingleLoop, TypeOK, [Next]_vars, NEW l \in Loops, NEW s \in Sessions,
           s # job[l].session \/ pc'[l] \notin PhasePCs,
           status[s] \in {"provisioning", "waiting_for_dns", "tearing_down"}
    PROVE  status'[s] \in {status[s], "tearing_down"}
<1>1. ASSUME NEW m \in Loops PROVE m = l
  BY DEF SingleLoop
<1> QED
  BY <1>1, StatusStep DEF StatusMove

LEMMA RowsCurrentStep ==
    ASSUME SingleLoop, IInv, [Next]_vars
    PROVE  RowsCurrent'
<1>0. /\ OwnInv /\ TypeOK /\ RowsDistinct /\ RowsCurrent /\ JobCurrent
      /\ DestroyedIsOver
  BY DEF IInv, OwnInv
<1> SUFFICES ASSUME NEW l \in Loops, NEW r \in batch'[l]
             PROVE  /\ pc'[l] \in ProvisionPCs =>
                        status'[r.session] \in {"provisioning", "tearing_down"}
                    /\ pc'[l] \in DNSPCs =>
                        /\ status'[r.session] \in {"waiting_for_dns", "tearing_down"}
                        /\ \A d \in Droplets :
                            dropletOf'[d] = r.session => dropletState'[d] # "destroyed"
                    /\ pc'[l] \in TeardownPCs \cup {"teardown"} =>
                        status'[r.session] = "tearing_down"
  BY DEF RowsCurrent
<1>1. r.session \in Sessions
  BY <1>0, NextType DEF TypeOK, LoopTypeOK, Row
<1>2. CASE \/ Enters(l, "claim", WithStatus("created"))
           \/ Enters(l, "provision", WithStatus("provisioning"))
           \/ Enters(l, "dns", DNSCandidates)
           \/ Enters(l, "teardown", WithStatus("tearing_down"))
  <2>1. UNCHANGED <<status, dropletOf, dropletState>>
    BY <1>2 DEF Enters, storeVars, providerVars
  <2>2. \/ pc'[l] = "claim"
        \/ pc'[l] = "provision" /\ status[r.session] = "provisioning"
        \/ pc'[l] = "dns" /\ status[r.session] = "waiting_for_dns"
        \/ pc'[l] = "teardown" /\ status[r.session] = "tearing_down"
    BY <1>2, SnapshotRows DEF Enters, WithStatus, DNSCandidates
  <2>3. status[r.session] = "waiting_for_dns" => \A d \in Droplets :
            dropletOf[d] = r.session => dropletState[d] # "destroyed"
    BY <1>0 DEF DestroyedIsOver
  <2> QED
    BY <2>1, <2>2, <2>3 DEF ProvisionPCs, DNSPCs, TeardownPCs
<1>3. ASSUME r \in batch[l],
             \/ pc'[l] \in {"sleep", "claim"}
             \/ pc[l] \in ProvisionPCs /\ pc'[l] \in ProvisionPCs
             \/ pc[l] \in DNSPCs /\ pc'[l] \in DNSPCs
             \/ /\ pc[l] \in TeardownPCs \cup {"teardown"}
                /\ pc'[l] \in TeardownPCs \cup {"teardown"}
      PROVE  /\ pc'[l] \in ProvisionPCs =>
                  status'[r.session] \in {"provisioning", "tearing_down"}
             /\ pc'[l] \in DNSPCs =>
                  status'[r.session] \in {"waiting_for_dns", "tearing_down"}
             /\ pc'[l] \in TeardownPCs \cup {"teardown"} =>
                  status'[r.session] = "tearing_down"
             /\ pc'[l] \in DNSPCs => \A d \in Droplets :
                  dropletOf'[d] = r.session => dropletState'[d] # "destroyed"
  <2>1. status[r.session] \in {"provisioning", "waiting_for_dns", "tearing_down"}
            => status'[r.session] \in {status[r.session], "tearing_down"}
    BY <1>0, <1>1, <1>3, CondemnedOnly DEF RowsDistinct
  <2>2. ASSUME pc'[l] \in DNSPCs, NEW d \in Droplets, dropletOf'[d] = r.session
        PROVE  dropletState'[d] # "destroyed"
    <3>1. pc[l] \in DNSPCs
      BY <1>3, <2>2 DEF ProvisionPCs, DNSPCs, TeardownPCs
    <3>2. dropletOf[d] = r.session => dropletState[d] # "destroyed"
      BY <1>0, <1>3, <3>1 DEF RowsCurrent
    <3>3. \A m \in Loops : pc[m] \notin CallPCs
      BY <3>1 DEF SingleLoop, CallPCs, DNSPCs
    <3> QED
      BY <1>0, <2>2, <3>2, <3>3, DropletStep DEF DropletMove
  <2>3. /\ pc[l] \in ProvisionPCs =>
                status[r.session] \in {"provisioning", "tearing_down"}
        /\ pc[l] \in DNSPCs =>
                status[r.session] \in {"waiting_for_dns", "tearing_down"}
        /\ pc[l] \in TeardownPCs \cup {"teardown"} =>
                status[r.session] = "tearing_down"
    BY <1>0, <1>3 DEF RowsCurrent
  <2> QED
    BY <1>3, <2>1, <2>2, <2>3 DEF ProvisionPCs, DNSPCs, TeardownPCs
<1>4. pc[l] # "reject" /\ pc[l] \in AllPCs
  BY <1>0 DEF JobCurrent, TypeOK, LoopTypeOK, AllPCs
<1>5. CASE /\ pc'[l] = pc[l] /\ batch'[l] = batch[l] /\ job'[l] = job[l]
  BY <1>3, <1>4, <1>5 DEF AllPCs, PhasePCs, CallPCs, WritePCs, ProvisionPCs,
     DNSPCs, TeardownPCs
<1>6. CASE Rests(l)
  BY <1>6 DEF Rests
<1>7. CASE Claims(l)
  BY <1>3, <1>7 DEF Claims
<1>8. CASE \E q \in batch[l] : Keeps(l, q)
  BY <1>3, <1>8 DEF Keeps, ProvisionPCs, DNSPCs, TeardownPCs
<1>9. CASE Finishes(l)
  BY <1>3, <1>4, <1>9 DEF Finishes, ProvisionPCs, DNSPCs, TeardownPCs
<1>10. CASE Continues(l)
  <2>1. ~(pc[l] = "assign" /\ ~Accepts(job[l].session))
    BY <1>0 DEF JobCurrent, Accepts
  <2> QED
    BY <1>3, <1>10, <2>1 DEF Continues, ProvisionPCs, DNSPCs, TeardownPCs
<1> QED
  BY <1>0, <1>2, <1>5, <1>6, <1>7, <1>8, <1>9, <1>10, LoopMoves DEF LoopMove

LEMMA JobCurrentStep ==
    ASSUME SingleLoop, IInv, [Next]_vars
    PROVE  JobCurrent'
<1>0. /\ OwnInv /\ TypeOK /\ RowsDistinct /\ RowsCurrent /\ JobCurrent
  BY DEF IInv, OwnInv
<1> SUFFICES ASSUME NEW l \in Loops
             PROVE  /\ pc'[l] # "reject"
                    /\ pc'[l] \in {"assign", "provision_failed"} =>
                        status'[job'[l].session] \in {"provisioning", "tearing_down"}
                    /\ pc'[l] \in TeardownPCs =>
                        status'[job'[l].session] = "tearing_down"
                    /\ pc'[l] \in TeardownPCs \ {"dns_delete_failed"} =>
                        aRecord'[job'[l].session] = None
                    /\ pc'[l] = "destroyed" => \A d \in Droplets :
                        ~(dropletState'[d] = "live"
                          /\ dropletOf'[d] = job'[l].session)
  BY DEF JobCurrent, LiveOf, Live
<1> DEFINE s == job[l].session
           NoneLeft == \A d \in Droplets :
                        ~(dropletState'[d] = "live" /\ dropletOf'[d] = s)
<1>1. pc[l] \in CallPCs \cup WritePCs => s \in Sessions
  BY <1>0 DEF TypeOK, LoopTypeOK
<1>2. CASE pc'[l] \in {"sleep"} \cup PhasePCs
  BY <1>2 DEF PhasePCs, TeardownPCs
<1>3. ASSUME NEW r \in batch[l], Keeps(l, r)
      PROVE  /\ pc'[l] \in {"assign", "provision_failed"} =>
                    status'[r.session] \in {"provisioning", "tearing_down"}
             /\ pc'[l] \in TeardownPCs => status'[r.session] = "tearing_down"
             /\ pc'[l] \in TeardownPCs \ {"dns_delete_failed"} =>
                    aRecord'[r.session] = None
             /\ pc'[l] \notin {"reject", "destroyed"}
             /\ job'[l].session = r.session
  BY <1>0, <1>3 DEF Keeps, RowsCurrent, ProvisionPCs, DNSPCs, TeardownPCs
\* The row stays in hand.
<1>4. ASSUME job'[l] = job[l], pc[l] \in TeardownPCs \cup {"assign", "provision_failed"},
             pc'[l] \notin PhasePCs
      PROVE  /\ status[s] = "provisioning" =>
                    status'[s] \in {"provisioning", "tearing_down"}
             /\ status[s] = "tearing_down" => status'[s] = "tearing_down"
             /\ aRecord[s] = None => aRecord'[s] = None
             /\ LiveOf(s) = {} => NoneLeft
  <2>1. s \in Sessions
    BY <1>1, <1>4 DEF TeardownPCs, CallPCs, WritePCs
  <2>2. \A m \in Loops : pc[m] \notin {"dns", "provision"}
    BY <1>4 DEF SingleLoop, TeardownPCs
  <2>3. status[s] \in {"provisioning", "tearing_down"}
            => status'[s] \in {status[s], "tearing_down"}
    BY <1>0, <1>4, <2>1, CondemnedOnly
  <2>4. aRecord[s] = None => aRecord'[s] = None
    BY <1>0, <2>1, <2>2, RecordStep
  <2>5. ASSUME NEW d \in Droplets, dropletState'[d] = "live"
        PROVE  dropletState[d] = "live" /\ dropletOf'[d] = dropletOf[d]
    BY <1>0, <2>2, <2>5, DropletStep DEF DropletMove
  <2>6. LiveOf(s) = {} => NoneLeft
    BY <2>5 DEF LiveOf, Live
  <2> QED
    BY <2>3, <2>4, <2>6
<1>5. CASE pc'[l] = pc[l] /\ batch'[l] = batch[l] /\ job'[l] = job[l]
  <2>1. CASE pc[l] \in TeardownPCs \cup {"assign", "provision_failed"}
    BY <1>0, <1>4, <1>5, <2>1 DEF JobCurrent, TeardownPCs, PhasePCs
  <2>2. CASE pc[l] \notin TeardownPCs \cup {"assign", "provision_failed"}
    BY <1>0, <1>5, <2>2 DEF JobCurrent, TeardownPCs
  <2> QED
    BY <2>1, <2>2
<1>6. CASE Continues(l)
  <2>1. pc[l] # "assign"
    BY <1>0, <1>6 DEF Continues, JobCurrent, Accepts
  <2>2. pc[l] \in TeardownPCs \ {"dns_delete_failed"} /\ pc'[l] \in TeardownPCs
    BY <1>6, <2>1 DEF Continues, TeardownPCs
  <2>3. pc'[l] = "destroyed" => NoneLeft
    BY <1>6, <2>1 DEF Continues, LiveOf, Live, TeardownPCs
  <2> QED
    BY <1>0, <1>4, <1>6, <2>2, <2>3 DEF Continues, JobCurrent, TeardownPCs, PhasePCs
<1>7. CASE \/ Rests(l) \/ Claims(l) \/ Finishes(l)
           \/ Enters(l, "claim", WithStatus("created"))
           \/ Enters(l, "provision", WithStatus("provisioning"))
           \/ Enters(l, "dns", DNSCandidates)
           \/ Enters(l, "teardown", WithStatus("tearing_down"))
  BY <1>2, <1>7 DEF Rests, Claims, Finishes, Enters, PhasePCs
<1> QED
  BY <1>0, <1>2, <1>3, <1>5, <1>6, <1>7, LoopMoves DEF LoopMove, TeardownPCs

LEMMA RecordHasSessionStep ==
    ASSUME SingleLoop, IInv, [Next]_vars
    PROVE  RecordHasSession'
<1>0. /\ OwnInv /\ TypeOK /\ RowsCurrent /\ JobCurrent /\ RecordHasSession
  BY DEF IInv, OwnInv
<1> SUFFICES ASSUME NEW s \in Sessions, aRecord'[s] # None
             PROVE  status'[s] \in {"waiting_for_dns", "tearing_down"}
  BY DEF RecordHasSession
<1>1. CASE status'[s] = status[s]
  <2>1. CASE aRecord[s] # None
    BY <1>0, <1>1, <2>1 DEF RecordHasSession
  <2>2. CASE aRecord[s] = None
    <3>1. PICK l \in Loops : \E r \in batch[l] : pc[l] = "dns" /\ r.session = s
      BY <1>0, <2>2, RecordStep
    <3> QED
      BY <1>0, <1>1, <3>1 DEF RowsCurrent, DNSPCs
  <2> QED
    BY <2>1, <2>2
<1>2. CASE status'[s] # status[s]
  <2>1. StatusMove(s) /\ aRecord' = aRecord
    BY <1>0, <1>2, StatusStep DEF zoneVars
  <2>2. status[s] \in {"waiting_for_dns", "tearing_down"}
    BY <1>0, <2>1 DEF RecordHasSession
  <2>3. \A l \in Loops : job[l].session = s
            => pc[l] \notin {"destroyed", "destroy_failed"}
    BY <1>0, <2>1 DEF JobCurrent, TeardownPCs
  <2> QED
    BY <2>1, <2>2, <2>3 DEF StatusMove
<1> QED
  BY <1>1, <1>2

LEMMA EndedIsCleanStep ==
    ASSUME SingleLoop, IInv, [Next]_vars
    PROVE  EndedIsClean'
<1>0. /\ OwnInv /\ TypeOK /\ RowsCurrent /\ JobCurrent /\ EndedIsClean
  BY DEF IInv, OwnInv
<1> SUFFICES ASSUME NEW s \in Sessions, status'[s] = "ended"
             PROVE  /\ \A d \in Droplets : dropletState'[d] = "live" => dropletOf'[d] # s
                    /\ aRecord'[s] = None
  BY DEF EndedIsClean, LiveOf, Live
<1>1. CASE status[s] # "ended"
  <2>1. StatusMove(s) /\ UNCHANGED <<providerVars, zoneVars>>
    BY <1>0, <1>1, StatusStep
  <2>2. PICK l \in Loops : job[l].session = s /\ pc[l] = "destroyed"
    BY <1>1, <2>1 DEF StatusMove
  <2>3. aRecord[s] = None /\ LiveOf(s) = {}
    BY <1>0, <2>2 DEF JobCurrent, TeardownPCs
  <2> QED
    BY <2>1, <2>3 DEF LiveOf, Live, providerVars, zoneVars
<1>2. CASE status[s] = "ended"
  <2>1. \A d \in Droplets : dropletState[d] = "live" => dropletOf[d] # s
    BY <1>0, <1>2 DEF EndedIsClean, LiveOf, Live
  <2>2. ASSUME NEW d \in Droplets, dropletState'[d] = "live", dropletOf'[d] = s
        PROVE  FALSE
    <3>1. PICK l \in Loops : \E r \in batch[l] : pc[l] = "provision" /\ r.session = s
      BY <1>0, <2>1, <2>2, DropletStep DEF DropletMove
    <3> QED
      BY <1>0, <1>2, <3>1 DEF RowsCurrent, ProvisionPCs
  <2>3. ASSUME aRecord'[s] # None PROVE FALSE
    <3>1. aRecord[s] = None
      BY <1>0, <1>2 DEF EndedIsClean
    <3>2. PICK l \in Loops : \E r \in batch[l] : pc[l] = "dns" /\ r.session = s
      BY <1>0, <2>3, <3>1, RecordStep
    <3> QED
      BY <1>0, <1>2, <3>2 DEF RowsCurrent, DNSPCs
  <2> QED
    BY <2>2, <2>3
<1> QED
  BY <1>1, <1>2

LEMMA NoDanglingRecordStep ==
    ASSUME SingleLoop, IInv, [Next]_vars
    PROVE  NoDanglingRecord'
<1>0. /\ OwnInv /\ TypeOK /\ CopiesOwn /\ StoreOwn
      /\ RowsCurrent /\ JobCurrent /\ NoDanglingRecord
  BY DEF IInv, OwnInv
<1> SUFFICES ASSUME NEW s \in Sessions, NEW d \in Droplets, aRecord'[s] = d,
                    dropletState'[d] = "destroyed"
             PROVE  FALSE
  BY DEF NoDanglingRecord
<1>1. CASE dropletState[d] = "destroyed"
  <2>1. aRecord'[s] \notin {aRecord[s], None, Elsewhere}
    BY <1>0, <1>1, NoneAssumption, ElsewhereAssumption DEF NoDanglingRecord
  <2>2. PICK l \in Loops : \E r \in batch[l] :
            pc[l] = "dns" /\ r.session = s /\ r.ip = d
    BY <1>0, <2>1, RecordStep
  <2>3. dropletOf[d] = s
    BY <1>0, <2>2 DEF CopiesOwn, Owned
  <2> QED
    BY <1>0, <1>1, <2>2, <2>3 DEF RowsCurrent, DNSPCs
<1>2. CASE dropletState[d] # "destroyed"
  <2>1. DropletMove(d) /\ UNCHANGED <<storeVars, zoneVars>>
    BY <1>0, <1>2, DropletStep
  <2>2. aRecord[s] = d
    BY <2>1 DEF zoneVars
  <2>3. dropletOf[d] = s
    BY <1>0, <2>2 DEF StoreOwn, Owned
  <2>4. PICK l \in Loops : pc[l] \in CallPCs /\ job[l].session = s
    BY <2>1, <2>3 DEF DropletMove
  <2>5. aRecord[s] = None
    BY <1>0, <2>4 DEF JobCurrent, CallPCs, TeardownPCs
  <2> QED
    BY <2>2, <2>5, NoneAssumption
<1> QED
  BY <1>1, <1>2

LEMMA DestroyedIsOverStep ==
    ASSUME SingleLoop, IInv, [Next]_vars
    PROVE  DestroyedIsOver' /\ DestroyedHasTag'
<1>0. /\ OwnInv /\ TypeOK /\ TagsOK /\ JobCurrent /\ DestroyedIsOver
      /\ DestroyedHasTag
  BY DEF IInv, OwnInv
<1> SUFFICES ASSUME NEW d \in Droplets, dropletState'[d] = "destroyed"
             PROVE  /\ status'[dropletOf'[d]] \in {"tearing_down", "failed", "ended"}
                    /\ dropletOf'[d] \in Sessions
  BY DEF DestroyedIsOver, DestroyedHasTag
<1> DEFINE s == dropletOf[d]
<1>1. CASE dropletState[d] = "destroyed"
  <2>1. dropletOf'[d] = s
    BY <1>0, <1>1, DropletStep DEF DropletMove
  <2>2. status[s] \in {"tearing_down", "failed", "ended"} /\ s \in Sessions
    BY <1>0, <1>1 DEF DestroyedIsOver, DestroyedHasTag
  <2> QED
    BY <1>0, <2>1, <2>2, StatusStep DEF StatusMove
<1>2. CASE dropletState[d] # "destroyed"
  <2>1. DropletMove(d) /\ UNCHANGED <<storeVars, zoneVars>>
    BY <1>0, <1>2, DropletStep
  <2>2. PICK l \in Loops : pc[l] \in CallPCs /\ job[l].session = s
    BY <2>1 DEF DropletMove
  <2>3. status[s] = "tearing_down" /\ s \in Sessions
    BY <1>0, <2>2 DEF JobCurrent, CallPCs, TeardownPCs, TypeOK, LoopTypeOK
  <2>4. dropletOf'[d] = s
    BY <2>1 DEF DropletMove
  <2> QED
    BY <2>1, <2>3, <2>4 DEF storeVars
<1> QED
  BY <1>1, <1>2

\* Every change of a row comes with an event, and events stay.
LEMMA CondemnedForEver ==
    ASSUME [Next]_vars
    PROVE  condemned \subseteq condemned'
<1> DEFINE Kept == condemned \subseteq condemned'
<1> SUFFICES Kept
  OBVIOUS
<1>1. ASSUME NEW s, NEW event, Record(s, event) PROVE Kept
  BY <1>1 DEF Record
<1>2. ASSUME UNCHANGED storeVars PROVE Kept
  BY <1>2 DEF storeVars
<1>3. ASSUME NEW s, NEW new, NEW phase, NEW event,
             Transition(s, new, phase, event)
      PROVE  Kept
  BY <1>1, <1>3 DEF Transition
<1> HIDE DEF Kept
<1>4. ASSUME NEW s,
             \/ CreateSession(s) \/ MarkProvisioningStarted(s)
             \/ MarkProvisioningFailed(s) \/ MarkForceDestroyStarted(s)
             \/ MarkForceDestroyed(s) \/ MarkForceDestroyFailed(s)
      PROVE  Kept
  BY <1>2, <1>3, <1>4 DEF CreateSession, MarkProvisioningStarted,
     MarkProvisioningFailed, MarkForceDestroyStarted, MarkForceDestroyed,
     MarkForceDestroyFailed
<1>5. ASSUME NEW s, NEW d, NEW ip, NEW adopted, AssignInstance(s, d, ip, adopted)
      PROVE  Kept
  BY <1>1, <1>2, <1>5 DEF AssignInstance
<1>6. ASSUME NEW s, NEW id, NEW operation,
             \/ MarkDNSConfigured(s, id, operation)
             \/ MarkDNSFailed(s) \/ MarkDNSDeleted(s)
      PROVE  Kept
  BY <1>1, <1>2, <1>6 DEF MarkDNSConfigured, MarkDNSFailed, MarkDNSDeleted
<1>7. ASSUME NEW l \in Loops, LoopStep(l) \/ Crash(l) PROVE Kept
  <2>1. CASE Lists(l) \/ WriteFails(l) \/ Crash(l)
    BY <1>2, <2>1 DEF Lists, ListCreated, ListProvisioning, ListDNS,
       ListTearingDown, EndStep, ListFails, WriteFails, Crash
  <2>2. CASE Provisions(l)
    BY <1>2, <1>4, <1>5, <2>2 DEF Provisions, Claim, ClaimFails,
       EnsureInstanceAdopts, EnsureInstanceCreates, EnsureInstanceFails,
       EnsureInstanceRefused, WriteProvisioningFailed, WriteAssignment,
       AssignmentRejected, DestroyRejected
  <2>3. CASE Names(l)
    BY <1>2, <1>6, <2>3 DEF Names, EnsureARecord, EnsureARecordFails,
       WriteDNSConfigured, WriteDNSFailed
  <2>4. CASE TearsDown(l)
    BY <1>2, <1>4, <1>6, <2>4 DEF TearsDown, DeleteRecord, DeleteRecordFails,
       WriteDNSDeleteFailed, WriteDNSDeleted, DestroyServer,
       DestroyServerFails, WriteDestroyed, WriteDestroyFailed
  <2> QED
    BY <1>7, <2>1, <2>2, <2>3, <2>4 DEF LoopStep
<1>8. CASE Admin
  BY <1>4, <1>8 DEF Admin, AdminCreates, AdminForceDestroys
<1>9. CASE Accounts \/ UNCHANGED vars
  BY <1>2, <1>9 DEF Accounts, AddressArrives, DropletLost, RecordDrifts, vars
<1> QED
  BY <1>7, <1>8, <1>9 DEF Next

LEMMA OverIsCondemnedStep ==
    ASSUME TypeOK, OverIsCondemned, [Next]_vars
    PROVE  OverIsCondemned'
<1> SUFFICES ASSUME NEW s \in Sessions,
                    status'[s] \in {"tearing_down", "ended"}
             PROVE  s \in condemned'
  BY DEF OverIsCondemned
<1>1. CASE status'[s] = status[s]
  BY <1>1, CondemnedForEver DEF OverIsCondemned
<1>2. CASE status'[s] # status[s]
  BY <1>2, StatusStep, CondemnedForEver DEF StatusMove, OverIsCondemned
<1> QED
  BY <1>1, <1>2

LEMMA DestroyedOnRequestStep ==
    ASSUME SingleLoop, IInv, [Next]_vars
    PROVE  DestroyedOnRequest'
<1>0. /\ OwnInv /\ TypeOK /\ JobCurrent /\ OverIsCondemned /\ DestroyedOnRequest
  BY DEF IInv, OwnInv
<1> SUFFICES ASSUME NEW d \in Droplets, dropletState'[d] = "destroyed"
             PROVE  dropletOf'[d] \in condemned'
  BY DEF DestroyedOnRequest
<1>1. CASE dropletState[d] = "destroyed"
  <2>1. dropletOf'[d] = dropletOf[d]
    BY <1>0, <1>1, DropletStep DEF DropletMove
  <2> QED
    BY <1>0, <1>1, <2>1, CondemnedForEver DEF DestroyedOnRequest
<1>2. CASE dropletState[d] # "destroyed"
  <2>1. DropletMove(d)
    BY <1>0, <1>2, DropletStep
  <2>2. PICK l \in Loops : pc[l] \in CallPCs /\ job[l].session = dropletOf[d]
    BY <2>1 DEF DropletMove
  <2>3. status[dropletOf[d]] = "tearing_down" /\ dropletOf[d] \in Sessions
    BY <1>0, <2>2 DEF JobCurrent, CallPCs, TeardownPCs, TypeOK, LoopTypeOK
  <2>4. dropletOf'[d] = dropletOf[d]
    BY <2>1 DEF DropletMove
  <2> QED
    BY <1>0, <2>3, <2>4, CondemnedForEver DEF OverIsCondemned
<1> QED
  BY <1>1, <1>2

LEMMA IInvInit == Init => IInv
<1> SUFFICES ASSUME Init PROVE IInv
  OBVIOUS
<1>1. OwnInv
  BY OwnInvInit
<1>2. RowsDistinct /\ RowsCurrent /\ JobCurrent
  BY DEF Init, RowsDistinct, RowsCurrent, JobCurrent, TeardownPCs
<1>3. RecordHasSession /\ DestroyedHasTag
  BY DEF Init, RecordHasSession, DestroyedHasTag
<1>4. EndedIsClean /\ NoDanglingRecord /\ DestroyedOnRequest
  BY DEF Init, StoreInit, EndedIsClean, NoDanglingRecord, DestroyedOnRequest
<1>5. DestroyedIsOver /\ OverIsCondemned
  BY DEF Init, StoreInit, DestroyedIsOver, OverIsCondemned
<1> QED
  BY <1>1, <1>2, <1>3, <1>4, <1>5 DEF IInv

LEMMA IInvNext == SingleLoop /\ IInv /\ [Next]_vars => IInv'
<1>1. IInv => TypeOK /\ RowsDistinct
  BY DEF IInv, OwnInv
<1> QED
  BY <1>1, OwnInvNext, RowsDistinctStep, RowsCurrentStep, JobCurrentStep,
     RecordHasSessionStep, EndedIsCleanStep, NoDanglingRecordStep,
     DestroyedIsOverStep, OverIsCondemnedStep, DestroyedOnRequestStep DEF IInv

LEMMA IInvAlways == ASSUME SingleLoop PROVE Spec => []IInv
<1>1. IInv /\ [Next]_vars => IInv'
  BY IInvNext
<1> QED
  BY <1>1, IInvInit, PTL DEF Spec

-----------------------------------------------------------------------------

\* When a single reconciler loop runs, an ended session has left no droplet
\* and no record, whatever failed or crashed on the way (reconciler.go,
\* the teardown part of Step).
THEOREM EndedIsAlwaysClean == ASSUME SingleLoop PROVE Spec => []EndedIsClean
<1>1. IInv => EndedIsClean
  BY DEF IInv
<1> QED
  BY <1>1, IInvAlways, PTL

\* When a single loop runs, no A record the control plane leaves points at a
\* server it has destroyed (reconciler.go: the record goes before the server).
THEOREM RecordNeverDangles == ASSUME SingleLoop PROVE Spec => []NoDanglingRecord
<1>1. IInv => NoDanglingRecord
  BY DEF IInv
<1> QED
  BY <1>1, IInvAlways, PTL

\* When a single loop runs, only the servers of sessions the admin has asked to
\* destroy (a force_destroy_started event is among the session's events) are
\* destroyed: a session that failed on its own keeps its server, and the
\* rejection of an assignment, reconciler.go's other call of
\* ForceDestroySessionServer, is never reached.
THEOREM AlwaysDestroyedOnRequest ==
    ASSUME SingleLoop PROVE Spec => []DestroyedOnRequest
<1>1. IInv => DestroyedOnRequest
  BY DEF IInv
<1> QED
  BY <1>1, IInvAlways, PTL
=============================================================================
