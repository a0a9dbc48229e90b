----------------------------- MODULE Reconciler -----------------------------
(***************************************************************************)
(* The control plane around the session store: the reconciler's Step       *)
(* (internal/reconciler/reconciler.go), the admin's create and             *)
(* force-destroy requests (internal/server/sessions.go) and, at the level  *)
(* of one call of their Go interfaces, DigitalOcean                        *)
(* (internal/provisioning/digitalocean.go) and Cloudflare                  *)
(* (internal/dns/cloudflare.go).                                           *)
(*                                                                         *)
(* A Step lists the rows of a phase once and then works through that copy, *)
(* row by row, while HTTP requests keep changing the table.  A call to a   *)
(* provider and the write of its result are two steps.  A failing call may *)
(* have taken effect; a failing write leaves the row as it was; a crash    *)
(* (or shutdown, which cancels every later call) loses the copy and the    *)
(* result in hand.  All these, and what the operators of the two accounts  *)
(* do by hand, draw on one budget of MaxFaults.                            *)
(***************************************************************************)
EXTENDS SessionStore

CONSTANTS
    Loops,      \* reconciler loops running: one, or two if processes overlap
    Elsewhere,  \* an address that is no droplet's
    MaxFaults   \* bound on failures, crashes and manual changes

ASSUME ElsewhereAssumption == Elsewhere \notin Droplets \cup {None}
ASSUME MaxFaultsAssumption == MaxFaults \in Nat

VARIABLES
    pc,            \* what each loop does next
    batch,         \* the listed rows of the phase still to be worked through
    job,           \* the row in hand and what the last call returned for it
    dropletState,  \* unborn; live; destroyed by the loops; lost (by hand)
    dropletOf,     \* the session whose tag a droplet carries
    addressed,     \* the droplets that have their public address
    aRecord,       \* content of the A record of each session's room domain
    serial,        \* how many records the room domain has had
    faults         \* faults so far

loopVars == <<pc, batch, job>>
providerVars == <<dropletState, dropletOf, addressed>>
zoneVars == <<aRecord, serial>>
vars == <<storeVars, loopVars, providerVars, zoneVars, faults>>

PhasePCs == {"claim", "provision", "dns", "teardown"}
CallPCs == {"reject", "destroy"}
WritePCs == {"assign", "provision_failed", "dns_ensured", "dns_failed",
             "dns_deleted", "dns_delete_failed", "destroyed", "destroy_failed"}

Row == [session : Sessions, instance : Droplets \cup {None},
        ip : Droplets \cup {None}, position : Nat]

Operations == {"none", "created", "adopted", "updated"}

Job == [session : Sessions \cup {None}, instance : Droplets \cup {None},
        ip : Droplets \cup {None}, record : Nat, operation : Operations]

NoJob == [session |-> None, instance |-> None, ip |-> None,
          record |-> NoRecord, operation |-> "none"]

\* A loop whose next step is a write or a second call has a row in hand, and
\* an instance if that is what it writes.
LoopTypeOK ==
    /\ pc \in [Loops -> {"sleep"} \cup PhasePCs \cup CallPCs \cup WritePCs]
    /\ batch \in [Loops -> SUBSET Row]
    /\ job \in [Loops -> Job]
    /\ \A l \in Loops :
        /\ pc[l] \in CallPCs \cup WritePCs => job[l].session \in Sessions
        /\ pc[l] \in {"assign", "reject"} =>
                job[l].instance \in Droplets /\ job[l].ip \in {None, job[l].instance}

ProviderTypeOK ==
    /\ dropletState \in [Droplets -> {"unborn", "live", "destroyed", "lost"}]
    /\ dropletOf \in [Droplets -> Sessions \cup {None}]
    /\ addressed \in SUBSET Droplets

ZoneTypeOK ==
    /\ aRecord \in [Sessions -> Droplets \cup {None, Elsewhere}]
    /\ serial \in [Sessions -> Nat]

TypeOK == StoreTypeOK /\ LoopTypeOK /\ ProviderTypeOK /\ ZoneTypeOK
          /\ faults \in 0..MaxFaults

Init ==
    /\ StoreInit
    /\ pc = [l \in Loops |-> "sleep"]
    /\ batch = [l \in Loops |-> {}]
    /\ job = [l \in Loops |-> NoJob]
    /\ dropletState = [d \in Droplets |-> "unborn"]
    /\ dropletOf = [d \in Droplets |-> None]
    /\ addressed = {}
    /\ aRecord = [s \in Sessions |-> None]
    /\ serial = [s \in Sessions |-> 0]
    /\ faults = 0

Fault == faults < MaxFaults /\ faults' = faults + 1

-----------------------------------------------------------------------------
(***************************************************************************)
(* The walk through a phase.                                               *)
(***************************************************************************)
Goto(l, where) == pc' = [pc EXCEPT ![l] = where]

Snapshot(S) ==
    {[session |-> s, instance |-> instanceID[s], ip |-> publicIP[s],
      position |-> updatedAt[s]] : s \in Oldest(S)}

EnterPhase(l, phase, S) ==
    /\ Goto(l, phase)
    /\ batch' = [batch EXCEPT ![l] = Snapshot(S)]
    /\ UNCHANGED job

IsNext(l, r) ==
    /\ r \in batch[l]
    /\ \A q \in batch[l] : r.position <= q.position

\* Mutant: the result of the call is lost.
KeepNothing(l, r, where, result) ==
    /\ Goto(l, where)
    /\ batch' = [batch EXCEPT ![l] = @ \ {r}]
    /\ UNCHANGED job

\* Takes row r out of the batch and keeps it with the result of the call made
\* for it; `where` is the write that result needs.
Keep(l, r, where, result) ==
    /\ Goto(l, where)
    /\ batch' = [batch EXCEPT ![l] = @ \ {r}]
    /\ job' = [job EXCEPT ![l] = result]

RowJob(r) == [session |-> r.session, instance |-> r.instance, ip |-> r.ip,
              record |-> NoRecord, operation |-> "none"]

\* The loop is done with the row in hand and goes on with the phase.
Finish(l, phase) ==
    /\ Goto(l, phase)
    /\ job' = [job EXCEPT ![l] = NoJob]
    /\ UNCHANGED batch

ListCreated(l) ==
    /\ pc[l] = "sleep"
    /\ EnterPhase(l, "claim", WithStatus("created"))
    /\ UNCHANGED <<storeVars, providerVars, zoneVars, faults>>

ListProvisioning(l) ==
    /\ pc[l] = "claim" /\ batch[l] = {}
    /\ EnterPhase(l, "provision", WithStatus("provisioning"))
    /\ UNCHANGED <<storeVars, providerVars, zoneVars, faults>>

ListDNS(l) ==
    /\ pc[l] = "provision" /\ batch[l] = {}
    /\ EnterPhase(l, "dns", DNSCandidates)
    /\ UNCHANGED <<storeVars, providerVars, zoneVars, faults>>

\* Mutant: only sessions with an instance are torn down.
ListTearingDownInstances(l) ==
    /\ pc[l] = "dns" /\ batch[l] = {}
    /\ EnterPhase(l, "teardown",
                  {s \in WithStatus("tearing_down") : instanceID[s] # None})
    /\ UNCHANGED <<storeVars, providerVars, zoneVars, faults>>

ListTearingDown(l) ==
    /\ pc[l] = "dns" /\ batch[l] = {}
    /\ EnterPhase(l, "teardown", WithStatus("tearing_down"))
    /\ UNCHANGED <<storeVars, providerVars, zoneVars, faults>>

EndStep(l) ==
    /\ pc[l] = "teardown" /\ batch[l] = {}
    /\ Goto(l, "sleep")
    /\ UNCHANGED <<storeVars, batch, job, providerVars, zoneVars, faults>>

-----------------------------------------------------------------------------
(***************************************************************************)
(* Claim and provision.                                                    *)
(***************************************************************************)
Claim(l) ==
    /\ pc[l] = "claim"
    /\ \E r \in batch[l] :
        /\ IsNext(l, r)
        /\ MarkProvisioningStarted(r.session)
        /\ batch' = [batch EXCEPT ![l] = @ \ {r}]
    /\ UNCHANGED <<pc, job, providerVars, zoneVars, faults>>

Live(d) == dropletState[d] = "live"
LiveOf(s) == {d \in Droplets : Live(d) /\ dropletOf[d] = s}
Unborn == {d \in Droplets : dropletState[d] = "unborn"}

\* Mutant: searches by the base tag, which all droplets carry.
FoundByBaseTag(r) == {d \in Droplets : Live(d)}

\* The droplet of the stored id if it still exists, else those of the tag.
Found(r) == IF r.instance \in {d \in Droplets : Live(d)} THEN {r.instance}
            ELSE LiveOf(r.session)

\* Droplets.Create; the address is there at once or comes later.
CreateDroplet(d, s) ==
    /\ dropletState' = [dropletState EXCEPT ![d] = "live"]
    /\ dropletOf' = [dropletOf EXCEPT ![d] = s]
    /\ addressed' \in {addressed, addressed \cup {d}}

\* Mutant: the address is read only when the droplet is created.
InstanceJobAtCreation(r, d, has, operation) ==
    [session |-> r.session, instance |-> d,
     ip |-> IF d \in has /\ operation = "created" THEN d ELSE None,
     record |-> NoRecord, operation |-> operation]

InstanceJob(r, d, has, operation) ==
    [session |-> r.session, instance |-> d,
     ip |-> IF d \in has THEN d ELSE None,
     record |-> NoRecord, operation |-> operation]

EnsureInstanceAdopts(l) ==
    /\ pc[l] = "provision"
    /\ \E r \in batch[l] : \E d \in Found(r) :
        /\ IsNext(l, r)
        /\ Keep(l, r, "assign", InstanceJob(r, d, addressed, "adopted"))
    /\ UNCHANGED <<storeVars, providerVars, zoneVars, faults>>

EnsureInstanceCreates(l) ==
    /\ pc[l] = "provision"
    /\ \E r \in batch[l] : \E d \in Unborn :
        /\ IsNext(l, r)
        /\ Found(r) = {}
        /\ CreateDroplet(d, r.session)
        /\ Keep(l, r, "assign", InstanceJob(r, d, addressed', "created"))
    /\ UNCHANGED <<storeVars, zoneVars, faults>>

\* Any request of EnsureInstance fails; if it was the create, the droplet may
\* exist all the same.
EnsureInstanceFails(l) ==
    /\ pc[l] = "provision"
    /\ \E r \in batch[l] :
        /\ IsNext(l, r)
        /\ Keep(l, r, "provision_failed", RowJob(r))
        /\ \/ UNCHANGED providerVars
           \/ /\ Found(r) = {}
              /\ \E d \in Unborn : CreateDroplet(d, r.session)
    /\ Fault
    /\ UNCHANGED <<storeVars, zoneVars>>

\* The account's droplet limit is reached: creation is refused.
EnsureInstanceRefused(l) ==
    /\ pc[l] = "provision"
    /\ Unborn = {}
    /\ \E r \in batch[l] :
        /\ IsNext(l, r)
        /\ Found(r) = {}
        /\ Keep(l, r, "provision_failed", RowJob(r))
    /\ UNCHANGED <<storeVars, providerVars, zoneVars, faults>>

\* Mutant: what a failed provisioning left is cleaned up at once.
WriteProvisioningFailedAndCleanUp(l) ==
    /\ pc[l] = "provision_failed"
    /\ MarkProvisioningFailed(job[l].session)
    /\ Goto(l, "destroy")
    /\ UNCHANGED <<batch, job, providerVars, zoneVars, faults>>

WriteProvisioningFailed(l) ==
    /\ pc[l] = "provision_failed"
    /\ MarkProvisioningFailed(job[l].session)
    /\ Finish(l, "provision")
    /\ UNCHANGED <<providerVars, zoneVars, faults>>

WriteAssignment(l) ==
    /\ pc[l] = "assign"
    /\ Accepts(job[l].session)
    /\ AssignInstance(job[l].session, job[l].instance, job[l].ip,
                      job[l].operation = "adopted")
    /\ Finish(l, "provision")
    /\ UNCHANGED <<providerVars, zoneVars, faults>>

\* Mutant: an instance nobody wants is left alone.
AssignmentIgnored(l) ==
    /\ pc[l] = "assign"
    /\ ~Accepts(job[l].session)
    /\ Finish(l, "provision")
    /\ UNCHANGED <<storeVars, providerVars, zoneVars, faults>>

AssignmentRejected(l) ==
    /\ pc[l] = "assign"
    /\ ~Accepts(job[l].session)
    /\ AssignInstance(job[l].session, job[l].instance, job[l].ip,
                      job[l].operation = "adopted")
    /\ Goto(l, "reject")
    /\ UNCHANGED <<batch, job, providerVars, zoneVars, faults>>

-----------------------------------------------------------------------------
(***************************************************************************)
(* ForceDestroySessionServer deletes the droplet of the id it is given and *)
(* then every droplet with the session's tag.                              *)
(***************************************************************************)
\* Mutants: the stored droplet only; every droplet with the base tag.
StoredTarget(l) == {d \in Droplets : Live(d) /\ d = job[l].instance}
AllTargets(l) == {d \in Droplets : Live(d)}

DestroyTargets(l) ==
    {d \in Droplets : Live(d) /\ (d = job[l].instance
                                  \/ dropletOf[d] = job[l].session)}

DestroyDroplets(D) ==
    /\ dropletState' = [d \in Droplets |->
                            IF d \in D THEN "destroyed" ELSE dropletState[d]]
    /\ UNCHANGED <<dropletOf, addressed>>

\* Whatever the outcome, a rejected instance is not looked at again.
DestroyRejected(l) ==
    /\ pc[l] = "reject"
    /\ \/ DestroyDroplets(DestroyTargets(l)) /\ UNCHANGED faults
       \/ \E D \in SUBSET DestroyTargets(l) : DestroyDroplets(D) /\ Fault
    /\ Finish(l, "provision")
    /\ UNCHANGED <<storeVars, zoneVars>>

-----------------------------------------------------------------------------
(***************************************************************************)
(* DNS.  EnsureARecord leaves exactly one A record with the wanted content *)
(* under the room domain, by creating, updating or adopting it.            *)
(***************************************************************************)
EnsureOperation(s, ip) ==
    IF aRecord[s] = None THEN "created"
    ELSE IF aRecord[s] = ip THEN "adopted"
    ELSE "updated"

PutRecord(s, ip) ==
    /\ aRecord' = [aRecord EXCEPT ![s] = ip]
    /\ serial' = IF aRecord[s] = None THEN [serial EXCEPT ![s] = @ + 1]
                 ELSE serial

RecordJob(r, id, operation) ==
    [session |-> r.session, instance |-> r.instance, ip |-> r.ip,
     record |-> id, operation |-> operation]

EnsureARecord(l) ==
    /\ pc[l] = "dns"
    /\ \E r \in batch[l] :
        /\ IsNext(l, r)
        /\ PutRecord(r.session, r.ip)
        /\ Keep(l, r, "dns_ensured",
                RecordJob(r, serial'[r.session],
                          EnsureOperation(r.session, r.ip)))
    /\ UNCHANGED <<storeVars, providerVars, faults>>

EnsureARecordFails(l) ==
    /\ pc[l] = "dns"
    /\ \E r \in batch[l] :
        /\ IsNext(l, r)
        /\ UNCHANGED zoneVars \/ PutRecord(r.session, r.ip)
        /\ Keep(l, r, "dns_failed", RowJob(r))
    /\ Fault
    /\ UNCHANGED <<storeVars, providerVars>>

WriteDNSConfigured(l) ==
    /\ pc[l] = "dns_ensured"
    /\ MarkDNSConfigured(job[l].session, job[l].record, job[l].operation)
    /\ Finish(l, "dns")
    /\ UNCHANGED <<providerVars, zoneVars, faults>>

WriteDNSFailed(l) ==
    /\ pc[l] = "dns_failed"
    /\ MarkDNSFailed(job[l].session)
    /\ Finish(l, "dns")
    /\ UNCHANGED <<providerVars, zoneVars, faults>>

-----------------------------------------------------------------------------
(***************************************************************************)
(* Teardown: first the record, then the droplets, then the row.            *)
(***************************************************************************)
DropRecord(s) ==
    /\ aRecord' = [aRecord EXCEPT ![s] = None]
    /\ UNCHANGED serial

DeleteRecord(l) ==
    /\ pc[l] = "teardown"
    /\ \E r \in batch[l] :
        /\ IsNext(l, r)
        /\ DropRecord(r.session)
        /\ Keep(l, r, "dns_deleted", RowJob(r))
    /\ UNCHANGED <<storeVars, providerVars, faults>>

DeleteRecordFails(l) ==
    /\ pc[l] = "teardown"
    /\ \E r \in batch[l] :
        /\ IsNext(l, r)
        /\ UNCHANGED zoneVars \/ DropRecord(r.session)
        /\ Keep(l, r, "dns_delete_failed", RowJob(r))
    /\ Fault
    /\ UNCHANGED <<storeVars, providerVars>>

\* Mutant: the droplets are destroyed all the same.
WriteDNSDeleteFailedAndGoOn(l) ==
    /\ pc[l] = "dns_delete_failed"
    /\ MarkDNSFailed(job[l].session)
    /\ Goto(l, "destroy")
    /\ UNCHANGED <<batch, job, providerVars, zoneVars, faults>>

\* The droplets stay: the session is torn down again in a later Step.
WriteDNSDeleteFailed(l) ==
    /\ pc[l] = "dns_delete_failed"
    /\ MarkDNSFailed(job[l].session)
    /\ Finish(l, "teardown")
    /\ UNCHANGED <<providerVars, zoneVars, faults>>

WriteDNSDeleted(l) ==
    /\ pc[l] = "dns_deleted"
    /\ MarkDNSDeleted(job[l].session)
    /\ Goto(l, "destroy")
    /\ UNCHANGED <<batch, job, providerVars, zoneVars, faults>>

DestroyServer(l) ==
    /\ pc[l] = "destroy"
    /\ DestroyDroplets(DestroyTargets(l))
    /\ Goto(l, "destroyed")
    /\ UNCHANGED <<storeVars, batch, job, zoneVars, faults>>

DestroyServerFails(l) ==
    /\ pc[l] = "destroy"
    /\ \E D \in SUBSET DestroyTargets(l) : DestroyDroplets(D)
    /\ Goto(l, "destroy_failed")
    /\ Fault
    /\ UNCHANGED <<storeVars, batch, job, zoneVars>>

WriteDestroyed(l) ==
    /\ pc[l] = "destroyed"
    /\ MarkForceDestroyed(job[l].session)
    /\ Finish(l, "teardown")
    /\ UNCHANGED <<providerVars, zoneVars, faults>>

WriteDestroyFailed(l) ==
    /\ pc[l] = "destroy_failed"
    /\ MarkForceDestroyFailed(job[l].session)
    /\ Finish(l, "teardown")
    /\ UNCHANGED <<providerVars, zoneVars, faults>>

-----------------------------------------------------------------------------
(***************************************************************************)
(* The database refuses a statement.  A failed list ends the Step; after a *)
(* failed write the loop goes on with the next row of its phase.           *)
(***************************************************************************)
ListFails(l) ==
    /\ pc[l] \in {"claim", "provision", "dns"} /\ batch[l] = {}
    /\ Goto(l, "sleep")
    /\ Fault
    /\ UNCHANGED <<storeVars, batch, job, providerVars, zoneVars>>

ClaimFails(l) ==
    /\ pc[l] = "claim"
    /\ \E r \in batch[l] :
        /\ IsNext(l, r)
        /\ batch' = [batch EXCEPT ![l] = @ \ {r}]
    /\ Fault
    /\ UNCHANGED <<storeVars, pc, job, providerVars, zoneVars>>

PhaseOf(write) ==
    CASE write \in {"assign", "provision_failed"} -> "provision"
      [] write \in {"dns_ensured", "dns_failed"} -> "dns"
      [] OTHER -> "teardown"

WriteFails(l) ==
    /\ pc[l] \in WritePCs
    /\ Finish(l, PhaseOf(pc[l]))
    /\ Fault
    /\ UNCHANGED <<storeVars, providerVars, zoneVars>>

\* The process stops, by a crash or a shutdown, and a new one starts.
Crash(l) ==
    /\ pc[l] # "sleep"
    /\ Goto(l, "sleep")
    /\ batch' = [batch EXCEPT ![l] = {}]
    /\ job' = [job EXCEPT ![l] = NoJob]
    /\ Fault
    /\ UNCHANGED <<storeVars, providerVars, zoneVars>>

-----------------------------------------------------------------------------
(***************************************************************************)
(* The admin, and what happens in the two accounts.                        *)
(***************************************************************************)
AdminCreates(s) ==
    /\ CreateSession(s)
    /\ UNCHANGED <<loopVars, providerVars, zoneVars, faults>>

AdminForceDestroys(s) ==
    /\ MarkForceDestroyStarted(s)
    /\ UNCHANGED <<loopVars, providerVars, zoneVars, faults>>

AddressArrives(d) ==
    /\ Live(d) /\ d \notin addressed
    /\ addressed' = addressed \cup {d}
    /\ UNCHANGED <<storeVars, loopVars, dropletState, dropletOf, zoneVars, faults>>

DropletLost(d) ==
    /\ Live(d)
    /\ dropletState' = [dropletState EXCEPT ![d] = "lost"]
    /\ Fault
    /\ UNCHANGED <<storeVars, loopVars, dropletOf, addressed, zoneVars>>

RecordDrifts(s) ==
    /\ aRecord[s] # None
    /\ \E content \in {None, Elsewhere} : aRecord' = [aRecord EXCEPT ![s] = content]
    /\ Fault
    /\ UNCHANGED <<storeVars, loopVars, providerVars, serial>>

-----------------------------------------------------------------------------

Lists(l) == \/ ListCreated(l) \/ ListProvisioning(l) \/ ListDNS(l)
            \/ ListTearingDown(l) \/ EndStep(l) \/ ListFails(l)

Provisions(l) == \/ Claim(l) \/ ClaimFails(l)
                 \/ EnsureInstanceAdopts(l) \/ EnsureInstanceCreates(l)
                 \/ EnsureInstanceFails(l) \/ EnsureInstanceRefused(l)
                 \/ WriteProvisioningFailed(l) \/ WriteAssignment(l)
                 \/ AssignmentRejected(l) \/ DestroyRejected(l)

Names(l) == \/ EnsureARecord(l) \/ EnsureARecordFails(l)
            \/ WriteDNSConfigured(l) \/ WriteDNSFailed(l)

TearsDown(l) == \/ DeleteRecord(l) \/ DeleteRecordFails(l)
                \/ WriteDNSDeleteFailed(l) \/ WriteDNSDeleted(l)
                \/ DestroyServer(l) \/ DestroyServerFails(l)
                \/ WriteDestroyed(l) \/ WriteDestroyFailed(l)

LoopStep(l) == Lists(l) \/ Provisions(l) \/ Names(l) \/ TearsDown(l)
               \/ WriteFails(l)

Admin == \E s \in Sessions : AdminCreates(s) \/ AdminForceDestroys(s)

Accounts == \/ \E d \in Droplets : AddressArrives(d) \/ DropletLost(d)
            \/ \E s \in Sessions : RecordDrifts(s)

Next == \/ \E l \in Loops : LoopStep(l) \/ Crash(l)
        \/ Admin
        \/ Accounts

\* Run steps on every tick, and DigitalOcean gives a droplet its address.
\* Nothing makes an admin act, and no fault has to happen.
Fairness == /\ \A l \in Loops : WF_vars(LoopStep(l))
            /\ \A d \in Droplets : WF_vars(AddressArrives(d))

Spec == Init /\ [][Next]_vars

FairSpec == Spec /\ Fairness

-----------------------------------------------------------------------------
(***************************************************************************)
(* Safety.  All but ServerIsOwn need that one loop runs: see the README.   *)
(***************************************************************************)

\* An ended session leaves nothing behind in either account: no droplet
\* carries its tag and its room domain has no record, whatever failed,
\* crashed or was requested while it was provisioned and torn down.
EndedIsClean ==
    \A s \in Sessions :
        status[s] = "ended" => LiveOf(s) = {} /\ aRecord[s] = None

\* The control plane takes a room domain out of the DNS before it destroys
\* the server behind it, so no record it leaves points at a server it has
\* destroyed (a failed record deletion holds the destruction back).
NoDanglingRecord ==
    \A s \in Sessions : \A d \in Droplets :
        aRecord[s] = d => dropletState[d] # "destroyed"

\* A room domain, a stored instance and a stored address are never those of
\* another session's server, and a session that waits for DNS has both.
ServerIsOwn ==
    \A s \in Sessions :
        /\ \A d \in Droplets : d \in {aRecord[s], instanceID[s], publicIP[s]}
                => dropletOf[d] = s
        /\ status[s] = "waiting_for_dns"
                => instanceID[s] \in Droplets /\ publicIP[s] = instanceID[s]

\* No server is destroyed unless the admin has asked, at some time, for its
\* session to go: not when provisioning fails, not for another session's
\* teardown, and not because a result came too late.
DestroyedOnRequest ==
    \A d \in Droplets :
        dropletState[d] = "destroyed" => dropletOf[d] \in condemned

-----------------------------------------------------------------------------
(***************************************************************************)
(* What is left of that when two processes overlap, each with its loop.    *)
(***************************************************************************)

\* One loop can still create a server while the other ends the teardown.  If
\* nothing fails, that server is not lost track of: a loop has it in hand, to
\* be assigned or destroyed, or its id is stored in the session's row.
LeftoverIsTraced ==
    \A s \in Sessions : status[s] = "ended" /\ faults = 0 =>
        \A d \in LiveOf(s) :
            \/ instanceID[s] = d
            \/ \E l \in Loops :
                pc[l] \in {"assign", "reject"} /\ job[l].instance = d

\* However late the other loop's results arrive, they change nothing in the
\* row of an ended session.
EndedIsFrozen ==
    [][\A s \in Sessions : status[s] = "ended" =>
        /\ status'[s] = "ended"
        /\ instanceID'[s] = instanceID[s] /\ publicIP'[s] = publicIP[s]
        /\ dnsRecordID'[s] = dnsRecordID[s]
        /\ lastErrorPhase'[s] = lastErrorPhase[s]
        /\ lastEvent'[s] = lastEvent[s]]_vars

-----------------------------------------------------------------------------
(***************************************************************************)
(* Liveness, under FairSpec.                                               *)
(***************************************************************************)

\* A force destroy comes to an end: the session is ended, or failed so that
\* the admin can ask again.
TeardownEnds ==
    \A s \in Sessions :
        status[s] = "tearing_down" ~> status[s] \in {"ended", "failed"}

\* Every created session is claimed and every claimed one gets its server,
\* fails, or is torn down.
ProvisioningResolves ==
    \A s \in Sessions :
        status[s] \in {"created", "provisioning"}
            ~> status[s] \notin {"created", "provisioning"}

Configured(s) ==
    /\ aRecord[s] = publicIP[s]
    /\ dnsRecordID[s] = serial[s]
    /\ lastErrorPhase[s] = "none"

\* The reconciler keeps nudging DNS towards the stored address: a session that
\* waits for DNS gets its record, also after failures and manual changes.
DNSConverges ==
    \A s \in Sessions :
        status[s] = "waiting_for_dns"
            ~> status[s] # "waiting_for_dns" \/ Configured(s)

-----------------------------------------------------------------------------
(***************************************************************************)
(* What all this amounts to: the lifecycle of SessionLifecycle.            *)
(***************************************************************************)
Abstract == INSTANCE SessionLifecycle WITH
    phase <- status,
    served <- {s \in Sessions : LiveOf(s) # {}},
    named <- {s \in Sessions : aRecord[s] # None}

\* The control plane takes a session through the statuses of the lifecycle
\* and no others, and gives it a server and a name only where it may have them.
Lifecycle == Abstract!LifecycleSpec
=============================================================================
