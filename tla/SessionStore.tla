---------------------------- MODULE SessionStore ----------------------------
(***************************************************************************)
(* The session repository (internal/session/repository.go): the rows of    *)
(* the sessions table and every operation that the reconciler and the      *)
(* force-destroy handler run on them.  The database handle is limited to   *)
(* one connection and each operation is one SQLite transaction, so each is *)
(* one atomic action.  An operation whose WHERE clause does not match the  *)
(* row changes nothing and reports "not changed"; its second disjunct.     *)
(*                                                                         *)
(* A public IPv4 address is identified with the droplet that carries it.   *)
(* A DNS record id is the serial number of the record among those created  *)
(* for the session's room domain, which no other session has.              *)
(***************************************************************************)
EXTENDS Integers, FiniteSets

CONSTANTS
    Sessions,   \* the session ids that may ever be created
    Droplets,   \* the droplets the provider may ever create, by id
    None,       \* SQL null
    BatchSize   \* the LIMIT of the reconciler's list queries

ASSUME SessionsAssumption  == IsFiniteSet(Sessions)
ASSUME NoneAssumption      == None \notin Sessions \cup Droplets
ASSUME BatchSizeAssumption == BatchSize \in Nat \ {0}

NoRecord == 0   \* dns_record_id is null

\* The statuses some implemented operation writes; "absent" is no row at all.
Statuses == {"absent", "created", "provisioning", "waiting_for_dns",
             "tearing_down", "failed", "ended"}

\* last_error_phase; the text and time of the error follow it.
Phases == {"none", "provisioning", "dns", "teardown"}

\* The type of a row of session_events.
EventTypes == {"none", "session.created", "provisioning.started",
               "provisioning.waiting_for_ip", "provisioning.instance_created",
               "provisioning.instance_adopted", "provisioning.failed",
               "dns.configured", "dns.failed", "dns.deleted",
               "session.force_destroy_started", "teardown.instance_discovered",
               "session.force_destroyed", "session.force_destroy_failed"}

VARIABLES
    status,          \* sessions.status
    instanceID,      \* sessions.instance_id
    publicIP,        \* sessions.public_ip
    dnsRecordID,     \* sessions.dns_record_id
    lastErrorPhase,  \* sessions.last_error_phase
    updatedAt,       \* position of the row in the order of updated_at
    lastEvent,       \* the session's newest row in session_events
    condemned        \* the sessions with a force_destroy_started event among
                     \* theirs: those the admin has ever asked to destroy

storeVars == <<status, instanceID, publicIP, dnsRecordID, lastErrorPhase,
               updatedAt, lastEvent, condemned>>

StoreTypeOK ==
    /\ status \in [Sessions -> Statuses]
    /\ instanceID \in [Sessions -> Droplets \cup {None}]
    /\ publicIP \in [Sessions -> Droplets \cup {None}]
    /\ dnsRecordID \in [Sessions -> Nat]
    /\ lastErrorPhase \in [Sessions -> Phases]
    /\ updatedAt \in [Sessions -> Nat]
    /\ lastEvent \in [Sessions -> EventTypes]
    /\ condemned \in SUBSET Sessions

StoreInit ==
    /\ status = [s \in Sessions |-> "absent"]
    /\ instanceID = [s \in Sessions |-> None]
    /\ publicIP = [s \in Sessions |-> None]
    /\ dnsRecordID = [s \in Sessions |-> NoRecord]
    /\ lastErrorPhase = [s \in Sessions |-> "none"]
    /\ updatedAt = [s \in Sessions |-> 0]
    /\ lastEvent = [s \in Sessions |-> "none"]
    /\ condemned = {}

(***************************************************************************)
(* Every statement that changes a row also sets updated_at to the current  *)
(* time and appends one event in the same transaction.  Only the order of  *)
(* the times is kept: the row becomes the newest and those that were newer *)
(* move down by one, so positions stay within 0..Cardinality(Sessions).    *)
(***************************************************************************)
Touch(s) ==
    updatedAt' = [t \in Sessions |->
        IF t = s THEN Cardinality(Sessions)
        ELSE IF updatedAt[t] > updatedAt[s] THEN updatedAt[t] - 1
        ELSE updatedAt[t]]

Record(s, event) ==
    /\ Touch(s)
    /\ lastEvent' = [lastEvent EXCEPT ![s] = event]
    /\ condemned' = IF event = "session.force_destroy_started"
                    THEN condemned \cup {s} ELSE condemned

SetStatus(s, new) == status' = [status EXCEPT ![s] = new]
SetError(s, phase) == lastErrorPhase' = [lastErrorPhase EXCEPT ![s] = phase]

\* A status change that leaves the instance, the address and the DNS id alone.
Transition(s, new, phase, event) ==
    /\ SetStatus(s, new)
    /\ SetError(s, phase)
    /\ Record(s, event)
    /\ UNCHANGED <<instanceID, publicIP, dnsRecordID>>

WithStatus(st) == {s \in Sessions : status[s] = st}

DNSCandidates == {s \in WithStatus("waiting_for_dns") : publicIP[s] # None}

\* order by updated_at limit BatchSize
Oldest(S) ==
    {s \in S : Cardinality({t \in S : updatedAt[t] < updatedAt[s]}) < BatchSize}

-----------------------------------------------------------------------------

CreateSession(s) ==
    /\ status[s] = "absent"
    /\ Transition(s, "created", "none", "session.created")

MarkProvisioningStarted(s) ==
    \/ /\ status[s] = "created"
       /\ Transition(s, "provisioning", "none", "provisioning.started")
    \/ /\ status[s] # "created"
       /\ UNCHANGED storeVars

MarkProvisioningFailed(s) ==
    \/ /\ status[s] = "provisioning"
       /\ Transition(s, "failed", "provisioning", "provisioning.failed")
    \/ /\ status[s] # "provisioning"
       /\ UNCHANGED storeVars

\* Mutant: the handler's check of the status is missing.
MarkForceDestroyStartedAnytime(s) ==
    /\ status[s] \notin {"absent", "tearing_down"}
    /\ Transition(s, "tearing_down", "none", "session.force_destroy_started")

MarkForceDestroyStarted(s) ==
    /\ status[s] \in {"provisioning", "waiting_for_dns", "failed"}
    /\ Transition(s, "tearing_down", "none", "session.force_destroy_started")

MarkForceDestroyed(s) ==
    \/ /\ status[s] = "tearing_down"
       /\ Transition(s, "ended", "none", "session.force_destroyed")
    \/ /\ status[s] # "tearing_down"
       /\ UNCHANGED storeVars

\* Mutant: the WHERE clause does not name the status.
MarkForceDestroyFailedAnytime(s) ==
    Transition(s, "failed", "teardown", "session.force_destroy_failed")

MarkForceDestroyFailed(s) ==
    \/ /\ status[s] = "tearing_down"
       /\ Transition(s, "failed", "teardown", "session.force_destroy_failed")
    \/ /\ status[s] # "tearing_down"
       /\ UNCHANGED storeVars

-----------------------------------------------------------------------------

Place(s, d, ip) ==
    /\ instanceID' = [instanceID EXCEPT ![s] = d]
    /\ publicIP' = [publicIP EXCEPT ![s] = ip]

\* AssignInstance reports Accepted to its caller exactly in these statuses.
Accepts(s) == status[s] \in {"provisioning", "tearing_down"}

\* The row already says what the caller found: accepted, nothing written.
AlreadyAssigned(s, d, ip) ==
    /\ instanceID[s] = d
    /\ publicIP[s] = ip
    /\ status[s] = "provisioning" => ip = None

AssignmentEvent(ip, adopted) ==
    IF ip = None THEN "provisioning.waiting_for_ip"
    ELSE IF adopted THEN "provisioning.instance_adopted"
    ELSE "provisioning.instance_created"

AssignInstance(s, d, ip, adopted) ==
    \/ /\ ~Accepts(s) \/ AlreadyAssigned(s, d, ip)
       /\ UNCHANGED storeVars
    \/ /\ status[s] = "tearing_down"
       /\ ~AlreadyAssigned(s, d, ip)
       /\ Place(s, d, ip)
       /\ Record(s, "teardown.instance_discovered")
       /\ UNCHANGED <<status, dnsRecordID, lastErrorPhase>>
    \/ /\ status[s] = "provisioning"
       /\ ~AlreadyAssigned(s, d, ip)
       /\ SetStatus(s, IF ip = None THEN "provisioning" ELSE "waiting_for_dns")
       /\ Place(s, d, ip)
       /\ SetError(s, "none")
       /\ Record(s, AssignmentEvent(ip, adopted))
       /\ UNCHANGED dnsRecordID

-----------------------------------------------------------------------------

\* Mutant: a stored error is overlooked.
SameRecord(s, id, operation) ==
    /\ dnsRecordID[s] = id
    /\ operation = "adopted"

\* There is nothing to write: same record, adopted as found, and no error set.
AlreadyConfigured(s, id, operation) ==
    /\ dnsRecordID[s] = id
    /\ operation = "adopted"
    /\ lastErrorPhase[s] = "none"

MarkDNSConfigured(s, id, operation) ==
    \/ /\ status[s] = "waiting_for_dns"
       /\ ~AlreadyConfigured(s, id, operation)
       /\ dnsRecordID' = [dnsRecordID EXCEPT ![s] = id]
       /\ SetError(s, "none")
       /\ Record(s, "dns.configured")
       /\ UNCHANGED <<status, instanceID, publicIP>>
    \/ /\ status[s] # "waiting_for_dns" \/ AlreadyConfigured(s, id, operation)
       /\ UNCHANGED storeVars

\* The statuses in which a DNS failure or deletion is written down
\* (teardown_pending, the third one, has no writer yet).
DNSStatuses == {"waiting_for_dns", "tearing_down"}

MarkDNSFailed(s) ==
    \/ /\ status[s] \in DNSStatuses
       /\ SetError(s, "dns")
       /\ Record(s, "dns.failed")
       /\ UNCHANGED <<status, instanceID, publicIP, dnsRecordID>>
    \/ /\ status[s] \notin DNSStatuses
       /\ UNCHANGED storeVars

MarkDNSDeleted(s) ==
    \/ /\ status[s] \in DNSStatuses
       /\ dnsRecordID' = [dnsRecordID EXCEPT ![s] = NoRecord]
       /\ Record(s, "dns.deleted")
       /\ UNCHANGED <<status, instanceID, publicIP, lastErrorPhase>>
    \/ /\ status[s] \notin DNSStatuses
       /\ UNCHANGED storeVars
=============================================================================
