--------------------------- MODULE CloudflareDns ---------------------------
(***************************************************************************)
(* The Cloudflare DNS manager (internal/dns/cloudflare.go), request by     *)
(* request: EnsureARecord and DeleteRecord find out about the records of a *)
(* room domain with one or two reads and then send at most one change.     *)
(* Reconciler uses the two calls as one step each; this module is about    *)
(* what can happen to the zone in between and about requests that fail.    *)
(*                                                                         *)
(* The caller is the reconciler: it ensures a room domain's record again   *)
(* and again, later deletes it until that succeeds, and keeps the id that  *)
(* the last successful call returned while the record was still wanted.    *)
(* The address of a room's server is named by the room.  A failing request *)
(* may have taken effect, or may still take effect later; people edit the  *)
(* zone by hand.  Failures, edits and restarts draw on one budget of       *)
(* MaxFaults.                                                              *)
(***************************************************************************)
EXTENDS Integers, FiniteSets

CONSTANTS
    Rooms,      \* room domains of the control plane
    Others,     \* other names in the zone
    Elsewhere,  \* an address that is no room server's
    Processes,  \* control planes running: each has one manager, one call at a time
    ZoneDepth,  \* which of the base domain's suffixes is the zone's name, from 1
    MaxFaults   \* bound on failures, edits and restarts

ASSUME NamesAssumption == /\ Rooms \cap Others = {}
                          /\ Elsewhere \notin Rooms
ASSUME DepthAssumption == ZoneDepth \in Nat \ {0}
ASSUME MaxFaultsAssumption == MaxFaults \in Nat

NoID == 0       \* an empty dns_record_id, no zone found yet, or no process

ASSUME ProcessesAssumption == NoID \notin Processes

Names == Rooms \cup Others
Contents == Rooms \cup {Elsewhere}

\* What is set beside the address: as required (DNS only, TTL 60) or not.
Modes == {"required", "other_ttl", "proxied"}

Record == [id : Nat, name : Names, kind : {"A", "CNAME"},
           content : Contents, mode : Modes]

Plain(id, room) == [id |-> id, name |-> room, kind |-> "A",
                    content |-> room, mode |-> "required"]

Results == {"none", "created", "adopted", "updated", "deleted", "conflict", "error"}

Call == [op : {"none", "ensure", "delete"}, room : Rooms, zone : Nat,
         id : Nat, result : Results]

Request == [op : {"create", "update", "delete"}, zone : Nat, id : Nat,
            room : Rooms]

VARIABLES
    zone,       \* the id of the zone of the base domain
    records,    \* its records
    lastID,     \* the newest record id
    manager,    \* each process's manager: "live", "disabled" for want of a token,
                \* or "moved" to a base domain that the rooms are not under
    cachedZone, \* zoneID of each process's manager
    candidate,  \* the suffix of the base domain a starting process asks for
    wanted,     \* what the reconciler wants of each room domain; "removed" once
                \* its row says that the record is deleted
    stored,     \* the dns_record_id of each room's session
    pc,         \* what each process does next
    call,       \* its running call: input, record id in hand, result
    late,       \* requests without an answer that may still take effect
    quiet,      \* has nobody else changed the zone since the call began?
    bore,       \* the records that were the call's A record since it began
    faults      \* faults so far

zoneVars == <<zone, records, lastID>>
callerVars == <<wanted, stored>>
managerVars == <<manager, cachedZone, candidate, pc, call>>
historyVars == <<quiet, bore>>
vars == <<zoneVars, callerVars, managerVars, late, historyVars, faults>>

Reads == {"get", "list", "single"}
Changes == {"create", "update", "delete"}

TypeOK ==
    /\ zone \in Nat \ {NoID}
    /\ records \in SUBSET Record
    /\ lastID \in Nat
    /\ manager \in [Processes -> {"live", "disabled", "moved"}]
    /\ cachedZone \in [Processes -> Nat]
    /\ candidate \in [Processes -> 1..ZoneDepth]
    /\ wanted \in [Rooms -> {"present", "gone", "removed"}]
    /\ stored \in [Rooms -> Nat]
    /\ pc \in [Processes -> {"validate", "idle", "done"} \cup Reads \cup Changes]
    /\ call \in [Processes -> Call]
    /\ late \in SUBSET Request
    /\ quiet \in [Processes -> BOOLEAN]
    /\ bore \in [Processes -> SUBSET Nat]
    /\ faults \in 0..MaxFaults

Named(n) == {r \in records : r.name = n}
IsExact(r, n) == r.name = n /\ r.kind = "A"
ExactIDs(R, n) == {r.id : r \in {x \in R : IsExact(x, n)}}
IsWanted(r) == r.content = r.name /\ r.mode = "required"

Fault == faults < MaxFaults /\ faults' = faults + 1

Init ==
    /\ zone = 1
    /\ records = {}
    /\ lastID = 0
    /\ manager = [p \in Processes |-> "live"]
    /\ cachedZone = [p \in Processes |-> NoID]
    /\ candidate = [p \in Processes |-> 1]
    /\ wanted = [n \in Rooms |-> "present"]
    /\ stored = [n \in Rooms |-> NoID]
    /\ pc = [p \in Processes |-> "validate"]
    /\ call \in [Processes -> {[op |-> "none", room |-> n, zone |-> NoID,
                                id |-> NoID, result |-> "none"] : n \in Rooms}]
    /\ late = {}
    /\ quiet = [p \in Processes |-> TRUE]
    /\ bore = [p \in Processes |-> {}]
    /\ faults = 0

-----------------------------------------------------------------------------
(***************************************************************************)
(* Bookkeeping shared by the actions.                                      *)
(***************************************************************************)

InCall(p) == call[p].op # "none"

\* The zone's records become R.  Calls other than that of process p, if it is
\* one that does it, find the zone disturbed; all see who carries their name.
SetRecords(R, p) ==
    /\ records' = R
    /\ quiet' = [q \in Processes |-> quiet[q] /\ (~InCall(q) \/ q = p \/ R = records)]
    /\ bore' = [q \in Processes |-> IF InCall(q)
                                     THEN bore[q] \cup ExactIDs(R, call[q].room)
                                     ELSE bore[q]]

\* The call of p is over.
Forget(p) ==
    /\ call' = [call EXCEPT ![p] = [op |-> "none", room |-> @.room, zone |-> NoID,
                                    id |-> NoID, result |-> "none"]]
    /\ quiet' = [quiet EXCEPT ![p] = TRUE]
    /\ bore' = [bore EXCEPT ![p] = {}]

Goto(p, where) == pc' = [pc EXCEPT ![p] = where]

\* The call goes on with record id in hand.
Proceed(p, where, id) ==
    /\ Goto(p, where)
    /\ call' = [call EXCEPT ![p].id = id]

Return(p, result, id) ==
    /\ Goto(p, "done")
    /\ call' = [call EXCEPT ![p].id = id, ![p].result = result]

Fails(p, result) ==
    /\ Goto(p, "done")
    /\ call' = [call EXCEPT ![p].result = result]

-----------------------------------------------------------------------------
(***************************************************************************)
(* zoneForBaseDomain, at the start of a process (Validate): the names that *)
(* the base domain ends in are tried in turn, and the zone found is kept   *)
(* for the life of the process.  A process that finds none exits.          *)
(***************************************************************************)
TryNextCandidate(p) ==
    /\ pc[p] = "validate"
    /\ candidate[p] < ZoneDepth
    /\ candidate' = [candidate EXCEPT ![p] = @ + 1]
    /\ UNCHANGED <<zoneVars, callerVars, manager, cachedZone, pc, call, late,
                   historyVars, faults>>

FindZone(p) ==
    /\ pc[p] = "validate"
    /\ candidate[p] = ZoneDepth
    /\ cachedZone' = [cachedZone EXCEPT ![p] = zone]
    /\ Goto(p, "idle")
    /\ UNCHANGED <<zoneVars, callerVars, manager, candidate, call, late, historyVars,
                   faults>>

\* A process is started again, perhaps with another configuration; the zone is
\* looked for unless there is no token, and a running call is forgotten.
Restart(p) ==
    /\ pc[p] # "validate"
    /\ \E m \in {"live", "disabled", "moved"} :
        /\ manager' = [manager EXCEPT ![p] = m]
        /\ Goto(p, IF m = "disabled" THEN "idle" ELSE "validate")
    /\ candidate' = [candidate EXCEPT ![p] = 1]
    /\ cachedZone' = [cachedZone EXCEPT ![p] = NoID]
    /\ Forget(p)
    /\ Fault
    /\ UNCHANGED <<zoneVars, callerVars, late>>

-----------------------------------------------------------------------------
(***************************************************************************)
(* The calls begin, with the stored id if there is one.                    *)
(***************************************************************************)
Begin(p, n, op) ==
    /\ pc[p] = "idle"
    /\ call' = [call EXCEPT ![p] =
                    [op |-> op, room |-> n, zone |-> cachedZone[p],
                     id |-> stored[n], result |-> "none"]]
    /\ Goto(p, IF stored[n] # NoID THEN "get" ELSE "list")
    /\ quiet' = [quiet EXCEPT ![p] = TRUE]
    /\ bore' = [bore EXCEPT ![p] = ExactIDs(records, n)]
    /\ UNCHANGED <<zoneVars, callerVars, manager, cachedZone, candidate, late, faults>>

\* DisabledManager refuses every call, and a live manager those for a room
\* domain that is not under its base domain.
Refused(p, n, op) ==
    /\ pc[p] = "idle"
    /\ call' = [call EXCEPT ![p] =
                    [op |-> op, room |-> n, zone |-> NoID, id |-> NoID,
                     result |-> "error"]]
    /\ Goto(p, "done")
    /\ quiet' = [quiet EXCEPT ![p] = TRUE]
    /\ bore' = [bore EXCEPT ![p] = ExactIDs(records, n)]
    /\ UNCHANGED <<zoneVars, callerVars, manager, cachedZone, candidate, late, faults>>

Ask(p, n, op) == \/ manager[p] = "live" /\ Begin(p, n, op)
                 \/ manager[p] # "live" /\ Refused(p, n, op)

EnsureARecord(p, n) == wanted[n] = "present" /\ Ask(p, n, "ensure")
DeleteRecord(p, n)  == wanted[n] = "gone" /\ Ask(p, n, "delete")

\* Is the zone the manager knows still there?
InZone(p) == call[p].zone = zone

FoundByID(p) == {r \in records : InZone(p) /\ r.id = call[p].id}

\* Mutant: the name and type of the stored record are not looked at.
GetRecordUnchecked(p) ==
    /\ pc[p] = "get"
    /\ IF FoundByID(p) = {} THEN Goto(p, "list") /\ UNCHANGED call
       ELSE IF call[p].op = "ensure" THEN Goto(p, "single") /\ UNCHANGED call
       ELSE Goto(p, "delete") /\ UNCHANGED call
    /\ UNCHANGED <<zoneVars, callerVars, manager, cachedZone, candidate, late,
                   historyVars, faults>>

\* Mutant: a stored record that is not found is an error.
GetRecordInsists(p) ==
    /\ pc[p] = "get"
    /\ \/ FoundByID(p) = {} /\ Fails(p, "error")
       \/ \E r \in FoundByID(p) :
            /\ IsExact(r, call[p].room)
            /\ Goto(p, IF call[p].op = "ensure" THEN "single" ELSE "delete")
            /\ UNCHANGED call
    /\ UNCHANGED <<zoneVars, callerVars, manager, cachedZone, candidate, late,
                   historyVars, faults>>

\* getRecord: a stored id that is not found, or is no longer the room's, makes
\* EnsureARecord look by name; DeleteRecord refuses the latter.
GetRecord(p) ==
    /\ pc[p] = "get"
    /\ \/ /\ FoundByID(p) = {}
          /\ Goto(p, "list")
          /\ UNCHANGED call
       \/ \E r \in FoundByID(p) :
            \/ /\ IsExact(r, call[p].room)
               /\ Goto(p, IF call[p].op = "ensure" THEN "single" ELSE "delete")
               /\ UNCHANGED call
            \/ /\ ~IsExact(r, call[p].room) /\ call[p].op = "ensure"
               /\ Goto(p, "list")
               /\ UNCHANGED call
            \/ /\ ~IsExact(r, call[p].room) /\ call[p].op = "delete"
               /\ Fails(p, "conflict")
    /\ UNCHANGED <<zoneVars, callerVars, manager, cachedZone, candidate, late,
                   historyVars, faults>>

-----------------------------------------------------------------------------
(***************************************************************************)
(* What the list of the records under the room's name leads to.            *)
(***************************************************************************)

\* Mutant: the first of several records is taken.
EnsureFromAny(p) ==
    LET S == Named(call[p].room) IN
    IF S = {} THEN Goto(p, "create") /\ UNCHANGED call
    ELSE LET r == CHOOSE x \in S : TRUE IN
         IF r.kind # "A" THEN Fails(p, "conflict")
         ELSE IF IsWanted(r) THEN Return(p, "adopted", r.id)
         ELSE Proceed(p, "update", r.id)

\* ensureFromExactRecords and repairOrAdopt.
EnsureFromExact(p) ==
    LET S == Named(call[p].room) IN
    \/ S = {} /\ Goto(p, "create") /\ UNCHANGED call
    \/ Cardinality(S) > 1 /\ Fails(p, "conflict")
    \/ \E r \in S :
        /\ S = {r}
        /\ \/ r.kind # "A" /\ Fails(p, "conflict")
           \/ r.kind = "A" /\ IsWanted(r) /\ Return(p, "adopted", r.id)
           \/ r.kind = "A" /\ ~IsWanted(r) /\ Proceed(p, "update", r.id)

\* deleteRecordInZone, the part after its list.
DeleteFromExact(p) ==
    LET S == Named(call[p].room) IN
    \/ S = {} /\ Fails(p, "deleted")
    \/ Cardinality(S) > 1 /\ Fails(p, "conflict")
    \/ \E r \in S :
        /\ S = {r}
        /\ \/ (r.kind # "A" \/ r.mode = "proxied") /\ Fails(p, "conflict")
           \/ r.kind = "A" /\ r.mode # "proxied" /\ Proceed(p, "delete", r.id)

\* Mutant: a zone that is not found counts as one without records.
ListForgiving(p) ==
    /\ pc[p] = "list"
    /\ \/ ~InZone(p) /\ call[p].op = "ensure" /\ Fails(p, "error")
       \/ ~InZone(p) /\ call[p].op = "delete" /\ Fails(p, "deleted")
       \/ InZone(p) /\ call[p].op = "ensure" /\ EnsureFromExact(p)
       \/ InZone(p) /\ call[p].op = "delete" /\ DeleteFromExact(p)
    /\ UNCHANGED <<zoneVars, callerVars, manager, cachedZone, candidate, late,
                   historyVars, faults>>

ListRecordsByName(p) ==
    /\ pc[p] = "list"
    /\ \/ ~InZone(p) /\ Fails(p, "error")
       \/ InZone(p) /\ call[p].op = "ensure" /\ EnsureFromExact(p)
       \/ InZone(p) /\ call[p].op = "delete" /\ DeleteFromExact(p)
    /\ UNCHANGED <<zoneVars, callerVars, manager, cachedZone, candidate, late,
                   historyVars, faults>>

\* ensureSingleExactRecord: the stored record must be the only one.
EnsureSingle(p) ==
    /\ pc[p] = "single"
    /\ \/ ~InZone(p) /\ Fails(p, "error")
       \/ /\ InZone(p)
          /\ {r.id : r \in Named(call[p].room)} # {call[p].id}
          /\ Fails(p, "conflict")
       \/ /\ InZone(p)
          /\ {r.id : r \in Named(call[p].room)} = {call[p].id}
          /\ EnsureFromExact(p)
    /\ UNCHANGED <<zoneVars, callerVars, manager, cachedZone, candidate, late,
                   historyVars, faults>>

-----------------------------------------------------------------------------
(***************************************************************************)
(* The one change a call sends.  Cloudflare refuses a record that another  *)
(* one under the same name excludes, and ids it does not have.             *)
(***************************************************************************)
RequestOf(p) == [op |-> pc[p], zone |-> call[p].zone, id |-> call[p].id,
                 room |-> call[p].room]

Excluded(q) ==
    \E r \in Named(q.room) : /\ q.op = "create" \/ r.id # q.id
                             /\ r.kind = "CNAME" \/ r.content = q.room

Accepted(q) ==
    /\ q.zone = zone
    /\ q.op # "delete" => ~Excluded(q)
    /\ q.op # "create" => \E r \in records : r.id = q.id

\* Mutant: the address is set and the other fields are left.
AfterKeepingMode(q) ==
    IF q.op = "create" THEN records \cup {Plain(lastID + 1, q.room)}
    ELSE {r \in records : r.id # q.id}
            \cup (IF q.op = "update"
                 THEN {[r EXCEPT !.content = q.room] : r \in {x \in records : x.id = q.id}}
                 ELSE {})

After(q) ==
    IF q.op = "create" THEN records \cup {Plain(lastID + 1, q.room)}
    ELSE {r \in records : r.id # q.id}
            \cup (IF q.op = "update" THEN {Plain(q.id, q.room)} ELSE {})

TakesEffect(q, p) ==
    /\ SetRecords(IF Accepted(q) THEN After(q) ELSE records, p)
    /\ lastID' = IF Accepted(q) /\ q.op = "create" THEN lastID + 1 ELSE lastID
    /\ UNCHANGED zone

CreateRecord(p) ==
    /\ pc[p] = "create"
    /\ Accepted(RequestOf(p))
    /\ TakesEffect(RequestOf(p), p)
    /\ Return(p, "created", lastID + 1)
    /\ UNCHANGED <<callerVars, manager, cachedZone, candidate, late, faults>>

UpdateRecord(p) ==
    /\ pc[p] = "update"
    /\ Accepted(RequestOf(p))
    /\ TakesEffect(RequestOf(p), p)
    /\ Return(p, "updated", call[p].id)
    /\ UNCHANGED <<callerVars, manager, cachedZone, candidate, late, faults>>

\* Not found is as good as deleted.
DeleteRecordByID(p) ==
    /\ pc[p] = "delete"
    /\ TakesEffect(RequestOf(p), p)
    /\ Fails(p, "deleted")
    /\ UNCHANGED <<callerVars, manager, cachedZone, candidate, late, faults>>

ChangeRefused(p) ==
    /\ pc[p] \in {"create", "update"}
    /\ ~Accepted(RequestOf(p))
    /\ Fails(p, "error")
    /\ UNCHANGED <<zoneVars, callerVars, manager, cachedZone, candidate, late,
                   historyVars, faults>>

-----------------------------------------------------------------------------
(***************************************************************************)
(* Faults: no answer to a request, edits in the zone.                      *)
(***************************************************************************)
ReadFails(p) ==
    /\ pc[p] \in Reads
    /\ Fails(p, "error")
    /\ Fault
    /\ UNCHANGED <<zoneVars, callerVars, manager, cachedZone, candidate, late, historyVars>>

\* The change took effect, or has not yet and may do so any time, or never.
ChangeFails(p) ==
    /\ pc[p] \in Changes
    /\ Fails(p, "error")
    /\ \/ TakesEffect(RequestOf(p), p) /\ UNCHANGED late
       \/ late' = late \cup {RequestOf(p)} /\ UNCHANGED <<zoneVars, historyVars>>
    /\ Fault
    /\ UNCHANGED <<callerVars, manager, cachedZone, candidate>>

LateEffect(q) ==
    /\ late' = late \ {q}
    /\ SetRecords(IF Accepted(q) THEN After(q) ELSE records, NoID)
    /\ lastID' = IF Accepted(q) /\ q.op = "create" THEN lastID + 1 ELSE lastID
    /\ UNCHANGED <<zone, callerVars, managerVars, faults>>

RecordAdded(n) ==
    /\ \E kind \in {"A", "CNAME"}, content \in Contents, mode \in Modes :
        /\ ~\E r \in Named(n) : r.kind = "CNAME" \/ kind = "CNAME"
        /\ SetRecords(records \cup {[id |-> lastID + 1, name |-> n, kind |-> kind,
                                     content |-> content, mode |-> mode]}, NoID)
    /\ lastID' = lastID + 1
    /\ Fault
    /\ UNCHANGED <<zone, callerVars, managerVars, late>>

RecordRemoved(r) ==
    /\ SetRecords(records \ {r}, NoID)
    /\ Fault
    /\ UNCHANGED <<zone, lastID, callerVars, managerVars, late>>

RecordEdited(r) ==
    /\ \E new \in {[r EXCEPT !.name = n] : n \in Names}
                    \cup {[r EXCEPT !.content = x] : x \in Contents}
                    \cup {[r EXCEPT !.mode = m] : m \in Modes} :
        /\ new # r
        /\ ~\E x \in Named(new.name) \ {r} : x.kind = "CNAME" \/ r.kind = "CNAME"
        /\ SetRecords((records \ {r}) \cup {new}, NoID)
    /\ Fault
    /\ UNCHANGED <<zone, lastID, callerVars, managerVars, late>>

\* The domain is removed from the account and added again, without records.
ZoneReplaced ==
    /\ zone' = zone + 1
    /\ records' = {}
    /\ quiet' = [p \in Processes |-> ~InCall(p)]
    /\ Fault
    /\ UNCHANGED <<lastID, callerVars, managerVars, late, bore>>

-----------------------------------------------------------------------------
(***************************************************************************)
(* The reconciler and the admin.                                           *)
(***************************************************************************)

\* MarkDNSConfigured writes the id only while the session still waits for DNS:
\* if the room was condemned during the call, the row keeps its old or empty id.
\* MarkDNSDeleted empties the id.  Either write may fail.
StoreResult(p) ==
    /\ pc[p] = "done"
    /\ Goto(p, "idle")
    /\ Forget(p)
    /\ LET n == call[p].room
           configures == /\ call[p].result \in {"created", "adopted", "updated"}
                         /\ wanted[n] = "present"
           removes == call[p].result = "deleted" /\ wanted[n] = "gone"
       IN
       \/ /\ configures
          /\ stored' = [stored EXCEPT ![n] = call[p].id]
          /\ UNCHANGED <<wanted, faults>>
       \/ /\ removes
          /\ stored' = [stored EXCEPT ![n] = NoID]
          /\ wanted' = [wanted EXCEPT ![n] = "removed"]
          /\ UNCHANGED faults
       \/ ~configures /\ ~removes /\ UNCHANGED <<wanted, stored, faults>>
       \/ (configures \/ removes) /\ Fault /\ UNCHANGED <<wanted, stored>>
    /\ UNCHANGED <<zoneVars, manager, cachedZone, candidate, late>>

Condemn(n) ==
    /\ wanted[n] = "present"
    /\ wanted' = [wanted EXCEPT ![n] = "gone"]
    /\ UNCHANGED <<zoneVars, stored, managerVars, late, historyVars, faults>>

\* The server's destruction, which comes after the record's, fails or is not
\* written down; the teardown is done again, the record's deletion included.
TeardownRepeats(n) ==
    /\ wanted[n] = "removed"
    /\ wanted' = [wanted EXCEPT ![n] = "gone"]
    /\ Fault
    /\ UNCHANGED <<zoneVars, stored, managerVars, late, historyVars>>

Starts(p) == TryNextCandidate(p) \/ FindZone(p)

Works(p, n) == EnsureARecord(p, n) \/ DeleteRecord(p, n)

Answers(p) == \/ GetRecord(p) \/ ListRecordsByName(p) \/ EnsureSingle(p)
              \/ CreateRecord(p) \/ UpdateRecord(p) \/ DeleteRecordByID(p)
              \/ ChangeRefused(p) \/ StoreResult(p)

Process(p) == \/ Starts(p) \/ Answers(p)
              \/ \E n \in Rooms : Works(p, n)
              \/ ReadFails(p) \/ ChangeFails(p) \/ Restart(p)

Teardowns == \E n \in Rooms : Condemn(n) \/ TeardownRepeats(n)

Edits == \/ \E n \in Names : RecordAdded(n)
         \/ \E r \in records : RecordRemoved(r) \/ RecordEdited(r)
         \/ ZoneReplaced

Next == \/ \E p \in Processes : Process(p)
        \/ \E q \in late : LateEffect(q)
        \/ Teardowns
        \/ Edits

\* The reconciler's Step comes round to every room, and requests are answered
\* or time out; nothing has to fail, and nobody has to edit or restart.
Fairness ==
    \A p \in Processes :
        /\ WF_vars(Starts(p) \/ Answers(p))
        /\ \A n \in Rooms : SF_vars(Works(p, n))

Spec == Init /\ [][Next]_vars

FairSpec == Spec /\ Fairness

-----------------------------------------------------------------------------

Succeeded(p) == pc[p] = "done" /\ call[p].result \in {"created", "adopted", "updated"}

\* A successful EnsureARecord speaks the truth: if nobody else touched the
\* zone meanwhile, the returned record is the only one of the room domain and
\* points at the room's server, DNS only.  Also when the stored id is stale.
EnsureTruth ==
    \A p \in Processes : Succeeded(p) /\ quiet[p] =>
        /\ InZone(p)
        /\ Named(call[p].room) = {Plain(call[p].id, call[p].room)}

\* So does a successful DeleteRecord: there is no A record of the room domain
\* left, unless there were several of them when the call began.  A zone that
\* was replaced is never reported as clean.
DeleteTruth ==
    \A p \in Processes :
        /\ pc[p] = "done" /\ call[p].result = "deleted" /\ quiet[p]
        /\ \A i, j \in bore[p] : i = j
        => ExactIDs(records, call[p].room) = {}

\* A change names a record that has been the A record of the room domain at
\* some time since the call began, never one that belongs to another name,
\* whatever the stored id has become.
ChangesOwnRecord ==
    \A p \in Processes :
        pc[p] \in {"update", "delete"} => call[p].id \in bore[p]

Misconfigured ==
    \E p \in Processes : manager[p] # "live" \/ cachedZone[p] \notin {NoID, zone}

\* What a person has to sort out before EnsureARecord can succeed: other records
\* under the name, or a process that was started without a token or for another
\* base domain, or that knows a zone that is gone.
EnsureBlocked(n) ==
    Misconfigured \/ Cardinality(Named(n)) > 1 \/ \E r \in Named(n) : r.kind # "A"

\* DeleteRecord also gives up on a proxied record it finds by name, and when the
\* stored id is that of a record that was moved to another name or type.
DeleteBlocked(n) ==
    \/ EnsureBlocked(n)
    \/ \E r \in Named(n) : r.mode = "proxied"
    \/ \E r \in records : r.id = stored[n] /\ ~IsExact(r, n)

\* Repeated EnsureARecord calls give the room domain its record, whatever
\* failed, came late or was edited, unless a person has to step in.
RecordConverges ==
    \A n \in Rooms :
        wanted[n] = "present" ~>
            \/ wanted[n] # "present" \/ EnsureBlocked(n)
            \/ \E id \in 1..lastID : Named(n) = {Plain(id, n)}

\* Repeated DeleteRecord calls end, also with a stored id that is stale because
\* the room was condemned during a call; where a person has to step in, they go
\* on until that is done, and then they end.
DeletionEnds ==
    \A n \in Rooms :
        <>[]~DeleteBlocked(n) => (wanted[n] = "gone" ~> wanted[n] = "removed")
=============================================================================
