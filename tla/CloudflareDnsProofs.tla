------------------------ MODULE CloudflareDnsProofs ------------------------
(***************************************************************************)
(* A success of EnsureARecord or DeleteRecord is the truth, and a change   *)
(* is sent only for a record of the room domain: proved for any number of  *)
(* rooms, processes and faults.                                            *)
(*                                                                         *)
(* The invariant says what a call knows at each of its requests.  Steps of *)
(* others (other processes, late requests, people) leave the call alone    *)
(* and either leave the zone as it is or end the quiet; that is Kept, used *)
(* for all of them.                                                        *)
(***************************************************************************)
EXTENDS CloudflareDns, TLAPS

Working == Reads \cup Changes \cup {"done"}

Knows(p) ==
    /\ pc[p] \in Working => InCall(p)
    /\ InCall(p) => ExactIDs(records, call[p].room) \subseteq bore[p]
    /\ pc[p] \in {"update", "delete"} => call[p].id \in bore[p]
    /\ pc[p] \in Changes /\ quiet[p] => InZone(p)
    /\ pc[p] = "create" /\ quiet[p] => Named(call[p].room) = {}
    /\ pc[p] = "update" /\ quiet[p] =>
            \E r \in records : Named(call[p].room) = {r} /\ r.id = call[p].id
    /\ Succeeded(p) /\ quiet[p] =>
            /\ InZone(p)
            /\ Named(call[p].room) = {Plain(call[p].id, call[p].room)}
    /\ /\ pc[p] = "done" /\ call[p].result = "deleted" /\ quiet[p]
       /\ \A i, j \in bore[p] : i = j
       => ExactIDs(records, call[p].room) = {}

Inv == TypeOK /\ \A p \in Processes : Knows(p)

-----------------------------------------------------------------------------
(***************************************************************************)
(* Types.                                                                  *)
(***************************************************************************)

\* What a change leaves in the zone are records.
LEMMA AfterType ==
    ASSUME TypeOK, NEW q \in Request
    PROVE  After(q) \in SUBSET Record
<1>1. q.room \in Rooms /\ q.id \in Nat /\ lastID + 1 \in Nat
  BY DEF Request, TypeOK
<1>2. Plain(q.id, q.room) \in Record /\ Plain(lastID + 1, q.room) \in Record
  BY <1>1 DEF Plain, Record, Names, Contents, Modes
<1> QED
  BY <1>2 DEF After, TypeOK

\* The ghosts keep their types however the records change.
LEMMA SetRecordsType ==
    ASSUME TypeOK, NEW R \in SUBSET Record, NEW p, SetRecords(R, p)
    PROVE  /\ records' \in SUBSET Record
           /\ quiet' \in [Processes -> BOOLEAN]
           /\ bore' \in [Processes -> SUBSET Nat]
<1>1. \A n : ExactIDs(R, n) \in SUBSET Nat
  BY DEF ExactIDs, Record
<1>2. quiet' \in [Processes -> BOOLEAN]
  BY DEF SetRecords, TypeOK
<1> QED
  BY <1>1, <1>2 DEF SetRecords, TypeOK

LEMMA RequestType ==
    ASSUME TypeOK, NEW p \in Processes, pc[p] \in Changes
    PROVE  RequestOf(p) \in Request
  BY DEF TypeOK, RequestOf, Request, Call, Changes

LEMMA TakesEffectType ==
    ASSUME TypeOK, NEW q \in Request, NEW p, TakesEffect(q, p)
    PROVE  /\ records' \in SUBSET Record
           /\ quiet' \in [Processes -> BOOLEAN]
           /\ bore' \in [Processes -> SUBSET Nat]
           /\ lastID' \in Nat /\ zone' \in Nat \ {NoID}
<1>1. (IF Accepted(q) THEN After(q) ELSE records) \in SUBSET Record
  BY AfterType DEF TypeOK
<1>2. lastID' \in Nat /\ zone' \in Nat \ {NoID}
  BY DEF TakesEffect, TypeOK
<1> QED
  BY <1>1, <1>2, SetRecordsType DEF TakesEffect

\* The ways a call goes on.
LEMMA ControlType ==
    ASSUME TypeOK, NEW p \in Processes, NEW where \in {"idle"} \cup Working,
           NEW result \in Results, NEW id \in Nat,
           \/ Goto(p, where) /\ UNCHANGED call
           \/ Proceed(p, where, id)
           \/ Return(p, result, id)
           \/ Fails(p, result)
    PROVE  /\ pc' \in [Processes -> {"validate", "idle", "done"} \cup Reads \cup Changes]
           /\ call' \in [Processes -> Call]
<1>1. call[p] \in Call
  BY DEF TypeOK
<1>2. /\ [call[p] EXCEPT !.id = id] \in Call
      /\ [call[p] EXCEPT !.result = result] \in Call
      /\ [call[p] EXCEPT !.id = id, !.result = result] \in Call
  BY <1>1 DEF Call
<1> QED
  BY <1>2 DEF TypeOK, Goto, Proceed, Return, Fails, Working

-----------------------------------------------------------------------------
(***************************************************************************)
(* Steps of others.                                                        *)
(***************************************************************************)

\* A step that leaves the call of p as it is, notes who carries its name and
\* ends the quiet if it changes the zone takes nothing from what p knows.
LEMMA Kept ==
    ASSUME NEW p \in Processes, Knows(p),
           pc'[p] = pc[p], call'[p] = call[p], bore[p] \subseteq bore'[p],
           InCall(p) => ExactIDs(records', call[p].room) \subseteq bore'[p],
           InCall(p) /\ quiet'[p] => quiet[p] /\ records' = records /\ zone' = zone
    PROVE  Knows(p)'
<1>1. CASE ~InCall(p)
  BY <1>1 DEF Knows, InCall, Succeeded, Working, Reads, Changes
<1>2. CASE InCall(p) /\ ~quiet'[p]
  <2>1. InCall(p)' /\ (pc[p] \in {"update", "delete"} => call[p].id \in bore'[p])
    BY <1>2 DEF Knows, InCall
  <2>2. ExactIDs(records', call'[p].room) \subseteq bore'[p]
    BY <1>2
  <2>3. ExactIDs(records, call[p].room)' \subseteq bore'[p]
    BY <2>2 DEF ExactIDs, IsExact
  <2> QED
    BY <1>2, <2>1, <2>3 DEF Knows
<1>3. CASE InCall(p) /\ quiet'[p]
  <2>1. quiet[p] /\ records' = records /\ zone' = zone
    BY <1>3
  <2>2. /\ ExactIDs(records, call[p].room)' = ExactIDs(records, call[p].room)
        /\ Named(call[p].room)' = Named(call[p].room)
        /\ Plain(call[p].id, call[p].room)' = Plain(call[p].id, call[p].room)
        /\ InZone(p)' = InZone(p) /\ Succeeded(p)' = Succeeded(p)
        /\ InCall(p)' = InCall(p)
    BY <2>1 DEF ExactIDs, IsExact, Named, Plain, InZone, Succeeded, InCall
  <2>3. ExactIDs(records, call[p].room) \subseteq bore'[p]
    BY <1>3, <2>1
  <2>4. (\A i, j \in bore'[p] : i = j) => (\A i, j \in bore[p] : i = j)
    OBVIOUS
  <2> QED
    BY <1>3, <2>1, <2>2, <2>3, <2>4 DEF Knows
<1> QED
  BY <1>1, <1>2, <1>3

\* A change of the records is such a step for everyone but its author.
LEMMA SetRecordsKeeps ==
    ASSUME TypeOK, NEW p \in Processes, Knows(p), NEW R, NEW q, p # q,
           SetRecords(R, q), UNCHANGED zone,
           pc'[p] = pc[p], call'[p] = call[p]
    PROVE  Knows(p)'
<1>1. bore[p] \subseteq bore'[p]
  BY DEF SetRecords
<1>2. InCall(p) => ExactIDs(records', call[p].room) \subseteq bore'[p]
  BY DEF SetRecords
<1>3. InCall(p) /\ quiet'[p] => quiet[p] /\ records' = records
  BY DEF SetRecords
<1> QED
  BY <1>1, <1>2, <1>3, Kept

\* A step that leaves the zone alone is one for everyone it leaves alone.
LEMMA IdleKeeps ==
    ASSUME NEW p \in Processes, Knows(p), UNCHANGED zoneVars,
           pc'[p] = pc[p], call'[p] = call[p], quiet'[p] = quiet[p],
           bore'[p] = bore[p]
    PROVE  Knows(p)'
<1>1. InCall(p) => ExactIDs(records', call[p].room) \subseteq bore'[p]
  BY DEF Knows, zoneVars
<1> QED
  BY <1>1, Kept DEF zoneVars

-----------------------------------------------------------------------------
(***************************************************************************)
(* Steps of the call itself.                                               *)
(***************************************************************************)

\* What the ways a call goes on do to the variables of p and of others.
LEMMA GotoFacts ==
    ASSUME TypeOK, NEW p \in Processes, NEW where, Goto(p, where)
    PROVE  pc'[p] = where /\ \A q \in Processes \ {p} : pc'[q] = pc[q]
<1>1. pc \in [Processes -> {"validate", "idle", "done"} \cup Reads \cup Changes]
  BY DEF TypeOK
<1> QED
  BY <1>1 DEF Goto

LEMMA ProceedFacts ==
    ASSUME TypeOK, NEW p \in Processes, NEW where, NEW id, Proceed(p, where, id)
    PROVE  /\ pc'[p] = where /\ call'[p].id = id
           /\ call'[p].op = call[p].op /\ call'[p].room = call[p].room
           /\ call'[p].zone = call[p].zone
           /\ \A q \in Processes \ {p} : pc'[q] = pc[q] /\ call'[q] = call[q]
<1>1. call[p] \in Call /\ call \in [Processes -> Call]
  BY DEF TypeOK
<1> QED
  BY <1>1, GotoFacts DEF Proceed, Call

LEMMA ReturnFacts ==
    ASSUME TypeOK, NEW p \in Processes, NEW result, NEW id, Return(p, result, id)
    PROVE  /\ pc'[p] = "done" /\ call'[p].result = result /\ call'[p].id = id
           /\ call'[p].op = call[p].op /\ call'[p].room = call[p].room
           /\ call'[p].zone = call[p].zone
           /\ \A q \in Processes \ {p} : pc'[q] = pc[q] /\ call'[q] = call[q]
<1>1. call[p] \in Call /\ call \in [Processes -> Call]
  BY DEF TypeOK
<1> QED
  BY <1>1, GotoFacts DEF Return, Call

LEMMA FailsFacts ==
    ASSUME TypeOK, NEW p \in Processes, NEW result, Fails(p, result)
    PROVE  /\ pc'[p] = "done" /\ call'[p].result = result
           /\ call'[p].op = call[p].op /\ call'[p].room = call[p].room
           /\ call'[p].zone = call[p].zone
           /\ \A q \in Processes \ {p} : pc'[q] = pc[q] /\ call'[q] = call[q]
<1>1. call[p] \in Call /\ call \in [Processes -> Call]
  BY DEF TypeOK
<1> QED
  BY <1>1, GotoFacts DEF Fails, Call

\* The answer to a list, seen from the call: what is decided about the one
\* record, or that there is none, holds as long as nobody disturbs the zone.
LEMMA ListedKnows ==
    ASSUME TypeOK, NEW p \in Processes, Knows(p), pc[p] \in Reads, InZone(p),
           EnsureFromExact(p) \/ DeleteFromExact(p),
           UNCHANGED <<zoneVars, historyVars>>
    PROVE  Knows(p)'
<1> DEFINE n == call[p].room
<1>1. InCall(p) /\ ExactIDs(records, n) \subseteq bore[p]
  BY DEF Knows, Working
<1>2. records' = records /\ zone' = zone /\ quiet' = quiet /\ bore' = bore
  BY DEF zoneVars, historyVars
<1>3. Named(n) = {} => ExactIDs(records, n) = {}
  BY DEF Named, ExactIDs, IsExact
<1>4. \A r \in Named(n) : r \in records /\ (r.kind = "A" => r.id \in bore[p])
  BY <1>1 DEF Named, ExactIDs, IsExact
<1>5. CASE Named(n) = {} /\ Goto(p, "create") /\ UNCHANGED call
  <2>1. pc'[p] = "create" /\ call' = call
    BY <1>5, GotoFacts
  <2>2. Named(call[p].room)' = {} /\ InZone(p)' /\ InCall(p)'
    BY <1>1, <1>2, <1>5, <2>1 DEF Named, InZone, InCall
  <2>3. ExactIDs(records', call'[p].room) \subseteq bore'[p]
    BY <1>1, <1>2, <2>1
  <2>4. ExactIDs(records, call[p].room)' \subseteq bore'[p]
    BY <2>3 DEF ExactIDs, IsExact
  <2> QED
    BY <2>1, <2>2, <2>4 DEF Knows, Working, Reads, Changes, Succeeded
<1>6. ASSUME NEW result \in {"conflict", "error"}, Fails(p, result)
      PROVE  Knows(p)'
  <2>1. /\ pc'[p] = "done" /\ call'[p].result = result
        /\ call'[p].op = call[p].op /\ call'[p].room = n
    BY <1>6, FailsFacts
  <2>2. ExactIDs(records, call[p].room)' \subseteq bore'[p] /\ InCall(p)'
    BY <1>1, <1>2, <2>1 DEF ExactIDs, IsExact, InCall
  <2> QED
    BY <2>1, <2>2 DEF Knows, Working, Reads, Changes, Succeeded
<1>7. CASE Named(n) = {} /\ Fails(p, "deleted")
  <2>1. /\ pc'[p] = "done" /\ call'[p].result = "deleted"
        /\ call'[p].op = call[p].op /\ call'[p].room = n
    BY <1>7, FailsFacts
  <2>2. ExactIDs(records, call[p].room)' = {} /\ InCall(p)'
    BY <1>1, <1>2, <1>3, <1>7, <2>1 DEF ExactIDs, IsExact, InCall
  <2> QED
    BY <2>1, <2>2 DEF Knows, Working, Reads, Changes, Succeeded
<1>8. ASSUME NEW r \in Named(n), Named(n) = {r}, r.kind = "A", IsWanted(r),
             Return(p, "adopted", r.id)
      PROVE  Knows(p)'
  <2>1. /\ pc'[p] = "done" /\ call'[p].result = "adopted" /\ call'[p].id = r.id
        /\ call'[p].op = call[p].op /\ call'[p].room = n
        /\ call'[p].zone = call[p].zone
    BY <1>8, ReturnFacts
  <2>2. r \in Record /\ r.name = n
    BY <1>4 DEF TypeOK, Named
  <2>3. r = Plain(r.id, n)
    BY <1>8, <2>2 DEF Plain, IsWanted, Record
  <2>4. InZone(p)' /\ InCall(p)' /\ Named(call[p].room)' = {r}
    BY <1>1, <1>2, <1>8, <2>1 DEF InZone, InCall, Named
  <2>5. Plain(call[p].id, call[p].room)' = r
    BY <2>1, <2>3 DEF Plain
  <2>6. ExactIDs(records, call[p].room)' \subseteq bore'[p]
    BY <1>1, <1>2, <2>1 DEF ExactIDs, IsExact
  <2> QED
    BY <2>1, <2>4, <2>5, <2>6 DEF Knows, Working, Reads, Changes, Succeeded
<1>9. ASSUME NEW r \in Named(n), Named(n) = {r}, r.kind = "A",
             NEW where \in {"update", "delete"}, Proceed(p, where, r.id)
      PROVE  Knows(p)'
  <2>1. /\ pc'[p] = where /\ call'[p].id = r.id
        /\ call'[p].op = call[p].op /\ call'[p].room = n
        /\ call'[p].zone = call[p].zone
    BY <1>9, ProceedFacts
  <2>2. InZone(p)' /\ InCall(p)' /\ Named(call[p].room)' = {r}
    BY <1>1, <1>2, <1>9, <2>1 DEF InZone, InCall, Named
  <2>3. ExactIDs(records, call[p].room)' \subseteq bore'[p]
    BY <1>1, <1>2, <2>1 DEF ExactIDs, IsExact
  <2>4. r \in records' /\ call'[p].id \in bore'[p]
    BY <1>2, <1>4, <1>9, <2>1
  <2> QED
    BY <2>1, <2>2, <2>3, <2>4 DEF Knows, Working, Reads, Changes, Succeeded
<1>10. CASE EnsureFromExact(p)
  BY <1>5, <1>6, <1>8, <1>9, <1>10 DEF EnsureFromExact
<1>11. CASE DeleteFromExact(p)
  BY <1>6, <1>7, <1>9, <1>11 DEF DeleteFromExact
<1> QED
  BY <1>10, <1>11

\* A call that gives up knows nothing it has to keep.
LEMMA FailsKnows ==
    ASSUME TypeOK, NEW p \in Processes, Knows(p), pc[p] \in Working,
           NEW result \in {"conflict", "error"}, Fails(p, result),
           ExactIDs(records', call[p].room) \subseteq bore'[p]
    PROVE  Knows(p)'
<1>1. /\ pc'[p] = "done" /\ call'[p].result = result
      /\ call'[p].op = call[p].op /\ call'[p].room = call[p].room
  BY FailsFacts
<1>2. ExactIDs(records, call[p].room)' \subseteq bore'[p] /\ InCall(p)'
  BY <1>1 DEF ExactIDs, IsExact, InCall, Knows
<1> QED
  BY <1>1, <1>2 DEF Knows, Working, Reads, Changes, Succeeded

\* The answers to the reads.
LEMMA ReadsKnow ==
    ASSUME TypeOK, NEW p \in Processes, Knows(p),
           \/ GetRecord(p) \/ ListRecordsByName(p) \/ EnsureSingle(p)
           \/ ReadFails(p) \/ ChangeRefused(p)
    PROVE  Knows(p)'
<1>1. UNCHANGED <<zoneVars, historyVars>>
  BY DEF GetRecord, ListRecordsByName, EnsureSingle, ReadFails, ChangeRefused
<1>2. pc[p] \in Reads \cup Changes /\ pc[p] \in Working
  BY DEF GetRecord, ListRecordsByName, EnsureSingle, ReadFails, ChangeRefused,
         Reads, Changes, Working
<1>3. InCall(p) /\ ExactIDs(records, call[p].room) \subseteq bore[p]
  BY <1>2 DEF Knows
<1>4. records' = records /\ zone' = zone /\ bore' = bore /\ quiet' = quiet
  BY <1>1 DEF zoneVars, historyVars
<1>5. ExactIDs(records', call[p].room) \subseteq bore'[p]
  BY <1>3, <1>4
<1>6. ASSUME NEW result \in {"conflict", "error"}, Fails(p, result)
      PROVE  Knows(p)'
  BY <1>2, <1>5, <1>6, FailsKnows
<1>7. ASSUME NEW where \in {"list", "single"}, Goto(p, where), UNCHANGED call
      PROVE  Knows(p)'
  <2>1. pc'[p] = where
    BY <1>7, GotoFacts
  <2>2. InCall(p)' /\ ExactIDs(records, call[p].room)' \subseteq bore'[p]
    BY <1>3, <1>5, <1>7 DEF InCall, ExactIDs, IsExact
  <2> QED
    BY <2>1, <2>2 DEF Knows, Working, Reads, Changes, Succeeded
<1>8. ASSUME NEW r \in FoundByID(p), IsExact(r, call[p].room), Goto(p, "delete"),
             UNCHANGED call
      PROVE  Knows(p)'
  <2>1. pc'[p] = "delete"
    BY <1>8, GotoFacts
  <2>2. InCall(p)' /\ ExactIDs(records, call[p].room)' \subseteq bore'[p]
    BY <1>3, <1>5, <1>8 DEF InCall, ExactIDs, IsExact
  <2>3. r \in records /\ r.id = call[p].id /\ InZone(p)
    BY <1>8 DEF FoundByID
  <2>4. call[p].id \in ExactIDs(records, call[p].room)
    BY <1>8, <2>3 DEF ExactIDs
  <2>5. call'[p].id \in bore'[p] /\ InZone(p)'
    BY <1>3, <1>4, <1>8, <2>3, <2>4 DEF InZone
  <2> QED
    BY <2>1, <2>2, <2>5 DEF Knows, Working, Reads, Changes, Succeeded
<1>9. CASE GetRecord(p)
  BY <1>6, <1>7, <1>8, <1>9 DEF GetRecord
<1>10. CASE ListRecordsByName(p)
  <2>1. pc[p] \in Reads
    BY <1>10 DEF ListRecordsByName, Reads
  <2> QED
    BY <1>1, <1>6, <1>10, <2>1, ListedKnows DEF ListRecordsByName
<1>11. CASE EnsureSingle(p)
  <2>1. pc[p] \in Reads
    BY <1>11 DEF EnsureSingle, Reads
  <2> QED
    BY <1>1, <1>6, <1>11, <2>1, ListedKnows DEF EnsureSingle
<1>12. CASE ReadFails(p) \/ ChangeRefused(p)
  BY <1>6, <1>12 DEF ReadFails, ChangeRefused
<1> QED
  BY <1>9, <1>10, <1>11, <1>12

\* What a change of p's own does to the zone and to the ghosts.
LEMMA TakesEffectFacts ==
    ASSUME TypeOK, NEW p \in Processes, InCall(p), NEW q, TakesEffect(q, p)
    PROVE  /\ records' = IF Accepted(q) THEN After(q) ELSE records
           /\ zone' = zone /\ quiet'[p] = quiet[p]
           /\ bore'[p] = bore[p] \cup ExactIDs(records', call[p].room)
  BY DEF TakesEffect, SetRecords, TypeOK

\* The answers to the changes.
LEMMA ChangesKnow ==
    ASSUME TypeOK, NEW p \in Processes, Knows(p),
           CreateRecord(p) \/ UpdateRecord(p) \/ DeleteRecordByID(p)
    PROVE  Knows(p)'
<1> DEFINE n == call[p].room
           q == RequestOf(p)
<1>1. /\ pc[p] \in Changes /\ InCall(p) /\ (quiet[p] => InZone(p))
      /\ ExactIDs(records, n) \subseteq bore[p]
  BY DEF CreateRecord, UpdateRecord, DeleteRecordByID, Knows, Changes, Working
<1>2. TakesEffect(q, p)
  BY DEF CreateRecord, UpdateRecord, DeleteRecordByID
<1>3. /\ records' = IF Accepted(q) THEN After(q) ELSE records
      /\ zone' = zone /\ quiet'[p] = quiet[p]
      /\ bore'[p] = bore[p] \cup ExactIDs(records', n)
  BY <1>1, <1>2, TakesEffectFacts
<1>4. /\ q.op = pc[p] /\ q.zone = call[p].zone /\ q.id = call[p].id /\ q.room = n
  BY DEF RequestOf
<1>6. CASE CreateRecord(p)
  <2>1. /\ pc'[p] = "done" /\ call'[p].result = "created" /\ call'[p].id = lastID + 1
        /\ call'[p].op = call[p].op /\ call'[p].room = n
        /\ call'[p].zone = call[p].zone
    BY <1>6, ReturnFacts DEF CreateRecord
  <2>2. records' = records \cup {Plain(lastID + 1, n)} /\ q.zone = zone
    BY <1>3, <1>4, <1>6 DEF CreateRecord, After, Accepted
  <2>3. quiet[p] => {r \in records : r.name = n} = {}
    BY <1>6 DEF Knows, CreateRecord, Named
  <2>4. Plain(lastID + 1, n).name = n
    BY DEF Plain
  <2>5. quiet[p] => {r \in records' : r.name = n} = {Plain(lastID + 1, n)}
    BY <2>2, <2>3, <2>4
  <2>6. quiet[p] => Named(call[p].room)' = {Plain(call[p].id, call[p].room)}'
    BY <2>1, <2>5 DEF Named, Plain
  <2>7. InZone(p)' /\ InCall(p)' /\ ExactIDs(records, call[p].room)' \subseteq bore'[p]
    BY <1>1, <1>3, <1>4, <2>1, <2>2 DEF InZone, InCall, ExactIDs, IsExact
  <2> QED
    BY <1>3, <2>1, <2>6, <2>7 DEF Knows, Working, Reads, Changes, Succeeded
<1>7. CASE UpdateRecord(p)
  <2>1. /\ pc'[p] = "done" /\ call'[p].result = "updated"
        /\ call'[p].id = call[p].id
        /\ call'[p].op = call[p].op /\ call'[p].room = n
        /\ call'[p].zone = call[p].zone
    BY <1>7, ReturnFacts DEF UpdateRecord
  <2>2. /\ records' = {r \in records : r.id # call[p].id} \cup {Plain(call[p].id, n)}
        /\ q.zone = zone
    BY <1>3, <1>4, <1>7 DEF UpdateRecord, After, Accepted
  <2>3. quiet[p] => \A r \in records : r.name = n => r.id = call[p].id
    BY <1>7 DEF Knows, UpdateRecord, Named
  <2>4. Plain(call[p].id, n).name = n
    BY DEF Plain
  <2>5. quiet[p] => {r \in records' : r.name = n} = {Plain(call[p].id, n)}
    BY <2>2, <2>3, <2>4
  <2>6. quiet[p] => Named(call[p].room)' = {Plain(call[p].id, call[p].room)}'
    BY <2>1, <2>5 DEF Named, Plain
  <2>7. InZone(p)' /\ InCall(p)' /\ ExactIDs(records, call[p].room)' \subseteq bore'[p]
    BY <1>1, <1>3, <1>4, <2>1, <2>2 DEF InZone, InCall, ExactIDs, IsExact
  <2> QED
    BY <1>3, <2>1, <2>6, <2>7 DEF Knows, Working, Reads, Changes, Succeeded
<1>8. CASE DeleteRecordByID(p)
  <2>1. /\ pc'[p] = "done" /\ call'[p].result = "deleted"
        /\ call'[p].op = call[p].op /\ call'[p].room = n
        /\ call'[p].zone = call[p].zone
    BY <1>8, FailsFacts DEF DeleteRecordByID
  <2>2. InCall(p)' /\ ExactIDs(records, call[p].room)' \subseteq bore'[p]
    BY <1>1, <1>3, <2>1 DEF InCall, ExactIDs, IsExact
  <2>3. call[p].id \in bore[p]
    BY <1>8 DEF Knows, DeleteRecordByID
  <2>4. ASSUME quiet[p], \A i, j \in bore'[p] : i = j
        PROVE  ExactIDs(records, call[p].room)' = {}
    <3>1. q.op = "delete" /\ q.zone = zone
      BY <1>1, <1>4, <1>8, <2>4 DEF DeleteRecordByID, InZone
    <3>2. records' \subseteq records /\ \A r \in records' : r.id # call[p].id
      BY <1>3, <1>4, <3>1 DEF After, Accepted
    <3>3. \A r \in records' : IsExact(r, n) => r.id \in bore'[p]
      BY <1>3 DEF ExactIDs
    <3>4. \A r \in records' : ~IsExact(r, n)
      BY <1>3, <2>3, <2>4, <3>2, <3>3
    <3> QED
      BY <2>1, <3>4 DEF ExactIDs, IsExact
  <2> QED
    BY <1>3, <2>1, <2>2, <2>4 DEF Knows, Working, Reads, Changes, Succeeded
<1> QED
  BY <1>6, <1>7, <1>8

LEMMA ChangeFailsKnows ==
    ASSUME TypeOK, NEW p \in Processes, Knows(p), ChangeFails(p)
    PROVE  Knows(p)'
<1>1. pc[p] \in Changes /\ pc[p] \in Working /\ Fails(p, "error")
  BY DEF ChangeFails, Working
<1>2. InCall(p) /\ ExactIDs(records, call[p].room) \subseteq bore[p]
  BY <1>1 DEF Knows
<1>3. ExactIDs(records', call[p].room) \subseteq bore'[p]
  <2>1. CASE TakesEffect(RequestOf(p), p)
    BY <1>2, <2>1, TakesEffectFacts
  <2>2. CASE UNCHANGED <<zoneVars, historyVars>>
    BY <1>2, <2>2 DEF zoneVars, historyVars
  <2> QED
    BY <2>1, <2>2 DEF ChangeFails
<1> QED
  BY <1>1, <1>3, FailsKnows

\* A call that begins knows nothing yet.
LEMMA AskKnows ==
    ASSUME TypeOK, NEW p \in Processes, NEW n \in Rooms,
           NEW op \in {"ensure", "delete"}, Ask(p, n, op)
    PROVE  Knows(p)'
<1>1. /\ records' = records /\ call'[p].op = op /\ call'[p].room = n
      /\ call'[p].result \in {"none", "error"}
      /\ bore'[p] = ExactIDs(records, n)
      /\ pc'[p] \in {"get", "list", "done"}
  <2>1. /\ call \in [Processes -> Call] /\ bore \in [Processes -> SUBSET Nat]
        /\ pc \in [Processes -> {"validate", "idle", "done"} \cup Reads \cup Changes]
    BY DEF TypeOK
  <2>2. CASE Begin(p, n, op)
    BY <2>1, <2>2 DEF Begin, zoneVars, Goto
  <2>3. CASE Refused(p, n, op)
    BY <2>1, <2>3 DEF Refused, zoneVars, Goto
  <2> QED
    BY <2>2, <2>3 DEF Ask
<1>2. InCall(p)' /\ ExactIDs(records, call[p].room)' \subseteq bore'[p]
  BY <1>1 DEF InCall, ExactIDs, IsExact
<1> QED
  BY <1>1, <1>2 DEF Knows, Working, Reads, Changes, Succeeded

\* Neither does a process without a call.
LEMMA ForgetKnows ==
    ASSUME TypeOK, NEW p \in Processes, Forget(p), pc'[p] \in {"validate", "idle"}
    PROVE  Knows(p)'
<1>1. call'[p].op = "none"
  BY DEF Forget, TypeOK
<1> QED
  BY <1>1 DEF Knows, InCall, Working, Reads, Changes, Succeeded

-----------------------------------------------------------------------------
(***************************************************************************)
(* Every step keeps what every process knows.                              *)
(***************************************************************************)

\* A process keeps what it knows when it starts, calls and is answered itself.
LEMMA OwnStep ==
    ASSUME TypeOK, NEW p \in Processes, Knows(p), Process(p)
    PROVE  Knows(p)'
<1>1. CASE TryNextCandidate(p)
  BY <1>1, IdleKeeps DEF TryNextCandidate, historyVars
<1>2. CASE FindZone(p)
  <2>1. pc'[p] = "idle"
    BY <1>2, GotoFacts DEF FindZone
  <2>2. InCall(p) => ExactIDs(records, call[p].room)' \subseteq bore'[p]
    BY <1>2 DEF FindZone, Knows, zoneVars, historyVars, ExactIDs, IsExact
  <2>3. InCall(p)' = InCall(p)
    BY <1>2 DEF FindZone, InCall
  <2> QED
    BY <2>1, <2>2, <2>3 DEF Knows, Working, Reads, Changes, Succeeded
<1>3. CASE GetRecord(p) \/ ListRecordsByName(p) \/ EnsureSingle(p)
            \/ ReadFails(p) \/ ChangeRefused(p)
  BY <1>3, ReadsKnow
<1>4. CASE CreateRecord(p) \/ UpdateRecord(p) \/ DeleteRecordByID(p)
  BY <1>4, ChangesKnow
<1>5. CASE ChangeFails(p)
  BY <1>5, ChangeFailsKnows
<1>6. CASE StoreResult(p)
  <2>1. pc'[p] = "idle" /\ Forget(p)
    BY <1>6, GotoFacts DEF StoreResult
  <2> QED
    BY <2>1, ForgetKnows
<1>7. CASE Restart(p)
  <2>1. pc'[p] \in {"idle", "validate"} /\ Forget(p)
    BY <1>7, GotoFacts DEF Restart
  <2> QED
    BY <2>1, ForgetKnows
<1>8. CASE \E n \in Rooms : Works(p, n)
  BY <1>8, AskKnows DEF Works, EnsureARecord, DeleteRecord
<1> QED
  BY <1>1, <1>2, <1>3, <1>4, <1>5, <1>6, <1>7, <1>8 DEF Process, Starts, Answers

\* Another process leaves p's place and call alone.
LEMMA OthersLeaveTheCall ==
    ASSUME TypeOK, NEW p \in Processes, NEW q \in Processes \ {p}, Process(q)
    PROVE  pc'[p] = pc[p] /\ call'[p] = call[p]
<1>1. ASSUME NEW n \in Rooms, Works(q, n)
      PROVE  pc'[p] = pc[p] /\ call'[p] = call[p]
  <2>1. call \in [Processes -> Call]
    BY DEF TypeOK
  <2> QED
    BY <1>1, <2>1, GotoFacts DEF Works, EnsureARecord, DeleteRecord, Ask, Begin, Refused
<1>2. CASE Starts(q)
  BY <1>2, GotoFacts DEF Starts, TryNextCandidate, FindZone
<1>3. CASE GetRecord(q)
  BY <1>3, GotoFacts, FailsFacts DEF GetRecord
<1>4. ASSUME EnsureFromExact(q) \/ DeleteFromExact(q)
      PROVE  pc'[p] = pc[p] /\ call'[p] = call[p]
  BY <1>4, GotoFacts, FailsFacts, ReturnFacts, ProceedFacts
     DEF EnsureFromExact, DeleteFromExact
<1>5. CASE ListRecordsByName(q) \/ EnsureSingle(q)
  BY <1>4, <1>5, FailsFacts DEF ListRecordsByName, EnsureSingle
<1>6. CASE CreateRecord(q) \/ UpdateRecord(q)
  BY <1>6, ReturnFacts DEF CreateRecord, UpdateRecord
<1>7. CASE DeleteRecordByID(q) \/ ChangeRefused(q) \/ ReadFails(q) \/ ChangeFails(q)
  BY <1>7, FailsFacts DEF DeleteRecordByID, ChangeRefused, ReadFails, ChangeFails
<1>8. CASE StoreResult(q) \/ Restart(q)
  <2>1. call \in [Processes -> Call]
    BY DEF TypeOK
  <2> QED
    BY <1>8, <2>1, GotoFacts DEF StoreResult, Restart, Forget
<1> QED
  BY <1>1, <1>2, <1>3, <1>5, <1>6, <1>7, <1>8 DEF Process, Answers

LEMMA OthersStep ==
    ASSUME TypeOK, NEW p \in Processes, Knows(p), NEW q \in Processes \ {p},
           Process(q)
    PROVE  Knows(p)'
<1>1. pc'[p] = pc[p] /\ call'[p] = call[p]
  BY OthersLeaveTheCall
<1>2. CASE UNCHANGED zoneVars /\ quiet'[p] = quiet[p] /\ bore'[p] = bore[p]
  BY <1>1, <1>2, IdleKeeps
<1>3. CASE \E r \in Request : TakesEffect(r, q)
  BY <1>1, <1>3, SetRecordsKeeps DEF TakesEffect
<1>4. CASE Starts(q) \/ GetRecord(q) \/ ListRecordsByName(q) \/ EnsureSingle(q)
            \/ ReadFails(q) \/ ChangeRefused(q)
  BY <1>2, <1>4 DEF Starts, TryNextCandidate, FindZone, GetRecord, ListRecordsByName,
     EnsureSingle, ReadFails, ChangeRefused, historyVars
<1>5. CASE CreateRecord(q) \/ UpdateRecord(q) \/ DeleteRecordByID(q)
  BY <1>3, <1>5, RequestType DEF CreateRecord, UpdateRecord, DeleteRecordByID, Changes
<1>6. CASE ChangeFails(q)
  BY <1>2, <1>3, <1>6, RequestType DEF ChangeFails, historyVars
<1>7. CASE StoreResult(q) \/ Restart(q)
  BY <1>2, <1>7 DEF StoreResult, Restart, Forget, TypeOK
<1>8. CASE \E n \in Rooms : Works(q, n)
  BY <1>2, <1>8 DEF Works, EnsureARecord, DeleteRecord, Ask, Begin, Refused, TypeOK
<1> QED
  BY <1>4, <1>5, <1>6, <1>7, <1>8 DEF Process, Answers

\* Late requests, people and the admin.
LEMMA OutsideStep ==
    ASSUME TypeOK, NEW p \in Processes, Knows(p),
           (\E q \in late : LateEffect(q)) \/ Teardowns \/ Edits
    PROVE  Knows(p)'
<1>1. pc'[p] = pc[p] /\ call'[p] = call[p]
  BY DEF LateEffect, Teardowns, Condemn, TeardownRepeats, Edits, RecordAdded,
         RecordRemoved, RecordEdited, ZoneReplaced, managerVars
<1>2. ASSUME NEW R, SetRecords(R, NoID), UNCHANGED zone
      PROVE  Knows(p)'
  <2>1. bore[p] \subseteq bore'[p]
    BY <1>2 DEF SetRecords
  <2>2. InCall(p) => ExactIDs(records', call[p].room) \subseteq bore'[p]
    BY <1>2 DEF SetRecords
  <2>3. p # NoID
    BY ProcessesAssumption
  <2>4. InCall(p) /\ quiet'[p] => quiet[p] /\ records' = records
    BY <1>2, <2>3 DEF SetRecords
  <2> QED
    BY <1>1, <1>2, <2>1, <2>2, <2>4, Kept
<1>3. CASE ZoneReplaced
  <2>1. ExactIDs({}, call[p].room) = {}
    BY DEF ExactIDs
  <2>2. bore' = bore /\ records' = {} /\ (quiet'[p] => ~InCall(p))
    BY <1>3 DEF ZoneReplaced
  <2>3. ExactIDs(records', call[p].room) \subseteq bore'[p]
    BY <2>1, <2>2
  <2> QED
    BY <1>1, <2>2, <2>3, Kept
<1>4. CASE Teardowns
  BY <1>1, <1>4, IdleKeeps DEF Teardowns, Condemn, TeardownRepeats, zoneVars,
     historyVars
<1>5. CASE \E q \in late : LateEffect(q)
  BY <1>2, <1>5 DEF LateEffect
<1>6. CASE \/ \E n \in Names : RecordAdded(n)
           \/ \E r \in records : RecordRemoved(r) \/ RecordEdited(r)
  BY <1>2, <1>6 DEF RecordAdded, RecordRemoved, RecordEdited
<1> QED
  BY <1>3, <1>4, <1>5, <1>6 DEF Edits

-----------------------------------------------------------------------------
(***************************************************************************)
(* Every step keeps the types.                                             *)
(***************************************************************************)

LEMMA ForgetType ==
    ASSUME TypeOK, NEW p \in Processes, Forget(p)
    PROVE  /\ call' \in [Processes -> Call]
           /\ quiet' \in [Processes -> BOOLEAN]
           /\ bore' \in [Processes -> SUBSET Nat]
<1>1. call[p].room \in Rooms
  BY DEF TypeOK, Call
<1>2. [op |-> "none", room |-> call[p].room, zone |-> NoID, id |-> NoID,
       result |-> "none"] \in Call
  BY <1>1 DEF Call, NoID, Results
<1> QED
  BY <1>2 DEF Forget, TypeOK

LEMMA AskType ==
    ASSUME TypeOK, NEW p \in Processes, NEW n \in Rooms,
           NEW op \in {"ensure", "delete"}, Ask(p, n, op)
    PROVE  TypeOK'
<1>1. /\ [op |-> op, room |-> n, zone |-> cachedZone[p], id |-> stored[n],
          result |-> "none"] \in Call
      /\ [op |-> op, room |-> n, zone |-> NoID, id |-> NoID,
          result |-> "error"] \in Call
  BY DEF Call, TypeOK, Results, NoID
<1>2. ExactIDs(records, n) \in SUBSET Nat
  BY DEF ExactIDs, TypeOK, Record
<1>3. call' \in [Processes -> Call]
  BY <1>1 DEF Ask, Begin, Refused, TypeOK
<1>4. /\ quiet' = [quiet EXCEPT ![p] = TRUE]
      /\ bore' = [bore EXCEPT ![p] = ExactIDs(records, n)]
      /\ quiet \in [Processes -> BOOLEAN] /\ bore \in [Processes -> SUBSET Nat]
  BY DEF Ask, Begin, Refused, TypeOK
<1>5. quiet' \in [Processes -> BOOLEAN] /\ bore' \in [Processes -> SUBSET Nat]
  BY <1>2, <1>4
<1>6. pc' \in [Processes -> {"validate", "idle", "done"} \cup Reads \cup Changes]
  BY DEF Ask, Begin, Refused, TypeOK, Goto, Reads
<1> QED
  BY <1>3, <1>5, <1>6 DEF Ask, Begin, Refused, TypeOK, zoneVars, callerVars

LEMMA ReadsType ==
    ASSUME TypeOK, NEW p \in Processes,
           \/ GetRecord(p) \/ ListRecordsByName(p) \/ EnsureSingle(p)
           \/ ReadFails(p) \/ ChangeRefused(p)
    PROVE  TypeOK'
<1> DEFINE Types == /\ pc' \in [Processes -> {"validate", "idle", "done"}
                                                \cup Reads \cup Changes]
                    /\ call' \in [Processes -> Call]
<1>1. ASSUME EnsureFromExact(p) \/ DeleteFromExact(p)
      PROVE  Types
  <2>1. \A r \in Named(call[p].room) : r.id \in Nat
    BY DEF Named, TypeOK, Record
  <2> QED
    BY <1>1, <2>1, ControlType
       DEF EnsureFromExact, DeleteFromExact, Results, Working, Changes
<1>2. ASSUME NEW result \in Results, Fails(p, result)
      PROVE  Types
  <2>1. [call[p] EXCEPT !.result = result] \in Call
    BY DEF TypeOK, Call
  <2> QED
    BY <1>2, <2>1 DEF Fails, Goto, TypeOK
<1>3. \A where \in Working : Goto(p, where) /\ UNCHANGED call => Types
  BY DEF Goto, TypeOK, Working
<1>4. /\ {"error", "conflict"} \subseteq Results
      /\ {"list", "single", "delete"} \subseteq Working
  BY DEF Results, Working, Reads, Changes
<1>5. Types
  <2>1. GetRecord(p) => Types
    BY <1>2, <1>3, <1>4 DEF GetRecord
  <2>2. ListRecordsByName(p) \/ EnsureSingle(p) => Types
    BY <1>1, <1>2, <1>4 DEF ListRecordsByName, EnsureSingle
  <2>3. ReadFails(p) \/ ChangeRefused(p) => Types
    BY <1>2, <1>4 DEF ReadFails, ChangeRefused
  <2> QED
    BY <2>1, <2>2, <2>3
<1>6. faults' \in 0..MaxFaults
  BY MaxFaultsAssumption DEF GetRecord, ListRecordsByName, EnsureSingle, ReadFails,
     ChangeRefused, Fault, TypeOK
<1>7. UNCHANGED <<zoneVars, callerVars, manager, cachedZone, candidate, late,
                  historyVars>>
  BY DEF GetRecord, ListRecordsByName, EnsureSingle, ReadFails, ChangeRefused
<1> QED
  BY <1>5, <1>6, <1>7 DEF TypeOK, zoneVars, callerVars, historyVars

LEMMA ChangesType ==
    ASSUME TypeOK, NEW p \in Processes,
           \/ CreateRecord(p) \/ UpdateRecord(p) \/ DeleteRecordByID(p)
           \/ ChangeFails(p)
    PROVE  TypeOK'
<1> DEFINE q == RequestOf(p)
<1>1. q \in Request
  BY RequestType DEF CreateRecord, UpdateRecord, DeleteRecordByID, ChangeFails, Changes
<1>2. \/ TakesEffect(q, p) /\ UNCHANGED late
      \/ late' = late \cup {q} /\ UNCHANGED <<zoneVars, historyVars>>
  BY DEF CreateRecord, UpdateRecord, DeleteRecordByID, ChangeFails
<1>3. /\ records' \in SUBSET Record /\ lastID' \in Nat /\ zone' \in Nat \ {NoID}
      /\ quiet' \in [Processes -> BOOLEAN] /\ bore' \in [Processes -> SUBSET Nat]
      /\ late' \in SUBSET Request
  BY <1>1, <1>2, TakesEffectType DEF TypeOK, zoneVars, historyVars
<1>4. lastID + 1 \in Nat /\ call[p].id \in Nat
  BY DEF TypeOK, Call
<1>5. /\ pc' \in [Processes -> {"validate", "idle", "done"} \cup Reads \cup Changes]
      /\ call' \in [Processes -> Call]
  BY <1>4, ControlType
    DEF CreateRecord, UpdateRecord, DeleteRecordByID, ChangeFails, Results
<1>6. faults' \in 0..MaxFaults
  BY MaxFaultsAssumption DEF CreateRecord, UpdateRecord, DeleteRecordByID, ChangeFails,
     Fault, TypeOK
<1>7. UNCHANGED <<callerVars, manager, cachedZone, candidate>>
  BY DEF CreateRecord, UpdateRecord, DeleteRecordByID, ChangeFails
<1> QED
  BY <1>3, <1>5, <1>6, <1>7 DEF TypeOK, callerVars

LEMMA StartsType ==
    ASSUME TypeOK, NEW p \in Processes,
           Starts(p) \/ StoreResult(p) \/ Restart(p)
    PROVE  TypeOK'
<1>1. CASE TryNextCandidate(p)
  <2>1. candidate' \in [Processes -> 1..ZoneDepth]
    BY <1>1, DepthAssumption DEF TryNextCandidate, TypeOK
  <2> QED
    BY <1>1, <2>1 DEF TryNextCandidate, TypeOK, zoneVars, callerVars, historyVars
<1>2. CASE FindZone(p)
  <2>1. cachedZone' \in [Processes -> Nat]
    BY <1>2 DEF FindZone, TypeOK
  <2>2. pc' \in [Processes -> {"validate", "idle", "done"} \cup Reads \cup Changes]
    BY <1>2 DEF FindZone, TypeOK, Goto
  <2> QED
    BY <1>2, <2>1, <2>2 DEF FindZone, TypeOK, zoneVars, callerVars, historyVars
<1>3. CASE StoreResult(p)
  <2>1. pc' \in [Processes -> {"validate", "idle", "done"} \cup Reads \cup Changes]
    BY <1>3 DEF StoreResult, TypeOK, Goto
  <2>2. call[p].room \in Rooms /\ call[p].id \in Nat
    BY DEF TypeOK, Call
  <2>3. /\ stored' \in [Rooms -> Nat]
        /\ wanted' \in [Rooms -> {"present", "gone", "removed"}]
    BY <1>3, <2>2 DEF StoreResult, TypeOK, NoID
  <2>4. faults' \in 0..MaxFaults
    BY <1>3, MaxFaultsAssumption DEF StoreResult, Fault, TypeOK
  <2>5. /\ call' \in [Processes -> Call]
        /\ quiet' \in [Processes -> BOOLEAN]
        /\ bore' \in [Processes -> SUBSET Nat]
    BY <1>3, ForgetType DEF StoreResult
  <2> QED
    BY <1>3, <2>1, <2>3, <2>4, <2>5 DEF StoreResult, TypeOK, zoneVars
<1>4. CASE Restart(p)
  <2>1. pc' \in [Processes -> {"validate", "idle", "done"} \cup Reads \cup Changes]
    BY <1>4 DEF Restart, TypeOK, Goto
  <2>2. /\ manager' \in [Processes -> {"live", "disabled", "moved"}]
        /\ cachedZone' \in [Processes -> Nat]
    BY <1>4 DEF Restart, TypeOK, NoID
  <2>3. candidate' \in [Processes -> 1..ZoneDepth]
    BY <1>4, DepthAssumption DEF Restart, TypeOK
  <2>4. faults' \in 0..MaxFaults
    BY <1>4, MaxFaultsAssumption DEF Restart, Fault, TypeOK
  <2>5. /\ call' \in [Processes -> Call]
        /\ quiet' \in [Processes -> BOOLEAN]
        /\ bore' \in [Processes -> SUBSET Nat]
    BY <1>4, ForgetType DEF Restart
  <2> QED
    BY <1>4, <2>1, <2>2, <2>3, <2>4, <2>5 DEF Restart, TypeOK, zoneVars, callerVars
<1> QED
  BY <1>1, <1>2, <1>3, <1>4 DEF Starts

LEMMA OutsideType ==
    ASSUME TypeOK,
           (\E q \in late : LateEffect(q)) \/ Teardowns \/ Edits
    PROVE  TypeOK'
<1>1. CASE \E q \in late : LateEffect(q)
  <2> PICK q \in late : LateEffect(q)
    BY <1>1
  <2>1. q \in Request
    BY DEF TypeOK
  <2>2. (IF Accepted(q) THEN After(q) ELSE records) \in SUBSET Record
    BY <2>1, AfterType DEF TypeOK
  <2>3. /\ records' \in SUBSET Record
        /\ quiet' \in [Processes -> BOOLEAN]
        /\ bore' \in [Processes -> SUBSET Nat]
    BY <2>2, SetRecordsType DEF LateEffect
  <2>4. lastID' \in Nat /\ late' \in SUBSET Request
    BY DEF LateEffect, TypeOK
  <2> QED
    BY <2>3, <2>4 DEF LateEffect, TypeOK, callerVars, managerVars
<1>2. CASE Teardowns
  <2>1. PICK n \in Rooms : Condemn(n) \/ TeardownRepeats(n)
    BY <1>2 DEF Teardowns
  <2>2. wanted' \in [Rooms -> {"present", "gone", "removed"}]
    BY <2>1 DEF Condemn, TeardownRepeats, TypeOK
  <2>3. faults' \in 0..MaxFaults
    BY <2>1, MaxFaultsAssumption DEF Condemn, TeardownRepeats, Fault, TypeOK
  <2> QED
    BY <2>1, <2>2, <2>3
    DEF Condemn, TeardownRepeats, TypeOK, zoneVars, managerVars, historyVars
<1>3. ASSUME NEW R \in SUBSET Record, SetRecords(R, NoID), lastID' \in Nat, Fault,
             UNCHANGED <<zone, callerVars, managerVars, late>>
      PROVE  TypeOK'
  <2>1. /\ records' \in SUBSET Record
        /\ quiet' \in [Processes -> BOOLEAN]
        /\ bore' \in [Processes -> SUBSET Nat]
    BY <1>3, SetRecordsType
  <2>2. faults' \in 0..MaxFaults
    BY <1>3, MaxFaultsAssumption DEF Fault, TypeOK
  <2> QED
    BY <1>3, <2>1, <2>2 DEF TypeOK, callerVars, managerVars
<1>4. ASSUME NEW n \in Names, RecordAdded(n)
      PROVE  TypeOK'
  <2>1. lastID + 1 \in Nat
    BY DEF TypeOK
  <2>2. \A kind \in {"A", "CNAME"}, content \in Contents, mode \in Modes :
            [id |-> lastID + 1, name |-> n, kind |-> kind, content |-> content,
             mode |-> mode] \in Record
    BY <2>1 DEF Record
  <2>3. \A r \in Record : records \cup {r} \in SUBSET Record
    BY DEF TypeOK
  <2> QED
    BY <1>3, <1>4, <2>1, <2>2, <2>3 DEF RecordAdded
<1>5. ASSUME NEW r \in records, RecordRemoved(r)
      PROVE  TypeOK'
  <2>1. records \ {r} \in SUBSET Record /\ lastID \in Nat
    BY DEF TypeOK
  <2> QED
    BY <1>3, <1>5, <2>1 DEF RecordRemoved
<1>6. ASSUME NEW r \in records, RecordEdited(r)
      PROVE  TypeOK'
  <2>1. r \in Record
    BY DEF TypeOK
  <2>2. /\ \A n \in Names : [r EXCEPT !.name = n] \in Record
        /\ \A x \in Contents : [r EXCEPT !.content = x] \in Record
        /\ \A m \in Modes : [r EXCEPT !.mode = m] \in Record
    BY <2>1 DEF Record
  <2>3. \A x \in Record : (records \ {r}) \cup {x} \in SUBSET Record
    BY DEF TypeOK
  <2>4. PICK new \in {[r EXCEPT !.name = n] : n \in Names}
                        \cup {[r EXCEPT !.content = x] : x \in Contents}
                        \cup {[r EXCEPT !.mode = m] : m \in Modes} :
               SetRecords((records \ {r}) \cup {new}, NoID)
    BY <1>6 DEF RecordEdited
  <2>5. (records \ {r}) \cup {new} \in SUBSET Record /\ lastID \in Nat
    BY <2>2, <2>3 DEF TypeOK
  <2> QED
    BY <1>3, <1>6, <2>4, <2>5 DEF RecordEdited
<1>7. CASE ZoneReplaced
  <2>1. zone' \in Nat \ {NoID} /\ records' \in SUBSET Record
    BY <1>7 DEF ZoneReplaced, TypeOK, NoID
  <2>2. faults' \in 0..MaxFaults
    BY <1>7, MaxFaultsAssumption DEF ZoneReplaced, Fault, TypeOK
  <2>3. quiet' \in [Processes -> BOOLEAN]
    BY <1>7 DEF ZoneReplaced, InCall
  <2> QED
    BY <1>7, <2>1, <2>2, <2>3 DEF ZoneReplaced, TypeOK, callerVars, managerVars
<1> QED
  BY <1>1, <1>2, <1>4, <1>5, <1>6, <1>7 DEF Edits

-----------------------------------------------------------------------------
(***************************************************************************)
(* The theorems.                                                           *)
(***************************************************************************)

LEMMA InvInit == Init => Inv
<1> SUFFICES ASSUME Init PROVE Inv
  OBVIOUS
<1>1. ASSUME NEW n \in Rooms
      PROVE  [op |-> "none", room |-> n, zone |-> NoID, id |-> NoID,
              result |-> "none"] \in Call
  BY DEF Call, NoID, Results
<1>2. call \in [Processes -> Call]
  BY <1>1 DEF Init
<1>3. TypeOK
  BY <1>2, DepthAssumption, MaxFaultsAssumption DEF Init, TypeOK, NoID
<1>4. \A p \in Processes : pc[p] = "validate" /\ call[p].op = "none"
  BY DEF Init
<1> QED
  BY <1>3, <1>4 DEF Inv, Knows, InCall, Working, Reads, Changes, Succeeded

LEMMA InvNext == Inv /\ [Next]_vars => Inv'
<1> SUFFICES ASSUME Inv, [Next]_vars PROVE Inv'
  OBVIOUS
<1>1. TypeOK /\ \A p \in Processes : Knows(p)
  BY DEF Inv
<1>2. CASE UNCHANGED vars
  <2>1. TypeOK'
    BY <1>1, <1>2 DEF TypeOK, vars, zoneVars, callerVars, managerVars, historyVars
  <2>2. \A p \in Processes : Knows(p)'
    BY <1>1, <1>2, IdleKeeps DEF vars, managerVars, historyVars
  <2> QED
    BY <2>1, <2>2 DEF Inv
<1>3. ASSUME NEW p \in Processes, Process(p)
      PROVE  Inv'
  <2>1. TypeOK'
    BY <1>1, <1>3, AskType, ReadsType, ChangesType, StartsType
       DEF Process, Answers, Works, EnsureARecord, DeleteRecord
  <2>2. \A q \in Processes : Knows(q)'
    BY <1>1, <1>3, OwnStep, OthersStep
  <2> QED
    BY <2>1, <2>2 DEF Inv
<1>4. CASE (\E q \in late : LateEffect(q)) \/ Teardowns \/ Edits
  BY <1>1, <1>4, OutsideType, OutsideStep DEF Inv
<1> QED
  BY <1>2, <1>3, <1>4 DEF Next

\* The type invariant, for any numbers of rooms, processes and faults.
THEOREM DnsTypeCorrect == Spec => []TypeOK
<1>1. Inv => TypeOK
  BY DEF Inv
<1> QED
  BY <1>1, InvInit, InvNext, PTL DEF Spec

\* A successful EnsureARecord during which nobody else changed the zone leaves
\* exactly the wanted record under the room's name, in the zone that is there.
THEOREM EnsureIsTrue == Spec => []EnsureTruth
<1>1. Inv => EnsureTruth
  BY DEF Inv, Knows, EnsureTruth
<1> QED
  BY <1>1, InvInit, InvNext, PTL DEF Spec

\* A successful DeleteRecord during which nobody else changed the zone leaves
\* no A record of the room domain, if there was at most one to begin with.
THEOREM DeleteIsTrue == Spec => []DeleteTruth
<1>1. Inv => DeleteTruth
  BY DEF Inv, Knows, DeleteTruth
<1> QED
  BY <1>1, InvInit, InvNext, PTL DEF Spec

\* Whatever happens to the zone and the stored id, a change is sent only for a
\* record seen as the room's A record during the call.
THEOREM ChangesAreOfOwnRecord == Spec => []ChangesOwnRecord
<1>1. Inv => ChangesOwnRecord
  BY DEF Inv, Knows, ChangesOwnRecord
<1> QED
  BY <1>1, InvInit, InvNext, PTL DEF Spec
=============================================================================
