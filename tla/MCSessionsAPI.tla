--------------------------- MODULE MCSessionsAPI ---------------------------
(***************************************************************************)
(* The dashboard's requests about sessions for TLC: creating and joining   *)
(* them (SessionAccess), listing them (SessionListing) and their events    *)
(* (EventPages), and the form that creates them (CreateSessionForm).  A    *)
(* behaviour is about one scenario; what it is not about does not move in  *)
(* it.                                                                     *)
(***************************************************************************)
EXTENDS SessionAccess, SessionListing, EventPages, CreateSessionForm, TLC

CONSTANTS s1, s2

VARIABLE scenario

allVars == <<scenario, vars, listVars, pageVars, formVars>>

-----------------------------------------------------------------------------
(***************************************************************************)
(* Lists.  Every way to filter, order and cut three sessions, and a few of *)
(* them with writes between the queries.                                   *)
(***************************************************************************)
AllInputs ==
    [page : {2}, size : {1, 5}, sort : {"region", "nonsense"},
     direction : {"asc", "desc"},
     statuses : {{}, {"failed"}}, regions : {{1, 2}, {1}}, query : {{1, 2, 3}, {1, 3}}]

FewInputs ==
    [page : {0, 2}, size : {1, 0}, sort : {"updated_at"}, direction : {"desc"},
     statuses : {{}, {"failed"}}, regions : {{}}, query : {{1, 2, 3}}]

ListInputs == AllInputs \cup FewInputs

\* Nothing is written while the list of any table is loaded.
Listed ==
    clock = 1 /\ \A s \in Sessions : table[s].status \in {"provisioning", "failed"}

\* All in one region, and a third session that is over for good.
Overtaken ==
    /\ \A s \in Sessions : table[s].region = 1
    /\ \A s \in {1, 2} : table[s].status # "provisioning"
    /\ table[3].status = "ended" /\ table[3].updated = 0

Unlisted ==
    clock = 0 /\ \A s \in Sessions : table[s] = [status |-> "failed", region |-> 1,
                                                 updated |-> 0]

-----------------------------------------------------------------------------
MCInit ==
    /\ scenario \in {"access", "listed", "overtaken", "events", "selection", "slug"}
    /\ ListInit
    /\ CASE scenario = "listed"    -> Listed
         [] scenario = "overtaken" -> Overtaken
         [] OTHER                  -> Unlisted
    /\ PagesInit
    /\ scenario # "events" => events = 0
    /\ FormInit
    /\ scenario \notin {"selection", "slug"} => env = "production" /\ taken = {}
    /\ scenario = "selection" => taken \subseteq {s1}
    /\ Init
    /\ scenario # "access" => \A r, q \in Requests : slug[r] = slug[q]

\* What is asked for in a scenario.
Asks(inputs) == ListNext /\ (stage' = "count" => input' \in inputs)

\* The form, with one slug, in an environment that may change,
FormOfSelection == FormNext /\ field' \in {s1, Invalid} /\ taken' \subseteq {s1}
\* or with one choice of region and size, in one that does not.
FormOfSlugs ==
    FormNext /\ restarts' = 0 /\ region' \in {"nyc", Nothing} /\ size' \in {"basic", Nothing}

MCNext ==
    /\ \/ scenario = "access" /\ Next /\ UNCHANGED <<listVars, pageVars, formVars>>
       \/ scenario = "listed" /\ Asks(AllInputs) /\ requests' = 1 /\ clock' = 1
          /\ UNCHANGED <<vars, pageVars, formVars>>
       \/ scenario = "overtaken" /\ Asks(FewInputs)
          /\ UNCHANGED <<vars, pageVars, formVars>>
       \/ scenario = "events" /\ PagesNext /\ UNCHANGED <<vars, listVars, formVars>>
       \/ scenario = "selection" /\ FormOfSelection /\ UNCHANGED <<vars, listVars, pageVars>>
       \/ scenario = "slug" /\ FormOfSlugs /\ UNCHANGED <<vars, listVars, pageVars>>
    /\ UNCHANGED scenario

MCSpec == MCInit /\ [][MCNext]_allVars

MCSymmetry == Permutations(Requests) \cup Permutations(Slugs)
=============================================================================
