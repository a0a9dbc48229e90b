--------------------------- MODULE DashboardPages ---------------------------
(***************************************************************************)
(* The pages that follow one session: its detail page, which polls until   *)
(* the session is settled and from which it can be destroyed, and the page *)
(* of a join link, which polls until the room is ready or will not be      *)
(* (web/src/control/api/hooks.ts, domain/sessionStatus.ts).                *)
(*                                                                         *)
(* A page keeps the last answer.  The library has at most one request of a *)
(* query in flight and repeats it after the interval that the last answer  *)
(* asks for, and once more whenever the window gets the focus.  An answer  *)
(* carries the status that was read, whatever has happened since.          *)
(***************************************************************************)
EXTENDS Integers

CONSTANTS
    None,           \* no answer yet
    MaxCondemned,   \* bound on force destroys
    MaxFaults       \* bound on requests that fail

ASSUME BoundsAssumption == MaxCondemned \in Nat /\ MaxFaults \in Nat

\* The statuses that a session can have today; later ones are not written yet.
Statuses ==
    {"created", "provisioning", "waiting_for_dns", "tearing_down", "ended", "failed"}

\* Mutant: only a beginning is followed.
PollWhileBeginning == {"created", "provisioning", "waiting_for_dns"}

\* shouldPollSession
ShouldPollSession == Statuses \ {"ended", "failed"}

\* shouldPollJoin
ShouldPollJoin == {"created", "provisioning", "waiting_for_dns"}

\* forceDestroyEligible; the statement that condemns has the same condition.
ForceDestroyEligible == {"provisioning", "waiting_for_dns", "failed"}

VARIABLES
    status,     \* of the session
    page,       \* what each page shows
    query,      \* the request of each page, then the status it brings back
    post,       \* the force destroy of the detail page, then its answer
    condemned, faults

vars == <<status, page, query, post, condemned, faults>>

PageNames == {"detail", "join"}
Polls(p) == page[p] \in (IF p = "detail" THEN ShouldPollSession ELSE ShouldPollJoin)

TypeOK ==
    /\ status \in Statuses
    /\ page \in [PageNames -> Statuses \cup {None}]
    /\ query \in [PageNames -> Statuses \cup {"no", "asked"}]
    /\ post \in Statuses \cup {"no", "sent", "condemned"}
    /\ condemned \in 0..MaxCondemned /\ faults \in 0..MaxFaults

Init ==
    /\ status \in Statuses
    /\ page = [p \in PageNames |-> None]
    /\ query = [p \in PageNames |-> "no"]
    /\ post = "no"
    /\ condemned = 0 /\ faults = 0

Condemn ==
    /\ status \in ForceDestroyEligible /\ condemned < MaxCondemned
    /\ status' = "tearing_down"
    /\ condemned' = condemned + 1

-----------------------------------------------------------------------------
\* The reconciler moves the session on.
Reconcile ==
    /\ \/ status = "created" /\ status' = "provisioning"
       \/ status = "provisioning" /\ status' \in {"waiting_for_dns", "failed"}
       \/ status = "tearing_down" /\ status' \in {"ended", "failed"}
    /\ UNCHANGED <<page, query, post, condemned, faults>>

\* Somebody else force destroys it, from another tab.
CondemnElsewhere ==
    /\ Condemn
    /\ UNCHANGED <<page, query, post, faults>>

Send(p) ==
    /\ query[p] = "no"
    /\ query' = [query EXCEPT ![p] = "asked"]
    /\ UNCHANGED <<status, page, post, condemned, faults>>

\* The page is opened, its interval is over, or the window gets the focus.
Poll(p) == (page[p] = None \/ Polls(p)) /\ Send(p)
Focus(p) == page[p] # None /\ ~Polls(p) /\ Send(p)

\* GetSession or JoinSession reads the row.
ReadRow(p) ==
    /\ query[p] = "asked"
    /\ query' = [query EXCEPT ![p] = status]
    /\ UNCHANGED <<status, page, post, condemned, faults>>

Arrive(p) ==
    /\ query[p] \in Statuses
    /\ page' = [page EXCEPT ![p] = query[p]]
    /\ query' = [query EXCEPT ![p] = "no"]
    /\ UNCHANGED <<status, post, condemned, faults>>

\* The request fails; the last answer stays, and with it the interval.
QueryFails(p) ==
    /\ query[p] # "no" /\ faults < MaxFaults
    /\ faults' = faults + 1
    /\ query' = [query EXCEPT ![p] = "no"]
    /\ UNCHANGED <<status, page, post, condemned>>

-----------------------------------------------------------------------------
\* The button of the detail page.
ForceDestroy ==
    /\ page["detail"] \in ForceDestroyEligible /\ post = "no"
    /\ post' = "sent"
    /\ UNCHANGED <<status, page, query, condemned, faults>>

\* MarkForceDestroyStarted, or a conflict that changes nothing.
ApiForceDestroySession ==
    /\ post = "sent"
    /\ \/ Condemn /\ post' = "condemned"
       \/ /\ status \notin ForceDestroyEligible
          /\ post' = "no"
          /\ UNCHANGED <<status, condemned>>
    /\ UNCHANGED <<page, query, faults>>

\* The handler reads the session again for its answer,
ReadCondemned ==
    /\ post = "condemned"
    /\ post' = status
    /\ UNCHANGED <<status, page, query, condemned, faults>>

\* which the page shows at once; a request in flight is not cancelled.
SetQueryData ==
    /\ post \in Statuses
    /\ page' = [page EXCEPT !["detail"] = post]
    /\ post' = "no"
    /\ UNCHANGED <<status, query, condemned, faults>>

\* The page loses sight of its request: a reply that did not come.
PostFails ==
    /\ post # "no" /\ faults < MaxFaults
    /\ faults' = faults + 1
    /\ post' = "no"
    /\ UNCHANGED <<status, page, query, condemned>>

Next ==
    \/ Reconcile \/ CondemnElsewhere
    \/ \E p \in PageNames :
          Poll(p) \/ Focus(p) \/ ReadRow(p) \/ Arrive(p) \/ QueryFails(p)
    \/ ForceDestroy \/ ApiForceDestroySession \/ ReadCondemned \/ SetQueryData \/ PostFails

Spec == Init /\ [][Next]_vars

\* Intervals end and requests are answered; nobody has to look at the window.
Fairness ==
    \A p \in PageNames : WF_vars(Poll(p)) /\ WF_vars(ReadRow(p)) /\ WF_vars(Arrive(p))

FairSpec == Spec /\ Fairness

-----------------------------------------------------------------------------

\* A detail page that shows a session in progress does not go on showing it
\* when the session is over, whatever answers were late or lost.
DetailSettles ==
    status = "ended" /\ page["detail"] \in ShouldPollSession
        ~> page["detail"] \in {"ended", "failed"}

\* JoinPage.tsx, "We'll keep checking until the session is ready": a guest who
\* waits is not left waiting for a room that is being destroyed.
JoinSettles ==
    status = "ended" /\ page["join"] \in {"created", "provisioning", "waiting_for_dns"}
        ~> page["join"] \in {"tearing_down", "ended", "failed"}

\* Neither page goes on showing what is over.
PagesSettle == DetailSettles /\ JoinSettles
=============================================================================
