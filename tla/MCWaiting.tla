----------------------------- MODULE MCWaiting -----------------------------
(***************************************************************************)
(* Those who wait, for TLC: pages of the dashboard for a session to change *)
(* (DashboardPages), requests and the reconciler for the one connection of *)
(* a process, and a process that was told to stop for both (ControlPlane). *)
(* A behaviour is about one of the two scenarios; what it is not about     *)
(* does not move in it.                                                    *)
(***************************************************************************)
EXTENDS DashboardPages

CONSTANTS Processes, Slots   \* as in ControlPlane

VARIABLES scenario, main, signalled, timedOut, serveFailed, port, dbOpen, rec,
          cancelled, conn, stage, kind, at, cut

runVars == <<main, signalled, timedOut, serveFailed, port, dbOpen, rec, cancelled,
             conn, stage, kind, at, cut>>
pageVars == <<status, page, query, post, condemned>>
allVars == <<scenario, vars, runVars>>

Run == INSTANCE ControlPlane

MCInit ==
    /\ scenario \in {"pages", "process"}
    /\ Init
    /\ scenario = "process" => status = "created"
    /\ Run!Init

OnPages(Step) == scenario = "pages" /\ Step /\ UNCHANGED <<scenario, runVars>>
InProcess(Step) == scenario = "process" /\ Step /\ UNCHANGED <<scenario, pageVars>>

MCNext == OnPages(Next) \/ InProcess(Run!Next)

\* The fairness of DashboardPages and of ControlPlane, each in its scenario.
MCFairness ==
    /\ \A p \in PageNames : /\ WF_allVars(OnPages(Poll(p)))
                            /\ WF_allVars(OnPages(ReadRow(p)))
                            /\ WF_allVars(OnPages(Arrive(p)))
    /\ Run!Fairness

MCSpec == MCInit /\ [][MCNext]_allVars /\ MCFairness

\* A process that was asked to stop ends (see ControlPlane).
StopsOnSignal == Run!StopsOnSignal
\* If the clients of exports read or leave, whoever waits for the connection gets it.
NobodyWaitsForEver == Run!Patience => Run!NobodyWaitsForEver
=============================================================================
