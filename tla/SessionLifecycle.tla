-------------------------- MODULE SessionLifecycle --------------------------
(***************************************************************************)
(* What the control plane promises for a session, without reconciler,      *)
(* batches, calls or retries: the statuses a session goes through, and     *)
(* when it may have a server and a name in the DNS.  Reconciler implements *)
(* it (property Lifecycle of MCReconciler).                                *)
(***************************************************************************)
EXTENDS FiniteSets

CONSTANT Sessions

VARIABLES
    phase,    \* the status of each session
    served,   \* the sessions that have a running server
    named     \* the sessions whose room domain has a record

lifecycleVars == <<phase, served, named>>

Begin == /\ phase = [s \in Sessions |-> "absent"]
         /\ served = {}
         /\ named = {}

Move(s, from, to) ==
    /\ phase[s] \in from
    /\ phase' = [phase EXCEPT ![s] = to]
    /\ UNCHANGED <<served, named>>

Open(s)    == Move(s, {"absent"}, "created")
Start(s)   == Move(s, {"created"}, "provisioning")
Place(s)   == Move(s, {"provisioning"}, "waiting_for_dns")
Fail(s)    == Move(s, {"provisioning", "tearing_down"}, "failed")
Condemn(s) == Move(s, {"provisioning", "waiting_for_dns", "failed"},
                   "tearing_down")

\* Ended is final, and only what has been cleaned up ends.
End(s) == /\ s \notin served \cup named
          /\ Move(s, {"tearing_down"}, "ended")

\* A server appears for a session being provisioned, or late, for one that
\* was condemned meanwhile; never once the session has failed or ended.
Boot(s) == /\ phase[s] \in {"provisioning", "tearing_down"}
           /\ served' = served \cup {s}
           /\ UNCHANGED <<phase, named>>

Publish(s) == /\ phase[s] \in {"waiting_for_dns", "tearing_down"}
              /\ named' = named \cup {s}
              /\ UNCHANGED <<phase, served>>

LoseServer(s) == /\ served' = served \ {s}
                 /\ UNCHANGED <<phase, named>>

\* A failed session has no name left: it failed before it got one, or after
\* its record was deleted.
LoseName(s) == /\ phase[s] \in {"waiting_for_dns", "tearing_down"}
               /\ named' = named \ {s}
               /\ UNCHANGED <<phase, served>>

Live(s) == \/ Open(s) \/ Start(s) \/ Place(s) \/ Fail(s) \/ Condemn(s) \/ End(s)
           \/ Boot(s) \/ Publish(s) \/ LoseServer(s) \/ LoseName(s)

LifecycleSpec == Begin /\ [][\E s \in Sessions : Live(s)]_lifecycleVars
=============================================================================
