-------------------------------- MODULE Host --------------------------------
(***************************************************************************)
(* What Migrations and ControlPlane have in common: the processes of the   *)
(* control plane that run on one host, one after the other or side by      *)
(* side, and the bound on what goes wrong with them in one behaviour.      *)
(***************************************************************************)
EXTENDS Integers

CONSTANTS
    Processes,  \* processes that can run side by side, on the same database file
    None,       \* nobody
    MaxFaults   \* bound on failures, crashes, kills and power failures

ASSUME HostAssumption == None \notin Processes /\ MaxFaults \in Nat

VARIABLE faults

Fault == faults < MaxFaults /\ faults' = faults + 1
=============================================================================
