---------------------------- MODULE MCDeployment ----------------------------
(***************************************************************************)
(* Processes on one host for TLC: how they migrate the database file       *)
(* (Migrations), and how one hands over to the next (ControlPlane).  A     *)
(* behaviour is about one of the two scenarios; nothing is shared but the  *)
(* processes, and what it is not about does not move in it.                *)
(***************************************************************************)
EXTENDS Migrations, ControlPlane, TLC

VARIABLE scenario

MCInit ==
    /\ scenario \in {"migrate", "hand over"}
    /\ MigrationInit
    /\ Init
    /\ scenario = "migrate" => \A h, g \in Slots : at[h] = at[g]

MCNext ==
    /\ \/ /\ scenario = "migrate" /\ MigrationNext
          /\ UNCHANGED <<mainVars, recVars, conn, slotVars>>
       \/ scenario = "hand over" /\ Next /\ UNCHANGED <<fileVars, processVars>>
    /\ UNCHANGED scenario

MCSpec == MCInit /\ [][MCNext]_<<scenario, migrationVars, vars>>

MCSymmetry == Permutations(Processes) \cup Permutations(Slots)
=============================================================================
