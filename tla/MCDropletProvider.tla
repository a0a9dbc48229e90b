------------------------- MODULE MCDropletProvider -------------------------
(* Instances of DropletProvider for TLC. *)
EXTENDS DropletProvider, TLC

MCSymmetry == Permutations(Droplets) \cup Permutations(Callers)
=============================================================================
