---------------------------- MODULE MCReconciler ----------------------------
(* Small instances of Reconciler for TLC. *)
EXTENDS Reconciler, TLC

MCSymmetry == Permutations(Sessions) \cup Permutations(Droplets)
DropletSymmetry == Permutations(Droplets)
=============================================================================
