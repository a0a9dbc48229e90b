-------------------------- MODULE MCCloudflareDns --------------------------
(***************************************************************************)
(* Instances of CloudflareDns for TLC: one room domain beside one other    *)
(* name, so that edits can move a record away and bring a stranger in, and *)
(* a zone that is the second suffix of the base domain.                    *)
(***************************************************************************)
EXTENDS CloudflareDns, TLC

CONSTANTS room, other, elsewhere

MCRooms == {room}
MCOthers == {other}
MCElsewhere == elsewhere
MCSymmetry == Permutations(Processes)
=============================================================================
