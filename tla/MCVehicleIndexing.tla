-------------------------- MODULE MCVehicleIndexing --------------------------
(* Instances of VehicleIndexing for TLC.                                   *)
EXTENDS VehicleIndexing, TLC

CONSTANTS vss, jos

(* Instances, vehicles and uids are interchangeable except for their place *)
(* in the list, which is part of the state.                                *)
Symmetry == Permutations(Servers) \cup Permutations(Vids) \cup Permutations(Tokens)

=============================================================================
