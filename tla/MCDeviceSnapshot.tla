--------------------------- MODULE MCDeviceSnapshot ---------------------------
(* Instances of DeviceSnapshot for TLC.                                     *)
EXTENDS DeviceSnapshot, TLC

CONSTANTS j1, j2, d1, d2

OneRadarEach == (j1 :> {d1}) @@ (j2 :> {d2})
TwoRadars == (j1 :> {d1, d2})

Symmetry == Permutations(Vehicles)

================================================================================
