------------------------ MODULE MCDeviceReservation ------------------------
(* Instances of DeviceReservation for TLC. *)
EXTENDS DeviceReservation, TLC

CONSTANTS j1, j2, j3

TwoJobs   == {j1, j2}
ThreeJobs == {j1, j2, j3}

\* The jobs run the same scripts.
JobSymmetry == Permutations(Jobs)
=============================================================================
