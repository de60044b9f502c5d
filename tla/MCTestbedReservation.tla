------------------------ MODULE MCTestbedReservation ------------------------
(* Instances of TestbedReservation for TLC. *)
EXTENDS TestbedReservation, TLC

CONSTANTS j1, j2, tb1, tb2

\* Two jobs that share two testbeds and try them in opposite order.
MCTopologies == (j1 :> <<tb1, tb2>>) @@ (j2 :> <<tb2, tb1>>)
=============================================================================
