------------------------- MODULE MCTrafficProfiles -------------------------
(* The traffic profiles with a frame size below the longest header, the    *)
(* largest one, and the two mixes.                                          *)
EXTENDS TrafficProfiles

=============================================================================
