------------------------- MODULE MCTrafficGenerator -------------------------
(***************************************************************************)
(* Two suites, so that a TRex, its configuration and traffic of the first  *)
(* may reach the second, and three trials.                                 *)
(***************************************************************************)
EXTENDS TrafficGenerator
=============================================================================
