---------------------------- MODULE MCMLRsearch ----------------------------
(* Instances of MLRsearch for TLC. *)
EXTENDS MLRsearch, TLC

CONSTANT FinalWidth    \* final_relative_width

\* The final goal, doubled for each earlier phase.
MCWidthGoal == [k \in 0 .. Phases |-> FinalWidth * 2 ^ (Phases - k)]
=============================================================================
