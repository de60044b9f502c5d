---------------------------- MODULE MCFramework ----------------------------
(* Instances of Framework for TLC. *)
EXTENDS Framework, TLC

CONSTANTS tg, dut, t1, t2, kept, short

\* A thread for each node; the main thread uses the DUT.
MCNodeOf == (t1 :> tg) @@ (t2 :> dut) @@ (kept :> dut) @@ (short :> dut)
=============================================================================
