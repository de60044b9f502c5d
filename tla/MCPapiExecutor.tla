--------------------------- MODULE MCPapiExecutor ---------------------------
(* Instances of PapiExecutor for TLC. *)
EXTENDS PapiExecutor, TLC

CONSTANTS create, set, reply, x, y, old, new, d1, d2

MCReplyOf == [n \in {create, set} |-> reply]

\* Two collections that differ in one checksum and one message.
MCKnown ==
  (old :> [n \in Names |-> IF n = set THEN None ELSE x]) @@
  (new :> [n \in Names |-> IF n = create THEN y ELSE x])
=============================================================================
