----------------------------- MODULE MCPfcpXact -----------------------------
(* Instances of PfcpXact for TLC. *)
EXTENDS PfcpXact

CONSTANT x1

OneXid == {x1}
=============================================================================
