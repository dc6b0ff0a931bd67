--------------------------- MODULE MCPtouchPackBits ---------------------------
(* A small instance of PtouchPackBits for TLC. *)
EXTENDS PtouchPackBits, TLC
=============================================================================
