------------------------- MODULE MCPtouchStatusStream -------------------------
(* Small instances of PtouchStatusStream for TLC. *)
EXTENDS PtouchStatusStream, TLC
=============================================================================
