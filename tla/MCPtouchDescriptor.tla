-------------------------- MODULE MCPtouchDescriptor --------------------------
(* A small instance of PtouchDescriptor for TLC. *)
EXTENDS PtouchDescriptor, TLC
=============================================================================
