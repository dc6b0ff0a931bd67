--------------------------- MODULE MCPtouchTransport ---------------------------
(* Small instances of PtouchTransport for TLC. *)
EXTENDS PtouchTransport, TLC

\* Two tasks, and three catalog entries: the hardware-validated coalesced one,
\* the validated framed one, and an experimental recipe, which is framed and not
\* completion-validated.
CONSTANTS a, b, p710, p1950, recipe

\* The tasks are interchangeable in the runs that check no temporal property.
CallerSymmetry == Permutations(Callers)
=============================================================================
