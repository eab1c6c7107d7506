----------------------------- MODULE MCOverlaps -----------------------------
(***************************************************************************)
(* The instance of Overlaps, and so of Procurement with its history.       *)
(***************************************************************************)
EXTENDS MCProcurement, Overlaps

ASSUME SoundAssumption == SoundOnFile

=============================================================================
