--------------------------- MODULE MC_FrameTable ---------------------------
(* Model-checking instance of FrameTable: counts up to 2 cells each, so   *)
(* that zero and non-zero params, locals and stacks all occur.            *)
EXTENDS FrameTable, TLC
CONSTANTS MC_NoRead
=============================================================================
