---------------------- MODULE MC_FrameWalkRefinement ----------------------
(***************************************************************************)
(* Model-checking instance of the refinement: three frames, one            *)
(* environment, any link function (cycles included).                       *)
(***************************************************************************)
EXTENDS MC_FrameWalk, FrameWalkRefinement

=============================================================================
