------------------------- MODULE FrameWalkRefinement -------------------------
(***************************************************************************)
(* The frame walker implements its promise: under the mapping below every  *)
(* step of FrameWalk is a step of ChainDump or leaves its state alone.     *)
(* The loop's intermediate state (cur, walked and shown of a running walk, *)
(* frame_num) is hidden: a running walk has decoded and reported nothing   *)
(* yet, an ended one has decoded `walked` and reported what it printed.    *)
(***************************************************************************)
EXTENDS FrameWalk

Abs == INSTANCE ChainDump WITH
    busy    <- pc = "walk",
    decoded <- IF pc = "walk" THEN << >> ELSE walked,
    report  <- IF pc = "walk" THEN << >>
               ELSE IF cmd = EnvDump THEN envShown ELSE shown

\* Every behaviour of the frame commands (their loops, the MemoryError that
\* ends a walk, the final print) is a behaviour of ChainDump: a command
\* shows the whole prev_frame chain, or a prefix of it when it faults.
AbsSpec == Abs!Spec

=============================================================================
