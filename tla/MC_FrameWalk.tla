--------------------------- MODULE MC_FrameWalk ---------------------------
(***************************************************************************)
(* Model-checking instance of FrameWalk: three frames, one environment.    *)
(***************************************************************************)
EXTENDS FrameWalk

\* The frame reached from f after k prev_frame hops (NULL stays NULL).
Hop(p, f, k) ==
    LET h[i \in 0 .. k] == IF i = 0 THEN f
                           ELSE IF h[i - 1] = NULL THEN NULL
                           ELSE p[h[i - 1]]
    IN h[k]

\* Link functions of a consistent call stack: every chain reaches null.
WellFormedChains ==
    { p \in [Frames -> FrameRef] :
        \A f \in Frames : Hop(p, f, Cardinality(Frames)) = NULL }

\* Any link function, corrupted images with cycles included.
AnyChains == [Frames -> FrameRef]

\* Bounds the search of the runs that may follow a cycle.
WalkConstraint == Len(walked) <= Cardinality(Frames) + 1

=============================================================================
