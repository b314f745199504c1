\* Corrupted images whose prev_frame links may form a cycle: the loops of
\* the frame commands have no iteration bound.
CONSTANTS
    Frames = {f1, f2, f3}
    Envs = {e1}
    NULL = NULL
    PrevImages <- AnyChains
SPECIFICATION Spec
CONSTRAINT WalkConstraint
INVARIANT WalkBounded
