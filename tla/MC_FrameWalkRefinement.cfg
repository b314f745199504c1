\* Any image, corrupted ones included: every step of the frame commands is
\* a step of ChainDump.
CONSTANTS
    Frames = {f1, f2, f3}
    Envs = {e1}
    NULL = NULL
    PrevImages <- AnyChains
SPECIFICATION Spec
CONSTRAINT WalkConstraint
PROPERTY AbsSpec
