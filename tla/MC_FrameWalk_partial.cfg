\* Consistent call stacks some of whose frames cannot be read: what a walk
\* that meets one has reported.
CONSTANTS
    Frames = {f1, f2, f3}
    Envs = {e1}
    NULL = NULL
    PrevImages <- WellFormedChains
SPECIFICATION Spec
INVARIANT PartialChainReported
