\* Consistent call stacks: completed walks report the whole chain, and
\* every walk ends.
CONSTANTS
    Frames = {f1, f2, f3}
    Envs = {e1}
    NULL = NULL
    PrevImages <- WellFormedChains
SPECIFICATION FairSpec
INVARIANT TypeOK
INVARIANT WalkFollowsChain
INVARIANT CompletedWalkIsWholeChain
PROPERTY PrintsInChainOrder
PROPERTY CommandsTerminate
