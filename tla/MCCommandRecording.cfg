\* Two buffers of either level, recycled through the pool; two sets bound at one index.
SPECIFICATION Spec
CONSTANTS
    Null = Null
    draw = draw
    sim = sim
    c1 = c1
    c2 = c2
    h1 = h1
    h2 = h2
    s1 = s1
    s2 = s2
    Cmd <- TwoCmd
    Handle <- TwoHandle
    Pipeline <- MCPipeline
    Counted = {draw}
    Point <- MCPoint
    Set <- TwoSet
    Index = {0}
    MaxPostponed = 2
    MaxGeneration = 2
SYMMETRY Symmetry
INVARIANTS Inv SkipIsSound UsedExists LastAskedWins
