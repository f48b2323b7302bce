\* Pools of three units, up to nine held at once: four pools and more in turn.
\* Two threads of two calls, and two contexts one after the other; three blocks.
\* Two set numbers, two shaders; three files, two providers, two loads.
SPECIFICATION DeviceSpec
CONSTANTS
    None = None
    Null = Null
    small = small
    large = large
    Layout <- MCLayout
    Cost <- MCCost
    MaxCost = 2
    PoolSize = 3
    MaxDemand = 9
    Thread = {t1, t2}
    MaxDevices = 2
    MaxCalls = 2
    BlockSize = 2
    MaxBytes = 5
    f1 = f1
    f2 = f2
    f3 = f3
    SetLimit = 2
    Shader <- MCShader
    Subpass <- MCSubpass
    Cull = {"none"}
    File <- MCFile
    Described <- MCDescribed
    SetLayouts <- MCSetLayouts
    Compiled <- MCCompiled
    Given = {g}
    Topology = {"triangles", "lines"}
    Stage = {"compute"}
    MaxShaders = 2
    MaxPipelines = 1
    MaxMade = 2
    MaxProviders = 2
    MaxLoads = 2
INVARIANTS IInv PoolsFollowDemand DestroysEach ContextInv BlocksBound PipelinesInv LoadedAsDescribed
PROPERTIES AllocateReturns CallsReturn
\* Nothing follows the destructor of the pool, or the end of the program; the
\* pipelines that are made are bounded.
CHECK_DEADLOCK FALSE
