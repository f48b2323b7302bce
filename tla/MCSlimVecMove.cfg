\* As MCUtilities, for one property that fails.
SPECIFICATION UtilitiesSpec

CONSTANTS
    HeapSize = 56
    Request = {0, 1, 7, 8, 9, 20}
    MaxBlocks = 5
    Start = 1
    MaxId = 4
    MaxCounter = 7
    MaxVec = 4
    Destination = {"small", "large", "huge"}
    DataSize <- MCDataSize
    Capacity = 4
    MaxBuffers = 3
    MaxCopies = 4
    MaxPending = 2
    m_max_queries = 3
    k1 = k1
    k2 = k2
    k3 = k3
    Key <- MCKey
    Hash <- MCHash
    Rank <- MCRank
    Value = {zero, one}
    Default = zero
    Zero = zero
    Absent = Absent
    initial_capacity = 1
    MaxStorage = 3
    Vec = {v1, v2}
    Tmp = tmp
    Elem = {one}
    DefaultElem = default
    Dead = Dead
    ItemCap = 2
    Overlap = 2
    HeapBlock = {b1, b2, b3}
    Null = Null
    Garbage = Garbage
    SizeMax = 20
    MaxLen = 3
    Object = {o1, o2}
    BlockSize = 3
    MaxMade = 2
    None = None

VIEW AllButCall

INVARIANTS HeapPointersOwned

\* Nothing follows the destruction of a StencilBuffer; ids and blocks are bounded.
CHECK_DEADLOCK FALSE
