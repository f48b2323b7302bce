\* Two pipelines on one shared file, destroyed at any time.
SPECIFICATION Spec
CONSTANTS
    None = None
    p1 = p1
    p2 = p2
    f1 = f1
    f2 = f2
    Pipe <- TwoPipes
    File <- OneFile
    Uses <- SharedFile
    Cmd = {c1}
    MaxEdits = 2
    MayVanish <- OneFile
    DestroyAnyTime = TRUE
INVARIANTS Inv RecordedAlive
PROPERTY ReloadsInOrder
\* The process may crash on a vanished file, and everything may be destroyed.
CHECK_DEADLOCK FALSE
