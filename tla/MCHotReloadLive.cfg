\* One pipeline of two files, destroyed after stop() only; the threads weakly fair.
SPECIFICATION FairSpec
CONSTANTS
    None = None
    p1 = p1
    p2 = p2
    f1 = f1
    f2 = f2
    Pipe <- OnePipe
    File <- TwoFiles
    Uses <- TwoUses
    Cmd = {c1}
    MaxEdits = 2
    MayVanish <- NoFile
    DestroyAnyTime = FALSE
INVARIANT NoUseAfterDestroy
PROPERTIES StopReturns EventuallyFresh
\* Everything may be loaded, stopped and destroyed, the edits used up.
CHECK_DEADLOCK FALSE
