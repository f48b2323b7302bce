\* The watcher against a destructor: the race the code's comment describes.
SPECIFICATION Spec
CONSTANTS
    None = None
    p1 = p1
    p2 = p2
    f1 = f1
    f2 = f2
    Pipe <- OnePipe
    File <- OneFile
    Uses <- OneUse
    Cmd = {c1}
    MaxEdits = 1
    MayVanish <- NoFile
    DestroyAnyTime = TRUE
INVARIANT NoUseAfterDestroy
\* Everything may be loaded, stopped and destroyed, the edits used up.
CHECK_DEADLOCK FALSE
