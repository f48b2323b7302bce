\* The reference count, and the deletion of what was released: two threads, two
\* free handles and a third one or a third resource, two members.
SPECIFICATION MCSpec
CONSTANTS
    Null = Null
    leaf = leaf
    outer = outer
    inner = inner
    mo = mo
    mi = mi
    a = a
    b = b
    c = c
    Thread = {t1, t2}
    Res <- MCRes
    Slot <- MCSlot
    Home <- MCHome
INVARIANTS IInv NoDangling NoOrphans
PROPERTIES ReleasedIsDeleted
\* Every resource is constructed at most once, so a run ends.
CHECK_DEADLOCK FALSE
