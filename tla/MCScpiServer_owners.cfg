SPECIFICATION Spec
CONSTANTS
    Threads = {t1, t2}
    Descriptors = {f1, f2}
    NoDescriptor = NoDescriptor
    MaxActive = 1
    Backlog = 1
    MaxChunks = 1
    MaxDrift = 1
    Preempts = TRUE
    LockMayHang = TRUE
    CreateMayFail = TRUE
SYMMETRY Symmetry
CHECK_DEADLOCK FALSE
INVARIANTS OwnedOnce
