SPECIFICATION Spec
CONSTANTS
    Threads = {t1, t2, t3}
    Descriptors = {f1, f2, f3}
    NoDescriptor = NoDescriptor
    MaxActive = 2
    Backlog = 1
    MaxChunks = 1
    MaxDrift = 0
    Preempts = TRUE
    LockMayHang = FALSE
    CreateMayFail = FALSE
SYMMETRY Symmetry
INVARIANT RejectedOnlyWhenFull
