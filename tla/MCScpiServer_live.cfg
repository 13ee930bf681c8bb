SPECIFICATION FairSpec
CONSTANTS
    Threads = {t1, t2}
    Descriptors = {f1, f2}
    NoDescriptor = NoDescriptor
    MaxActive = 1
    Backlog = 1
    MaxChunks = 1
    MaxDrift = 0
    Preempts = FALSE
    LockMayHang = TRUE
    CreateMayFail = TRUE
INVARIANTS RejectedOnlyWhenFull QuietMeansIdle
PROPERTIES DescriptorsComeBack ServerGoesQuiet
