\* Two interpreters share a channel with buffers of three bytes.
CONSTANTS
    i1 = i1  i2 = i2
    Interp = {i1, i2}
    BufSize = 3
    MaxBytes = 8
SPECIFICATION FairSpec
CHECK_DEADLOCK FALSE
INVARIANTS OutputExact QueuedIsWatched
PROPERTIES OnlyBlockingStrands BlockingFlushWritesAll NoWriteAfterHalfClose PendingCloseCompletes
