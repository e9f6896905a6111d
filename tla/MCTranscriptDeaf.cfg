CONSTANTS
    None = None
    Tails = {t1, t2}
    WindowBytes = 1
    ChunkBytes = 1
    MaxAwaitRetries = 1
    MaxBytes = 1
    MaxFiles = 1
    MaxFailures = 0
CHECK_DEADLOCK FALSE
SPECIFICATION TranscriptSpec
INVARIANT OpenTailIsWatched
