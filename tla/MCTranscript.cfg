CONSTANTS
    None = None
    Tails = {t1}
    WindowBytes = 1
    ChunkBytes = 1
    MaxAwaitRetries = 1
    MaxBytes = 2
    MaxFiles = 2
    MaxFailures = 0
CHECK_DEADLOCK FALSE
SPECIFICATION TranscriptFairSpec
PROPERTY TailFollows
