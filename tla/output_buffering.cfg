SPECIFICATION Spec
CONSTANTS
    MaxChunks = 3
    MaxLevel = 3
    MaxNotices = 1
    Notice = Notice
    NoContent = NoContent
    Chunk <- MCChunk
INVARIANTS NothingLost
PROPERTIES OnlyTopBuffersTouched
CHECK_DEADLOCK FALSE
