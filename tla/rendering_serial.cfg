SPECIFICATION Spec
CONSTANTS
    tag = tag
    blank = blank
    promise = promise
    outer = outer
    Chunk <- MCChunk
    empty = empty
    Texts <- MCTexts
    Squeezed <- MCSqueezed
    OuterHandlers <- OneOuterHandler
    PromiseChunk = promise
    Notice = Notice
    NoContent = NoContent
    Nothing = Nothing
    Renders = {r1, r2}
    ParentCalls = {}
    Serial = TRUE
    MayThrow = TRUE
    MaxFrames = 3
    MaxChunks = 2
INVARIANTS RenderReturnsItsText FramesOwnBuffers LevelRestored
PROPERTIES OuterBuffersKept ImplementsService
CHECK_DEADLOCK FALSE
