SPECIFICATION Spec
CONSTANTS
    tag = tag
    blank = blank
    promise = promise
    outer = outer
    Chunk <- MCChunk
    empty = empty
    Texts <- MCTexts
    Squeezed <- MCSqueezed
    OuterHandlers <- OneOuterHandler
    PromiseChunk = promise
    Notice = Notice
    NoContent = NoContent
    Nothing = Nothing
    Renders = {r1, r2}
    ParentCalls = {}
    Serial = FALSE
    MayThrow = FALSE
    MaxFrames = 2
    MaxChunks = 2
INVARIANTS RenderReturnsItsText
CHECK_DEADLOCK FALSE
