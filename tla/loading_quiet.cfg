SPECIFICATION Spec
CONSTANTS
    Renders = {r1, r2}
    Options = {o1, o2}
    None = None
    Configs <- AllConfigs
    Quiet = TRUE
    MaxEdits = 1
    MaxOptionChanges = 1
    MaxRestarts = 1
    MaxTime = 3
    Millisecond = 2
    GetTime <- Truncated
INVARIANTS LoadReturnsCurrentSource StoreMatchesHash EmbedIsOfItsTemplate
CHECK_DEADLOCK FALSE
SYMMETRY Symmetry
