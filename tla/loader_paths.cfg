SPECIFICATION Spec
CONSTANTS
    Directories = {d1, d2, d3}
    Missing = {d3}
    Lookups = {l1, l2}
    None = None
    EmptyPaths = FALSE
    Quiet = TRUE
    MaxPaths = 2
    MaxChanges = 3
    MaxFileChanges = 1
INVARIANTS TypeOK CachesMatchPaths
PROPERTIES LookupFindsFirst
CHECK_DEADLOCK FALSE
