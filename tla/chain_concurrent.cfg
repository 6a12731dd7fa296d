SPECIFICATION Spec
CONSTANTS
    a = a
    f = f
    o = o
    Loaders <- MCLoaders
    Kind <- MCKind
    Calls = {c1, c2}
    Unknown = Unknown
    None = None
    Quiet = TRUE
    MaxTemplateChanges = 1
INVARIANTS CacheSettles
  
CHECK_DEADLOCK FALSE
