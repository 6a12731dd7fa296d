SPECIFICATION Spec
CONSTANTS
    child = child
    middle = middle
    base = base
    trait = trait
    x = x
    y = y
    Templates <- MCTemplates
    Names <- MCNames
    None = None
    Unclaimed = Unclaimed
    Libraries <- MCLibraries
    Displayed <- MCDisplayed
    MaxDepth = 12
INVARIANTS DispatchIsRight TestIsRight KnownIsResolved
PROPERTIES Terminates
CHECK_DEADLOCK FALSE
