SPECIFICATION Spec
CONSTANTS
  Provides <- MCProvides
  Direct <- MCDirect
  MaxVisitors = 3
  r1 = r1
  r2 = r2
  Renders = {r1, r2}
  MaxDepth = 3
  MaxSteps = 3
SYMMETRY Symmetry
INVARIANTS WholeOrNothing FlagRestored SandboxFollowsIncludes BlocksEnded
CHECK_DEADLOCK FALSE
