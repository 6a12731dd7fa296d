SPECIFICATION Spec
CONSTANTS
  Trees = {}
  Tokens = {}
  MaxTokens = 4
  Modules <- MCModules
  Operands = {}
  Maps = {}
  StringOrder <- MCStringOrder
  Sizes = {}
  Objects = {}
  Programs = {}
  Calls = {}
  Signatures = {}
  normalizeName <- MCNormalizeName
  Registers = {}
  Called = {}
INVARIANT NotEscapedTwice
CHECK_DEADLOCK FALSE
