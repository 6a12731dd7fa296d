SPECIFICATION Spec
CONSTANTS
  Trees <- MCTrees
  Tokens <- MCTokens
  MaxTokens = 4
  Modules <- MCModules
  Operands <- MCOperands
  Maps <- MCMaps
  StringOrder <- MCStringOrder
  Sizes <- MCSizes
  Objects <- MCObjects
  Programs <- MCPrograms
  Calls <- MCCalls
  Signatures <- MCSignatures
  normalizeName <- MCNormalizeName
  Registers <- MCRegisters
  Called <- MCCalled
INVARIANTS RoundTrip EveryPrintEscaped NotEscapedTwiceFlat UsedIsChecked LoopsKept
  LooseEquality SliceIsWindow ItemsKept DefinedMatchesAccess
  ContextsNest ArgumentsInPlace CallsKeepArguments
CHECK_DEADLOCK FALSE
