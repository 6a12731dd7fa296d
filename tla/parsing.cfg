SPECIFICATION Spec
CONSTANTS
  Names = {b1}
  Aliases = {a1}
  NoName = NoName
  MaxTags = 4
  MaxDepth = 4
  MaxParses = 2
INVARIANTS FieldsMatchTags CallsResolveInScope EmbeddedApart
PROPERTY TemplateAccumulates
CHECK_DEADLOCK FALSE
