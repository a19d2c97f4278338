SPECIFICATION Spec
CHECK_DEADLOCK FALSE
CONSTANTS
  NULL = NULL
  Types <- PgfTypeTable
  Grammars <- MCGrammars
  FileOf <- MCFileOf
  WrongBytes <- MCWrongBytes
INVARIANT FailureReturns
