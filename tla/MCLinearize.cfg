CONSTANTS
  UINT8_MAX = 255
  Inputs <- MCInputs
  Coerce = Coerce
  Literal = Literal
  Other = Other
  LitCat = "Lit"
  MaxHeight = 3
  NULL = NULL
SPECIFICATION FairSpec
INVARIANTS BuildRepeatsDryRun ConcretizesAll
PROPERTY Terminates
CHECK_DEADLOCK FALSE
