CONSTANTS
  Grammars <- OnlyNull
  Tokens = {"a", "b"}
  Coerce = Coerce
  NULL = NULL
  MaxDepth <- MCMaxDepth
  ResizeAt = {3}
  MaxParses = 1
  MaxToks = 0
SPECIFICATION Spec
INVARIANT FindsTheTrees
CHECK_DEADLOCK FALSE
