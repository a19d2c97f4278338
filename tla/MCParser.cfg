CONSTANTS
  Grammars <- AllGrammars
  Tokens = {"a", "b"}
  Coerce = Coerce
  NULL = NULL
  MaxDepth <- MCMaxDepth
  ResizeAt = {}
  MaxParses = 5
  MaxToks = 4
SPECIFICATION FairSpec
INVARIANTS ChartSound ChartClosed FindsTheTrees
PROPERTIES OldParsesUnaffected CallsReturn
CHECK_DEADLOCK FALSE
