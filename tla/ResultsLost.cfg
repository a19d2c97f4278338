\* No client but the one that makes no decision.
CONSTANTS
  UINT8_MAX = 3
  MaxArity = 0
  Trees <- MCTrees
  Forests <- SharingForest
  Coerce = Coerce
  META = META
  NULL = NULL
  MaxVisits = 3
SPECIFICATION MCSpec
PROPERTY EnumeratesTheForest
CHECK_DEADLOCK FALSE
