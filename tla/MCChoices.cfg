\* All decision trees of depth <= 2 with 1..3 alternatives per decision; all forests
\* over two categories.
CONSTANTS
  UINT8_MAX = 3
  MaxArity = 3
  Trees <- MCTrees
  Forests <- MCForests
  Coerce = Coerce
  META = META
  NULL = NULL
  MaxVisits = 5
SPECIFICATION MCSpec
INVARIANTS AssertsHold PathLeadsToNextLeaf ReplaysAgree EnumeratesTheUnshared
PROPERTIES NothingSkipped EnumeratesLeaves EndIsFinal EndToldUnlessLastRefused
CHECK_DEADLOCK FALSE
