\* MinEntries 3 instead of 11: tables of 5 and 7 slots; the fifth key resizes
\* a table of 5, and leaves one of 7 with two free slots.
CONSTANTS
  Keys = {0, 1, 5, 6, 15}
  ZeroKey = 0
  v = v
  w = w
  Values = {v, w}
  Insertions <- MCInsertions
  DefaultValue = zero
  Hashes <- MCHashes
  SIZE_MAX = SIZE_MAX
  NONE = NONE
  MinEntries = 3
  MaxExtra = 2
  MaxArg = 1100
SPECIFICATION EnumSpec
INVARIANTS EveryKeyFound ResizeSound ExactUnlessResized PrimesRight
PROPERTY ImplementsMap
CHECK_DEADLOCK FALSE
