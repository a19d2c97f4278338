SPECIFICATION Spec
CONSTANTS
  NULL = NULL
  Types <- PgfTypeTable
  Letters = {"f", "g", "h", "k", "s", "w", "x", "y"}
  Digits = {"1", "0"}
  Spaces = {" "}
  Foreign = {"#"}
  Pgfs <- MCPgfs
  Options <- MCOptions
  Inputs <- MCInputs
  NUL = NUL
  Coerce = Coerce
  META = META
  Literal = Literal
  Other = Other
  LitCat = "Lit"
  MaxDepth <- MCMaxDepth
  MaxHeight = 3
INVARIANTS
  TranslatesTheLine
  ReadsBack
  NothingLostSilently
