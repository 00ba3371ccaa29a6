SPECIFICATION Spec
CONSTANTS
  Contexts <- MCContexts
  Lists <- MCLists
  Names <- MCNames
  RowMax = 2
  HintKeys <- MCHintKeys
  Chars <- MCChars
  Keys <- MCKeys
  Loaded <- MCLoaded
  Limits = {1, 4}
  HistMax = 3
  MaxKeys = 6
INVARIANTS  TakenBack 
PROPERTIES HistoryKept RowsDrawn
CHECK_DEADLOCK FALSE
