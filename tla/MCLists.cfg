SPECIFICATION Spec
CONSTANTS
  w1 = w1
  w2 = w2
  d1 = d1
  d2 = d2
  Windows = {w1, w2, w3}
  Dirs = {d1, d2}
  Dt = w3
  Procs = procs
  Names = {1, 2, 3}
  FileSets <- MCFileSets
  Sorts = {"name", "size"}
  Rank <- MCRank
  Patterns <- MCPatterns
  Sizes = {2, 3}
  NULL = NULL
  Freed = Freed
  MaxCommands = 3
  MaxScans = 2
SYMMETRY Symmetry
INVARIANTS LinesLive Listed 
CHECK_DEADLOCK FALSE
