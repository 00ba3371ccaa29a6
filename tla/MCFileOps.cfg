SPECIFICATION FairSpec
CONSTANTS
  f = f
  d = d
  a = a
  e = e
  NoNode = NoNode
  Nodes = {f, d, a, e}
  Parent <- FileTree
  Dirs = {d}
  Links = {e}
  CrossDev = {f}
  Taken = {d}
  Kinds = {"copy", "move", "remove"}
  MaxGroups = 2
  Chunks = 2
  MaxOthers = 1
  MayFail = TRUE
  DuringWalk = TRUE
INVARIANTS RefsMatch DirsFirst 
 
CHECK_DEADLOCK FALSE
