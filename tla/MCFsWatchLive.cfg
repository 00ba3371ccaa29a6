SPECIFICATION FairSpec
CONSTANTS
  f1 = f1
  f2 = f2
  m1 = m1
  d1 = d1
  d2 = d2
  Fss = {f1}
  Menus = {}
  Dirs = {d1, d2}
  MaxEnts = 2
  MaxTime = 2
  MayCancel = FALSE
  MayVanish = FALSE
INVARIANTS ListingsMatch NeverBlind
PROPERTIES TurnsIdle 
CHECK_DEADLOCK FALSE
