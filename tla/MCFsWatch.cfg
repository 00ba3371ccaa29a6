SPECIFICATION Spec
CONSTANTS
  f1 = f1
  f2 = f2
  m1 = m1
  d1 = d1
  d2 = d2
  Fss = {f1, m1}
  Menus = {m1}
  Dirs = {d1}
  MaxEnts = 2
  MaxTime = 1
  MayCancel = TRUE
  MayVanish = TRUE
INVARIANTS RunningMatches ListenersMatch
CHECK_DEADLOCK FALSE
