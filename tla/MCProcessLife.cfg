SPECIFICATION FairSpec
CONSTANTS
  p1 = p1
  p2 = p2
  Shells = {p1, p2}
  RegShells = {p2}
  MaxStarts = 2
INVARIANTS RefcountMatches NoStaleEvents StopsCounted
PROPERTIES SpawnClean  StoppedEnds
