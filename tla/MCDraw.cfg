SPECIFICATION FairSpec
CONSTANTS
  Bufs = {b1, b2}
  Ovs = {o1, o2}
  NoOv = NoOv
  MaxHandlers = 5
  MaxSignals = 1
INVARIANT RequestsMatch
 
CHECK_DEADLOCK FALSE
