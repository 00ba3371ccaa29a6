SPECIFICATION Spec
CONSTANTS
  b1 = b1
  b2 = b2
  p1 = p1
  p2 = p2
  Bufs = {b1, b2}
  Plugs = {p1, p2}
  NoBuf = NoBuf
  NoPlug = NoPlug
  Op = Op
  Groups = {g}
  Augs = {a1}
  NoAug = NoAug
  CmdEvents = {"open", "execopen"}
  MaxCmds = 1
  MaxHooks = 6
  MaxDepth = 2
  MaxCommands = 8
SYMMETRY Symmetry
INVARIANTS IdsPartition 
CHECK_DEADLOCK FALSE
