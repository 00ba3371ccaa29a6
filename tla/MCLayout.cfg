SPECIFICATION Spec
CONSTANTS
  b1 = b1
  b2 = b2
  b3 = b3
  b4 = b4
  Bufs = {b1, b2, b3, b4}
  NoBuf = NoBuf
  Containers = {0, 1, 2, 3, 4, 5, 6, 7, 8}
  Screens <- MCScreens
SYMMETRY Symmetry
INVARIANTS Tiles 
CHECK_DEADLOCK FALSE
