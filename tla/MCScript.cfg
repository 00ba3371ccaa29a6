SPECIFICATION Spec
CONSTANTS
  Quoted = {}
  Acts = {"echo"}
  Yield = "val"
  Shadowed = {"endure"}
  Alphabet <- MCAlphabet
  Numbers <- MCNumbers
  Files <- MCFiles
  Modules = {"m"}
  MaxDeep = 4
  MaxTape = 14
  FileLines <- MCFileLines
  Units <- MCUnits
  Defined <- MCDefined
  MaxLines = 4
  MaxTyped = 4
CHECK_DEADLOCK FALSE
INVARIANTS RunsAsWritten  
