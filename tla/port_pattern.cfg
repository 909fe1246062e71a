SPECIFICATION Spec
CONSTANTS
  Bytes = {0, 1, 2, 4}
  Cells <- PatternCells
  OamSize = 1
  LoadRegs = {}
  StoreRegs = {6, 7}
  Values <- PatternValues
  StoredTo <- Everywhere
  Pages = {}
  MaxRun = 3
PROPERTIES
  PatternStoresAlone
