SPECIFICATION Spec
CONSTANTS
  Bytes = {0, 1, 4, 35, 63, 240}
  Cells <- StreamCells
  OamSize = 1
  LoadRegs = {2, 7}
  StoreRegs = {0, 6, 7}
  Values <- StreamValues
  StoredTo <- NameAndPalette
  Pages <- StreamPages
  MaxRun = 3
INVARIANTS
  NametablesCoherent
PROPERTIES
  PortSpec
