SPECIFICATION Spec
CONSTANTS
  Bases <- SmallBases
  Data = {7, 9}
  Words <- Addresses
PROPERTIES
  StackSpec
  ZeroPageSafe
