SPECIFICATION Spec
CONSTANTS
  Keys = {17, 31, 23, 19}
  Sessions <- ManySessions
  TickRange = 5
  MaxElapsed = 3
  JoypadKeys = {17, 23}
INVARIANTS
  RunsDefined
  CartIsPicked
  ShownIsSelected
PROPERTIES
  OneEventPerPress
  FrameGate
  TransientStatesEnd
  FramesGoOn
