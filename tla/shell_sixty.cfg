SPECIFICATION Spec
CONSTANTS
  Keys = {31, 23}
  Sessions <- OneSession
  TickRange = 5
  MaxElapsed = 3
  JoypadKeys = {23}
PROPERTIES
  SixtyFrames
