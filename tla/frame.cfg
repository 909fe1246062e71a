SPECIFICATION Spec
CONSTANTS
  Bytes = {}
  Cells = {}
  OamSize = 1
  RUN_LINES = 5
  LAST_LINE = 5
  VBLANK_LINE = 3
  SLICE = 3
  Costs = {2, 4}
  MaxCost = 4
  WARMUP = 6
  CLOCK_RANGE = 16
  Controls = {0, 128}
  Masks = {0, 8, 24}
INVARIANTS
  OneUpdatePerRun
  NeverTwoDarkRuns
  VblankInBlanking
  Sprite0Recent
PROPERTIES
  WaitingEnds
