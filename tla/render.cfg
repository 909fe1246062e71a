SPECIFICATION Spec
CONSTANTS
  TILE = 2
  COLUMNS = 2
  HEIGHT = 4
  LAST_LINE = 6
  ROWS = 5
  CAPACITY = 20
  SPRITES = 2
  Names <- Tables
  Pattern <- Tiles
  Scrolls = {0, 3}
  Masks <- SomeMasks
  Ctrls <- SomeCtrls
  OamAddrs = {4}
  OamPages <- Pages
  MAX_WRITES = 1
INVARIANTS
  PictureIsRight
  BuffersHold
PROPERTIES
  HitIsReal
\* A picture that overruns a buffer is not followed any further.
CHECK_DEADLOCK FALSE
