SPECIFICATION Spec
CONSTANTS
  Files <- SomeFiles
  BUF_PIECES = 6
  MMC_MAX_PAGE_COUNT = 4
INVARIANTS
  GameIsWhole
  PatternIsOwn
  LoadsHold
\* A session ends where an array was overrun.
CHECK_DEADLOCK FALSE
