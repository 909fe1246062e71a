SPECIFICATION ListSpec
CONSTANTS
  Trees <- Volumes
  Root = "root"
  File = "file"
  Chars = {"a", "d", "n", "N", "."}
  Parts <- NesParts
  MaxDepth = 3
  MAX_FILE_NUMBER = 20
  MAX_FILE_NAME_SIZE = 4
INVARIANTS
  NothingLeaks
  NamesReadBack
  GamesListed
  NeverInsideItself
\* The walk is over, or the machine has stopped.
CHECK_DEADLOCK FALSE
