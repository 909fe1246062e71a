SPECIFICATION PadSpec
CONSTANTS
  Keys = {37, 23, 17}
  ReadCount = 4
  SoundBits = {0, 1}
  MaxP = 18
  MaxCarts = 1
PROPERTIES
  ButtonsInOrder
  PressesReachTheGame
  LatchedPressIsSeen
  ReleaseIsSeen
