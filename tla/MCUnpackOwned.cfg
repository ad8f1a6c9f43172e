SPECIFICATION UnpackOwned
CONSTANTS
  Forever = 99
  Anytime = 0
  Local = {1, 2}
  MaxHeight = 11
  MoveLength = 4
INVARIANT NothingReleasedTwice
CHECK_DEADLOCK FALSE
