SPECIFICATION MCSpec
CONSTANTS
  Forever = 99
  Anytime = 0
  Local = {1, 2}
  MaxHeight = 11
  MoveLength = 4
INVARIANTS NothingReleasedTwice OperandsAlive TakenAreOwned MirrorsFrame HeightsAgree
CHECK_DEADLOCK FALSE
