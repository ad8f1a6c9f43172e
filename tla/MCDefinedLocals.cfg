SPECIFICATION MCSpec
CONSTANTS
  Local = {x, y}
  Nil = Nil
  MaxBlock = 3
INVARIANTS ListOK SoundWhenDone KeepsEverySolution
PROPERTIES Implements RelistedOnlyIfSmaller Terminates
CHECK_DEADLOCK FALSE
