SPECIFICATION MCSpec
CONSTANTS
  Nil = Nil
  Unset = Unset
  co_stacksize = 2
  MaxBlock = 3
INVARIANTS HeightsRight AssertionsHold AllReached
PROPERTY Terminates
CHECK_DEADLOCK FALSE
