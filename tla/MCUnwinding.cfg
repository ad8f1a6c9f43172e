SPECIFICATION MCSpec
CONSTANTS
  Forever = 99
  Anytime = 0
  Exc = {1, 2, 3, 4, 5}
  Temp = {11, 12, 13, 14, 15, 16, 17, 18, 19}
  NoExc = NoExc
  Null = Null
  None = None
  Given = {}
  MaxHeight = 18
INVARIANTS TypeOK CountsExact AssertionsHold OutsideRestored
PROPERTIES HandlerHeight Implements
CHECK_DEADLOCK FALSE
