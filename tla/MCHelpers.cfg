SPECIFICATION Spec
CONSTANTS
  Calls <- AllCalls
  UntestedCallsFail = FALSE
  Forever = 99
  Anytime = 0
INVARIANTS ReferencesExact OnlyLiveObjects RaisesOrReturns SlotsInOrder
CHECK_DEADLOCK FALSE
