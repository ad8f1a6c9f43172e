SPECIFICATION MCSpec
CONSTANTS
  ArgBase = 2
  Nil = Nil
  MaxCode = 5
INVARIANTS CountsAgree BasicBlocks BranchesResolved OpargsAgree
PROPERTY Parses
CHECK_DEADLOCK FALSE
