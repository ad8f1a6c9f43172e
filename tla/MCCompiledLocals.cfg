SPECIFICATION MCSpec
CONSTANTS
  ArgBase = 256
  Nil = Nil
  Local = {0, 1}
  Touched = {0}
  CO_MAXBLOCKS = 4
  ChunkBits = 2
  Signatures = {"none", "one", "two"}
  Shapes = {"loop", "except", "finally", "looptry", "handler", "with", "asyncfor", "tries"}
INVARIANTS DefinedIsBound BodyAccounted ResumeSlotFree
PROPERTIES FlowStartsWell Compiles
CHECK_DEADLOCK FALSE
