SPECIFICATION MCSpec
CONSTANTS
  ArgBase = 256
  Nil = Nil
  Local = {0, 1}
  Touched = {0}
  CO_MAXBLOCKS = 4
  ChunkBits = 64
  Signatures = {"none"}
  Shapes = {"handlers"}
INVARIANT ResumeSlotFree
CHECK_DEADLOCK FALSE
