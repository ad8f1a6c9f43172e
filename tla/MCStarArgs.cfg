SPECIFICATION MCSpec
CONSTANTS
  ArgBase = 256
  Nil = Nil
  Local = {0, 1}
  Touched = {1}
  CO_MAXBLOCKS = 4
  ChunkBits = 64
  Signatures = {"star", "doublestar"}
  Shapes = {"loop"}
INVARIANT DefinedIsBound
CHECK_DEADLOCK FALSE
