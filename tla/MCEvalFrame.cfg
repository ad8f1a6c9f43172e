SPECIFICATION Spec
CONSTANTS
  t1 = t1
  t2 = t2
  f1 = f1
  g1 = g1
  g2 = g2
  c1 = c1
  c2 = c2
  r1 = r1
  r2 = r2
  Thread <- MCThread
  Code <- MCCode
  Frame <- MCFrame
  Generator <- MCGenerator
  f_code <- MCf_code
  Point = {1, 2}
  Result <- MCResult
  NoResult = NoResult
  Dropped = Dropped
  Interpreter = Interpreter
  NoFrame = NoFrame
  Garbage = Garbage
  None = None
  MaxFailures = 1
SYMMETRY Symmetry
VIEW View
INVARIANTS JumpsHome RunsLoadedCode GoesOnRight FramesChained LoadedOnce
CHECK_DEADLOCK FALSE
