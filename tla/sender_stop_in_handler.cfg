SPECIFICATION Spec
CONSTANTS
  MaxStarts = 1
  MaxFlushes = 2
  s1 = s1
  s2 = s2
  Streams = {s1, s2}
  NoStream = NoStream
SYMMETRY StreamSymmetry
CHECK_DEADLOCK FALSE
INVARIANTS
  StopIsSafe
