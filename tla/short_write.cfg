SPECIFICATION Spec
CONSTANTS
  Calls = {c1, c2}
  Fds = {d1, d2}
  MaxChunks = 2
  Faults = {"short"}
  Dir = Dir
  None = None
SYMMETRY Symmetry
CHECK_DEADLOCK FALSE
INVARIANTS
  FinalIsWhole
