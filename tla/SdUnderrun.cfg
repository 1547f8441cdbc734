SPECIFICATION Spec
CONSTANTS
  MULTI = 2
  Ops = {"read1", "readN", "write1", "writeN"}
  Kinds = {"V2", "HC"}
  MayFail = {}
  MayUnderrun = TRUE
  Habits = {FALSE}
INVARIANTS OkMeansMoved
