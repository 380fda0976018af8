\* What becomes of the map GetAll hands out.
CONSTANTS
  Procs = {p1, p2}
  Names = {PollCount}
  W = 2
  Inputs = {1}
  UpdateOp = "accum"
  Absent = Absent
  NoProc = NoProc
SPECIFICATION Spec
INVARIANT NeverCrashes
CHECK_DEADLOCK FALSE
