\* A repository of counters: three goroutines, two names, sums modulo 3.
CONSTANTS
  Procs = {p1, p2, p3}
  Names = {PollCount, Reqs}
  W = 3
  Inputs = {2}
  UpdateOp = "accum"
  Absent = Absent
  NoProc = NoProc
SPECIFICATION MCSpec
INVARIANTS TypeOK UpdateIsolated IInv
PROPERTIES Linearizable CallsReturn
CHECK_DEADLOCK FALSE
