\* Counters in PostgreSQL: two handlers, two rows, a pool of one or two.
CONSTANTS
  Procs = {p1, p2}
  Names = {PollCount, Reqs}
  One = PollCount
  Other = Reqs
  W = 3
  UpdateOp = "accum"
  Calls <- MCCalls
  Absent = Absent
  NoProc = NoProc
  PoolSizes = {1, 2}
  MaxRetries = 1
SPECIFICATION FairSpec
INVARIANTS TypeOK ToldTruly IInv
PROPERTIES Implements CallsReturn CloseReturns
CHECK_DEADLOCK FALSE
