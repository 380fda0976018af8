\* A request in flight when the server is told to stop.
CONSTANTS
  Clients = {c1, c2}
  Names = {m1}
  W = 8
  Absent = Absent
  NaN = NaN
  Buf = 3
  MaxBuf = 8
  MaxLen = 0
  Inputs = {}
  Updates <- Plain
  MaxStarts = 1
  MaxSends = 1
SPECIFICATION MCSpec
PROPERTY GracefulExit
CHECK_DEADLOCK FALSE
