\* A server that counts once and is not stopped.
CONSTANTS
  Clients = {c1}
  Names = {m1}
  W = 8
  Absent = Absent
  NaN = NaN
  Buf = 3
  MaxBuf = 8
  MaxLen = 0
  Inputs = {}
  Updates <- Plain
  MaxStarts = 1
  MaxSends = 1
SPECIFICATION MCSpec
PROPERTY ScheduledBackup
CHECK_DEADLOCK FALSE
