\* Two clients and two requests over two runs of the server; two batches are
\* more than a counter holds.  A buffer of three bytes that may grow to seven,
\* and all backup files of up to eight.
CONSTANTS
  Clients = {c1, c2}
  Names = {m1, m2}
  W = 3
  Absent = Absent
  NaN = NaN
  Buf = 3
  MaxBuf = 7
  MaxLen = 8
  Inputs <- MCInputs
  Updates <- WithNaN
  MaxStarts = 2
  MaxSends = 2
SPECIFICATION MCSpec
INVARIANTS TypeOK AcknowledgedSaved BackupKept  EmptyForAReason
INVARIANTS ScanTypeOK DataInOrder CutAsPredicted PanicsAsPredicted
PROPERTIES ExitsOnSignal Ends
CHECK_DEADLOCK FALSE
