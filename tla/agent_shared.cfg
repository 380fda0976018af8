\* Two workers sign with one hash.
CONSTANTS
  Workers = {w1, w2}
  Pools <- WholePool
  ChCap = 1
  Retries = 1
  Key = TRUE
  MaxSamples = 2
  MaxReports = 2
SPECIFICATION Spec
INVARIANT SignatureMatches
CHECK_DEADLOCK FALSE
