\* Gauges below 100 with one decimal place.
CONSTANTS
  Places = 1
  Limit = 2
SPECIFICATION Spec
INVARIANT ShownAsIs
CHECK_DEADLOCK FALSE
