\* Two reports for a channel of one and one or two workers, to a server.
\* Settings: integers of seven bits, and seconds of six nanoseconds.
CONSTANTS
  Workers = {w1, w2}
  Pools <- AnyPool
  ChCap = 1
  Retries = 1
  Key = TRUE
  MaxSamples = 2
  MaxReports = 2
  Strings = {"a"}
  Numbers <- MCNumbers
  Empty = Empty
  Garbage = Garbage
  Nothing = Nothing
  W = 128
  Second = 6
  Inputs <- MCInputs
SPECIFICATION MCSpec
INVARIANTS TypeOK NothingDropped OneSignerSigns
INVARIANTS DeliveryTypeOK CountedOnce LostForAReason NoneOvertaken
INVARIANTS Precedence PeriodAsAsked
PROPERTIES NetworkFairness ExitsOnSignal
CHECK_DEADLOCK FALSE
