\* A key for signatures is set: what the clients get.
CONSTANTS
  Clients = {c1, c2}
  Names = {PollCount}
  W = 3
  Absent = Absent
  NoName = NoName
  Garbled = Garbled
  Messages <- Base
  Configs <- Signing
  MaxRetries = 1
  MaxSends = 2
SPECIFICATION Spec
SYMMETRY Symmetry
INVARIANT AnswersSigned
CHECK_DEADLOCK FALSE
