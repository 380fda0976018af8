\* A private key is set: what the decrypter lets through.
CONSTANTS
  Clients = {c1, c2}
  Names = {PollCount}
  W = 3
  Absent = Absent
  NoName = NoName
  Garbled = Garbled
  Messages <- Ciphers
  Configs <- Encrypted
  MaxRetries = 1
  MaxSends = 2
SPECIFICATION Spec
SYMMETRY Symmetry
INVARIANT FailedLeavesNoTrace
CHECK_DEADLOCK FALSE
