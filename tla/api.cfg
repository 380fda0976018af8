\* Every message in every configuration of the server.
CONSTANTS
  Clients = {c1, c2}
  Names = {PollCount, Alloc}
  W = 3
  Absent = Absent
  NoName = NoName
  Garbled = Garbled
  Messages <- AllMessages
  Configs <- FewConfigs
  MaxRetries = 1
  MaxSends = 2
SPECIFICATION Spec
SYMMETRY Symmetry
INVARIANTS TypeOK RefusedLeavesNoTrace OkMeansApplied CountersAddUp AnswersReadable
INVARIANT PartsInOrder
CHECK_DEADLOCK FALSE
