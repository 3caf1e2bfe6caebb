SPECIFICATION Spec
CONSTANTS
  MaxConnects = 2
  Names = {n1}
  Callbacks = {c1, c2}
  Ids = {s1, s2, s3}
  None = None
  NoId = NoId
  Distributed = TRUE
  ListenerCalls = {c2, "unsubscribe", "nothing"}
SYMMETRY IdSymmetry
INVARIANTS TypeOK OneConsumer ConsumerIsReachable NoDeadEntry Agreement OneLink
PROPERTIES ImplementsRoster
CHECK_DEADLOCK FALSE
