SPECIFICATION Spec
CONSTANTS
  MaxConnects = 1
  Names = {n1}
  Callbacks = {c1}
  Ids = {s1, s2}
  None = None
  NoId = NoId
  Distributed = FALSE
  ListenerCalls = {"nothing"}
INVARIANTS UnsubscribeIsFinal
CHECK_DEADLOCK FALSE
