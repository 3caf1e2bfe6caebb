SPECIFICATION ChannelSpec
CONSTANTS
  MaxConnects = 1
  Names = {k1}
  Callbacks = {t1, t2}
  Ids = {s1, s2, s3}
  None = None
  NoId = NoId
  Distributed = FALSE
  ListenerCalls = {"nothing"}
INVARIANTS Hears
PROPERTIES GoneIsLeft StartIsServed
CHECK_DEADLOCK FALSE
