SPECIFICATION FairSpec
CONSTANTS
  Calls = {c1, c2}
  NoCall = NoCall
  None = None
  Memory = {TRUE, FALSE}
  SlowCount = 2
  MaxVersion = 1
  MaxPipe = 2
INVARIANTS DoneOnce Fresh
PROPERTIES CallsEnd
CHECK_DEADLOCK FALSE
