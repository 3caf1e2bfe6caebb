SPECIFICATION FairSpec
CONSTANTS
  Requests = {r1, r2}
  NoRequest = NoRequest
  SlowCount = 2
  Tries = 2
  Lazy = {TRUE, FALSE}
  MaxVersion = 2
  MaxWrites = 2
INVARIANTS TypeOK AnsweredOnce FailOverHolds CopiesAgree
PROPERTIES FailOverEnds AnsweredInTime
CHECK_DEADLOCK FALSE
