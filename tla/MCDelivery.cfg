SPECIFICATION FairSpec
CONSTANTS
  MaxConnects = 2
  MaxMessages = 3
  AckMode = TRUE
INVARIANTS TypeOK InOrder
PROPERTIES ImplementsWorkQueue Progress
CHECK_DEADLOCK FALSE
