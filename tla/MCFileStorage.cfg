SPECIFICATION FairSpec
CONSTANTS
  Ids = {d1, d2}
  NoId = NoId
  Calls = {k1, k2}
  Uploads = {k1}
  Failing = {d1}
PROPERTIES ImplementsShelf Expires LetIn
CHECK_DEADLOCK FALSE
