SPECIFICATION Spec
CONSTANTS
  Names = {a, b}
  Requests = {r1, r2}
  Urls = {u}
  Filters = {"nothing", "others"}
  MaxCalls = 4
INVARIANTS RegisteredServes PassedAll OwnAnswers
CHECK_DEADLOCK FALSE
