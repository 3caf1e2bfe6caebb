SPECIFICATION Spec
CONSTANTS
  Names = {a}
  Requests = {r1}
  Urls = {u}
  Filters = {"nothing"}
  MaxCalls = 1
INVARIANTS OnlyGets
CHECK_DEADLOCK FALSE
