SPECIFICATION ReportingSpec
CONSTANTS
  Ids = {d1, d2}
  NoId = NoId
  Jobs = {j1}
  root = root
  sub = sub
  f1 = f1
  f2 = f2
  Root = root
  Tree <- MCTree
  MaxTold = 2
  Reports = {r1}
  MaxAttachments = 2
INVARIANTS UploadKept Attached SuccessIsWhole
PROPERTIES AllAnswered
CHECK_DEADLOCK FALSE
