SPECIFICATION FairSpec
CONSTANTS
  Actions = {spend, look}
  Ungated = {look}
  Autonomous = {}
  Caps = {c1, c2}
  Handlers = {h1, h2}
  Operators = {op}
  None = None
  GateCanFail = TRUE
  FilesFail = FALSE
  TTL = 0
  MaxTime = 1
  MaxCrashes = 0
PROPERTY ApprovedGetsExecuted
CHECK_DEADLOCK FALSE
