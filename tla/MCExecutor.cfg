SPECIFICATION Spec
CONSTANTS
  Actions = {spend, small}
  Ungated = {}
  Autonomous = {small}
  Caps = {c1, c2}
  Handlers = {h1, h2}
  Operators = {op1, op2}
  None = None
  GateCanFail = FALSE
  FilesFail = TRUE
  TTL = 0
  MaxTime = 1
  MaxCrashes = 1
INVARIANT TypeOK
INVARIANT SingleUse
INVARIANT ClaimIsExclusive
INVARIANT HaltedDoesNotRun
INVARIANT RunsArePaidFor
PROPERTY FinalStaysFinal
PROPERTY KeepsPromise
SYMMETRY Symmetry
CHECK_DEADLOCK FALSE
