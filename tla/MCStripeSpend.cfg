SPECIFICATION Spec
CONSTANTS
  Agents = {a1}
  Operators = {o1, o2}
  Asked <- MCAsked
  SessionCap = 1
  ActionCap = 1
  Ttl = 0
  MaxRequests = 3
  MaxClock = 1
  MayFail = TRUE
  MayDie = TRUE
  MayReset = TRUE
  NaN = NaN
  None = None
INVARIANTS CapKept RefundsCovered OneCodeOneRun
CHECK_DEADLOCK FALSE
SYMMETRY Symmetry
