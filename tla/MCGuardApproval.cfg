SPECIFICATION Spec
CONSTANTS
  Digests = {pay}
  Forbidden = {}
  Escalating = {pay}
  NeverAuto = {pay}
  Ids = {a1}
  Agents = {p1, p2}
  Operators = {op1, op2}
  None = None
  TTL = 1
  MaxUses = 1
  MaxTime = 2
  MaxCrashes = 1
INVARIANT TypeOK
INVARIANT SingleUse
INVARIANT NeverAutoNeedsOperator
PROPERTY KeepsPromise
CHECK_DEADLOCK FALSE
