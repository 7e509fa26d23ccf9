SPECIFICATION Spec
CONSTANTS
  Digests = {pay, edit, wipe}
  Forbidden = {wipe}
  Escalating = {pay}
  NeverAuto = {edit}
  Ids = {a1, a2}
  Agents = {p1, p2}
  Operators = {}
  None = None
  TTL = 1
  MaxUses = 1
  MaxTime = 0
  MaxCrashes = 0
INVARIANT RuleIsBounded
INVARIANT UsedAsGranted
SYMMETRY Symmetry
CHECK_DEADLOCK FALSE
