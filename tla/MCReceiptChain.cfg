SPECIFICATION Spec
CONSTANTS
  Procs = {g1, g2, c1}
  Guards = {g1, g2}
  Old = 1
  Mirrored = {TRUE, FALSE}
  MaxEvents = 3
  MaxDecisions = 3
  MayFail = TRUE
  MayDie = TRUE
  MayTear = TRUE
  MayStall = TRUE
  None = None
INVARIANTS LedgerSound ChainHolds AnsweredIsRecorded MirrorInOrder
CHECK_DEADLOCK FALSE
SYMMETRY Symmetry
CONSTRAINT StallBound
