SPECIFICATION Spec
CONSTANTS
  Workspaces = {w1, w2}
  Home = home
  Operators = {o1, o2}
  None = None
  MaxCommands = 3
  MaxFaults = 1
  Callers = {c1, c2}
  MaxCalls = 2
  MaxEdits = 1
PROPERTY NothingRunsUnderAKill
INVARIANT SettledStoresAgree
INVARIANT NoFalseDrift
PROPERTY EditsAreCaught
SYMMETRY Symmetry
CHECK_DEADLOCK FALSE
