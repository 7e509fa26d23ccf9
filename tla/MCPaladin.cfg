SPECIFICATION Spec
CONSTANTS
  Names = {a, b}
  Entries = {e1}
  Keys = {k0, k1}
  FirstKey = k0
  Clerks = {c1, c2}
  Restorers = {c1}
  Threads = {t1, t2}
  Gateway = gw
  None = None
  Missing = Missing
  Torn = Torn
  MaxCommands = 3
  MaxDeaths = 1
  MaxCalls = 2
INVARIANT VaultIsWhole
INVARIANT GrantsFollowTheEntry
INVARIANT NoForkWithin
SYMMETRY Symmetry
CHECK_DEADLOCK FALSE
