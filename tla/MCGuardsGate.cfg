SPECIFICATION GateSpec
CONSTANTS
  Guards = {g1, g2}
  Operators = {o1, o2}
  Hooks = {h1}
  Nobody = Nobody
  Missing = Missing
  Corrupt = Corrupt
  Misshapen = Misshapen
  MaxCommands = 4
  MaxChecks = 2
  MaxFaults = 3
INVARIANT OwnWritesStayWhole
PROPERTY ArmedGuardsAnswer
SYMMETRY Symmetry
CHECK_DEADLOCK FALSE
