SPECIFICATION Spec
CONSTANTS
  Labels = {"tool", "small", "refund", "new_payee"}
  SessionCap = 5
  None = None
  Policy <- MCPolicy
  Agents = {a1, a2}
  Asked <- Charges
  Day = 2
  DowngradeTTL = 1
  MaxTime = 3
INVARIANT TypeOK
INVARIANT BudgetKept
INVARIANT EnvelopeKept
INVARIANT WideningIsThePolicys
CHECK_DEADLOCK FALSE
