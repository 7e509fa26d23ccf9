SPECIFICATION Spec
CONSTANTS
  Labels = {"tool"}
  SessionCap = 3
  None = None
  Policy <- MCPolicy
  Clerks = {c1, c2}
  Operators = {o1, o2}
  Asked <- Mixed
  MaxRequests = 2
  MayFail = TRUE
  MayAge = TRUE
INVARIANT TypeOK
INVARIANT GrantsWithinBudget
INVARIANT SpendIsCounted
INVARIANT RuledOnce
PROPERTY EscalationNotReplaced
PROPERTY HaltedGrantsNothing
CHECK_DEADLOCK FALSE
