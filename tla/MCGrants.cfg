\* Two callers, one invocation, one owner.
CONSTANTS
  Callers = {c1, c2}
  Owners = {o1}
  Scopes = {main}
  Granted = {main}
  MaxInvocations = 1
SPECIFICATION GrantSpec
INVARIANT
  BudgetIsABound
CHECK_DEADLOCK FALSE
