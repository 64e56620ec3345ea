CONSTANTS
  FREE_FAILURES = 1
  FIRST_LOCKOUT = 1
  MAX_LOCKOUT = 3
  FORGET_AFTER = 9
  MAX_SHIFT = 3
  U32_MAX = 6
  MaxTime = 22
  None = None
  Debt <- MCDebt
SPECIFICATION BSpec
INVARIANTS
  WaitingGainsNothing
PROPERTIES
  LockHolds
  GuessSpacing
