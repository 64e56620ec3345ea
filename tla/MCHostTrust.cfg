CONSTANTS
  Current = {c}
  Legacy = {}
  PairedElsewhere = {c}
  Pins = {0, 1, 2}
  MaxBacklog = 2
  MaxRestarts = 1
  MaxForgets = 1
  FREE_FAILURES = 1
  FIRST_LOCKOUT = 1
  MAX_LOCKOUT = 1
  FORGET_AFTER = 2
  MAX_SHIFT = 0
  U32_MAX = 2
  MaxTime = 0
  None = None
SPECIFICATION Spec
INVARIANTS
  TrustNeedsPin
  TrustIsMutual
