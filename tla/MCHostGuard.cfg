CONSTANTS
  Current = {c}
  Legacy = {x}
  PairedElsewhere = {}
  Pins = {0, 1}
  MaxBacklog = 1
  MaxRestarts = 0
  MaxForgets = 0
  FREE_FAILURES = 0
  FIRST_LOCKOUT = 1
  MAX_LOCKOUT = 1
  FORGET_AFTER = 1
  MAX_SHIFT = 0
  U32_MAX = 2
  MaxTime = 1
  None = None
SPECIFICATION FairSpec
INVARIANTS
  SessionEarned
PROPERTIES
  GuardDiscipline
  LoopReleased
  NobodyStarves
