SPECIFICATION FairSpec
CONSTANTS
  MaxAttempts = 3
  Workers = {w1, w2}
  MaxEvents = 1
  MaxInputs = 1
  None = None
  Refusals = {"HostLocked"}
  Kinds = {"TimedOut", "Eof"}
INVARIANTS RightReason SessionKept
PROPERTY NothingLingers
CHECK_DEADLOCK FALSE
