SPECIFICATION Spec
CONSTANTS
  MaxAttempts = 1
  Workers = {w1}
  MaxEvents = 1
  MaxInputs = 0
  None = None
  Refusals = {"HostLocked"}
  Kinds = {"TimedOut", "Eof"}
INVARIANT FreedUnused
CHECK_DEADLOCK FALSE
