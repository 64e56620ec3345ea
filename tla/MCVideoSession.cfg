SPECIFICATION FairSpec
CONSTANTS
  phone = phone
  tablet = tablet
  small = small
  large = large
  label = label
  None = None
  Asks <- MCAsks
  Names = {label}
  l1 = l1
  Loops = {l1}
  MaxIds = 2
  MaxQueued = 2
  Capacity = 2
INVARIANTS RegistryTrue NoLateCallback
PROPERTY DeadEndsStream
CHECK_DEADLOCK FALSE
