SPECIFICATION FairSpec
CONSTANTS
  phone = phone
  tablet = tablet
  small = small
  large = large
  label = label
  None = None
  Asks <- MCAsks
  Names = {}
  l1 = l1
  Loops = {l1}
  MaxIds = 1
  MaxQueued = 2
  Capacity = 2
PROPERTY AcceptLoopFreed
CHECK_DEADLOCK FALSE
