SPECIFICATION FairSpec
CONSTANTS
  Loops = {l1}
  Desktops <- MCDesktops
  Panels <- MCPanels
  MIN_SIDE = 2
  MAX_SIDE = 8
  MAX_ROOT = 9
  MAX_MISSES = 3
  None = None
  Leftover = Leftover
INVARIANTS ScreenIsMonitor DesktopRestored
PROPERTIES SessionEnds
