SPECIFICATION Spec
CONSTANTS
  Loops = {l1, l2}
  Desktops <- MCOneDesktop
  Panels <- MCOnePanel
  MIN_SIDE = 2
  MAX_SIDE = 8
  MAX_ROOT = 9
  MAX_MISSES = 1
  None = None
  Leftover = Leftover
INVARIANT DesktopRestored
