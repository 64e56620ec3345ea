SPECIFICATION Spec
CONSTANTS
  Units <- MCUnits
  Windows <- MCWindows
  Panels <- MCPanels
  MaxPts = 2
  Roots <- MCRoots
  Areas <- MCAreas
  Layouts <- MCLayouts
  Segment = 64
  MAX_CONSECUTIVE_GRAB_FAILURES = 2
  WindowKeys = {"Escape", "F"}
  WindowButtons = {"Left", "Back"}
  Chars = {"a", "A", "eacute"}
  MaxWire = 2
  Sizes = {1, 2, 3}
  Implausible = {3}
  MaxDisplays = 2
  MaxFrames = 4
  Gop = 3
  Capacity = 2
  MaxBuffered = 3
  MaxSessions = 3
  Addresses <- MCAddresses
  BasePort = 9
INVARIANTS PictureWhole HeldIsHeld
PROPERTIES FormsKept AccountKept PanelsSettle
CHECK_DEADLOCK FALSE
