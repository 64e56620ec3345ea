CONSTANTS
  Ports = {9000, 9001}
  Pins = {p1, p2}
  MaxStarts = 3
  None = None
  Garbled = Garbled
SPECIFICATION Spec
PROPERTIES
  RestartRebinds
