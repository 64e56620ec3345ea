SPECIFICATION FairSpec
CONSTANTS
  Ports = {p1, p2}
  None = None
  Default = p1
  Part = 2
  UpMax = 2
  DownMax = 6
  WsRoom = 2
  UpRoom = 1
  MaxSessions = 2
INVARIANT BridgeSound
PROPERTIES Pipes EndPassedOn
