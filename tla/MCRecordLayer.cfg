SPECIFICATION FairRecords
CONSTANTS
  MaxFrames = 2
  Body = 2
  MaxPlain = 1
  Threads = {1, 2}
INVARIANTS
  EndsAreTrue
PROPERTIES
  BothPipes
  Settles
CHECK_DEADLOCK FALSE
