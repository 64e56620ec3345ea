SPECIFICATION FairClicker
CONSTANTS
  a = a
  b = b
  c = c
  Decks <- MCDecks
  Other = Other
  Blank = Blank
  SCAN_MAX_PAGES = 3
  MaxEvents = 3
INVARIANTS PreviewFresh NeighboursTrue
PROPERTY ClickerEnds
CHECK_DEADLOCK FALSE
