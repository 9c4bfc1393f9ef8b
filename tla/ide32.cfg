SPECIFICATION FairSpec
CONSTANTS
  Words = 3
  Programs <- MCTexts
  Breaks <- MCBreaks
  Watches <- MCWatches
  Clicks = {"speed", "delete"}
  MaxTyped = 2
  MaxDepth = 3
INVARIANTS
  CaughtUp
PROPERTIES
  StopReturns
