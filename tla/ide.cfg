SPECIFICATION FairSpec
CONSTANTS
  Width = 2
  Words = 2
  Programs <- MCPrograms
  Stored <- MCStored
  Lines <- MCLines
  Breaks <- MCBreaks
  Clicks = {"step", "reset", "eot", "speed"}
  MaxPending = 2
  MaxDepth = 3
INVARIANTS
  OneRunLoop
  StallHasWaiter
  NobodyWaitsForTyped
PROPERTIES
  BreakObserved
  StopEnds
