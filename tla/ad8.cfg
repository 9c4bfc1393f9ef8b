SPECIFICATION Spec
CONSTANTS
  NAddr = 4
  Byte = {0, 1}
  MaxWp = 2
  BpArgs <- MCBpArgs
  WpArgs <- MCWpArgs
  Images <- MCImages
CHECK_DEADLOCK FALSE
INVARIANTS
  BreakHonoured
PROPERTIES
  WatchTable
  ChangeStops
