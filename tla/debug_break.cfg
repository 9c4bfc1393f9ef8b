SPECIFICATION DbgSpec
CONSTANTS
  PageSize = 4
  NPages = 1
  NTlb = 1
  Backed = {0}
  Values <- MCDbgValues
  Handlers <- MCDbgHandlers
  TimerVals = {}
  Storable = {}
  OpFaults = {}
  StaleFault <- MCDbgStale
  MaxBreakpoints = 2
  BpArgs <- MCBpArgs
  Synthetic <- MCSynthetic
CHECK_DEADLOCK FALSE
INVARIANTS
  BreakpointsHonoured
PROPERTIES
  BreakpointSet
