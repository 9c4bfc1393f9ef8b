SPECIFICATION FairDbgSpec
CONSTANTS
  PageSize = 4
  NPages = 1
  NTlb = 1
  Backed = {0}
  Values <- MCDbgValues
  Handlers <- MCDbgHandlers
  TimerVals = {}
  Storable <- MCDbgPage
  OpFaults = {}
  StaleFault <- MCDbgStale
  MaxBreakpoints = 2
  BpArgs = {}
  Synthetic <- MCSynthetic
CHECK_DEADLOCK FALSE
PROPERTIES
  DebuggerDiscreet
  RunExecutes
  InterruptStops
