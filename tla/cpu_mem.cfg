SPECIFICATION Spec
CONSTANTS
  PageSize = 4
  NPages = 2
  NTlb = 2
  Backed = {1}
  Values <- MCMemValues
  Handlers <- MCMemHandlers
  TimerVals <- MCMemTimer
  Storable <- MCMemEntries
  OpFaults <- MCMemFaults
  StaleFault <- MCStale
PROPERTIES
  UserConfined
  ContextFrozen
  ContextFresh
  E3Faithful
  UserFetchAuthorised
