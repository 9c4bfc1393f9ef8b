SPECIFICATION FairSpec
CONSTANTS
  PageSize = 8
  NPages = 1
  NTlb = 1
  Backed = {0}
  Values <- MCTimerValues
  Handlers <- MCTimerHandlers
  TimerVals <- MCTimerVals
  Storable <- MCUserPage
  OpFaults <- MCTimerFaults
  StaleFault <- MCStale
INVARIANTS
  TypeOK
  UserExceptionsEnabled
PROPERTIES
  NoLostTimer
  UserNeverStops
  Preempted
