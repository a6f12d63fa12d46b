CONSTANTS
  MaxCalls = 3
  Calls <- MCCalls
SPECIFICATION DispatchSpec
INVARIANTS
  DispatchTypeOK
  ResultPerCall
  DeadlineIsOwn
  SurfacesCause
PROPERTIES
  ImplementsFanOut
