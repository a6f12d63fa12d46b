CONSTANTS
  MaxCalls = 2
  Calls <- MCCalls
SPECIFICATION DispatchSpec
INVARIANT
  WrappedDoc
