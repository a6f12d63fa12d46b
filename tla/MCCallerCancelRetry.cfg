CONSTANTS
  MaxCalls = 2
  MaxCancels = 0
  MaxLeaked = 0
  Children = 1
  RetryAtOnce = TRUE
SPECIFICATION Spec
INVARIANT
  NoneInvented
