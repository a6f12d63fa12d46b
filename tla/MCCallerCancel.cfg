CONSTANTS
  MaxCalls = 3
  MaxCancels = 2
  MaxLeaked = 1
  Children = 2
  RetryAtOnce = FALSE
SPECIFICATION Spec
INVARIANTS
  TypeOK
  NoneInvented
  NoneLost
  CountRestored
  SignalIsTrue

