CONSTANTS
  MaxItems = 3
  MaxConcurrency = 2
  Calls <- MCCalls
SPECIFICATION Spec
INVARIANTS
  TypeOK
  SlotAccounting
  AbortIsVisible
  CleanReturn
  CollectKeepsBatch
PROPERTIES
  FailFast
  HonestAttribution
  ImplementsFanOut
  Termination
