CONSTANTS
  Producers = {"any"}
  MaxLength = 2
  MaxConcurrency = 2
  MaxQueueSize = 2
  FnOutcomes = {"value", "error", "cancelled"}
  Calls <- MCCalls
SPECIFICATION Spec
PROPERTIES
  ImplementsFanOut
  Termination
