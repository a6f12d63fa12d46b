CONSTANTS
  Producers = {"any"}
  MaxLength = 3
  MaxConcurrency = 1
  MaxQueueSize = 1
  FnOutcomes = {"value", "error"}
  Calls <- MCCalls
SPECIFICATION Spec
INVARIANT
  ProducerAheadDoc
