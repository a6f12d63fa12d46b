CONSTANTS
  Producers = {"any", "ready"}
  MaxLength = 3
  MaxConcurrency = 2
  MaxQueueSize = 2
  FnOutcomes = {"value", "error", "cancelled", "base"}
  Calls <- MCCalls
SPECIFICATION SourcesSpec
INVARIANTS
  TypeOK
  AbortIsVisible
  NoneLeftParked
  TaskDoneMatchesGet
  Backpressure
  CleanReturn
  CollectKeepsBatch
  ReportTells
