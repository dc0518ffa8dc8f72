SPECIFICATION Spec
CONSTANTS
  NanosPerSecond = 4
  MillisPerSecond = 2
  ExponentFrom = 100
  Documents <- MCDocuments
  Responses <- MCResponses
  Tokens <- MCTokens
  MaxPages = 2
  MaxDrains = 2
  MaxRefires = 1
  Clock = 3
  MaxDepth = 7
CHECK_DEADLOCK FALSE
INVARIANTS
  AcceptedRuns
  PaginationStartsOver
  ResumesFromSnapshot
  IterationsSeeOnlyState
