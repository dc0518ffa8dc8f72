CONSTANTS
  NanosPerSecond = 2
  MillisPerSecond = 2
  ExponentFrom = 10
  Recipes <- NumericMark
  FirstPos = 8
  MaxClock = 11
  Lookback = 8
  PageSize = 1
  Flight = 1
  MaxFaults = 0
SPECIFICATION Spec
INVARIANT MarkLegible
