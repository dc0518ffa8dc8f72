CONSTANTS
  NanosPerSecond = 2
  MillisPerSecond = 2
  ExponentFrom = 100
  Recipes <- SafeRecipes
  FirstPos = 8
  MaxClock = 10
  Lookback = 8
  PageSize = 1
  Flight = 1
  MaxFaults = 2
SPECIFICATION FairSpec
INVARIANTS NothingBehind MarkLegible
PROPERTIES MarkMonotone EventuallyDelivered
