CONSTANTS
  Buffer = 2
  Guess = 4
  Lifetimes = {3, 5}
  Latency = 1
  MaxUses = 2
  MaxTokens = 2
  MaxPages = 2
  MaxDrains = 2
  MaxTime = 6
SPECIFICATION Spec
INVARIANTS TypeOK BufferSuffices DiesOnlyIfLate DroppedNotReused
