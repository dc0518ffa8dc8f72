CONSTANTS
  r1 = r1
  r2 = r2
  r3 = r3
  s1 = s1
  s2 = s2
  Runners = {r1, r2, r3}
  Stores = {s1, s2}
  StoreOf <- SharedByTwo
  MaxDrains = 2
  Faults = {"io", "kill", "power"}
SPECIFICATION FairSpec
INVARIANTS TypeOK NeverCorrupt SoleWriterKeepsAll
PROPERTIES SaveReturns ImplementsStore
