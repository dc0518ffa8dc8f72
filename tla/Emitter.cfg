CONSTANTS
  Capacity = 2
  MaxEvents = 6
SPECIFICATION FairSpec
INVARIANTS InOrder
PROPERTIES SendUnblocks Implements
