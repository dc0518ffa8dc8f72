CONSTANTS
  Docs <- SyncDocs
  MaxPages = 2
  SinkBuffer = 0
  Faults = {"status", "transport", "eval", "emit", "flush", "save", "load", "crash", "cancel"}
  MaxPageEvents = 1
  MaxItems = 1
  MaxEvents = 2
  MaxDrains = 2
SPECIFICATION FairSpec
INVARIANTS CleanReturn RefusedPageLeavesNoTrace
PROPERTIES DrainReturns CancelStops
