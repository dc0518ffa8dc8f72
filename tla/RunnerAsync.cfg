CONSTANTS
  Docs <- AsyncDocs
  MaxPages = 2
  SinkBuffer = 1
  Faults = {"status", "transport", "emit", "flush", "save", "crash", "eval"}
  MaxPageEvents = 2
  MaxItems = 2
  MaxEvents = 3
  MaxDrains = 2
SPECIFICATION FairSpec
INVARIANTS TypeOK AtLeastOnce QuietSink
PROPERTIES DrainReturns
