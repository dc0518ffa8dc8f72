CONSTANTS
  Docs <- OnePageDocs
  MaxPages = 2
  SinkBuffer = 1
  Faults = {"emit"}
  MaxPageEvents = 1
  MaxItems = 1
  MaxEvents = 2
  MaxDrains = 1
SPECIFICATION Spec
INVARIANTS NeverPastSink
