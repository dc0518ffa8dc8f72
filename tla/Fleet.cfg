SPECIFICATION FairSpec
CONSTANTS
  Configs <- MCConfigs
  DeriveState <- Paths
  FileOf <- Spelled
  EventsPerDrain = 1
  MaxDrains = 2
CHECK_DEADLOCK FALSE
INVARIANTS
  LinesWhole
  SavedIsWritten
  SummaryTrue
  ExitTellsTruth
PROPERTIES
  ResumesOwn
  SignalEnds
