SPECIFICATION Spec
CONSTANTS
  Templates <- AllTemplates
  Verdicts <- AllVerdicts
  MaxPageSize = 3
  MaxCollection = 4
  MaxPages = 6
  MaxDrains = 2
INVARIANTS
  Complete
  PromptEnd
  NothingSkipped
  StagedWrites
CHECK_DEADLOCK FALSE
