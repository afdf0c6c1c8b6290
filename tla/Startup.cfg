SPECIFICATION Spec
CONSTANTS
  BinaryKnown = TRUE
  Devices <- Machine
  Caps <- MachineCaps
  Virtual <- OwnDevices
  Files <- UserFiles
  FlagSets <- UserFlags
  Typed <- UserAnswers
  MaxStarts = 2
  MaxEdits = 2
INVARIANTS
  WizardSuffices
  SavedIsReloaded
PROPERTIES
  GoodFileSurvives
CHECK_DEADLOCK FALSE
