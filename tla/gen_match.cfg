SPECIFICATION Spec
CONSTANTS
  Width = 5
  Masks <- MCMasks
  Ones = {0, 1, 3}
  MaxRules = 3
  Files <- MCFiles
  Threshold = 100
  BlowupLimit = 2
  IntWidth = 3
  ExpandLimit = 1
INVARIANTS TypeOK DecidesAsLinearTable RulesAreKept RegroupingIsBounded
PROPERTY BuildEnds
CHECK_DEADLOCK FALSE
