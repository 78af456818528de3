SPECIFICATION ExactSpec
CONSTANTS
  Width = 3
  Masks <- LowMasks
  Priorities = 1
  RulesOffered <- MCRules
  Threshold = 100
  BlowupLimit = 1
  IntWidth = 4
  MaxInserts = 4
INVARIANTS SearchAgreesWithTable NoUselessNodes
PROPERTY DeletesOneAtMost
CHECK_DEADLOCK FALSE
