SPECIFICATION PrefixSpec
CONSTANTS
  Width = 3
  Masks <- ProperMasks
  Priorities = 3
  RulesOffered <- MCRules
  Threshold = 7
  BlowupLimit = 1
  IntWidth = 3
  MaxInserts = 3
INVARIANTS TypeOK SearchIsBestMatch AnswersAreRules NoRuleIsMissed NodeCountIsExact
CHECK_DEADLOCK FALSE
