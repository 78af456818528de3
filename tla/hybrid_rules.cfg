CONSTANTS
  KeyBits = 4
  MaxEntries = 3
  ByteWidth = 2
  Rules <- MCRules
SPECIFICATION Spec
INVARIANTS RulesAreFound MatchesAreRules
CHECK_DEADLOCK FALSE
