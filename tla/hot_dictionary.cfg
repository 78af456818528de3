CONSTANTS
  ByteWidth = 2
  KeyBits = 5
  MaxEntries = 4
  v0 = v0
  v1 = v1
  None = none
  Values = {v0, v1}
  Keys <- MixedKeys
  Calls <- MixedCalls
  Loads <- MixedLoads
SPECIFICATION Spec
INVARIANTS LayoutsAreFaithful MemoryIsBalanced PartitionsAreCorrect IterationIsOrdered
PROPERTY ImplementsDictionary
CHECK_DEADLOCK FALSE
