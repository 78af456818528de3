CONSTANTS
  ByteWidth = 2
  KeyBits = 4
  MaxEntries = 3
  v0 = v0
  v1 = v1
  None = none
  Values = {v0, v1}
  Keys <- AllKeys
  Calls <- ShrinkingCalls
  Loads <- SixteenLoads
SPECIFICATION Spec
PROPERTY OtherKeysAreKept
CHECK_DEADLOCK FALSE
