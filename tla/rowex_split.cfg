CONSTANTS
  t1 = t1
  t2 = t2
  t3 = t3
  v0 = v0
  v1 = v1
  None = none
  KeyBits = 3
  MaxEntries = 2
  Threads = {t1, t2, t3}
  Keys <- EightKeys
  Values = {v1}
  Workloads <- SplitWork
SPECIFICATION Spec
INVARIANTS TypeOK TrieInvariant
PROPERTIES ImplementsIndex CallsReturn
