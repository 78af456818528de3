CONSTANTS
  t1 = t1
  t2 = t2
  t3 = t3
  v0 = v0
  v1 = v1
  None = none
  KeyBits = 3
  MaxEntries = 3
  Threads = {t1, t2, t3}
  Keys <- EightKeys
  Values = {v0, v1}
  Workloads <- CopyWork
SPECIFICATION Spec
SYMMETRY ThreadSymmetry
INVARIANTS RetiredNodesAreUnlinked UnlinkedNodesAreScheduled WritersHoldTheirNodes
PROPERTIES ImplementsIndex WritesAreExclusive ObsoleteIsFinal
