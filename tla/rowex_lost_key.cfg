CONSTANTS
  t1 = t1
  t2 = t2
  t3 = t3
  v0 = v0
  v1 = v1
  None = none
  KeyBits = 3
  MaxEntries = 2
  Threads = {t1, t2}
  Keys <- EightKeys
  Values = {v0, v1}
  Workloads <- LostKeyWork
SPECIFICATION Spec
PROPERTY NoKeyIsLost
