CONSTANTS
  Threads = {t1, t2}
  Nodes = {n1, n2, n3, n4}
  AdvanceEvery = 1
SYMMETRY FullSymmetry
SPECIFICATION Spec
INVARIANT NoUseAfterFree
