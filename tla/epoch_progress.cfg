CONSTANTS
  Threads = {t1, t2}
  Nodes = {n1, n2, n3}
  AdvanceEvery = 1
SPECIFICATION Spec
INVARIANT NoDoubleFree
PROPERTY AdvanceIsNotStarved
