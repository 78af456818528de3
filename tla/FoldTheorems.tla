----------------------------- MODULE FoldTheorems -----------------------------
(***************************************************************************)
(* What FoldLeft computes, for any operator: the last of a chain that      *)
(* starts with the base and takes one element of the sequence per step.    *)
(***************************************************************************)
EXTENDS OrderTheorems

CONSTANT Op(_, _)

\* The recursion over the subsets of 1 .. k that FoldLeft is defined by, and what
\* it folds a sequence of n elements into.
Greatest(s) == CHOOSE x \in s : \A y \in s : x >= y
Folds(g, base, seq, k) ==
  g = [s \in SUBSET (1 .. k) |->
         IF s = {} THEN base ELSE Op(g[s \ {Greatest(s)}], seq[Greatest(s)])]
Folded(base, seq, n) == (CHOOSE g : Folds(g, base, seq, n))[1 .. n]

\* The greatest of some of the numbers 1 to k.
LEMMA GreatestUpTo ==
  ASSUME NEW k \in Nat, NEW s \in SUBSET (1 .. k), s # {}
  PROVE  /\ Greatest(s) \in s /\ \A x \in s : x <= Greatest(s)
         /\ k \in s => Greatest(s) = k
<1>1. s \subseteq Nat /\ \A x \in s : x <= k
  OBVIOUS
<1>2. Greatest(s) \in s /\ \A x \in s : x <= Greatest(s)
  BY <1>1, MaxIsGreatest DEF Max, Greatest
<1>3. Greatest(s) \in Nat /\ Greatest(s) <= k
  BY <1>1, <1>2
<1>4. k \in s => Greatest(s) = k
  BY <1>2, <1>3
<1> QED BY <1>2, <1>4

\* The recursion has a solution.
LEMMA FoldExists ==
  ASSUME NEW n \in Nat, NEW base, NEW seq
  PROVE  \E g : Folds(g, base, seq, n)
<1> DEFINE Unsolved == { k \in Nat : ~ \E g : Folds(g, base, seq, k) }
<1>1. \E g : Folds(g, base, seq, 0)
  <2> DEFINE g == [s \in SUBSET (1 .. 0) |-> base]
  <2>1. \A s \in SUBSET (1 .. 0) : s = {}
    OBVIOUS
  <2>2. g = [s \in SUBSET (1 .. 0) |->
               IF s = {} THEN base ELSE Op(g[s \ {Greatest(s)}], seq[Greatest(s)])]
    BY <2>1
  <2> QED BY <2>2 DEF Folds
<1>2. ASSUME NEW k \in Nat, NEW g, Folds(g, base, seq, k)
      PROVE  \E f : Folds(f, base, seq, k + 1)
  <2> DEFINE f == [s \in SUBSET (1 .. k + 1) |->
                     IF k + 1 \in s THEN Op(g[s \ {k + 1}], seq[k + 1]) ELSE g[s]]
             Step(s) == IF s = {} THEN base ELSE Op(f[s \ {Greatest(s)}], seq[Greatest(s)])
  <2>1. \A s \in SUBSET (1 .. k) : s \in SUBSET (1 .. k + 1) /\ k + 1 \notin s
    OBVIOUS
  <2>2. \A s \in SUBSET (1 .. k) : f[s] = g[s]
    BY <2>1
  <2>3. ASSUME NEW s \in SUBSET (1 .. k + 1), k + 1 \in s PROVE f[s] = Step(s)
    <3>1. s # {} /\ Greatest(s) = k + 1
      BY <2>3, GreatestUpTo
    <3>2. s \ {k + 1} \in SUBSET (1 .. k)
      OBVIOUS
    <3>3. f[s \ {k + 1}] = g[s \ {k + 1}]
      BY <2>2, <3>2
    <3>4. f[s] = Op(g[s \ {k + 1}], seq[k + 1])
      BY <2>3
    <3> HIDE DEF f
    <3> QED BY <3>1, <3>3, <3>4
  <2>4. ASSUME NEW s \in SUBSET (1 .. k + 1), k + 1 \notin s PROVE f[s] = Step(s)
    <3>1. s \in SUBSET (1 .. k)
      BY <2>4
    <3>2. s \ {Greatest(s)} \in SUBSET (1 .. k)
      BY <3>1
    <3>3. f[s] = g[s] /\ f[s \ {Greatest(s)}] = g[s \ {Greatest(s)}]
      BY <2>2, <3>1, <3>2
    <3>4. g[s] = IF s = {} THEN base ELSE Op(g[s \ {Greatest(s)}], seq[Greatest(s)])
      BY <1>2, <3>1 DEF Folds
    <3> HIDE DEF f
    <3> QED BY <3>3, <3>4
  <2>5. f = [s \in SUBSET (1 .. k + 1) |-> f[s]]
    OBVIOUS
  <2> HIDE DEF f, Step
  <2>6. f = [s \in SUBSET (1 .. k + 1) |-> Step(s)]
    BY <2>3, <2>4, <2>5
  <2> QED BY <2>6 DEF Folds, Step
<1>3. CASE Unsolved = {}
  BY <1>3
<1>4. CASE Unsolved # {}
  <2>1. PICK k \in Unsolved : \A l \in Unsolved : k <= l
    BY <1>4, LeastNatural
  <2>2. k # 0
    BY <1>1, <2>1
  <2>3. k - 1 \in Nat /\ k - 1 \notin Unsolved /\ (k - 1) + 1 = k
    BY <2>1, <2>2
  <2>4. PICK g : Folds(g, base, seq, k - 1)
    BY <2>3
  <2>5. \E f : Folds(f, base, seq, k)
    BY <1>2, <2>3, <2>4
  <2> QED BY <2>1, <2>5
<1> QED BY <1>3, <1>4

Chain(h, base, seq, n) ==
  /\ h[0] = base
  /\ \A i \in 1 .. n : h[i] = Op(h[i - 1], seq[i])
  /\ Folded(base, seq, n) = h[n]

\* A fold is the end of a chain of applications of the operator.
LEMMA FoldIsChain ==
  ASSUME NEW n \in Nat, NEW seq, NEW base
  PROVE  \E h : Chain(h, base, seq, n)
<1> DEFINE g == CHOOSE f : Folds(f, base, seq, n)
           h == [i \in 0 .. n |-> g[1 .. i]]
<1>1. Folded(base, seq, n) = g[1 .. n]
  BY DEF Folded
<1>2. Folds(g, base, seq, n)
  BY FoldExists
<1> HIDE DEF g
<1>3. g[{}] = base
  BY <1>2 DEF Folds
<1>4. h[0] = base /\ Folded(base, seq, n) = h[n]
  BY <1>1, <1>3
<1>5. ASSUME NEW i \in 1 .. n PROVE h[i] = Op(h[i - 1], seq[i])
  <2>1. /\ 1 .. i \in SUBSET (1 .. n) /\ 1 .. i \in SUBSET (1 .. i) /\ i \in 1 .. i /\ i \in Nat
        /\ 1 .. i - 1 \in SUBSET (1 .. n)
    OBVIOUS
  <2>5. (1 .. i) \ {i} = 1 .. i - 1
    <3>1. \A x : x \in (1 .. i) \ {i} <=> x \in 1 .. i - 1
      OBVIOUS
    <3> QED BY <3>1
  <2>2. Greatest(1 .. i) = i /\ 1 .. i # {}
    BY <2>1, GreatestUpTo
  <2>3. g[1 .. i] = Op(g[(1 .. i) \ {i}], seq[i])
    BY <1>2, <2>1, <2>2 DEF Folds
  <2>4. h[i] = g[1 .. i] /\ h[i - 1] = g[1 .. i - 1]
    OBVIOUS
  <2> QED BY <2>5, <2>3, <2>4
<1>6. Chain(h, base, seq, n)
  BY <1>4, <1>5 DEF Chain
<1> QED BY <1>6

-----------------------------------------------------------------------------
(* The recursion from an index down to another: what SplitUpwards of       *)
(* HotRowex does along a path, from the insert level to the topmost split. *)

Climbs(g, base, seq, a, b) ==
  g = [i \in a .. b |-> IF i < b THEN Op(g[i + 1], seq[i]) ELSE base]
Climbed(base, seq, a, b) == (CHOOSE g : Climbs(g, base, seq, a, b))[a]

ChainUp(h, base, seq, a, b) ==
  /\ h[b] = base
  /\ \A i \in a .. b - 1 : h[i] = Op(h[i + 1], seq[i])
  /\ Climbed(base, seq, a, b) = h[a]

\* The recursion has a solution.
LEMMA ClimbExists ==
  ASSUME NEW b \in Nat, NEW base, NEW seq, NEW k \in 0 .. b
  PROVE  \E g : Climbs(g, base, seq, b - k, b)
<1> DEFINE Unsolved == { l \in 0 .. b : ~ \E g : Climbs(g, base, seq, b - l, b) }
<1>1. \E g : Climbs(g, base, seq, b - 0, b)
  <2> DEFINE g == [i \in b .. b |-> base]
  <2>1. g = [i \in b .. b |-> IF i < b THEN Op(g[i + 1], seq[i]) ELSE base]
    OBVIOUS
  <2>2. b - 0 = b
    OBVIOUS
  <2> QED BY <2>1, <2>2 DEF Climbs
<1>2. ASSUME NEW a \in Nat, a < b, NEW g, Climbs(g, base, seq, a + 1, b)
      PROVE  \E f : Climbs(f, base, seq, a, b)
  <2> DEFINE f == [i \in a .. b |-> IF i = a THEN Op(g[a + 1], seq[a]) ELSE g[i]]
             Step(i) == IF i < b THEN Op(f[i + 1], seq[i]) ELSE base
  <2>1. f[a] = Op(g[a + 1], seq[a]) /\ \A i \in a + 1 .. b : f[i] = g[i]
    BY <1>2
  <2>2. f = [i \in a .. b |-> f[i]]
    OBVIOUS
  <2> HIDE DEF f
  <2>3. f[a] = Step(a)
    <3>1. a + 1 \in a + 1 .. b
      BY <1>2
    <3> QED BY <1>2, <2>1, <3>1
  <2>4. ASSUME NEW i \in a + 1 .. b PROVE f[i] = Step(i)
    <3>1. g[i] = IF i < b THEN Op(g[i + 1], seq[i]) ELSE base
      BY <1>2 DEF Climbs
    <3>2. i < b => f[i + 1] = g[i + 1]
      BY <2>1
    <3> QED BY <2>1, <3>1, <3>2
  <2>5. \A i \in a .. b : i = a \/ i \in a + 1 .. b
    OBVIOUS
  <2> HIDE DEF Step
  <2>6. f = [i \in a .. b |-> Step(i)]
    BY <2>2, <2>3, <2>4, <2>5
  <2> QED BY <2>6 DEF Climbs, Step
<1>3. Unsolved \subseteq Nat
  OBVIOUS
<1>4. CASE Unsolved = {}
  BY <1>4
<1>5. CASE Unsolved # {}
  <2> HIDE DEF Unsolved
  <2>1. PICK l \in Unsolved : \A m \in Unsolved : l <= m
    BY <1>3, <1>5, LeastNatural
  <2> USE DEF Unsolved
  <2>2. l \in 0 .. b /\ ~ \E g : Climbs(g, base, seq, b - l, b)
    BY <2>1
  <2>3. l # 0
    BY <1>1, <2>2
  <2>4. l - 1 \in 0 .. b /\ ~ (l <= l - 1) /\ b - l \in Nat /\ b - l < b /\ b - (l - 1) = (b - l) + 1
    BY <2>2, <2>3
  <2>5. l - 1 \notin Unsolved
    BY <2>1, <2>4
  <2>6. PICK g : Climbs(g, base, seq, b - (l - 1), b)
    BY <2>4, <2>5
  <2>7. Climbs(g, base, seq, (b - l) + 1, b)
    BY <2>4, <2>6
  <2>8. \E f : Climbs(f, base, seq, b - l, b)
    BY <1>2, <2>4, <2>7
  <2> QED BY <2>2, <2>8
<1> QED BY <1>4, <1>5

\* What the recursion computes is the end of a chain that starts at the upper index.
LEMMA ClimbIsChain ==
  ASSUME NEW a \in Nat, NEW b \in Nat, a <= b, NEW base, NEW seq
  PROVE  \E h : ChainUp(h, base, seq, a, b)
<1> DEFINE h == CHOOSE g : Climbs(g, base, seq, a, b)
<1>1. b - a \in 0 .. b /\ b - (b - a) = a
  OBVIOUS
<1>2. \E g : Climbs(g, base, seq, b - (b - a), b)
  BY <1>1, ClimbExists
<1>3. \E g : Climbs(g, base, seq, a, b)
  BY <1>1, <1>2
<1>4. Climbs(h, base, seq, a, b)
  BY <1>3
<1>5. Climbed(base, seq, a, b) = h[a]
  BY DEF Climbed
<1> HIDE DEF h
<1>6. h = [i \in a .. b |-> IF i < b THEN Op(h[i + 1], seq[i]) ELSE base]
  BY <1>4 DEF Climbs
<1>7. h[b] = base /\ \A i \in a .. b - 1 : h[i] = Op(h[i + 1], seq[i])
  BY <1>6
<1>8. ChainUp(h, base, seq, a, b)
  BY <1>5, <1>7 DEF ChainUp
<1> QED BY <1>8

-----------------------------------------------------------------------------
(* The recursion that counts up: what Preloaded of HotRowex does with the  *)
(* keys, PathBy of HotPath with the nodes of a path, and PointersFrom with *)
(* the levels of a trie.                                                   *)

Rises(g, base, seq, n) == g = [i \in 0 .. n |-> IF i = 0 THEN base ELSE Op(g[i - 1], seq[i])]

\* The recursion has a solution.
LEMMA RiseExists ==
  ASSUME NEW n \in Nat, NEW base, NEW seq
  PROVE  \E g : Rises(g, base, seq, n)
<1> DEFINE Unsolved == { k \in Nat : ~ \E g : Rises(g, base, seq, k) }
<1>1. \E g : Rises(g, base, seq, 0)
  <2> DEFINE g == [i \in 0 .. 0 |-> base]
  <2>1. g = [i \in 0 .. 0 |-> IF i = 0 THEN base ELSE Op(g[i - 1], seq[i])]
    OBVIOUS
  <2> QED BY <2>1 DEF Rises
<1>2. ASSUME NEW k \in Nat, NEW g, Rises(g, base, seq, k)
      PROVE  \E f : Rises(f, base, seq, k + 1)
  <2> DEFINE f == [i \in 0 .. k + 1 |-> IF i = k + 1 THEN Op(g[k], seq[k + 1]) ELSE g[i]]
             Step(i) == IF i = 0 THEN base ELSE Op(f[i - 1], seq[i])
  <2>1. f[k + 1] = Op(g[k], seq[k + 1]) /\ \A i \in 0 .. k : f[i] = g[i]
    BY <1>2
  <2>2. f = [i \in 0 .. k + 1 |-> f[i]]
    OBVIOUS
  <2> HIDE DEF f
  <2>3. f[k + 1] = Step(k + 1)
    <3>1. k \in 0 .. k /\ (k + 1) - 1 = k /\ k + 1 # 0
      BY <1>2
    <3>2. f[k] = g[k]
      BY <2>1, <3>1
    <3> QED BY <2>1, <3>1, <3>2
  <2>4. ASSUME NEW i \in 0 .. k PROVE f[i] = Step(i)
    <3>1. g[i] = IF i = 0 THEN base ELSE Op(g[i - 1], seq[i])
      BY <1>2 DEF Rises
    <3>2. i # 0 => f[i - 1] = g[i - 1]
      BY <2>1
    <3> QED BY <2>1, <3>1, <3>2
  <2>5. \A i \in 0 .. k + 1 : i = k + 1 \/ i \in 0 .. k
    OBVIOUS
  <2> HIDE DEF Step
  <2>6. f = [i \in 0 .. k + 1 |-> Step(i)]
    BY <2>2, <2>3, <2>4, <2>5
  <2> QED BY <2>6 DEF Rises, Step
<1>3. CASE Unsolved = {}
  BY <1>3
<1>4. CASE Unsolved # {}
  <2>1. PICK k \in Unsolved : \A l \in Unsolved : k <= l
    BY <1>4, LeastNatural
  <2>2. k # 0
    BY <1>1, <2>1
  <2>3. k - 1 \in Nat /\ k - 1 \notin Unsolved /\ (k - 1) + 1 = k
    BY <2>1, <2>2
  <2>4. PICK g : Rises(g, base, seq, k - 1)
    BY <2>3
  <2>5. \E f : Rises(f, base, seq, k)
    BY <1>2, <2>3, <2>4
  <2> QED BY <2>1, <2>5
<1> QED BY <1>3, <1>4

\* Step by step, it takes the elements in their order.
LEMMA RiseIsChain ==
  ASSUME NEW n \in Nat, NEW base, NEW seq, NEW g, Rises(g, base, seq, n)
  PROVE  g[0] = base /\ \A i \in 1 .. n : g[i] = Op(g[i - 1], seq[i])
BY DEF Rises
=============================================================================
