---------------------------- MODULE OrderTheorems ----------------------------
(***************************************************************************)
(* Facts about least elements and orders that the proofs about the         *)
(* matchers rest on.  Induction is done by a least counterexample: a       *)
(* nonempty set of natural numbers has a least element.                    *)
(***************************************************************************)
EXTENDS Integers, SequencesExt, FiniteSetTheorems, WellFoundedInduction, TLAPS

-----------------------------------------------------------------------------
(* Least and greatest elements                                             *)

\* A nonempty set of natural numbers has a least element.
LEMMA LeastNatural ==
  ASSUME NEW T, T \subseteq Nat, T # {}
  PROVE  \E x \in T : \A y \in T : x <= y
<1> DEFINE R == OpToRel(<, Nat)
<1>1. IsWellFoundedOn(R, Nat)
  BY NatLessThanWellFounded
<1>2. \A x, y \in Nat : y < x => << y, x >> \in R
  BY DEF OpToRel
<1> HIDE DEF R
<1>3. PICK x \in T : \A y \in T : ~ (<< y, x >> \in R)
  BY <1>1, WFMin
<1>4. ASSUME NEW y \in T PROVE x <= y
  <2>1. x \in Nat /\ y \in Nat
    OBVIOUS
  <2>2. ~ (y < x)
    BY <1>2, <1>3, <2>1
  <2> QED BY <2>1, <2>2
<1> QED BY <1>4

\* One that is bounded has a greatest element.
LEMMA GreatestNatural ==
  ASSUME NEW T, T \subseteq Nat, T # {}, NEW n \in Nat, \A x \in T : x <= n
  PROVE  \E x \in T : \A y \in T : y <= x
<1> DEFINE U == { n - x : x \in T }
<1>1. U \subseteq Nat /\ U # {}
  <2>1. \A x \in T : x \in Nat /\ x <= n /\ n - x \in Nat
    OBVIOUS
  <2> QED BY <2>1
<1>2. PICK u \in U : \A w \in U : u <= w
  BY <1>1, LeastNatural
<1>3. PICK x \in T : u = n - x
  BY <1>2
<1>4. ASSUME NEW y \in T PROVE y <= x
  <2>1. n - x <= n - y /\ x \in Nat /\ y \in Nat
    BY <1>2, <1>3
  <2> QED BY <2>1
<1> QED BY <1>4

\* Max and Min of a set of natural numbers.
LEMMA MaxIsGreatest ==
  ASSUME NEW T, T \subseteq Nat, T # {}, NEW n \in Nat, \A x \in T : x <= n
  PROVE  Max(T) \in T /\ \A y \in T : y <= Max(T)
<1>1. \E x \in T : \A y \in T : y <= x
  BY GreatestNatural
<1>2. \E x \in T : \A y \in T : x >= y
  BY <1>1
<1>3. Max(T) \in T /\ \A y \in T : Max(T) >= y
  BY <1>2 DEF Max
<1> QED BY <1>3

\* Min of a nonempty set of natural numbers is its least element.
LEMMA MinIsLeast ==
  ASSUME NEW T, T \subseteq Nat, T # {}
  PROVE  Min(T) \in T /\ \A y \in T : Min(T) <= y
<1>1. \E x \in T : \A y \in T : x <= y
  BY LeastNatural
<1> QED BY <1>1 DEF Min

-----------------------------------------------------------------------------
(* The elements of a finite set in order                                   *)

StrictOrder(R, S) ==
  /\ \A x \in S : << x, x >> \notin R
  /\ \A x, y, z \in S : << x, y >> \in R /\ << y, z >> \in R => << x, z >> \in R
  /\ \A x, y \in S : x = y \/ << x, y >> \in R \/ << y, x >> \in R

Under(R, S, x) == { y \in S : << y, x >> \in R }

\* In a strict total order of a finite set the number of elements below one is
\* between zero and the size of the set less one, different elements have
\* different numbers, and every number is taken.
LEMMA RanksAreDistinct ==
  ASSUME NEW S, IsFiniteSet(S), NEW R, StrictOrder(R, S),
         NEW rank, rank = [x \in S |-> Cardinality(Under(R, S, x))]
  PROVE  /\ rank \in Bijection(S, 0 .. Cardinality(S) - 1)
         /\ \A x, y \in S : << x, y >> \in R <=> rank[x] < rank[y]
<1> DEFINE below(x) == Under(R, S, x)
<1>1. Cardinality(S) \in Nat
  BY FS_CardinalityType
<1>2. ASSUME NEW x \in S
      PROVE  IsFiniteSet(below(x)) /\ rank[x] \in 0 .. Cardinality(S) - 1 /\ rank[x] = Cardinality(below(x))
  <2>1. below(x) \subseteq S \ {x}
    BY DEF StrictOrder, Under
  <2>2. IsFiniteSet(S \ {x}) /\ Cardinality(S \ {x}) = Cardinality(S) - 1
    BY FS_RemoveElement
  <2>5. rank[x] = Cardinality(below(x))
    OBVIOUS
  <2> HIDE DEF below
  <2>3. IsFiniteSet(below(x)) /\ Cardinality(below(x)) <= Cardinality(S) - 1
    BY <2>1, <2>2, FS_Subset
  <2>4. Cardinality(below(x)) \in Nat
    BY <2>3, FS_CardinalityType
  <2> QED BY <1>1, <2>3, <2>4, <2>5
<1>3. ASSUME NEW x \in S, NEW y \in S, << x, y >> \in R
      PROVE  rank[x] < rank[y]
  <2>1. below(x) \subseteq below(y) /\ x \in below(y) /\ x \notin below(x)
    BY <1>3 DEF StrictOrder, Under
  <2>2. IsFiniteSet(below(y)) /\ IsFiniteSet(below(x))
    BY <1>2
  <2> HIDE DEF below
  <2>3. Cardinality(below(x)) <= Cardinality(below(y)) /\ Cardinality(below(x)) # Cardinality(below(y))
    BY <2>1, <2>2, FS_Subset
  <2>4. rank[x] \in Nat /\ rank[y] \in Nat /\ rank[x] = Cardinality(below(x)) /\ rank[y] = Cardinality(below(y))
    BY <1>1, <1>2
  <2> QED BY <2>3, <2>4
<1> HIDE DEF below
<1>4. \A x \in S : rank[x] \in Nat /\ rank[x] \in 0 .. Cardinality(S) - 1
  BY <1>1, <1>2
<1>5. ASSUME NEW x \in S, NEW y \in S PROVE << x, y >> \in R <=> rank[x] < rank[y]
  <2>1. rank[x] \in Nat /\ rank[y] \in Nat
    BY <1>4
  <2>2. CASE << x, y >> \in R
    BY <1>3, <2>2
  <2>3. CASE << y, x >> \in R
    <3>1. rank[y] < rank[x]
      BY <1>3, <2>3
    <3>2. ~ (<< x, y >> \in R)
      BY <2>3 DEF StrictOrder
    <3> QED BY <2>1, <3>1, <3>2
  <2>4. CASE x = y
    BY <2>1, <2>4 DEF StrictOrder
  <2> QED BY <2>2, <2>3, <2>4 DEF StrictOrder
<1>6. rank \in Injection(S, 0 .. Cardinality(S) - 1)
  <2>1. rank \in [S -> 0 .. Cardinality(S) - 1]
    BY <1>4
  <2>2. \A x, y \in S : rank[x] = rank[y] => x = y
    <3> SUFFICES ASSUME NEW x \in S, NEW y \in S, rank[x] = rank[y] PROVE x = y
      OBVIOUS
    <3>1. ~ (rank[x] < rank[y]) /\ ~ (rank[y] < rank[x])
      BY <1>4
    <3> QED BY <1>5, <3>1 DEF StrictOrder
  <2> QED BY <2>1, <2>2 DEF Injection, IsInjective
<1>7. IsFiniteSet(0 .. Cardinality(S) - 1) /\ Cardinality(0 .. Cardinality(S) - 1) = Cardinality(S)
  BY <1>1, FS_Interval
<1>8. rank \in Surjection(S, 0 .. Cardinality(S) - 1)
  BY <1>6, <1>7, FS_Injection
<1> QED BY <1>5, <1>6, <1>8 DEF Bijection

\* What InOrder defines, for the relation of its order: every element once, from
\* the least to the greatest.
LEMMA OrderedOnce ==
  ASSUME NEW S, IsFiniteSet(S), NEW R, StrictOrder(R, S),
         NEW order, order = [i \in 1 .. Cardinality(S) |-> order[i]],
         \A i \in 1 .. Cardinality(S) :
           (\E x \in S : Cardinality(Under(R, S, x)) = i - 1) =>
             order[i] \in S /\ Cardinality(Under(R, S, order[i])) = i - 1
  PROVE  /\ order \in Bijection(1 .. Cardinality(S), S)
         /\ \A i, j \in 1 .. Cardinality(S) : << order[i], order[j] >> \in R <=> i < j
         /\ \A i \in 1 .. Cardinality(S) : Cardinality(Under(R, S, order[i])) = i - 1
<1> DEFINE rank == [x \in S |-> Cardinality(Under(R, S, x))]
           n == Cardinality(S)
<1>1. /\ rank \in Bijection(S, 0 .. n - 1)
      /\ \A x, y \in S : << x, y >> \in R <=> rank[x] < rank[y]
  BY RanksAreDistinct
<1>2. n \in Nat
  BY FS_CardinalityType
<1>3. ASSUME NEW i \in 1 .. n PROVE order[i] \in S /\ rank[order[i]] = i - 1
  <2>1. i - 1 \in 0 .. n - 1
    BY <1>2
  <2>2. \E x \in S : rank[x] = i - 1
    BY <1>1, <2>1 DEF Bijection, Surjection
  <2>3. \E x \in S : Cardinality(Under(R, S, x)) = i - 1
    BY <2>2
  <2>4. order[i] \in S /\ Cardinality(Under(R, S, order[i])) = i - 1
    BY <2>3
  <2> QED BY <2>4
<1>9. \A i \in 1 .. n : Cardinality(Under(R, S, order[i])) = i - 1
  BY <1>3
<1> HIDE DEF rank, n
<1>4. order \in [1 .. n -> S]
  BY <1>3 DEF n
<1>5. \A i, j \in 1 .. n : order[i] = order[j] => i = j
  <2> SUFFICES ASSUME NEW i \in 1 .. n, NEW j \in 1 .. n, order[i] = order[j] PROVE i = j
    OBVIOUS
  <2>1. i - 1 = j - 1
    BY <1>3
  <2> QED BY <1>2, <2>1
<1>6. ASSUME NEW x \in S PROVE \E i \in 1 .. n : order[i] = x
  <2>1. rank[x] \in 0 .. n - 1
    BY <1>1 DEF Bijection, Surjection
  <2>2. rank[x] + 1 \in 1 .. n /\ (rank[x] + 1) - 1 = rank[x]
    BY <1>2, <2>1
  <2>3. order[rank[x] + 1] \in S /\ rank[order[rank[x] + 1]] = rank[x]
    BY <1>3, <2>2
  <2>4. order[rank[x] + 1] = x
    BY <1>1, <2>3 DEF Bijection, Injection, IsInjective
  <2> QED BY <2>2, <2>4
<1>7. order \in Bijection(1 .. n, S)
  <2>1. order \in Injection(1 .. n, S)
    BY <1>4, <1>5 DEF Injection, IsInjective
  <2>2. order \in Surjection(1 .. n, S)
    BY <1>4, <1>6 DEF Surjection
  <2> QED BY <2>1, <2>2 DEF Bijection
<1>8. ASSUME NEW i \in 1 .. n, NEW j \in 1 .. n PROVE << order[i], order[j] >> \in R <=> i < j
  <2>1. << order[i], order[j] >> \in R <=> i - 1 < j - 1
    BY <1>1, <1>3
  <2> QED BY <1>2, <2>1
<1> QED BY <1>7, <1>8, <1>9 DEF n
=============================================================================
