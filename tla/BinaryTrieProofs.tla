--------------------------- MODULE BinaryTrieProofs ---------------------------
(***************************************************************************)
(* What the operations of the two tables of rules do.  The linear table:   *)
(* inserting keeps its rules different, deleting removes the one rule and  *)
(* nothing else, and searching finds the first rule that matches.  The     *)
(* binary trie, for every width, threshold and trie: inserting and         *)
(* expanding rules keeps a tree whose marks answer for exactly the         *)
(* accepted rules, within the node threshold.                              *)
(***************************************************************************)
EXTENDS BinaryTrie, LinearTable, OrderTheorems, SequenceTheorems

Filling == INSTANCE FoldTheorems WITH Op <- InsertIntoTable

-----------------------------------------------------------------------------
(* Picking entries                                                         *)

LessPairs == { pair \in Nat \X Nat : pair[1] < pair[2] }

\* A finite set of indices from the least to the greatest.
LEMMA AscendingIndices ==
  ASSUME NEW S \in SUBSET Nat, IsFiniteSet(S)
  PROVE  /\ Cardinality(S) \in Nat
         /\ InOrder(S, <) \in Bijection(1 .. Cardinality(S), S)
         /\ \A i \in 1 .. Cardinality(S) :
              Cardinality({ y \in S : y < InOrder(S, <)[i] }) = i - 1
<1>1. IsFiniteSet(S) /\ Cardinality(S) \in Nat
  BY FS_CardinalityType
<1>2. StrictOrder(LessPairs, S)
  BY DEF StrictOrder, LessPairs
<1>3. ASSUME NEW x \in S
      PROVE  { y \in S : y < x } = Under(LessPairs, S, x)
  BY DEF LessPairs, Under
<1> DEFINE order == InOrder(S, <)
           Nth(i) == CHOOSE x \in S : Cardinality({ y \in S : y < x }) = i - 1
<1>4. order = [i \in 1 .. Cardinality(S) |-> Nth(i)]
  BY DEF InOrder
<1>5. ASSUME NEW i \in 1 .. Cardinality(S), \E x \in S : Cardinality(Under(LessPairs, S, x)) = i - 1
      PROVE  Nth(i) \in S /\ Cardinality(Under(LessPairs, S, Nth(i))) = i - 1
  BY <1>3, <1>5
<1> HIDE DEF order, Nth
<1>6. /\ order = [i \in 1 .. Cardinality(S) |-> order[i]]
      /\ \A i \in 1 .. Cardinality(S) : order[i] = Nth(i)
  BY <1>4
<1>7. /\ order \in Bijection(1 .. Cardinality(S), S)
      /\ \A i \in 1 .. Cardinality(S) : Cardinality(Under(LessPairs, S, order[i])) = i - 1
  BY <1>1, <1>2, <1>5, <1>6, OrderedOnce
<1>8. \A i \in 1 .. Cardinality(S) : order[i] \in S
  BY <1>7 DEF Bijection, Surjection
<1>9. ASSUME NEW i \in 1 .. Cardinality(S) PROVE Cardinality({ y \in S : y < order[i] }) = i - 1
  BY <1>3, <1>7, <1>8
<1> QED BY <1>1, <1>7, <1>9 DEF order

\* The entries at some indices are entries, every one of those once.
LEMMA PickEntries ==
  ASSUME NEW T, NEW rules \in Seq(T), NEW S \in SUBSET (1 .. Len(rules))
  PROVE  /\ Pick(rules, S) \in Seq(T)
         /\ \E f \in Bijection(1 .. Len(Pick(rules, S)), S) :
              \A i \in 1 .. Len(Pick(rules, S)) : Pick(rules, S)[i] = rules[f[i]]
         /\ Len(Pick(rules, S)) = Cardinality(S)
<1> DEFINE n == Cardinality(S)
           order == InOrder(S, <)
           picked == [i \in 1 .. n |-> rules[order[i]]]
<1>1. Len(rules) \in Nat /\ \A i \in 1 .. Len(rules) : rules[i] \in T
  OBVIOUS
<1>2. IsFiniteSet(1 .. Len(rules))
  BY <1>1, FS_Interval
<1>3. S \in SUBSET Nat /\ IsFiniteSet(S)
  <2>1. IsFiniteSet(S)
    BY <1>2, FS_Subset, Zenon
  <2> QED BY <2>1
<1>4. n \in Nat /\ order \in Bijection(1 .. n, S)
  BY <1>3, AscendingIndices
<1> HIDE DEF n
<1>5. DOMAIN order = 1 .. n /\ \A i \in 1 .. n : order[i] \in S
  BY <1>4 DEF Bijection, Surjection
<1>6. Pick(rules, S) = picked
  BY <1>5 DEF Pick
<1> HIDE DEF order
<1>7. picked \in Seq(T) /\ Len(picked) = n
  <2>1. ASSUME NEW i \in 1 .. n PROVE rules[order[i]] \in T
    <3>1. order[i] \in 1 .. Len(rules)
      BY <1>5
    <3> QED BY <1>1, <3>1
  <2>2. picked \in [1 .. n -> T]
    BY <2>1
  <2> QED BY <1>4, <2>2
<1>8. \A i \in 1 .. n : picked[i] = rules[order[i]]
  OBVIOUS
<1> HIDE DEF picked
<1>9. Pick(rules, S) \in Seq(T) /\ Len(Pick(rules, S)) = n /\ \A i \in 1 .. n : Pick(rules, S)[i] = rules[order[i]]
  BY <1>6, <1>7, <1>8
<1> QED BY <1>4, <1>9 DEF n

\* They stay different if they were.
LEMMA PickKeeps ==
  ASSUME NEW T, NEW rules \in Seq(T), NEW S \in SUBSET (1 .. Len(rules))
  PROVE  /\ Pick(rules, S) \in Seq(T)
         /\ Range(Pick(rules, S)) = { rules[i] : i \in S }
         /\ IsInjective(rules) => IsInjective(Pick(rules, S))
         /\ S # {} => Len(Pick(rules, S)) > 0
<1> DEFINE picked == Pick(rules, S)
           n == Len(picked)
<1>1. picked \in Seq(T) /\ \E f \in Bijection(1 .. n, S) : \A i \in 1 .. n : picked[i] = rules[f[i]]
  BY PickEntries
<1> HIDE DEF picked
<1>2. n \in Nat /\ DOMAIN picked = 1 .. n
  BY <1>1
<1> HIDE DEF n
<1>3. PICK f \in Bijection(1 .. n, S) : \A i \in 1 .. n : picked[i] = rules[f[i]]
  BY <1>1
<1>4. /\ \A i \in 1 .. n : f[i] \in S
      /\ \A i, k \in 1 .. n : f[i] = f[k] => i = k
      /\ \A x \in S : \E i \in 1 .. n : f[i] = x
  BY DEF Bijection, Surjection, Injection, IsInjective
<1>8. \A x \in S : x \in DOMAIN rules
  OBVIOUS
<1>5. Range(picked) = { rules[i] : i \in S }
  <2>1. ASSUME NEW x \in Range(picked) PROVE x \in { rules[i] : i \in S }
    <3>1. PICK i \in 1 .. n : x = picked[i]
      BY <1>2 DEF Range
    <3> QED BY <1>3, <1>4, <3>1
  <2>2. ASSUME NEW j \in S PROVE rules[j] \in Range(picked)
    <3>1. PICK i \in 1 .. n : f[i] = j
      BY <1>4
    <3>2. rules[j] = picked[i]
      BY <1>3, <3>1
    <3> QED BY <1>2, <3>2 DEF Range
  <2> QED BY <2>1, <2>2
<1>6. ASSUME IsInjective(rules) PROVE IsInjective(picked)
  <2> SUFFICES ASSUME NEW i \in 1 .. n, NEW k \in 1 .. n, picked[i] = picked[k] PROVE i = k
    BY <1>2 DEF IsInjective
  <2>1. rules[f[i]] = rules[f[k]] /\ f[i] \in DOMAIN rules /\ f[k] \in DOMAIN rules
    BY <1>3, <1>4, <1>8
  <2> QED BY <1>4, <1>6, <2>1 DEF IsInjective
<1>7. ASSUME S # {} PROVE n > 0
  <2>1. PICK x \in S : TRUE
    BY <1>7
  <2>2. PICK i \in 1 .. n : f[i] = x
    BY <1>4
  <2> QED BY <1>2, <2>2
<1> QED BY <1>1, <1>5, <1>6, <1>7 DEF picked, n

\* Picking all but one entry removes it; picking all changes nothing.
LEMMA PickAllButOne ==
  ASSUME NEW T, NEW rules \in Seq(T)
  PROVE  /\ Pick(rules, DOMAIN rules) = rules
         /\ \A j \in DOMAIN rules : Pick(rules, DOMAIN rules \ {j}) = RemoveAt(rules, j)
<1> DEFINE n == Len(rules)
<1>1. n \in Nat /\ DOMAIN rules = 1 .. n /\ \A i \in 1 .. n : rules[i] \in T
  OBVIOUS
<1> HIDE DEF n
<1>2. IsFiniteSet(1 .. n) /\ Cardinality(1 .. n) = n
  <2>1. /\ IsFiniteSet(1 .. n) /\ Cardinality(1 .. n) = IF 1 > n THEN 0 ELSE n - 1 + 1
    BY <1>1, FS_Interval
  <2> QED BY <1>1, <2>1
<1>3. ASSUME NEW S \in SUBSET (1 .. n), NEW x \in S, NEW i \in 1 .. Cardinality(S),
             Cardinality({ y \in S : y < x }) = i - 1
      PROVE  InOrder(S, <)[i] = x
  <2> DEFINE order == InOrder(S, <)
  <2>1. S \in SUBSET Nat /\ IsFiniteSet(S)
    <3>1. IsFiniteSet(S)
      BY <1>2, FS_Subset, Zenon
    <3> QED BY <1>1, <3>1
  <2>2. /\ Cardinality(S) \in Nat /\ order \in Bijection(1 .. Cardinality(S), S)
        /\ \A k \in 1 .. Cardinality(S) : Cardinality({ y \in S : y < order[k] }) = k - 1
    BY <2>1, AscendingIndices
  <2> HIDE DEF order
  <2>3. PICK k \in 1 .. Cardinality(S) : order[k] = x
    BY <2>2 DEF Bijection, Surjection
  <2>4. k - 1 = i - 1
    BY <1>3, <2>2, <2>3
  <2>5. k = i
    BY <2>2, <2>4
  <2> QED BY <2>3, <2>5 DEF order
<1>4. Pick(rules, DOMAIN rules) = rules
  <2> DEFINE order == InOrder(1 .. n, <)
  <2>1. ASSUME NEW i \in 1 .. n PROVE order[i] = i
    <3>1. { y \in 1 .. n : y < i } = 1 .. i - 1
      BY <1>1
    <3>2. Cardinality(1 .. i - 1) = i - 1
      BY FS_Interval
    <3>3. Cardinality({ y \in 1 .. n : y < i }) = i - 1
      BY <3>1, <3>2
    <3> QED BY <1>2, <1>3, <3>3
  <2>2. DOMAIN order = 1 .. n
    BY <1>2 DEF InOrder
  <2>3. Pick(rules, 1 .. n) = [i \in DOMAIN order |-> rules[order[i]]]
    BY DEF Pick
  <2> HIDE DEF order
  <2>4. [i \in DOMAIN order |-> rules[order[i]]] = [i \in 1 .. n |-> rules[i]]
    BY <2>1, <2>2
  <2> QED BY <1>1, <2>3, <2>4
<1>5. ASSUME NEW j \in 1 .. n PROVE Pick(rules, (1 .. n) \ {j}) = RemoveAt(rules, j)
  <2> DEFINE S == (1 .. n) \ {j}
             order == InOrder(S, <)
             left == SubSeq(rules, 1, j - 1)
             right == SubSeq(rules, j + 1, n)
  <2>1. Cardinality(S) = n - 1
    <3>1. Cardinality((1 .. n) \ {j}) = Cardinality(1 .. n) - 1
      BY <1>2, FS_RemoveElement, Zenon
    <3> QED BY <1>2, <3>1, Zenon
  <2>2. ASSUME NEW i \in 1 .. n - 1 PROVE order[i] = IF i < j THEN i ELSE i + 1
    <3>1. CASE i < j
      <4>1. { y \in S : y < i } = 1 .. i - 1 /\ i \in S
        BY <1>1, <3>1
      <4>2. Cardinality(1 .. i - 1) = i - 1
        BY FS_Interval
      <4>3. Cardinality({ y \in S : y < i }) = i - 1
        BY <4>1, <4>2
      <4> QED BY <1>3, <2>1, <3>1, <4>1, <4>3
    <3>2. CASE ~ (i < j)
      <4>1. { y \in S : y < i + 1 } = (1 .. i) \ {j} /\ i + 1 \in S /\ j \in 1 .. i
        BY <1>1, <3>2
      <4>2. IsFiniteSet(1 .. i) /\ Cardinality(1 .. i) = i
        BY FS_Interval
      <4>3. Cardinality((1 .. i) \ {j}) = i - 1
        BY <4>1, <4>2, FS_RemoveElement
      <4>4. Cardinality({ y \in S : y < i + 1 }) = i - 1
        BY <4>1, <4>3
      <4> QED BY <1>3, <2>1, <3>2, <4>1, <4>4
    <3> QED BY <3>1, <3>2
  <2>3. DOMAIN order = 1 .. n - 1
    BY <2>1 DEF InOrder
  <2>4. Pick(rules, S) = [i \in DOMAIN order |-> rules[order[i]]]
    BY DEF Pick
  <2>9. /\ left \in Seq(T) /\ Len(left) = IF 1 <= j - 1 THEN j - 1 - 1 + 1 ELSE 0
        /\ \A i \in 1 .. j - 1 - 1 + 1 : left[i] = rules[1 + i - 1]
    <3>1. \A i \in 1 .. j - 1 : rules[i] \in T
      BY <1>1
    <3> QED BY <1>1, <3>1, SubSeqProperties
  <2>10. /\ right \in Seq(T) /\ Len(right) = IF j + 1 <= n THEN n - (j + 1) + 1 ELSE 0
         /\ \A i \in 1 .. n - (j + 1) + 1 : right[i] = rules[j + 1 + i - 1]
    <3>1. \A i \in j + 1 .. n : rules[i] \in T
      BY <1>1
    <3> QED BY <1>1, <3>1, SubSeqProperties
  <2> HIDE DEF order, left, right
  <2>5. /\ left \in Seq(T) /\ Len(left) = j - 1 /\ \A i \in 1 .. j - 1 : left[i] = rules[i]
        /\ right \in Seq(T) /\ Len(right) = n - j /\ \A i \in 1 .. n - j : right[i] = rules[i + j]
    BY <1>1, <2>9, <2>10
  <2>6. /\ left \o right \in Seq(T) /\ Len(left \o right) = n - 1
        /\ \A i \in 1 .. n - 1 : (left \o right)[i] = IF i < j THEN rules[i] ELSE rules[i + 1]
    <3> DEFINE both == left \o right
    <3>1. /\ both \in Seq(T) /\ Len(both) = Len(left) + Len(right)
          /\ \A i \in 1 .. Len(left) + Len(right) :
               both[i] = IF i <= Len(left) THEN left[i] ELSE right[i - Len(left)]
      BY <2>5, ConcatProperties
    <3> HIDE DEF both
    <3>2. ASSUME NEW i \in 1 .. n - 1 PROVE both[i] = IF i < j THEN rules[i] ELSE rules[i + 1]
      <4>1. Len(left) = j - 1 /\ Len(right) = n - j /\ i \in Int /\ j \in Int /\ n \in Int
        BY <1>1, <2>5
      <4>2. i \in 1 .. Len(left) + Len(right)
        BY <4>1
      <4>3. both[i] = IF i <= Len(left) THEN left[i] ELSE right[i - Len(left)]
        BY <3>1, <4>2
      <4>4. CASE i < j
        <5>1. i <= Len(left) /\ i \in 1 .. j - 1
          BY <4>1, <4>4
        <5>2. left[i] = rules[i]
          BY <2>5, <5>1
        <5> QED BY <4>3, <4>4, <5>1, <5>2
      <4>5. CASE ~(i < j)
        <5>1. ~(i <= Len(left)) /\ i - Len(left) \in 1 .. n - j /\ (i - Len(left)) + j = i + 1
          BY <4>1, <4>5
        <5>2. right[i - Len(left)] = rules[i + 1]
          BY <2>5, <5>1
        <5> QED BY <4>3, <4>5, <5>1, <5>2
      <4> QED BY <4>4, <4>5
    <3>3. Len(both) = n - 1
      BY <1>1, <2>5, <3>1
    <3> QED BY <3>1, <3>2, <3>3 DEF both
  <2>7. DOMAIN (left \o right) = 1 .. n - 1 /\ left \o right = [i \in 1 .. n - 1 |-> (left \o right)[i]]
    BY <1>1, <2>6, LenProperties
  <2>8. [i \in DOMAIN order |-> rules[order[i]]] = left \o right
    BY <2>2, <2>3, <2>6, <2>7
  <2> QED BY <2>4, <2>8 DEF RemoveAt, left, right, n
<1> QED BY <1>1, <1>4, <1>5

-----------------------------------------------------------------------------
(* The operations of the table                                             *)

\* No rule is there twice.
Distinct(table) == \A i, j \in DOMAIN table : SameRule(table[i], table[j]) => i = j

\* A rule whose masked bits are zero is stored as it is.
LEMMA CleanIsClean ==
  ASSUME NEW rule \in CleanRules
  PROVE  [rule EXCEPT !.value = @ \ rule.mask] = rule
<1>1. rule \in [value : Words, mask : Words, priority : Nat \ {0}] /\ rule.value \cap rule.mask = {}
  BY DEF CleanRules, Rules
<1>2. rule.value \ rule.mask = rule.value
  BY <1>1
<1>3. [rule EXCEPT !.value = rule.value \ rule.mask] = [rule EXCEPT !.value = rule.value]
  BY <1>2
<1> QED BY <1>1, <1>3

\* insert_rule adds the rule at the end, unless it is there.
LEMMA InsertsOnce ==
  ASSUME NEW table \in Seq(CleanRules), NEW rule \in CleanRules
  PROVE  IF \E i \in DOMAIN table : SameRule(table[i], rule)
         THEN InsertIntoTable(table, rule) = table
         ELSE InsertIntoTable(table, rule) = Append(table, rule)
BY CleanIsClean DEF InsertIntoTable

\* Before the only entry that delete_rule looks for, the last one that stays.
LEMMA LastBefore == ASSUME NEW j \in Nat \ {0} PROVE Max((0 .. j) \ {j}) = j - 1
<1> DEFINE others == (0 .. j) \ {j}
<1>1. others = 0 .. j - 1
  OBVIOUS
<1> HIDE DEF others
<1>2. others \subseteq Nat /\ others # {} /\ \A x \in others : x <= j
  <2>1. 0 \in others
    BY <1>1
  <2>2. \A x \in others : x \in Nat /\ x <= j
    BY <1>1
  <2> QED BY <2>1, <2>2
<1>3. Max(others) \in others /\ \A x \in others : x <= Max(others)
  BY <1>2, MaxIsGreatest
<1>4. Max(others) = j - 1
  BY <1>1, <1>3
<1> QED BY <1>4 DEF others

\* delete_rule removes the rule if it is there.
LEMMA DeletesIt ==
  ASSUME NEW table \in Seq(CleanRules), Distinct(table), NEW rule \in CleanRules
  PROVE  IF \E i \in DOMAIN table : SameRule(table[i], rule)
         THEN \E j \in DOMAIN table : /\ SameRule(table[j], rule)
                                      /\ DeleteFromTable(table, rule) = RemoveAt(table, j)
         ELSE DeleteFromTable(table, rule) = table
<1> DEFINE same == { i \in DOMAIN table : SameRule(table[i], rule) }
           erased == { i \in same : (i - Max((0 .. i) \ same)) % 2 = 1 }
<1>1. DeleteFromTable(table, rule) = Pick(table, DOMAIN table \ erased)
  <2>1. [rule EXCEPT !.value = @ \ rule.mask] = rule
    BY CleanIsClean
  <2> QED BY <2>1, Zenon DEF DeleteFromTable
<1>2. DOMAIN table \subseteq Nat \ {0}
  OBVIOUS
<1>3. CASE \E i \in DOMAIN table : SameRule(table[i], rule)
  <2>1. PICK j \in DOMAIN table : SameRule(table[j], rule)
    BY <1>3
  <2>2. ASSUME NEW i \in DOMAIN table, SameRule(table[i], rule) PROVE i = j
    <3>1. SameRule(table[i], table[j])
      BY <2>1, <2>2 DEF SameRule
    <3> QED BY <3>1 DEF Distinct
  <2>3. same = {j}
    BY <2>1, <2>2
  <2>4. j \in Nat /\ j - 1 \in Nat /\ j - (j - 1) = 1 /\ 1 % 2 = 1
    BY <1>2
  <2>5. Max((0 .. j) \ same) = j - 1
    <3>1. Max((0 .. j) \ {j}) = j - 1
      BY <1>2, LastBefore
    <3> QED BY <2>3, <3>1, Zenon
  <2>6. (j - Max((0 .. j) \ same)) % 2 = 1
    BY <2>4, <2>5
  <2>7. erased = {j}
    BY <2>3, <2>6, Zenon
  <2> HIDE DEF same, erased
  <2>8. DeleteFromTable(table, rule) = RemoveAt(table, j)
    BY <1>1, <2>7, PickAllButOne
  <2> QED BY <1>3, <2>1, <2>8
<1>4. CASE ~ \E i \in DOMAIN table : SameRule(table[i], rule)
  <2>1. same = {}
    BY <1>4
  <2>2. DOMAIN table \ erased = DOMAIN table
    BY <2>1
  <2> HIDE DEF same, erased
  <2>3. DeleteFromTable(table, rule) = table
    BY <1>1, <2>2, PickAllButOne, Zenon
  <2> QED BY <1>4, <2>3
<1> QED BY <1>3, <1>4

\* search_rule answers with the first rule that matches.
LEMMA SearchFindsFirst ==
  ASSUME NEW table \in Seq(CleanRules), NEW key
  PROVE  IF \E i \in DOMAIN table : Matches(table[i], key)
         THEN \E i \in DOMAIN table : /\ Matches(table[i], key)
                                      /\ SearchTable(table, key) = table[i].priority
                                      /\ \A k \in DOMAIN table : Matches(table[k], key) => i <= k
         ELSE SearchTable(table, key) = 0
<1> DEFINE matching == { i \in DOMAIN table : Matches(table[i], key) }
<1>1. SearchTable(table, key) = IF matching = {} THEN 0 ELSE table[Min(matching)].priority
  BY DEF SearchTable
<1>2. matching \subseteq Nat
  OBVIOUS
<1>3. matching # {} => Min(matching) \in matching /\ \A k \in matching : Min(matching) <= k
  BY <1>2, MinIsLeast
<1> QED BY <1>1, <1>3

\* Filling an empty table with different rules gives these rules.
LEMMA FillingKeepsOrder ==
  ASSUME NEW file \in Seq(CleanRules), Distinct(file)
  PROVE  FoldLeft(InsertIntoTable, << >>, file) = file
<1> DEFINE n == Len(file)
<1>1. n \in Nat /\ DOMAIN file = 1 .. n /\ \A i \in 1 .. n : file[i] \in CleanRules
  OBVIOUS
<1> HIDE DEF n
<1>2. FoldLeft(InsertIntoTable, << >>, file) = Filling!Folded(<< >>, file, n)
  BY <1>1 DEF FoldLeft, MapThenFoldSet, Max, Filling!Folded, Filling!Folds, Filling!Greatest
<1>chain. PICK h : Filling!Chain(h, << >>, file, n)
  BY <1>1, Filling!FoldIsChain
<1>3. /\ h[0] = << >>
      /\ \A i \in 1 .. n : h[i] = InsertIntoTable(h[i - 1], file[i])
      /\ Filling!Folded(<< >>, file, n) = h[n]
  BY <1>chain DEF Filling!Chain
<1> DEFINE Filled(i) == /\ h[i] \in Seq(CleanRules) /\ Len(h[i]) = i
                        /\ \A k \in 1 .. i : h[i][k] = file[k]
           Bad == { i \in 0 .. n : ~Filled(i) }
<1>4. Filled(0)
  BY <1>3
<1>5. ASSUME NEW i \in 1 .. n, Filled(i - 1) PROVE Filled(i)
  <2> DEFINE before == h[i - 1]
  <2>1. before \in Seq(CleanRules) /\ Len(before) = i - 1 /\ DOMAIN before = 1 .. i - 1
        /\ \A k \in 1 .. i - 1 : before[k] = file[k]
    BY <1>5
  <2>2. h[i] = InsertIntoTable(before, file[i])
    BY <1>3
  <2> HIDE DEF before
  <2>3. ~ \E k \in DOMAIN before : SameRule(before[k], file[i])
    <3> SUFFICES ASSUME NEW k \in 1 .. i - 1, SameRule(before[k], file[i]) PROVE FALSE
      BY <2>1
    <3>1. SameRule(file[k], file[i]) /\ k \in DOMAIN file /\ i \in DOMAIN file /\ k # i
      BY <1>1, <2>1
    <3> QED BY <3>1 DEF Distinct
  <2>4. h[i] = Append(before, file[i])
    BY <1>1, <2>1, <2>2, <2>3, InsertsOnce
  <2>5. /\ Append(before, file[i]) \in Seq(CleanRules)
        /\ Len(Append(before, file[i])) = Len(before) + 1
        /\ \A k \in 1 .. Len(before) : Append(before, file[i])[k] = before[k]
        /\ Append(before, file[i])[Len(before) + 1] = file[i]
    BY <1>1, <2>1, AppendProperties
  <2> QED BY <2>1, <2>4, <2>5
<1>6. Bad \subseteq Nat
  BY <1>1
<1>7. Bad = {}
  <2> SUFFICES ASSUME Bad # {} PROVE FALSE
    OBVIOUS
  <2> HIDE DEF Bad
  <2>1. PICK i \in Bad : \A k \in Bad : i <= k
    BY <1>6, LeastNatural
  <2> USE DEF Bad
  <2>2. i \in 0 .. n /\ ~Filled(i)
    BY <2>1
  <2> HIDE DEF Filled
  <2>3. i # 0
    BY <1>4, <2>2
  <2>4. i \in 1 .. n /\ i - 1 \in 0 .. n /\ ~ (i <= i - 1)
    BY <1>1, <2>2, <2>3
  <2>5. Filled(i - 1)
    BY <2>1, <2>4
  <2> QED BY <1>5, <2>2, <2>4, <2>5
<1>8. Filled(n)
  BY <1>1, <1>7
<1>9. h[n] = file
  <2>1. file \in Seq(CleanRules) /\ Len(file) = n
    BY DEF n
  <2> QED BY <1>8, <2>1, SeqEqual
<1> QED BY <1>2, <1>3, <1>9

-----------------------------------------------------------------------------
(* Tables of words                                                         *)

\* A table of different rules without wildcards, and a word that is in it.
WordTable(table) ==
  /\ table \in Seq(CleanRules) /\ Distinct(table)
  /\ \A i \in DOMAIN table : table[i].mask = {}

InTable(table, w) == \E i \in DOMAIN table : table[i].value = w

\* In a table of words a rule is the same when its word is.
LEMMA SameWord ==
  ASSUME NEW table, WordTable(table), NEW rule \in CleanRules, rule.mask = {}
  PROVE  \A i \in DOMAIN table : SameRule(table[i], rule) <=> table[i].value = rule.value
BY DEF WordTable, SameRule

\* Searching a table of words finds the words that are in it.
LEMMA WordIsSearched ==
  ASSUME NEW table, WordTable(table), NEW key \in Words
  PROVE  SearchTable(table, key) # 0 <=> InTable(table, key)
<1>1. table \in Seq(CleanRules)
  BY DEF WordTable
<1>2. \A i \in DOMAIN table : Matches(table[i], key) <=> table[i].value = key
  <2>1. ASSUME NEW i \in DOMAIN table PROVE table[i].mask = {}
    BY DEF WordTable
  <2> QED BY <2>1 DEF Matches
<1>3. ASSUME NEW i \in DOMAIN table PROVE table[i].priority # 0
  <2>1. table[i] \in CleanRules
    BY <1>1
  <2> QED BY <2>1 DEF CleanRules, Rules
<1> QED BY <1>1, <1>2, <1>3, SearchFindsFirst DEF InTable

\* Inserting a word adds it, and nothing else.
LEMMA WordIsAdded ==
  ASSUME NEW table, WordTable(table), NEW rule \in CleanRules, rule.mask = {},
         NEW u, u = InsertIntoTable(table, rule)
  PROVE  /\ WordTable(u) /\ Len(u) >= Len(table)
         /\ \A w : InTable(u, w) <=> InTable(table, w) \/ w = rule.value
<1>1. table \in Seq(CleanRules) /\ Distinct(table) /\ \A i \in DOMAIN table : table[i].mask = {}
  BY DEF WordTable
<1>2. CASE \E i \in DOMAIN table : SameRule(table[i], rule)
  <2>1. u = table
    BY <1>1, <1>2, InsertsOnce
  <2>2. InTable(table, rule.value)
    BY <1>2, SameWord DEF InTable
  <2>3. Len(table) \in Nat
    BY <1>1
  <2> QED BY <2>1, <2>2, <2>3
<1>3. CASE ~ \E i \in DOMAIN table : SameRule(table[i], rule)
  <2> DEFINE n == Len(table)
  <2>1. u = Append(table, rule)
    BY <1>1, <1>3, InsertsOnce
  <2>2. n \in Nat /\ DOMAIN table = 1 .. n
    BY <1>1
  <2>3. /\ u \in Seq(CleanRules) /\ Len(u) = n + 1
        /\ \A i \in 1 .. n : u[i] = table[i]
        /\ u[n + 1] = rule
    BY <1>1, <2>1, AppendProperties
  <2>4. DOMAIN u = 1 .. n + 1
    BY <2>3
  <2> HIDE DEF n
  <2>5. \A i \in 1 .. n + 1 : i \in 1 .. n \/ i = n + 1
    BY <2>2
  <2>6. n + 1 \in 1 .. n + 1 /\ \A i \in 1 .. n : i \in 1 .. n + 1
    BY <2>2
  <2>7. \A i \in DOMAIN u : u[i].mask = {}
    BY <1>1, <2>2, <2>3, <2>4, <2>5
  <2>8. ASSUME NEW i \in DOMAIN u, NEW j \in DOMAIN u, SameRule(u[i], u[j]) PROVE i = j
    <3>1. CASE i \in 1 .. n /\ j \in 1 .. n
      BY <1>1, <2>2, <2>3, <2>8, <3>1 DEF Distinct
    <3>2. CASE i = n + 1 /\ j \in 1 .. n
      <4>1. SameRule(table[j], rule)
        BY <2>3, <2>8, <3>2 DEF SameRule
      <4> QED BY <1>3, <2>2, <3>2, <4>1
    <3>3. CASE i \in 1 .. n /\ j = n + 1
      <4>1. SameRule(table[i], rule)
        BY <2>3, <2>8, <3>3
      <4> QED BY <1>3, <2>2, <3>3, <4>1
    <3> QED BY <2>4, <2>5, <3>1, <3>2, <3>3
  <2>9. WordTable(u)
    BY <2>3, <2>7, <2>8 DEF WordTable, Distinct
  <2>10. ASSUME NEW w PROVE InTable(u, w) <=> InTable(table, w) \/ w = rule.value
    BY <2>2, <2>3, <2>4, <2>5, <2>6 DEF InTable
  <2>11. Len(u) >= Len(table)
    BY <2>2, <2>3 DEF n
  <2> QED BY <2>9, <2>10, <2>11
<1> QED BY <1>2, <1>3

\* Deleting a word takes its entry out, if there is one, and leaves the others.
LEMMA WordIsDeleted ==
  ASSUME NEW table, WordTable(table), NEW rule \in CleanRules, rule.mask = {},
         NEW u, u = DeleteFromTable(table, rule)
  PROVE  /\ WordTable(u)
         /\ \A w : InTable(u, w) <=> InTable(table, w) /\ w # rule.value
         /\ u = table \/ \E j \in DOMAIN table : u = RemoveAt(table, j)
<1>1. table \in Seq(CleanRules) /\ Distinct(table) /\ \A i \in DOMAIN table : table[i].mask = {}
  BY DEF WordTable
<1>2. CASE ~ \E i \in DOMAIN table : SameRule(table[i], rule)
  <2>1. u = table
    BY <1>1, <1>2, DeletesIt
  <2>2. ~InTable(table, rule.value)
    BY <1>2, SameWord DEF InTable
  <2> QED BY <2>1, <2>2
<1>3. CASE \E i \in DOMAIN table : SameRule(table[i], rule)
  <2>1. PICK j \in DOMAIN table : SameRule(table[j], rule) /\ u = RemoveAt(table, j)
    BY <1>1, <1>3, DeletesIt
  <2> DEFINE left == DOMAIN table \ {j}
             n == Len(u)
  <2>2. left \in SUBSET (1 .. Len(table)) /\ u = Pick(table, left)
    BY <1>1, <2>1, PickAllButOne
  <2> HIDE DEF left
  <2>3. u \in Seq(CleanRules) /\ \E f \in Bijection(1 .. n, left) : \A i \in 1 .. n : u[i] = table[f[i]]
    BY <1>1, <2>2, PickEntries
  <2>4. PICK f \in Bijection(1 .. n, left) : \A i \in 1 .. n : u[i] = table[f[i]]
    BY <2>3
  <2>5. DOMAIN u = 1 .. n
    BY <2>3
  <2> HIDE DEF n
  <2>6. /\ \A i \in 1 .. n : f[i] \in DOMAIN table /\ f[i] # j
        /\ \A i, k \in 1 .. n : f[i] = f[k] => i = k
        /\ \A x \in DOMAIN table : x # j => \E i \in 1 .. n : f[i] = x
    BY <2>4 DEF Bijection, Injection, Surjection, IsInjective, left
  <2>7. WordTable(u)
    <3>1. \A i \in DOMAIN u : u[i].mask = {}
      BY <1>1, <2>4, <2>5, <2>6
    <3>2. Distinct(u)
      BY <1>1, <2>4, <2>5, <2>6 DEF Distinct
    <3> QED BY <2>3, <3>1, <3>2 DEF WordTable
  <2>8. table[j].value = rule.value
    BY <2>1, SameWord
  <2>9. ASSUME NEW i \in DOMAIN table, i # j PROVE table[i].value # rule.value
    BY <1>1, <2>1, <2>8, <2>9, SameWord DEF Distinct, SameRule
  <2>10. ASSUME NEW w PROVE InTable(u, w) <=> InTable(table, w) /\ w # rule.value
    BY <2>4, <2>5, <2>6, <2>8, <2>9 DEF InTable
  <2> QED BY <2>1, <2>7, <2>10
<1> QED BY <1>2, <1>3

\* What inserting the first i rules of a sequence does to a table of words.
AddedTo(table, rules, u, i) ==
  /\ WordTable(u) /\ Len(u) >= Len(table)
  /\ \A w : InTable(u, w) <=> InTable(table, w) \/ \E j \in 1 .. i : w = rules[j].value

\* Inserting a sequence of words adds these words, and no other.
LEMMA WordsAreAdded ==
  ASSUME NEW table, WordTable(table), NEW n \in Nat,
         NEW e, DOMAIN e = 1 .. n, \A j \in 1 .. n : e[j] \in CleanRules /\ e[j].mask = {}
  PROVE  AddedTo(table, e, FoldLeft(InsertIntoTable, table, e), n)
<1>1. FoldLeft(InsertIntoTable, table, e) = Filling!Folded(table, e, n)
  BY DEF FoldLeft, MapThenFoldSet, Max, Filling!Folded, Filling!Folds, Filling!Greatest
<1>chain. PICK h : Filling!Chain(h, table, e, n)
  BY Filling!FoldIsChain
<1>2. /\ h[0] = table
      /\ \A i \in 1 .. n : h[i] = InsertIntoTable(h[i - 1], e[i])
      /\ Filling!Folded(table, e, n) = h[n]
  BY <1>chain DEF Filling!Chain
<1> DEFINE Bad == { i \in 0 .. n : ~AddedTo(table, e, h[i], i) }
<1>3. AddedTo(table, e, h[0], 0)
  <2>1. Len(table) \in Nat
    BY DEF WordTable
  <2> QED BY <1>2, <2>1 DEF AddedTo
<1>4. ASSUME NEW i \in 1 .. n, AddedTo(table, e, h[i - 1], i - 1) PROVE AddedTo(table, e, h[i], i)
  <2> DEFINE before == h[i - 1]
  <2>1. /\ e[i] \in CleanRules /\ e[i].mask = {} /\ h[i] = InsertIntoTable(before, e[i])
        /\ WordTable(before) /\ Len(before) >= Len(table)
        /\ \A w : InTable(before, w) <=> InTable(table, w) \/ \E j \in 1 .. i - 1 : w = e[j].value
    BY <1>2, <1>4 DEF AddedTo
  <2> HIDE DEF before
  <2>2. /\ WordTable(h[i]) /\ Len(h[i]) >= Len(before)
        /\ \A w : InTable(h[i], w) <=> InTable(before, w) \/ w = e[i].value
    BY <2>1, WordIsAdded
  <2>3. Len(table) \in Nat /\ Len(before) \in Nat /\ Len(h[i]) \in Nat
    BY <2>1, <2>2 DEF WordTable
  <2>4. Len(h[i]) >= Len(table)
    BY <2>1, <2>2, <2>3
  <2>5. \A j \in 1 .. i : j \in 1 .. i - 1 \/ j = i
    OBVIOUS
  <2>6. i \in 1 .. i /\ \A j \in 1 .. i - 1 : j \in 1 .. i
    OBVIOUS
  <2>7. ASSUME NEW w
        PROVE  InTable(h[i], w) <=> InTable(table, w) \/ \E j \in 1 .. i : w = e[j].value
    BY <2>1, <2>2, <2>5, <2>6, Zenon
  <2> QED BY <2>2, <2>4, <2>7 DEF AddedTo
<1>5. Bad = {}
  <2> SUFFICES ASSUME Bad # {} PROVE FALSE
    OBVIOUS
  <2>1. Bad \subseteq Nat
    OBVIOUS
  <2> HIDE DEF Bad
  <2>2. PICK i \in Bad : \A k \in Bad : i <= k
    BY <2>1, LeastNatural
  <2> USE DEF Bad
  <2>3. i \in 0 .. n /\ ~AddedTo(table, e, h[i], i)
    BY <2>2
  <2>4. i \in 1 .. n /\ i - 1 \in 0 .. n /\ ~ (i <= i - 1)
    BY <1>3, <2>3
  <2>5. AddedTo(table, e, h[i - 1], i - 1)
    BY <2>2, <2>4
  <2> QED BY <1>4, <2>3, <2>4, <2>5
<1>6. n \in 0 .. n
  OBVIOUS
<1>7. AddedTo(table, e, h[n], n)
  BY <1>5, <1>6
<1> QED BY <1>1, <1>2, <1>7

Expanding == INSTANCE FoldTheorems WITH Op <- ExpandOne
Inserting == INSTANCE FoldTheorems WITH Op <- InsertRuleValue

-----------------------------------------------------------------------------
(* Words as numbers                                                        *)

\* There are finitely many words of a width.
LEMMA WordsAreFinite ==
  /\ IsFiniteSet(Bits) /\ Cardinality(Bits) = Width
  /\ IsFiniteSet(Words)
  /\ \A w \in Words : IsFiniteSet(w)
<1>1. IsFiniteSet(Bits) /\ Cardinality(Bits) = Width
  BY WidthAssumption, FS_Interval DEF Bits
<1>2. IsFiniteSet(Words)
  BY <1>1, FS_SUBSET DEF Words
<1>3. \A w \in Words : IsFiniteSet(w)
  BY <1>1, FS_Subset DEF Words
<1> QED BY <1>1, <1>2, <1>3

BelowPairs == { pair \in Words \X Words : Below(pair[1], pair[2]) }

\* Below compares words as numbers: it is a strict total order.
LEMMA BelowIsOrder == StrictOrder(BelowPairs, Words)
<1>1. \A x, y \in Words : << x, y >> \in BelowPairs <=> Below(x, y)
  BY DEF BelowPairs
<1>2. \A x \in Words : ~Below(x, x)
  BY DEF Below
<1>3. ASSUME NEW x \in Words, NEW y \in Words, NEW z \in Words, Below(x, y), Below(y, z)
      PROVE  Below(x, z)
  <2>1. PICK p \in y \ x : \A b \in x \ y : b < p
    BY <1>3 DEF Below
  <2>2. PICK q \in z \ y : \A b \in y \ z : b < q
    BY <1>3 DEF Below
  <2>3. p \in Int /\ q \in Int /\ p # q /\ (\A b \in x \cup y \cup z : b \in Int)
    BY <2>1, <2>2 DEF Words, Bits
  <2>4. CASE p < q
    <3>1. q \in z \ x
      BY <2>1, <2>2, <2>3, <2>4
    <3>2. \A b \in x \ z : b < q
      BY <2>1, <2>2, <2>3, <2>4
    <3> QED BY <3>1, <3>2 DEF Below
  <2>5. CASE q < p
    <3>1. p \in z \ x
      BY <2>1, <2>2, <2>3, <2>5
    <3>2. \A b \in x \ z : b < p
      BY <2>1, <2>2, <2>3, <2>5
    <3> QED BY <3>1, <3>2 DEF Below
  <2> QED BY <2>3, <2>4, <2>5
<1>4. ASSUME NEW x \in Words, NEW y \in Words, x # y PROVE Below(x, y) \/ Below(y, x)
  <2> DEFINE D == (x \ y) \cup (y \ x)
  <2>1. D \subseteq Nat /\ D # {} /\ \A b \in D : b <= Width
    BY <1>4, WidthAssumption DEF Words, Bits
  <2>2. PICK p \in D : \A b \in D : b <= p
    BY <2>1, GreatestNatural, WidthAssumption
  <2>3. \A b \in D : b # p => b < p
    BY <2>1, <2>2
  <2>4. CASE p \in y
    BY <2>2, <2>3, <2>4 DEF Below
  <2>5. CASE p \in x
    BY <2>2, <2>3, <2>5 DEF Below
  <2> QED BY <2>2, <2>4, <2>5
<1> HIDE DEF BelowPairs
<1> QED BY <1>1, <1>2, <1>3, <1>4 DEF StrictOrder

\* The words of a set from the least number to the greatest: each of them once.
LEMMA AscendingWords ==
  ASSUME NEW S \in SUBSET Words
  PROVE  /\ Cardinality(S) \in Nat
         /\ InOrder(S, Below) \in Bijection(1 .. Cardinality(S), S)
<1>1. IsFiniteSet(S) /\ Cardinality(S) \in Nat
  BY WordsAreFinite, FS_Subset, FS_CardinalityType
<1>2. StrictOrder(BelowPairs, S)
  BY BelowIsOrder DEF StrictOrder
<1>3. ASSUME NEW x \in S
      PROVE  { y \in S : Below(y, x) } = Under(BelowPairs, S, x)
  BY DEF BelowPairs, Under
<1> DEFINE order == InOrder(S, Below)
           Nth(i) == CHOOSE x \in S : Cardinality({ y \in S : Below(y, x) }) = i - 1
<1>4. order = [i \in 1 .. Cardinality(S) |-> Nth(i)]
  BY DEF InOrder
<1>5. ASSUME NEW i \in 1 .. Cardinality(S), \E x \in S : Cardinality(Under(BelowPairs, S, x)) = i - 1
      PROVE  Nth(i) \in S /\ Cardinality(Under(BelowPairs, S, Nth(i))) = i - 1
  BY <1>3, <1>5
<1> HIDE DEF order, Nth
<1>6. /\ order = [i \in 1 .. Cardinality(S) |-> order[i]]
      /\ \A i \in 1 .. Cardinality(S) : order[i] = Nth(i)
  BY <1>4
<1>7. /\ order \in Bijection(1 .. Cardinality(S), S)
      /\ \A i, j \in 1 .. Cardinality(S) : << order[i], order[j] >> \in BelowPairs <=> i < j
  BY <1>1, <1>2, <1>5, <1>6, OrderedOnce
<1> QED BY <1>1, <1>7 DEF order

-----------------------------------------------------------------------------
(* Prefix rules and ways                                                   *)

PrefixRules == { rule \in CleanRules : IsPrefixRule(rule) }
Fields == {"priority", "count", "node_count", "expand_count", "expandedTable", "blowup"}
EndOf(rule) == NodeAt(rule.value, PrefixLen(rule.mask))
WayOf(rule) == Ways(rule.value, PrefixLen(rule.mask))

\* A prefix rule masks the lowest positions, fewer than all, and its prefix
\* (prefix_len of the code) is the rest.
LEMMA PrefixShape ==
  ASSUME NEW rule \in PrefixRules
  PROVE  \E k \in Bits : /\ rule.mask = 0 .. k - 1
                         /\ PrefixLen(rule.mask) = Width - k
                         /\ \A b \in rule.value : b \in Bits /\ b >= k
<1>1. rule.value \subseteq Bits /\ rule.mask \subseteq Bits /\ rule.value \cap rule.mask = {}
  BY DEF PrefixRules, CleanRules, Rules, Words
<1>2. IsFiniteSet(Bits) /\ Cardinality(Bits) = Width
  BY WidthAssumption, FS_Interval DEF Bits
<1> DEFINE k == Cardinality(rule.mask)
<1>3. k \in Nat /\ k < Width /\ rule.mask = 0 .. k - 1
  <2>1. IsFiniteSet(rule.mask) /\ k <= Width
    BY <1>1, <1>2, FS_Subset
  <2>2. k \in Nat
    BY <2>1, FS_CardinalityType
  <2>3. rule.mask = 0 .. k - 1 /\ rule.mask # Bits
    BY DEF PrefixRules, IsPrefixRule
  <2> QED BY <2>1, <2>2, <2>3, WidthAssumption DEF Bits
<1>4. k \in Bits
  BY <1>3, WidthAssumption DEF Bits
<1>5. PrefixLen(rule.mask) = Width - k
  <2>1. rule.mask # Bits
    BY DEF PrefixRules, IsPrefixRule
  <2>2. \E n \in Bits : rule.mask = 0 .. n - 1
    BY <1>3, <1>4
  <2> QED BY <2>1, <2>2 DEF PrefixLen
<1>6. \A b \in rule.value : b \in Bits /\ b >= k
  BY <1>1, <1>3, WidthAssumption DEF Bits
<1> QED BY <1>3, <1>4, <1>5, <1>6

\* The length of a prefix.
LEMMA PrefixLenType ==
  ASSUME NEW rule \in PrefixRules
  PROVE  PrefixLen(rule.mask) \in 1 .. Width
<1>1. PICK k \in Bits : PrefixLen(rule.mask) = Width - k
  BY PrefixShape
<1> QED BY <1>1, WidthAssumption DEF Bits

\* A key matches a prefix rule exactly when the rule ends on the key's way.
LEMMA MatchIsEndOnWay ==
  ASSUME NEW rule \in PrefixRules, NEW key \in Words
  PROVE  Matches(rule, key) <=>
           NodeAt(rule.value, PrefixLen(rule.mask)) = NodeAt(key, PrefixLen(rule.mask))
<1>1. PICK k \in Bits : /\ rule.mask = 0 .. k - 1
                        /\ PrefixLen(rule.mask) = Width - k
                        /\ \A b \in rule.value : b \in Bits /\ b >= k
  BY PrefixShape
<1> DEFINE L == Width - k
<1>2. L \in Nat /\ Width - L = k /\ k \in Nat
  BY WidthAssumption DEF Bits
<1>3. { b \in rule.value : b >= k } = rule.value
  BY <1>1
<1>4. { b \in key : b >= k } = key \ rule.mask
  BY <1>1, <1>2 DEF Words, Bits
<1>5. NodeAt(rule.value, L) = << L, rule.value >>
  BY <1>2, <1>3 DEF NodeAt
<1>6. NodeAt(key, L) = << L, key \ rule.mask >>
  BY <1>2, <1>4 DEF NodeAt
<1> HIDE DEF L
<1>7. NodeAt(rule.value, L) = NodeAt(key, L) <=> rule.value = key \ rule.mask
  BY <1>5, <1>6
<1> QED BY <1>1, <1>7 DEF Matches, L

\* Two words that agree down to a depth agree above it.
LEMMA AgreeAbove ==
  ASSUME NEW v \in Words, NEW w \in Words, NEW e \in 0 .. Width, NEW d \in 0 .. e,
         NodeAt(v, e) = NodeAt(w, e)
  PROVE  NodeAt(v, d) = NodeAt(w, d)
<1>1. { b \in v : b >= Width - e } = { b \in w : b >= Width - e }
  BY DEF NodeAt
<1>2. { b \in v : b >= Width - d } = { b \in w : b >= Width - d }
  <2>1. \A b \in Bits : b >= Width - d => b >= Width - e
    BY WidthAssumption DEF Bits
  <2> QED BY <1>1, <2>1 DEF Words
<1> QED BY <1>2 DEF NodeAt

\* A node on the way of a word is a node, and its parent is on the way too.
LEMMA WayNode ==
  ASSUME NEW v \in Words, NEW d \in 1 .. Width
  PROVE  /\ NodeAt(v, d) \in Nodes
         /\ NodeAt(v, d)[1] = d
         /\ NodeAt(NodeAt(v, d)[2], NodeAt(v, d)[1] - 1) = NodeAt(v, d - 1)
         /\ NodeAt(v, d) # Root
<1> DEFINE w == { b \in v : b >= Width - d }
<1>1. w \in Words /\ d \in Int
  BY DEF Words
<1>2. NodeAt(v, d) = << d, w >>
  BY DEF NodeAt
<1>3. { b \in w : b >= Width - d } = w
  OBVIOUS
<1>4. { b \in w : b >= Width - (d - 1) } = { b \in v : b >= Width - (d - 1) }
  <2>1. \A b \in Bits : b >= Width - (d - 1) => b >= Width - d
    BY WidthAssumption DEF Bits
  <2> QED BY <2>1 DEF Words
<1> HIDE DEF w
<1>5. NodeAt(w, d) = << d, w >> /\ NodeAt(w, d - 1) = NodeAt(v, d - 1)
  BY <1>3, <1>4 DEF NodeAt
<1>6. NodeAt(v, d)[1] = d /\ NodeAt(v, d)[2] = w
  BY <1>2
<1>7. << d, w >> \in (0 .. Width) \X Words
  BY <1>1, WidthAssumption
<1>8. NodeAt(v, d) \in Nodes
  BY <1>2, <1>5, <1>6, <1>7 DEF Nodes
<1>9. NodeAt(v, d) # Root
  BY <1>6 DEF Root
<1> QED BY <1>5, <1>6, <1>8, <1>9

\* The root is where every way starts.
LEMMA RootOfWay ==
  ASSUME NEW v \in Words
  PROVE  NodeAt(v, 0) = Root
<1>1. \A b \in Bits : ~ (b >= Width - 0)
  BY WidthAssumption DEF Bits
<1>2. { b \in v : b >= Width - 0 } = {}
  BY <1>1 DEF Words
<1> QED BY <1>2 DEF NodeAt, Root

\* A way has finitely many nodes.
LEMMA WaysFinite ==
  ASSUME NEW v, NEW l \in Nat
  PROVE  IsFiniteSet(Ways(v, l))
<1> DEFINE f == [d \in 1 .. l |-> NodeAt(v, d)]
<1>1. IsFiniteSet(1 .. l)
  BY FS_Interval
<1>2. f \in Surjection(1 .. l, Ways(v, l))
  BY DEF Ways, Surjection
<1> HIDE DEF f
<1> QED BY <1>1, <1>2, FS_Surjection

\* A rule ends on the way of a key that matches it, and its way is the key's.
LEMMA WayOfMatch ==
  ASSUME NEW rule \in PrefixRules, NEW key \in Words
  PROVE  /\ EndOf(rule) \in Ways(key, Width) => Matches(rule, key)
         /\ Matches(rule, key) => WayOf(rule) \subseteq Ways(key, Width)
<1> DEFINE L == PrefixLen(rule.mask)
<1>1. L \in 1 .. Width /\ rule.value \in Words
  BY PrefixLenType DEF PrefixRules, CleanRules, Rules
<1>2. Matches(rule, key) <=> NodeAt(rule.value, L) = NodeAt(key, L)
  BY MatchIsEndOnWay
<1> HIDE DEF L
<1>3. ASSUME NodeAt(rule.value, L) \in Ways(key, Width)
      PROVE  NodeAt(rule.value, L) = NodeAt(key, L)
  <2>1. PICK d \in 1 .. Width : NodeAt(rule.value, L) = NodeAt(key, d)
    BY <1>3 DEF Ways
  <2>2. d = L
    BY <1>1, <2>1, WayNode
  <2> QED BY <2>1, <2>2
<1>4. ASSUME NodeAt(rule.value, L) = NodeAt(key, L), NEW d \in 1 .. L
      PROVE  NodeAt(rule.value, d) \in Ways(key, Width)
  <2>1. L \in 0 .. Width /\ d \in 0 .. L /\ d \in 1 .. Width
    BY <1>1, WidthAssumption
  <2>2. NodeAt(rule.value, d) = NodeAt(key, d)
    BY <1>1, <1>4, <2>1, AgreeAbove
  <2> QED BY <2>1, <2>2 DEF Ways
<1>5. EndOf(rule) = NodeAt(rule.value, L)
  BY DEF EndOf, L
<1>6. WayOf(rule) = { NodeAt(rule.value, d) : d \in 1 .. L }
  BY DEF WayOf, Ways, L
<1>7. EndOf(rule) \in Ways(key, Width) => Matches(rule, key)
  BY <1>2, <1>3, <1>5
<1>8. Matches(rule, key) => WayOf(rule) \subseteq Ways(key, Width)
  BY <1>2, <1>4, <1>6
<1> QED BY <1>7, <1>8

-----------------------------------------------------------------------------
(* Trees                                                                   *)

\* The nodes form a tree with priorities, and the other fields have their types.
Tree(t) ==
  /\ DOMAIN t = Fields
  /\ Root \in DOMAIN t.priority /\ DOMAIN t.priority \subseteq Nodes
  /\ \A n \in DOMAIN t.priority \ {Root} : NodeAt(n[2], n[1] - 1) \in DOMAIN t.priority
  /\ \A n \in DOMAIN t.priority : t.priority[n] \in Nat
  /\ t.count \in Nat /\ t.node_count \in Nat /\ t.expand_count \in Nat
  /\ t.blowup \in BOOLEAN /\ t.expandedTable \in Seq(PrefixRules)

\* node_count counts the nodes and keeps to the threshold.
Counted(t) ==
  /\ t.node_count = Cardinality(DOMAIN t.priority)
  /\ t.node_count <= Threshold \/ t.node_count = 1

\* There are finitely many nodes.
LEMMA NodesAreFinite == IsFiniteSet(Nodes) /\ \A S \in SUBSET Nodes : IsFiniteSet(S)
<1>1. IsFiniteSet(0 .. Width)
  BY WidthAssumption, FS_Interval
<1>2. IsFiniteSet((0 .. Width) \X Words)
  BY <1>1, WordsAreFinite, FS_Product
<1>3. Nodes \in SUBSET ((0 .. Width) \X Words)
  BY DEF Nodes
<1>4. IsFiniteSet(Nodes)
  BY <1>2, <1>3, FS_Subset
<1> QED BY <1>4, FS_Subset

\* The nodes above a node of a tree are nodes of the tree.
LEMMA AncestorsExist ==
  ASSUME NEW t, Tree(t), NEW v \in Words, NEW d \in 0 .. Width, NodeAt(v, d) \in DOMAIN t.priority,
         NEW e \in 0 .. d
  PROVE  NodeAt(v, e) \in DOMAIN t.priority
<1> DEFINE Gone == { x \in 0 .. d : NodeAt(v, x) \notin DOMAIN t.priority }
<1>1. CASE Gone = {}
  BY <1>1
<1>2. CASE Gone # {}
  <2>1. Gone \subseteq Nat /\ d \in Nat /\ \A x \in Gone : x <= d
    OBVIOUS
  <2>2. PICK x \in Gone : \A y \in Gone : y <= x
    BY <1>2, <2>1, GreatestNatural
  <2>3. x # d
    BY <2>2
  <2>4. x + 1 \in 1 .. Width /\ x + 1 \in 0 .. d /\ x + 1 \notin Gone /\ (x + 1) - 1 = x
    BY <2>2, <2>3, WidthAssumption
  <2>5. NodeAt(v, x + 1) \in DOMAIN t.priority
    BY <2>4
  <2>6. /\ NodeAt(NodeAt(v, x + 1)[2], NodeAt(v, x + 1)[1] - 1) = NodeAt(v, x)
        /\ NodeAt(v, x + 1) # Root
    BY <2>4, WayNode
  <2>7. NodeAt(v, x) \in DOMAIN t.priority
    BY <2>5, <2>6 DEF Tree
  <2> QED BY <2>2, <2>7
<1> QED BY <1>1, <1>2

\* A piece of a way has one node per depth.
LEMMA PieceOfWay ==
  ASSUME NEW v \in Words, NEW a \in 1 .. Width + 1, NEW b \in 0 .. Width, a <= b + 1
  PROVE  /\ IsFiniteSet({ NodeAt(v, d) : d \in a .. b })
         /\ Cardinality({ NodeAt(v, d) : d \in a .. b }) = b - a + 1
<1> DEFINE S == { NodeAt(v, d) : d \in a .. b }
           f == [d \in a .. b |-> NodeAt(v, d)]
<1>1. IsFiniteSet(a .. b) /\ Cardinality(a .. b) = b - a + 1
  <2>1. a \in Int /\ b \in Int /\ (IF a > b THEN 0 ELSE b - a + 1) = b - a + 1
    BY WidthAssumption
  <2> QED BY <2>1, FS_Interval
<1>2. \A d \in a .. b : d \in 1 .. Width
  BY WidthAssumption
<1>3. \A d, e \in a .. b : NodeAt(v, d) = NodeAt(v, e) => d = e
  BY <1>2, WayNode
<1>4. f \in Surjection(a .. b, S)
  BY DEF Surjection
<1>5. f \in Injection(a .. b, S)
  BY <1>3 DEF Injection, IsInjective
<1> HIDE DEF f, S
<1>6. IsFiniteSet(S) /\ Cardinality(S) = Cardinality(a .. b)
  BY <1>1, <1>4, <1>5, FS_Surjection
<1> QED BY <1>1, <1>6 DEF S

Missing(t, v, l) == Ways(v, l) \ DOMAIN t.priority
PartOfWay(v, a, b) == { NodeAt(v, d) : d \in a .. b }

\* What a tree lacks of a way is its lower end.
LEMMA MissingIsLowerEnd ==
  ASSUME NEW t, Tree(t), NEW v \in Words, NEW l \in 1 .. Width
  PROVE  \E k \in 0 .. l : /\ Missing(t, v, l) = PartOfWay(v, k + 1, l)
                           /\ Cardinality(Missing(t, v, l)) = l - k
<1> DEFINE There == { d \in 0 .. l : NodeAt(v, d) \in DOMAIN t.priority }
<1>1. 0 \in There /\ There \subseteq Nat /\ l \in Nat /\ \A d \in There : d <= l
  BY RootOfWay DEF Tree
<1>2. PICK k \in There : \A d \in There : d <= k
  BY <1>1, GreatestNatural
<1>3. k \in 0 .. l
  BY <1>2
<1>4. \A d \in 1 .. l : NodeAt(v, d) \in DOMAIN t.priority <=> d <= k
  <2> SUFFICES ASSUME NEW d \in 1 .. l PROVE NodeAt(v, d) \in DOMAIN t.priority <=> d <= k
    OBVIOUS
  <2>1. ASSUME NodeAt(v, d) \in DOMAIN t.priority PROVE d <= k
    BY <1>2, <2>1
  <2>2. ASSUME d <= k PROVE NodeAt(v, d) \in DOMAIN t.priority
    <3>1. k \in 0 .. Width /\ d \in 0 .. k /\ NodeAt(v, k) \in DOMAIN t.priority
      BY <1>2, <2>2, WidthAssumption
    <3> QED BY <3>1, AncestorsExist
  <2> QED BY <2>1, <2>2
<1>5. \A d \in 1 .. l : d \in k + 1 .. l <=> ~ (d <= k)
  BY <1>3
<1>6. \A d \in k + 1 .. l : d \in 1 .. l
  BY <1>3
<1>7. Missing(t, v, l) = PartOfWay(v, k + 1, l)
  BY <1>4, <1>5, <1>6 DEF Ways, Missing, PartOfWay
<1>8. k + 1 \in 1 .. Width + 1 /\ l \in 0 .. Width /\ k + 1 <= l + 1 /\ l - (k + 1) + 1 = l - k
  BY <1>3, WidthAssumption
<1>9. Cardinality(PartOfWay(v, k + 1, l)) = l - (k + 1) + 1
  BY <1>8, PieceOfWay DEF PartOfWay
<1> QED BY <1>3, <1>7, <1>8, <1>9

-----------------------------------------------------------------------------
(* What insert_prefix_rule_priority does to a trie                         *)

\* The fields of a trie after some of them are assigned.
LEMMA FieldsAssigned ==
  ASSUME NEW t, DOMAIN t = Fields, NEW p, NEW c, NEW m
  PROVE  /\ DOMAIN [t EXCEPT !.priority = p, !.node_count = m] = Fields
         /\ [t EXCEPT !.priority = p, !.node_count = m].priority = p
         /\ [t EXCEPT !.priority = p, !.node_count = m].count = t.count
         /\ [t EXCEPT !.priority = p, !.node_count = m].node_count = m
         /\ [t EXCEPT !.priority = p, !.node_count = m].expand_count = t.expand_count
         /\ [t EXCEPT !.priority = p, !.node_count = m].expandedTable = t.expandedTable
         /\ [t EXCEPT !.priority = p, !.node_count = m].blowup = t.blowup
         /\ DOMAIN [t EXCEPT !.count = c, !.priority = p] = Fields
         /\ [t EXCEPT !.count = c, !.priority = p].priority = p
         /\ [t EXCEPT !.count = c, !.priority = p].count = c
         /\ [t EXCEPT !.count = c, !.priority = p].node_count = t.node_count
         /\ [t EXCEPT !.count = c, !.priority = p].expand_count = t.expand_count
         /\ [t EXCEPT !.count = c, !.priority = p].expandedTable = t.expandedTable
         /\ [t EXCEPT !.count = c, !.priority = p].blowup = t.blowup
  BY DEF Fields

\* Nodes added below nodes, with priority zero, keep a tree; they are counted.
LEMMA TreeGrows ==
  ASSUME NEW t, Tree(t), NEW v \in Words, NEW nodes, nodes \subseteq Ways(v, Width),
         \A d \in 1 .. Width :
           NodeAt(v, d) \in nodes => NodeAt(v, d - 1) \in DOMAIN t.priority \cup nodes
  PROVE  LET grown == DOMAIN t.priority \cup nodes
         IN /\ Root \in grown /\ grown \subseteq Nodes
            /\ \A n \in grown \ {Root} : NodeAt(n[2], n[1] - 1) \in grown
            /\ Cardinality(grown) = Cardinality(DOMAIN t.priority) + Cardinality(nodes \ DOMAIN t.priority)
            /\ Cardinality(nodes \ DOMAIN t.priority) \in Nat
<1>1. ASSUME NEW n \in nodes
      PROVE  n \in Nodes /\ NodeAt(n[2], n[1] - 1) \in DOMAIN t.priority \cup nodes
  <2>1. PICK d \in 1 .. Width : n = NodeAt(v, d)
    BY DEF Ways
  <2> QED BY <2>1, WayNode
<1> DEFINE here == DOMAIN t.priority
           new == nodes \ here
<1>2. IsFiniteSet(here) /\ IsFiniteSet(new) /\ here \cap new = {} /\ here \cup nodes = here \cup new
  BY <1>1, NodesAreFinite DEF Tree
<1>3. Cardinality(here) \in Nat /\ Cardinality(new) \in Nat /\ Cardinality(here \cap new) = 0
  BY <1>2, FS_CardinalityType, FS_EmptySet
<1>4. Cardinality(here \cup new) = Cardinality(here) + Cardinality(new) - Cardinality(here \cap new)
  BY <1>2, FS_Union
<1> HIDE DEF here, new
<1>5. Cardinality(here \cup nodes) = Cardinality(here) + Cardinality(new)
  <2>1. Cardinality(here \cup nodes) = Cardinality(here \cup new)
    BY <1>2, Zenon
  <2> QED BY <1>3, <1>4, <2>1
<1> QED BY <1>1, <1>3, <1>5 DEF Tree, here, new

\* The way of a prefix rule is closed upwards.
LEMMA WayOfRule ==
  ASSUME NEW rule \in PrefixRules, NEW t, Tree(t)
  PROVE  /\ rule.value \in Words /\ rule.priority \in Nat \ {0}
         /\ PrefixLen(rule.mask) \in 1 .. Width
         /\ EndOf(rule) \in WayOf(rule)
         /\ WayOf(rule) \subseteq Ways(rule.value, Width)
         /\ \A d \in 1 .. Width : NodeAt(rule.value, d) \in WayOf(rule) =>
              NodeAt(rule.value, d - 1) \in DOMAIN t.priority \cup WayOf(rule)
<1>1. rule.value \in Words /\ rule.priority \in Nat \ {0} /\ PrefixLen(rule.mask) \in 1 .. Width
  BY PrefixLenType DEF PrefixRules, CleanRules, Rules
<1> DEFINE L == PrefixLen(rule.mask)
<1>2. \A d \in 1 .. L : d \in 1 .. Width
  BY <1>1, WidthAssumption
<1>3. L \in 1 .. L
  BY <1>1
<1>4. EndOf(rule) \in WayOf(rule) /\ WayOf(rule) \subseteq Ways(rule.value, Width)
  BY <1>2, <1>3 DEF EndOf, WayOf, Ways
<1>5. ASSUME NEW d \in 1 .. Width, NodeAt(rule.value, d) \in WayOf(rule)
      PROVE  NodeAt(rule.value, d - 1) \in DOMAIN t.priority \cup WayOf(rule)
  <2>1. PICK e \in 1 .. L : NodeAt(rule.value, d) = NodeAt(rule.value, e)
    BY <1>5 DEF WayOf, Ways
  <2>2. d = e
    BY <1>1, <1>2, <2>1, WayNode
  <2>3. CASE d = 1
    BY <1>1, <2>3, RootOfWay DEF Tree
  <2>4. CASE d # 1
    <3>1. d - 1 \in 1 .. L
      BY <1>1, <2>2, <2>4
    <3> QED BY <3>1 DEF WayOf, Ways
  <2> QED BY <2>3, <2>4
<1> QED BY <1>1, <1>4, <1>5

\* The nodes a refused walk leaves: those from the first missing one down that the
\* threshold has room for.
LEMMA RoomIsUpperPart ==
  ASSUME NEW t, Tree(t), Counted(t), NEW rule \in PrefixRules,
         NEW missing, missing = Missing(t, rule.value, PrefixLen(rule.mask)), ~Fits(t, missing),
         NEW first, first = PrefixLen(rule.mask) - Cardinality(missing) + 1,
         NEW room, room = { n \in missing : t.node_count + (n[1] - first) + 1 <= Threshold }
  PROVE  /\ room \subseteq missing
         /\ \A d \in 1 .. Width : NodeAt(rule.value, d) \in room =>
              NodeAt(rule.value, d - 1) \in DOMAIN t.priority \cup room
         /\ t.node_count + Cardinality(room) <= Threshold \/ (Cardinality(room) = 0 /\ t.node_count = 1)
<1> DEFINE v == rule.value
           l == PrefixLen(rule.mask)
           m == t.node_count
<1>1. v \in Words /\ l \in 1 .. Width
  BY WayOfRule
<1>2. PICK k \in 0 .. l : missing = PartOfWay(v, k + 1, l) /\ Cardinality(missing) = l - k
  <2>1. \E k \in 0 .. l : /\ Missing(t, v, l) = PartOfWay(v, k + 1, l)
                          /\ Cardinality(Missing(t, v, l)) = l - k
    BY <1>1, MissingIsLowerEnd
  <2> QED BY <2>1, Zenon
<1>0. missing = Ways(v, l) \ DOMAIN t.priority
  BY DEF Missing
<1> HIDE DEF v, l
<1>3. m \in Nat /\ k \in Nat /\ l \in Nat /\ Width \in Nat /\ l <= Width /\ k <= l /\ first = k + 1
  BY <1>1, <1>2, WidthAssumption DEF Tree, l
<1>4. m + (l - k) > Threshold
  BY <1>2, <1>3, ThresholdAssumption DEF Fits
<1>5. \A d \in k + 1 .. l : d \in 1 .. Width /\ NodeAt(v, d)[1] = d
  BY <1>1, <1>3, WayNode
<1> DEFINE b == IF m <= Threshold THEN k + (Threshold - m) ELSE k
<1>6. b \in Nat /\ b < l + 1 /\ k <= b
  BY <1>3, <1>4, ThresholdAssumption
<1>7. \A d \in k + 1 .. l : m + (d - first) + 1 <= Threshold <=> d \in k + 1 .. b
  BY <1>3, <1>6, ThresholdAssumption
<1>8. \A d \in k + 1 .. b : d \in k + 1 .. l
  BY <1>3, <1>6
<1> HIDE DEF b, m
<1>9. room = { NodeAt(v, d) : d \in k + 1 .. b }
  <2>1. ASSUME NEW n \in room PROVE n \in { NodeAt(v, d) : d \in k + 1 .. b }
    <3>1. n \in missing /\ m + (n[1] - first) + 1 <= Threshold
      BY DEF m
    <3>2. PICK d \in k + 1 .. l : n = NodeAt(v, d)
      BY <1>2, <3>1 DEF PartOfWay
    <3>3. m + (d - first) + 1 <= Threshold
      BY <1>5, <3>1, <3>2
    <3> QED BY <1>7, <3>2, <3>3
  <2>2. ASSUME NEW d \in k + 1 .. b PROVE NodeAt(v, d) \in room
    <3>1. d \in k + 1 .. l /\ NodeAt(v, d)[1] = d
      BY <1>5, <1>8
    <3>2. m + (d - first) + 1 <= Threshold
      BY <1>7, <3>1
    <3>3. NodeAt(v, d) \in missing
      BY <1>2, <3>1 DEF PartOfWay
    <3> QED BY <3>1, <3>2, <3>3 DEF m
  <2> QED BY <2>1, <2>2
<1>10. k + 1 \in 1 .. Width + 1 /\ b \in 0 .. Width /\ k + 1 <= b + 1 /\ b - (k + 1) + 1 = b - k
  BY <1>3, <1>6
<1>11. Cardinality(room) = b - k
  BY <1>1, <1>9, <1>10, PieceOfWay
<1>12. m + Cardinality(room) <= Threshold \/ (Cardinality(room) = 0 /\ m = 1)
  BY <1>3, <1>11, ThresholdAssumption DEF b, m, Counted
<1>13. ASSUME NEW d \in 1 .. Width, NodeAt(v, d) \in room
       PROVE  NodeAt(v, d - 1) \in DOMAIN t.priority \cup room
  <2> DEFINE n == NodeAt(v, d)
  <2>0. n \in room
    BY <1>13
  <2> HIDE DEF n
  <2>6. PICK e \in k + 1 .. b : n = NodeAt(v, e)
    BY <1>9, <2>0
  <2>1. NodeAt(v, d) = NodeAt(v, e)
    BY <2>6 DEF n
  <2>2. e \in 1 .. Width /\ NodeAt(v, e)[1] = e
    BY <1>5, <1>8
  <2>3. d = e
    BY <1>1, <2>1, <2>2, WayNode
  <2>4. CASE d - 1 \in k + 1 .. b
    BY <1>9, <2>4
  <2>5. CASE d - 1 \notin k + 1 .. b
    <3>1. d - 1 = k
      BY <1>3, <1>6, <2>3, <2>5
    <3>2. CASE k = 0
      BY <1>1, <3>1, <3>2, RootOfWay DEF Tree
    <3>3. CASE k # 0
      <4>1. k \in 1 .. l /\ k \notin k + 1 .. l /\ k \in 1 .. Width
        BY <1>3, <3>3
      <4>2. NodeAt(v, k) \in Ways(v, l)
        BY <4>1 DEF Ways
      <4>3. NodeAt(v, k) \notin missing
        <5> SUFFICES ASSUME NEW x \in k + 1 .. l, NodeAt(v, k) = NodeAt(v, x) PROVE FALSE
          BY <1>2 DEF PartOfWay
        <5>1. NodeAt(v, x)[1] = x /\ NodeAt(v, k)[1] = k
          BY <1>1, <1>5, <4>1, WayNode
        <5> QED BY <4>1, <5>1
      <4> QED BY <1>0, <3>1, <4>2, <4>3
    <3> QED BY <3>2, <3>3
  <2> QED BY <2>4, <2>5
<1> QED BY <1>12, <1>13 DEF v, m

\* The three outcomes of an insertion.  A shadowed rule changes nothing.  A rule
\* that does not fit leaves nodes without priority, each below a node of the
\* trie.  Any other rule has its whole way in the trie and its end marked.
LEMMA InsertOutcomes ==
  ASSUME NEW t, Tree(t), Counted(t), NEW rule \in PrefixRules,
         NEW result, result = InsertPrefixRulePriority(t, rule)
  PROVE  /\ DOMAIN result.trie = Fields /\ Counted(result.trie)
         /\ result.trie.count \in Nat /\ result.trie.node_count \in Nat
         /\ result.trie.expand_count = t.expand_count
         /\ result.trie.expandedTable = t.expandedTable
         /\ result.trie.blowup = t.blowup
         /\ \/ /\ Shadowed(t, WayOf(rule), rule)
               /\ result.error = 0
               /\ result.trie = t
            \/ /\ result.error = 1
               /\ ~Fits(t, Missing(t, rule.value, PrefixLen(rule.mask)))
               /\ \E nodes \in SUBSET WayOf(rule) :
                    /\ result.trie.priority = WithNodes(t.priority, nodes)
                    /\ \A d \in 1 .. Width :
                         NodeAt(rule.value, d) \in nodes =>
                           NodeAt(rule.value, d - 1) \in DOMAIN t.priority \cup nodes
            \/ /\ ~Shadowed(t, WayOf(rule), rule)
               /\ result.error = 0
               /\ result.trie.priority =
                    Marked(WithNodes(t.priority, WayOf(rule)), EndOf(rule), rule)
<1> DEFINE length == PrefixLen(rule.mask)
           way == WayOf(rule)
           missing == Missing(t, rule.value, length)
           first == length - Cardinality(missing) + 1
           room == { n \in missing : t.node_count + (n[1] - first) + 1 <= Threshold }
           created == IF Fits(t, missing) THEN missing ELSE room
           grown == [t EXCEPT !.priority = WithNodes(t.priority, created),
                              !.node_count = t.node_count + Cardinality(created)]
           marked == Marked(grown.priority, EndOf(rule), rule)
<1>1. result = IF Shadowed(t, way, rule) THEN [trie |-> t, error |-> 0]
               ELSE IF ~Fits(t, missing) THEN [trie |-> grown, error |-> 1]
               ELSE [trie |-> [grown EXCEPT !.count = grown.count + 1, !.priority = marked],
                     error |-> 0]
  BY DEF InsertPrefixRulePriority, WayOf, EndOf, Missing
<1>2. missing = way \ DOMAIN t.priority
  BY DEF Missing, WayOf
<1>0. /\ missing = Missing(t, rule.value, PrefixLen(rule.mask))
      /\ first = PrefixLen(rule.mask) - Cardinality(missing) + 1
      /\ room = { n \in missing : t.node_count + (n[1] - first) + 1 <= Threshold }
  OBVIOUS
<1>4. room \subseteq missing /\ created \subseteq missing
  OBVIOUS
<1>5. /\ DOMAIN grown = Fields
      /\ grown.priority = WithNodes(t.priority, created)
      /\ grown.count = t.count
      /\ grown.node_count = t.node_count + Cardinality(created)
      /\ grown.expand_count = t.expand_count
      /\ grown.expandedTable = t.expandedTable
      /\ grown.blowup = t.blowup
  BY FieldsAssigned DEF Tree
<1>6. created = IF Fits(t, missing) THEN missing ELSE room
  OBVIOUS
<1> HIDE DEF missing, first, room, grown, marked, created
<1>3. ~Fits(t, missing) =>
        /\ \A d \in 1 .. Width : NodeAt(rule.value, d) \in room =>
             NodeAt(rule.value, d - 1) \in DOMAIN t.priority \cup room
        /\ t.node_count + Cardinality(room) <= Threshold \/ (Cardinality(room) = 0 /\ t.node_count = 1)
  BY <1>0, RoomIsUpperPart
<1>7. /\ rule.value \in Words /\ way \subseteq Ways(rule.value, Width) /\ EndOf(rule) \in way
      /\ \A d \in 1 .. Width : NodeAt(rule.value, d) \in way =>
           NodeAt(rule.value, d - 1) \in DOMAIN t.priority \cup way
  BY WayOfRule
<1>8. \A d \in 1 .. Width : NodeAt(rule.value, d) \in created =>
        NodeAt(rule.value, d - 1) \in DOMAIN t.priority \cup created
  BY <1>2, <1>3, <1>6, <1>7
<1>9. created \subseteq Ways(rule.value, Width) /\ created \ DOMAIN t.priority = created
  BY <1>2, <1>4, <1>7
<1>10. /\ Cardinality(DOMAIN t.priority \cup created)
             = Cardinality(DOMAIN t.priority) + Cardinality(created)
       /\ Cardinality(created) \in Nat
  <2>1. Cardinality(created \ DOMAIN t.priority) = Cardinality(created)
    BY <1>9, Zenon
  <2>2. /\ Cardinality(DOMAIN t.priority \cup created)
             = Cardinality(DOMAIN t.priority) + Cardinality(created \ DOMAIN t.priority)
        /\ Cardinality(created \ DOMAIN t.priority) \in Nat
    BY <1>7, <1>8, <1>9, TreeGrows
  <2> QED BY <2>1, <2>2
<1>11. DOMAIN grown.priority = DOMAIN t.priority \cup created
  BY <1>5 DEF WithNodes
<1>12. grown.node_count = Cardinality(DOMAIN grown.priority) /\ grown.node_count \in Nat
  <2>1. Cardinality(DOMAIN grown.priority) = Cardinality(DOMAIN t.priority \cup created)
    BY <1>11, Zenon
  <2> QED BY <1>5, <1>10, <2>1 DEF Counted, Tree
<1>13. grown.node_count <= Threshold \/ grown.node_count = 1
  <2>1. CASE Fits(t, missing)
    BY <1>5, <1>6, <2>1 DEF Fits
  <2>2. CASE ~Fits(t, missing)
    BY <1>3, <1>5, <1>6, <2>2
  <2> QED BY <2>1, <2>2
<1>14. Counted(grown)
  BY <1>12, <1>13 DEF Counted
<1>15. CASE Shadowed(t, way, rule)
  BY <1>1, <1>15 DEF Tree
<1>16. CASE ~Shadowed(t, way, rule) /\ ~Fits(t, missing)
  <2>1. result.trie = grown /\ result.error = 1
    BY <1>1, <1>16
  <2>2. created \in SUBSET way
    BY <1>2, <1>4
  <2> QED BY <1>5, <1>8, <1>12, <1>14, <1>16, <2>1, <2>2 DEF missing, Tree
<1>17. CASE ~Shadowed(t, way, rule) /\ Fits(t, missing)
  <2> DEFINE final == [grown EXCEPT !.count = grown.count + 1, !.priority = marked]
  <2>1. result.trie = final /\ result.error = 0
    BY <1>1, <1>17
  <2>2. /\ DOMAIN final = Fields
        /\ final.priority = marked
        /\ final.count = grown.count + 1
        /\ final.node_count = grown.node_count
        /\ final.expand_count = grown.expand_count
        /\ final.expandedTable = grown.expandedTable
        /\ final.blowup = grown.blowup
    BY <1>5, FieldsAssigned
  <2> HIDE DEF final
  <2>3. created = missing
    BY <1>6, <1>17
  <2>4. WithNodes(t.priority, missing) = WithNodes(t.priority, way)
    BY <1>2 DEF WithNodes
  <2>5. marked = Marked(WithNodes(t.priority, way), EndOf(rule), rule)
    BY <1>5, <2>3, <2>4 DEF marked
  <2>6. DOMAIN final.priority = DOMAIN grown.priority
    BY <2>2 DEF marked, Marked
  <2>7. Counted(final)
    BY <1>14, <2>2, <2>6 DEF Counted
  <2> QED BY <1>5, <1>12, <1>17, <2>1, <2>2, <2>5, <2>7 DEF Tree
<1> QED BY <1>15, <1>16, <1>17

-----------------------------------------------------------------------------
(* The invariant of a trie that prefix rules are inserted into             *)

\* Only the ends of accepted rules are marked, with their priorities, and every
\* accepted rule has a mark on its way that is at least as good.
Answers(t, accepted) ==
  /\ accepted \subseteq PrefixRules
  /\ \A n \in DOMAIN t.priority : t.priority[n] # 0 =>
       \E r \in accepted : EndOf(r) = n /\ r.priority = t.priority[n]
  /\ \A r \in accepted : \E n \in WayOf(r) \cap DOMAIN t.priority :
       t.priority[n] \in 1 .. r.priority

TrieHolds(t, accepted) == Tree(t) /\ Counted(t) /\ Answers(t, accepted)

\* A new trie holds no rule.
LEMMA NewTrieHolds == TrieHolds(NewTrie, {})
<1>1. /\ DOMAIN NewTrie = Fields
      /\ NewTrie.priority = [n \in {Root} |-> 0]
      /\ NewTrie.count = 0 /\ NewTrie.node_count = 1 /\ NewTrie.expand_count = 0
      /\ NewTrie.blowup = FALSE /\ NewTrie.expandedTable = << >>
  BY DEF NewTrie, Fields
<1>2. DOMAIN NewTrie.priority = {Root} /\ NewTrie.priority[Root] = 0
  BY <1>1
<1>3. Root \in Nodes
  <2>1. {} \in Words
    BY DEF Words
  <2>2. NodeAt({}, 0) = Root
    BY <2>1, RootOfWay
  <2>3. Root \in (0 .. Width) \X Words /\ Root[1] = 0 /\ Root[2] = {}
    BY <2>1, WidthAssumption DEF Root
  <2> QED BY <2>2, <2>3 DEF Nodes
<1>4. Tree(NewTrie)
  <2>1. NewTrie.expandedTable \in Seq(PrefixRules) /\ NewTrie.blowup \in BOOLEAN
    <3>1. << >> \in Seq(PrefixRules)
      OBVIOUS
    <3> QED BY <1>1, <3>1, Zenon
  <2>2. \A n \in DOMAIN NewTrie.priority : NewTrie.priority[n] \in Nat
    BY <1>2
  <2> QED BY <1>1, <1>2, <1>3, <2>1, <2>2 DEF Tree
<1>5. Counted(NewTrie)
  <2>1. Cardinality({Root}) = 1
    BY FS_Singleton
  <2> QED BY <1>1, <1>2, <2>1 DEF Counted
<1>6. Answers(NewTrie, {})
  BY <1>2 DEF Answers
<1> QED BY <1>4, <1>5, <1>6 DEF TrieHolds

\* A shadowed rule is covered by what shadows it.
LEMMA HoldsShadowed ==
  ASSUME NEW t, NEW accepted, TrieHolds(t, accepted), NEW rule \in PrefixRules,
         Shadowed(t, WayOf(rule), rule)
  PROVE  TrieHolds(t, accepted \cup {rule})
<1> USE DEF TrieHolds
<1>1. PICK n \in WayOf(rule) \cap DOMAIN t.priority :
        0 < t.priority[n] /\ t.priority[n] < rule.priority
  BY DEF Shadowed
<1>2. rule.priority \in Nat /\ t.priority[n] \in Nat
  BY WayOfRule DEF Tree
<1>3. t.priority[n] \in 1 .. rule.priority
  BY <1>1, <1>2
<1> QED BY <1>1, <1>3 DEF Answers

\* A refused rule leaves nodes without priority.
LEMMA HoldsRefused ==
  ASSUME NEW t, NEW accepted, TrieHolds(t, accepted), NEW rule \in PrefixRules,
         NEW nodes \in SUBSET WayOf(rule), NEW u,
         u.priority = WithNodes(t.priority, nodes),
         \A d \in 1 .. Width :
           NodeAt(rule.value, d) \in nodes =>
             NodeAt(rule.value, d - 1) \in DOMAIN t.priority \cup nodes,
         DOMAIN u = Fields, Counted(u), u.count \in Nat, u.node_count \in Nat,
         u.expand_count = t.expand_count, u.expandedTable = t.expandedTable, u.blowup = t.blowup
  PROVE  TrieHolds(u, accepted)
<1> USE DEF TrieHolds
<1> DEFINE grown == DOMAIN t.priority \cup nodes
<1>1. /\ DOMAIN u.priority = grown
      /\ \A n \in grown : u.priority[n] = IF n \in DOMAIN t.priority THEN t.priority[n] ELSE 0
  BY DEF WithNodes
<1>2. nodes \subseteq Ways(rule.value, Width) /\ rule.value \in Words
  BY WayOfRule
<1>3. /\ Root \in grown /\ grown \subseteq Nodes
      /\ \A n \in grown \ {Root} : NodeAt(n[2], n[1] - 1) \in grown
  BY <1>2, TreeGrows
<1> HIDE DEF grown
<1>4. \A n \in grown : u.priority[n] \in Nat
  BY <1>1 DEF Tree
<1>5. Tree(u)
  BY <1>1, <1>3, <1>4 DEF Tree
<1>6. \A n \in grown : u.priority[n] # 0 =>
        n \in DOMAIN t.priority /\ u.priority[n] = t.priority[n]
  BY <1>1
<1>7. \A n \in DOMAIN t.priority : n \in DOMAIN u.priority /\ u.priority[n] = t.priority[n]
  BY <1>1 DEF grown
<1>8. Answers(u, accepted)
  BY <1>1, <1>6, <1>7 DEF Answers
<1> QED BY <1>5, <1>8

\* An inserted rule is marked at its end; what it replaces there was no better.
LEMMA HoldsAccepted ==
  ASSUME NEW t, NEW accepted, TrieHolds(t, accepted), NEW rule \in PrefixRules,
         ~Shadowed(t, WayOf(rule), rule), NEW u,
         u.priority = Marked(WithNodes(t.priority, WayOf(rule)), EndOf(rule), rule),
         DOMAIN u = Fields, Counted(u), u.count \in Nat, u.node_count \in Nat,
         u.expand_count = t.expand_count, u.expandedTable = t.expandedTable, u.blowup = t.blowup
  PROVE  TrieHolds(u, accepted \cup {rule})
<1> USE DEF TrieHolds
<1> DEFINE way == WayOf(rule)
           end == EndOf(rule)
           grown == DOMAIN t.priority \cup way
<1>1. /\ rule.value \in Words /\ rule.priority \in Nat \ {0} /\ end \in way
      /\ way \subseteq Ways(rule.value, Width)
      /\ \A d \in 1 .. Width : NodeAt(rule.value, d) \in way =>
           NodeAt(rule.value, d - 1) \in DOMAIN t.priority \cup way
  BY WayOfRule
<1>2. /\ DOMAIN u.priority = grown
      /\ \A n \in grown : u.priority[n] =
                            IF n = end THEN rule.priority
                            ELSE IF n \in DOMAIN t.priority THEN t.priority[n] ELSE 0
  BY <1>1 DEF WithNodes, Marked
<1>3. /\ Root \in grown /\ grown \subseteq Nodes
      /\ \A n \in grown \ {Root} : NodeAt(n[2], n[1] - 1) \in grown
  BY <1>1, TreeGrows
<1>4. end \in DOMAIN t.priority /\ t.priority[end] # 0 => rule.priority <= t.priority[end]
  BY <1>1 DEF Shadowed, Tree
<1>5. end \in grown
  BY <1>1
<1> HIDE DEF way, end, grown
<1>6. \A n \in grown : u.priority[n] \in Nat
  BY <1>1, <1>2 DEF Tree
<1>7. Tree(u)
  BY <1>2, <1>3, <1>6 DEF Tree
<1>8. ASSUME NEW n \in grown, u.priority[n] # 0
      PROVE  \E r \in accepted \cup {rule} : EndOf(r) = n /\ r.priority = u.priority[n]
  <2>1. CASE n = end
    BY <1>2, <2>1 DEF end
  <2>2. CASE n # end
    <3>1. n \in DOMAIN t.priority /\ u.priority[n] = t.priority[n]
      BY <1>2, <1>8, <2>2
    <3> QED BY <1>8, <3>1 DEF Answers
  <2> QED BY <2>1, <2>2
<1>9. ASSUME NEW r \in accepted \cup {rule}
      PROVE  \E n \in WayOf(r) \cap grown : u.priority[n] \in 1 .. r.priority
  <2>1. CASE r = rule
    <3>1. end \in WayOf(rule) \cap grown /\ u.priority[end] \in 1 .. rule.priority
      BY <1>1, <1>2, <1>5 DEF way
    <3> QED BY <2>1, <3>1
  <2>2. CASE r \in accepted
    <3>1. PICK n \in WayOf(r) \cap DOMAIN t.priority : t.priority[n] \in 1 .. r.priority
      BY <2>2 DEF Answers
    <3>2. n \in grown /\ r.priority \in Nat /\ t.priority[n] \in Nat
      BY <2>2 DEF grown, Tree, Answers, PrefixRules, CleanRules, Rules
    <3>3. u.priority[n] \in 1 .. t.priority[n]
      <4>1. CASE n = end
        BY <1>1, <1>2, <1>4, <3>1, <3>2, <4>1
      <4>2. CASE n # end
        BY <1>2, <3>1, <3>2, <4>2
      <4> QED BY <4>1, <4>2
    <3>4. u.priority[n] \in 1 .. r.priority
      BY <3>1, <3>2, <3>3
    <3> QED BY <3>1, <3>2, <3>4
  <2> QED BY <2>1, <2>2
<1>10. Answers(u, accepted \cup {rule})
  BY <1>2, <1>8, <1>9 DEF Answers
<1> QED BY <1>7, <1>10

\* An insertion keeps the invariant: for the rules accepted before, and for the
\* new one if it returns 0.
LEMMA InsertHolds ==
  ASSUME NEW t, NEW accepted, TrieHolds(t, accepted), NEW rule \in PrefixRules,
         NEW result, result = InsertPrefixRulePriority(t, rule)
  PROVE  /\ result.error \in {0, 1}
         /\ result.error = 0 => TrieHolds(result.trie, accepted \cup {rule})
         /\ result.error = 1 => TrieHolds(result.trie, accepted)
         /\ result.trie.expandedTable = t.expandedTable /\ result.trie.blowup = t.blowup
         /\ result.error = 1 => ~Fits(t, Missing(t, rule.value, PrefixLen(rule.mask)))
<1> DEFINE u == result.trie
<1>1. /\ DOMAIN u = Fields /\ Counted(u) /\ u.count \in Nat /\ u.node_count \in Nat
      /\ u.expand_count = t.expand_count /\ u.expandedTable = t.expandedTable /\ u.blowup = t.blowup
  BY InsertOutcomes DEF TrieHolds
<1>2. CASE Shadowed(t, WayOf(rule), rule) /\ result.error = 0 /\ u = t
  BY <1>2, HoldsShadowed
<1>3. CASE /\ result.error = 1
           /\ ~Fits(t, Missing(t, rule.value, PrefixLen(rule.mask)))
           /\ \E nodes \in SUBSET WayOf(rule) :
                /\ u.priority = WithNodes(t.priority, nodes)
                /\ \A d \in 1 .. Width :
                     NodeAt(rule.value, d) \in nodes =>
                       NodeAt(rule.value, d - 1) \in DOMAIN t.priority \cup nodes
  BY <1>1, <1>3, HoldsRefused
<1>4. CASE /\ ~Shadowed(t, WayOf(rule), rule)
           /\ result.error = 0
           /\ u.priority = Marked(WithNodes(t.priority, WayOf(rule)), EndOf(rule), rule)
  BY <1>1, <1>4, HoldsAccepted
<1> QED BY <1>2, <1>3, <1>4, InsertOutcomes DEF TrieHolds

\* With room for every node there is, nothing is refused.
Ample == Cardinality(Nodes) <= Threshold

\* Then the missing nodes of any rule fit.
LEMMA AmpleFits ==
  ASSUME Ample, NEW t, Tree(t), Counted(t), NEW rule \in PrefixRules
  PROVE  Fits(t, Missing(t, rule.value, PrefixLen(rule.mask)))
<1> DEFINE missing == Missing(t, rule.value, PrefixLen(rule.mask))
           here == DOMAIN t.priority
           way == WayOf(rule)
<1>1. missing = way \ here
  BY DEF Missing, WayOf
<1>2. /\ here \cup way \subseteq Nodes
      /\ Cardinality(here \cup way) = Cardinality(here) + Cardinality(way \ here)
  BY WayOfRule, TreeGrows
<1>3. Cardinality(here \cup way) <= Cardinality(Nodes) /\ Cardinality(here \cup way) \in Nat
      /\ Cardinality(Nodes) \in Nat
  BY <1>2, NodesAreFinite, FS_Subset, FS_CardinalityType
<1>4. Cardinality(missing) = Cardinality(way \ here)
  BY <1>1, Zenon
<1> HIDE DEF missing, here, way
<1>5. t.node_count + Cardinality(missing) <= Threshold
  BY <1>2, <1>3, <1>4, ThresholdAssumption DEF Counted, here, Ample
<1> QED BY <1>5 DEF Fits, missing

-----------------------------------------------------------------------------
(* Expanding a rule                                                        *)

\* The lowest position that is not masked has only masked positions below it.
LEMMA BoundaryShape ==
  ASSUME NEW mask \in Words, mask # Bits
  PROVE  /\ Boundary(mask) \in Bits /\ Boundary(mask) \notin mask
         /\ \A c \in Bits : c < Boundary(mask) => c \in mask
<1> DEFINE free == Bits \ mask
<1>1. free \subseteq Nat /\ free # {}
  <2>1. mask \subseteq Bits
    BY DEF Words
  <2>2. free # {}
    BY <2>1
  <2> QED BY <2>2 DEF Bits
<1>2. \E b \in free : \A c \in free : b <= c
  BY <1>1, LeastNatural
<1>3. Boundary(mask) = CHOOSE b \in free : \A c \in free : b <= c
  BY DEF Boundary
<1>4. Boundary(mask) \in free /\ \A c \in free : Boundary(mask) <= c
  BY <1>2, <1>3
<1>5. ASSUME NEW c \in Bits, c < Boundary(mask) PROVE c \in mask
  BY <1>4, <1>5 DEF Bits
<1> QED BY <1>4, <1>5

\* A rule of wildcards only has more of them above the boundary than the limit.
LEMMA AllMaskedIsRefused ==
  ASSUME NEW rule, rule.mask = Bits
  PROVE  GetNewNum(rule) > BlowupLimit
<1>1. Boundary(rule.mask) = 0
  BY DEF Boundary
<1>2. NewPositions(rule.mask) = 1 .. Width - 1
  BY <1>1, WidthAssumption DEF NewPositions, Bits
<1>3. Cardinality(1 .. Width - 1) = Width - 1
  BY FS_Interval, WidthAssumption
<1>4. Cardinality(NewPositions(rule.mask)) = Cardinality(1 .. Width - 1)
  BY <1>2, Zenon
<1> QED BY <1>3, <1>4, BlowupAssumption, WidthAssumption DEF GetNewNum

\* The rules a rule is expanded into are prefix rules with its priority, and a key
\* matches the rule exactly if it matches one of them.
LEMMA ExpansionsCover ==
  ASSUME NEW rule \in CleanRules, rule.mask # Bits, NEW e, e = Expansions(rule)
  PROVE  /\ \E n \in Nat : DOMAIN e = 1 .. n
         /\ \A i \in DOMAIN e : e[i] \in PrefixRules /\ e[i].priority = rule.priority
         /\ \A key \in Words : Matches(rule, key) <=> \E i \in DOMAIN e : Matches(e[i], key)
<1> DEFINE b == Boundary(rule.mask)
           new == NewPositions(rule.mask)
           words == InOrder(SUBSET new, Below)
           low == 0 .. b - 1
           n == Cardinality(SUBSET new)
<1>1. /\ rule \in [value : Words, mask : Words, priority : Nat \ {0}]
      /\ rule.value \in Words /\ rule.mask \in Words /\ rule.priority \in Nat \ {0}
      /\ rule.value \cap rule.mask = {}
  BY DEF CleanRules, Rules
<1>2. b \in Bits /\ b \notin rule.mask /\ \A c \in Bits : c < b => c \in rule.mask
  BY <1>1, BoundaryShape
<1>3. new \subseteq rule.mask /\ \A j \in rule.mask : j \in new <=> j > b
  BY DEF NewPositions
<1>4. SUBSET new \in SUBSET Words
  BY <1>1, <1>3 DEF Words
<1>5. n \in Nat /\ words \in Bijection(1 .. n, SUBSET new)
  BY <1>4, AscendingWords
<1>6. /\ DOMAIN words = 1 .. n /\ \A i \in 1 .. n : words[i] \in SUBSET new
      /\ \A w \in SUBSET new : \E i \in 1 .. n : words[i] = w
  BY <1>5 DEF Bijection, Surjection
<1>7. e = [i \in DOMAIN words |-> [rule EXCEPT !.value = rule.value \cup words[i], !.mask = low]]
  BY DEF Expansions
<1> HIDE DEF words, n, new, b
<1>8. DOMAIN e = 1 .. n
  BY <1>6, <1>7
<1>9. ASSUME NEW i \in 1 .. n
      PROVE  /\ e[i] \in [value : Words, mask : Words, priority : Nat \ {0}]
             /\ e[i].value = rule.value \cup words[i] /\ e[i].mask = low
             /\ e[i].priority = rule.priority
  <2>1. e[i] = [rule EXCEPT !.value = rule.value \cup words[i], !.mask = low]
    BY <1>6, <1>7
  <2>2. rule.value \cup words[i] \in Words
    BY <1>1, <1>3, <1>6 DEF Words
  <2>3. low \in Words
    BY <1>2, WidthAssumption DEF Words, Bits
  <2> HIDE DEF low
  <2> QED BY <1>1, <2>1, <2>2, <2>3
<1>10. \A c \in low : c \in rule.mask /\ c \notin new /\ c \in Bits
  BY <1>2, <1>3, WidthAssumption DEF Bits
<1>11. \A c \in rule.mask : c \in low \/ c \in new
  BY <1>1, <1>2, <1>3, WidthAssumption DEF Bits, Words
<1>12. low # Bits /\ low = 0 .. Cardinality(low) - 1
  <2>1. Cardinality(low) = b
    <3>1. 0 \in Int /\ b - 1 \in Int /\ (IF 0 > b - 1 THEN 0 ELSE (b - 1) - 0 + 1) = b
      BY <1>2 DEF Bits
    <3> QED BY <3>1, FS_Interval
  <2>2. b \notin low /\ b \in Bits
    BY <1>2 DEF Bits
  <2> QED BY <2>1, <2>2
<1> HIDE DEF low
<1>13. ASSUME NEW i \in 1 .. n PROVE e[i] \in PrefixRules
  <2>1. e[i].value \cap e[i].mask = {}
    BY <1>1, <1>6, <1>9, <1>10
  <2>2. e[i] \in CleanRules
    BY <1>9, <2>1 DEF CleanRules, Rules
  <2>3. IsPrefixRule(e[i])
    BY <1>9, <1>12 DEF IsPrefixRule
  <2> QED BY <2>2, <2>3 DEF PrefixRules
<1>14. ASSUME NEW key \in Words, NEW i \in 1 .. n, Matches(e[i], key)
       PROVE  Matches(rule, key)
  <2>1. rule.value \cup words[i] = key \ low
    BY <1>9, <1>14 DEF Matches
  <2>2. rule.value = key \ rule.mask
    BY <1>1, <1>3, <1>6, <1>10, <1>11, <2>1
  <2> QED BY <2>2 DEF Matches
<1>15. ASSUME NEW key \in Words, Matches(rule, key)
       PROVE  \E i \in 1 .. n : Matches(e[i], key)
  <2>1. rule.value = key \ rule.mask
    BY <1>15 DEF Matches
  <2>2. key \cap new \in SUBSET new
    OBVIOUS
  <2>3. PICK i \in 1 .. n : words[i] = key \cap new
    BY <1>6, <2>2
  <2>4. rule.value \cup words[i] = key \ low
    BY <1>3, <1>10, <1>11, <2>1, <2>3
  <2> QED BY <1>9, <2>4 DEF Matches
<1> QED BY <1>5, <1>8, <1>9, <1>13, <1>14, <1>15

\* One round of the expansion: nothing more after a refusal, else an insertion
\* that is noted in the table of expanded rules.
Round(result, accepted, rule, next) ==
  /\ next.error \in {0, 1}
  /\ next.trie.blowup = result.trie.blowup
  /\ Ample /\ result.error = 0 => next.error = 0
  /\ \/ next = result /\ result.error = 1
     \/ /\ next.error = 1
        /\ next.trie.expandedTable = result.trie.expandedTable
        /\ TrieHolds(next.trie, accepted)
     \/ /\ result.error = 0 /\ next.error = 0
        /\ next.trie.expandedTable = Append(result.trie.expandedTable, rule)
        /\ TrieHolds(next.trie, accepted \cup {rule})

\* One prefix rule of an expansion is one round of the loop of expand_rule.
LEMMA ExpandOneHolds ==
  ASSUME NEW result, result.error \in {0, 1}, NEW accepted, TrieHolds(result.trie, accepted),
         NEW rule \in PrefixRules
  PROVE  Round(result, accepted, rule, ExpandOne(result, rule))
<1> DEFINE next == ExpandOne(result, rule)
<1> DEFINE inserted == InsertPrefixRulePriority(result.trie, rule)
           u == inserted.trie
           longer == Append(u.expandedTable, rule)
           final == [u EXCEPT !.expandedTable = longer, !.expand_count = u.expand_count + Len(longer)]
<1>1. next = IF result.error = 1 THEN result
             ELSE IF inserted.error = 1 THEN inserted
             ELSE [trie |-> final, error |-> 0]
  BY DEF ExpandOne
<1>2. inserted = InsertPrefixRulePriority(result.trie, rule)
  OBVIOUS
<1> HIDE DEF inserted, next
<1> SUFFICES Round(result, accepted, rule, next)
  BY DEF next
<1>3. /\ inserted.error \in {0, 1}
      /\ inserted.error = 0 => TrieHolds(u, accepted \cup {rule})
      /\ inserted.error = 1 => TrieHolds(u, accepted)
      /\ u.expandedTable = result.trie.expandedTable /\ u.blowup = result.trie.blowup
      /\ inserted.error = 1 => ~Fits(result.trie, Missing(result.trie, rule.value, PrefixLen(rule.mask)))
  BY <1>2, InsertHolds
<1>4. Ample => inserted.error = 0
  BY <1>3, AmpleFits DEF TrieHolds
<1>5. CASE result.error = 1
  BY <1>1, <1>5 DEF Round
<1>6. CASE result.error # 1 /\ inserted.error = 1
  BY <1>1, <1>3, <1>4, <1>6 DEF Round
<1>7. CASE result.error # 1 /\ inserted.error # 1
  <2>1. result.error = 0 /\ inserted.error = 0 /\ next.trie = final /\ next.error = 0
    BY <1>1, <1>3, <1>7
  <2>2. Tree(u) /\ Counted(u) /\ Answers(u, accepted \cup {rule})
    BY <1>3, <2>1 DEF TrieHolds
  <2>3. longer \in Seq(PrefixRules) /\ u.expand_count + Len(longer) \in Nat
    BY <2>2 DEF Tree
  <2>4. /\ DOMAIN final = Fields /\ final.priority = u.priority /\ final.count = u.count
        /\ final.node_count = u.node_count /\ final.expand_count = u.expand_count + Len(longer)
        /\ final.expandedTable = longer /\ final.blowup = u.blowup
    BY <2>2 DEF Tree, Fields
  <2> HIDE DEF final
  <2>5. Tree(final)
    BY <2>2, <2>3, <2>4 DEF Tree
  <2>6. Counted(final) /\ Answers(final, accepted \cup {rule})
    BY <2>2, <2>4 DEF Counted, Answers
  <2> QED BY <1>3, <2>1, <2>4, <2>5, <2>6 DEF TrieHolds, Round
<1> QED BY <1>5, <1>6, <1>7

\* The rules that an expansion has inserted.
Added(t, u) == { u.expandedTable[i] : i \in Len(t.expandedTable) + 1 .. Len(u.expandedTable) }

\* After some rounds: the first m expanded rules are in the table and accepted.
ExpandedTo(t, accepted, e, result, i, m) ==
  /\ result.error \in {0, 1}
  /\ result.error = 0 => m = i
  /\ result.trie.blowup = t.blowup
  /\ Ample => result.error = 0
  /\ Len(result.trie.expandedTable) = Len(t.expandedTable) + m
  /\ \A j \in 1 .. m : result.trie.expandedTable[Len(t.expandedTable) + j] = e[j]
  /\ TrieHolds(result.trie, accepted \cup { e[j] : j \in 1 .. m })

\* A round more of the loop of expand_rule.
LEMMA ExpandedToNext ==
  ASSUME NEW t, NEW accepted, TrieHolds(t, accepted), NEW n \in Nat,
         NEW e, DOMAIN e = 1 .. n, \A j \in 1 .. n : e[j] \in PrefixRules,
         NEW i \in 1 .. n, NEW m \in 0 .. i - 1, NEW result, ExpandedTo(t, accepted, e, result, i - 1, m),
         NEW next, next = ExpandOne(result, e[i])
  PROVE  \E k \in 0 .. i : ExpandedTo(t, accepted, e, next, i, k)
<1> DEFINE added == accepted \cup { e[j] : j \in 1 .. m }
           L == Len(t.expandedTable)
           old == result.trie.expandedTable
<1>1. result.error \in {0, 1} /\ TrieHolds(result.trie, added) /\ e[i] \in PrefixRules
  BY DEF ExpandedTo
<1> HIDE DEF added
<1>2. L \in Nat /\ old \in Seq(PrefixRules) /\ Len(old) = L + m /\ m \in Nat
  BY <1>1 DEF TrieHolds, Tree, ExpandedTo
<1>3. /\ next.error \in {0, 1}
      /\ next.trie.blowup = result.trie.blowup
      /\ Ample /\ result.error = 0 => next.error = 0
      /\ \/ next = result /\ result.error = 1
         \/ /\ next.error = 1
            /\ next.trie.expandedTable = old
            /\ TrieHolds(next.trie, added)
         \/ /\ result.error = 0 /\ next.error = 0
            /\ next.trie.expandedTable = Append(old, e[i])
            /\ TrieHolds(next.trie, added \cup {e[i]})
  <2>1. Round(result, added, e[i], next)
    BY <1>1, ExpandOneHolds
  <2> QED BY <2>1 DEF Round
<1>4. CASE next = result /\ result.error = 1
  <2>1. m \in 0 .. i
    OBVIOUS
  <2>2. ExpandedTo(t, accepted, e, result, i, m)
    BY <1>4 DEF ExpandedTo
  <2> QED BY <1>4, <2>1, <2>2, Zenon
<1>5. CASE next.error = 1 /\ next.trie.expandedTable = old /\ TrieHolds(next.trie, added)
  <2>1. m \in 0 .. i
    OBVIOUS
  <2>2. /\ result.trie.blowup = t.blowup
        /\ Ample => result.error = 0
        /\ \A j \in 1 .. m : old[L + j] = e[j]
    BY DEF ExpandedTo
  <2>3. TrieHolds(next.trie, accepted \cup { e[j] : j \in 1 .. m })
    BY <1>5 DEF added
  <2>4. ~Ample
    BY <1>3, <1>5, <2>2, <1>1
  <2>5. ExpandedTo(t, accepted, e, next, i, m)
    BY <1>2, <1>3, <1>5, <2>2, <2>3, <2>4 DEF ExpandedTo
  <2> QED BY <2>1, <2>5
<1>6. CASE /\ result.error = 0 /\ next.error = 0
           /\ next.trie.expandedTable = Append(old, e[i])
           /\ TrieHolds(next.trie, added \cup {e[i]})
  <2>1. m = i - 1
    BY <1>6 DEF ExpandedTo
  <2>2. added \cup {e[i]} = accepted \cup { e[j] : j \in 1 .. i }
    <3>1. \A j \in 1 .. i : j \in 1 .. m \/ j = i
      BY <2>1
    <3>2. \A j \in 1 .. m : j \in 1 .. i
      BY <2>1
    <3> QED BY <3>1, <3>2 DEF added
  <2>3. /\ Len(Append(old, e[i])) = L + i
        /\ \A j \in 1 .. Len(old) : Append(old, e[i])[j] = old[j]
        /\ Append(old, e[i])[L + i] = e[i]
    BY <1>2, <2>1
  <2>4. ASSUME NEW j \in 1 .. i PROVE next.trie.expandedTable[L + j] = e[j]
    <3>1. CASE j = i
      BY <1>6, <2>3, <3>1
    <3>2. CASE j # i
      <4>1. j \in 1 .. m /\ L + j \in 1 .. Len(old)
        BY <1>2, <2>1, <3>2
      <4>2. old[L + j] = e[j]
        BY <4>1 DEF ExpandedTo
      <4> QED BY <1>6, <2>3, <4>1, <4>2
    <3> QED BY <3>1, <3>2
  <2>5. TrieHolds(next.trie, accepted \cup { e[j] : j \in 1 .. i })
    BY <1>6, <2>2, Zenon
  <2>6. ExpandedTo(t, accepted, e, next, i, i)
    BY <1>3, <1>6, <2>3, <2>4, <2>5 DEF ExpandedTo
  <2>7. i \in 0 .. i
    OBVIOUS
  <2> QED BY <2>6, <2>7
<1> QED BY <1>3, <1>4, <1>5, <1>6

\* All rounds of expand_rule.
LEMMA AllRounds ==
  ASSUME NEW t, NEW accepted, TrieHolds(t, accepted), NEW n \in Nat,
         NEW e, DOMAIN e = 1 .. n, \A j \in 1 .. n : e[j] \in PrefixRules
  PROVE  \E m \in 0 .. n :
           ExpandedTo(t, accepted, e, FoldLeft(ExpandOne, [trie |-> t, error |-> 0], e), n, m)
<1> DEFINE base == [trie |-> t, error |-> 0]
<1>0. FoldLeft(ExpandOne, base, e) = Expanding!Folded(base, e, n)
  BY DEF FoldLeft, MapThenFoldSet, Max, Expanding!Folded, Expanding!Folds, Expanding!Greatest
<1>chain. PICK h : Expanding!Chain(h, base, e, n)
  BY Expanding!FoldIsChain
<1>1. /\ h[0] = base
      /\ \A i \in 1 .. n : h[i] = ExpandOne(h[i - 1], e[i])
      /\ Expanding!Folded(base, e, n) = h[n]
  BY <1>chain DEF Expanding!Chain
<1> DEFINE Reached(i) == \E m \in 0 .. i : ExpandedTo(t, accepted, e, h[i], i, m)
           Bad == { i \in 0 .. n : ~Reached(i) }
<1>2. Reached(0)
  <2>1. accepted \cup { e[j] : j \in 1 .. 0 } = accepted
    OBVIOUS
  <2>2. TrieHolds(t, accepted \cup { e[j] : j \in 1 .. 0 })
    BY <2>1, Zenon
  <2>3. Len(t.expandedTable) = Len(t.expandedTable) + 0 /\ \A j \in 1 .. 0 : FALSE
    BY DEF TrieHolds, Tree
  <2>4. h[0].trie = t /\ h[0].error = 0
    BY <1>1
  <2>5. ExpandedTo(t, accepted, e, h[0], 0, 0)
    BY <2>2, <2>3, <2>4 DEF ExpandedTo
  <2>6. 0 \in 0 .. 0
    OBVIOUS
  <2> QED BY <2>5, <2>6
<1>3. CASE Bad # {}
  <2>0. Bad \subseteq Nat
    OBVIOUS
  <2> HIDE DEF Bad
  <2>1. PICK i \in Bad : \A j \in Bad : i <= j
    BY <1>3, <2>0, LeastNatural
  <2> USE DEF Bad
  <2>2. i # 0 /\ i \in 0 .. n /\ ~Reached(i)
    BY <1>2, <2>1
  <2>3. i \in 1 .. n /\ i - 1 \in 0 .. n /\ i - 1 \notin Bad
    BY <2>1, <2>2
  <2>4. Reached(i - 1)
    BY <2>3
  <2>5. PICK m \in 0 .. i - 1 : ExpandedTo(t, accepted, e, h[i - 1], i - 1, m)
    BY <2>4
  <2>6. h[i] = ExpandOne(h[i - 1], e[i])
    BY <1>1, <2>3
  <2>7. Reached(i)
    BY <2>3, <2>5, <2>6, ExpandedToNext
  <2> QED BY <2>2, <2>7
<1>4. CASE Bad = {}
  <2>1. n \in 0 .. n /\ n \notin Bad
    BY <1>4
  <2>2. Reached(n)
    BY <2>1
  <2> HIDE DEF base
  <2> QED BY <1>0, <1>1, <2>2 DEF base
<1> QED BY <1>3, <1>4

\* What an expansion achieves.
Expanded(t, accepted, rule, result) ==
  /\ result.error \in {0, 1}
  /\ TrieHolds(result.trie, accepted \cup Added(t, result.trie))
  /\ \A r \in Added(t, result.trie) : /\ r \in PrefixRules /\ r.priority = rule.priority
                                      /\ \A key \in Words : Matches(r, key) => Matches(rule, key)
  /\ result.error = 0 => \A key \in Words : Matches(rule, key) =>
                           \E r \in Added(t, result.trie) : Matches(r, key)
  /\ t.blowup => result.trie.blowup
  /\ Ample /\ ~result.trie.blowup => result.error = 0

\* expand_rule accepts some of the expanded rules, and all of them unless it is
\* refused by the limit on wildcards or by the node threshold.
LEMMA ExpandHolds ==
  ASSUME NEW t, NEW accepted, TrieHolds(t, accepted), NEW rule \in CleanRules
  PROVE  Expanded(t, accepted, rule, ExpandRule(t, rule))
<1> DEFINE result == ExpandRule(t, rule)
           e == Expansions(rule)
           L == Len(t.expandedTable)
<1>1. result = IF GetNewNum(rule) > BlowupLimit THEN [trie |-> [t EXCEPT !.blowup = TRUE], error |-> 1]
               ELSE FoldLeft(ExpandOne, [trie |-> t, error |-> 0], e)
  BY DEF ExpandRule
<1>2. e = Expansions(rule)
  OBVIOUS
<1> HIDE DEF result, e
<1> SUFFICES Expanded(t, accepted, rule, result)
  BY DEF result
<1>3. Tree(t) /\ Counted(t) /\ Answers(t, accepted)
  BY DEF TrieHolds
<1>4. CASE GetNewNum(rule) > BlowupLimit
  <2> DEFINE u == [t EXCEPT !.blowup = TRUE]
  <2>1. result.trie = u /\ result.error = 1
    BY <1>1, <1>4
  <2>2. /\ DOMAIN u = Fields /\ u.priority = t.priority /\ u.count = t.count
        /\ u.node_count = t.node_count /\ u.expand_count = t.expand_count
        /\ u.expandedTable = t.expandedTable /\ u.blowup = TRUE
    BY <1>3 DEF Tree, Fields
  <2> HIDE DEF u
  <2>3. Tree(u)
    <3>1. u.blowup \in BOOLEAN
      BY <2>2
    <3> QED BY <1>3, <2>2, <3>1 DEF Tree
  <2>4. Counted(u) /\ Answers(u, accepted)
    BY <1>3, <2>2 DEF Counted, Answers
  <2>5. Added(t, u) = {} /\ accepted \cup Added(t, u) = accepted
    <3>1. L \in Nat
      BY <1>3 DEF Tree
    <3>2. \A i \in L + 1 .. L : FALSE
      BY <3>1
    <3> QED BY <2>2, <3>2 DEF Added
  <2>6. TrieHolds(u, accepted \cup Added(t, u))
    <3>1. TrieHolds(u, accepted)
      BY <2>3, <2>4 DEF TrieHolds
    <3> QED BY <2>5, <3>1, Zenon
  <2>7. u.blowup = TRUE
    BY <2>2
  <2> QED BY <2>1, <2>5, <2>6, <2>7 DEF Expanded
<1>5. CASE ~ (GetNewNum(rule) > BlowupLimit)
  <2>1. rule.mask # Bits
    BY <1>5, AllMaskedIsRefused
  <2>2. /\ \E n \in Nat : DOMAIN e = 1 .. n
        /\ \A i \in DOMAIN e : e[i] \in PrefixRules /\ e[i].priority = rule.priority
        /\ \A key \in Words : Matches(rule, key) <=> \E i \in DOMAIN e : Matches(e[i], key)
    BY <1>2, <2>1, ExpansionsCover
  <2>3. PICK n \in Nat : DOMAIN e = 1 .. n
    BY <2>2
  <2>4. PICK m \in 0 .. n : ExpandedTo(t, accepted, e, result, n, m)
    <3>1. \A j \in 1 .. n : e[j] \in PrefixRules
      BY <2>2, <2>3
    <3>2. \E m \in 0 .. n :
            ExpandedTo(t, accepted, e, FoldLeft(ExpandOne, [trie |-> t, error |-> 0], e), n, m)
      BY <2>3, <3>1, AllRounds
    <3>3. result = FoldLeft(ExpandOne, [trie |-> t, error |-> 0], e)
      BY <1>1, <1>5
    <3> QED BY <3>2, <3>3, Zenon
  <2> DEFINE first == { e[j] : j \in 1 .. m }
             table == result.trie.expandedTable
  <2>5. Added(t, result.trie) = first
    <3>1. Len(table) = L + m /\ L \in Nat /\ \A j \in 1 .. m : table[L + j] = e[j]
      BY <1>3, <2>4 DEF ExpandedTo, Tree
    <3>2. \A j \in 1 .. m : L + j \in L + 1 .. L + m
      BY <3>1
    <3>3. ASSUME NEW i \in L + 1 .. L + m PROVE i - L \in 1 .. m /\ table[i] = e[i - L]
      <4>1. i - L \in 1 .. m /\ L + (i - L) = i
        BY <3>1
      <4> QED BY <3>1, <4>1
    <3>4. ASSUME NEW x \in Added(t, result.trie) PROVE x \in first
      BY <3>1, <3>3 DEF Added
    <3>5. ASSUME NEW x \in first PROVE x \in Added(t, result.trie)
      BY <3>1, <3>2 DEF Added
    <3> QED BY <3>4, <3>5
  <2>6. result.error \in {0, 1} /\ TrieHolds(result.trie, accepted \cup Added(t, result.trie))
    <3>1. TrieHolds(result.trie, accepted \cup first)
      BY <2>4 DEF ExpandedTo
    <3>2. result.error \in {0, 1}
      BY <2>4 DEF ExpandedTo
    <3> QED BY <2>5, <3>1, <3>2, Zenon
  <2>7. \A j \in 1 .. m : j \in DOMAIN e
    BY <2>3
  <2>8. ASSUME NEW r \in Added(t, result.trie)
        PROVE  /\ r \in PrefixRules /\ r.priority = rule.priority
               /\ \A key \in Words : Matches(r, key) => Matches(rule, key)
    BY <2>2, <2>5, <2>7
  <2>9. ASSUME result.error = 0, NEW key \in Words, Matches(rule, key)
        PROVE  \E r \in Added(t, result.trie) : Matches(r, key)
    <3>1. m = n
      BY <2>4, <2>9 DEF ExpandedTo
    <3>2. PICK i \in 1 .. n : Matches(e[i], key)
      BY <2>2, <2>3, <2>9
    <3> QED BY <2>5, <3>1, <3>2
  <2>10. result.trie.blowup = t.blowup
    BY <2>4 DEF ExpandedTo
  <2>11. Ample => result.error = 0
    BY <2>4 DEF ExpandedTo
  <2> QED BY <2>6, <2>8, <2>9, <2>10, <2>11 DEF Expanded
<1> QED BY <1>4, <1>5

-----------------------------------------------------------------------------
(* What the search finds                                                   *)

\* LPM1_search_rule answers zero when no mark is on the way of the key, and
\* otherwise the least of the marks.
LEMMA SearchFindsLeast ==
  ASSUME NEW t, Tree(t), NEW key \in Words, NEW met,
         met = { t.priority[n] : n \in Ways(key, Width) \cap DOMAIN t.priority } \ {0}
  PROVE  /\ met \subseteq Nat \ {0}
         /\ met = {} => LPM1SearchRule(t, key) = 0
         /\ met # {} => /\ LPM1SearchRule(t, key) \in met
                        /\ \A q \in met : LPM1SearchRule(t, key) <= q
<1>1. met \subseteq Nat \ {0}
  BY DEF Tree
<1>2. LPM1SearchRule(t, key) =
        IF met = {} THEN 0 ELSE CHOOSE p \in met : \A q \in met : p <= q
  BY DEF LPM1SearchRule
<1>3. CASE met = {}
  BY <1>1, <1>2, <1>3
<1>4. CASE met # {}
  <2>1. \E p \in met : \A q \in met : p <= q
    BY <1>1, <1>4, LeastNatural
  <2> QED BY <1>1, <1>2, <1>4, <2>1
<1> QED BY <1>3, <1>4

\* LPM1_search_rule answers with a rule that matches, and misses none that does.
LEMMA SearchAnswers ==
  ASSUME NEW t, NEW accepted, TrieHolds(t, accepted), NEW key \in Words,
         NEW p, p = LPM1SearchRule(t, key)
  PROVE  /\ p \in Nat
         /\ p # 0 => \E rule \in accepted : rule.priority = p /\ Matches(rule, key)
         /\ \A rule \in accepted : Matches(rule, key) => p \in 1 .. rule.priority
<1> DEFINE met == { t.priority[n] : n \in Ways(key, Width) \cap DOMAIN t.priority } \ {0}
<1>1. Tree(t) /\ Answers(t, accepted)
  BY DEF TrieHolds
<1>2. met = { t.priority[n] : n \in Ways(key, Width) \cap DOMAIN t.priority } \ {0}
  OBVIOUS
<1> HIDE DEF met
<1>3. /\ met \subseteq Nat \ {0}
      /\ met = {} => p = 0
      /\ met # {} => p \in met /\ \A q \in met : p <= q
  BY <1>1, <1>2, SearchFindsLeast
<1>4. p \in Nat
  <2>1. CASE met = {}
    BY <1>3, <2>1
  <2>2. CASE met # {}
    BY <1>3, <2>2
  <2> QED BY <2>1, <2>2
<1>5. ASSUME p # 0 PROVE \E rule \in accepted : rule.priority = p /\ Matches(rule, key)
  <2>1. p \in met
    BY <1>3, <1>5
  <2>2. PICK n \in Ways(key, Width) \cap DOMAIN t.priority : p = t.priority[n]
    BY <1>2, <2>1
  <2>3. PICK rule \in accepted : EndOf(rule) = n /\ rule.priority = t.priority[n]
    BY <1>1, <1>5, <2>2 DEF Answers
  <2>4. Matches(rule, key)
    BY <1>1, <2>2, <2>3, WayOfMatch DEF Answers
  <2> QED BY <2>2, <2>3, <2>4
<1>6. ASSUME NEW rule \in accepted, Matches(rule, key) PROVE p \in 1 .. rule.priority
  <2>1. rule \in PrefixRules /\ rule.priority \in Nat
    BY <1>1 DEF Answers, PrefixRules, CleanRules, Rules
  <2>2. PICK n \in WayOf(rule) \cap DOMAIN t.priority : t.priority[n] \in 1 .. rule.priority
    BY <1>1 DEF Answers
  <2>3. n \in Ways(key, Width)
    BY <1>6, <2>1, <2>2, WayOfMatch
  <2>4. t.priority[n] \in met
    BY <1>2, <2>2, <2>3
  <2>5. p \in Nat \ {0} /\ p <= t.priority[n]
    BY <1>3, <2>4
  <2> QED BY <2>1, <2>2, <2>5
<1> QED BY <1>4, <1>5, <1>6

\* Every rule of one set is part of a rule of another, with its priority.
PartsOf(accepted, rules) == \A r \in accepted : \E s \in rules :
  r.priority = s.priority /\ \A key \in Words : Matches(r, key) => Matches(s, key)

\* Every key of a rule of the other set matches one of the first set.
Covers(accepted, rules) == \A s \in rules, key \in Words : Matches(s, key) =>
  \E r \in accepted : r.priority = s.priority /\ Matches(r, key)

\* A trie that holds rules split into parts answers with the best of the rules.
LEMMA BestOfAccepted ==
  ASSUME NEW t, NEW accepted, TrieHolds(t, accepted), NEW rules \in SUBSET CleanRules,
         PartsOf(accepted, rules), Covers(accepted, rules), NEW key \in Words
  PROVE  LPM1SearchRule(t, key) = BestPriority(rules, key)
<1> DEFINE answer == LPM1SearchRule(t, key)
           matching == { r.priority : r \in { s \in rules : Matches(s, key) } }
<1>1. /\ answer \in Nat
      /\ answer # 0 => \E rule \in accepted : rule.priority = answer /\ Matches(rule, key)
      /\ \A rule \in accepted : Matches(rule, key) => answer \in 1 .. rule.priority
  BY SearchAnswers
<1>2. matching \subseteq Nat \ {0}
  BY DEF CleanRules, Rules
<1>3. answer # 0 => answer \in matching
  BY <1>1 DEF PartsOf
<1>4. \A q \in matching : answer \in 1 .. q
  BY <1>1 DEF Covers
<1>5. BestPriority(rules, key) =
        IF matching = {} THEN 0 ELSE CHOOSE p \in matching : \A q \in matching : p <= q
  BY DEF BestPriority
<1> HIDE DEF answer, matching
<1>6. CASE matching = {}
  BY <1>3, <1>5, <1>6 DEF answer
<1>7. CASE matching # {}
  <2>1. answer \in matching /\ \A q \in matching : answer <= q
    <3>1. PICK q \in matching : answer \in 1 .. q
      BY <1>4, <1>7
    <3>2. answer # 0
      BY <1>2, <3>1
    <3>3. \A p \in matching : answer <= p
      BY <1>2, <1>4
    <3> QED BY <1>3, <3>2, <3>3
  <2>2. \A p \in matching : (\A q \in matching : p <= q) => p = answer
    BY <1>2, <2>1
  <2> QED BY <1>5, <1>7, <2>1, <2>2 DEF answer
<1> QED BY <1>6, <1>7

-----------------------------------------------------------------------------
(* Exact words                                                             *)

\* A trie of words: the nodes of full depth are the ends of words, and every
\* other node but the root leads to one.
WordTrie(t) ==
  /\ Tree(t)
  /\ \A n \in DOMAIN t.priority : t.priority[n] # 0 <=> n[1] = Width
  /\ \A n \in DOMAIN t.priority \ {Root} : n[1] < Width => Children(t, n) # {}

HasWord(t, w) == NodeAt(w, Width) \in DOMAIN t.priority

\* A node is named by its depth and the bits on its way.
LEMMA NodeShape ==
  ASSUME NEW n \in Nodes
  PROVE  /\ n[1] \in 0 .. Width /\ n[2] \in Words /\ n = NodeAt(n[2], n[1])
         /\ n[1] = 0 => n = Root
<1>1. n[1] \in 0 .. Width /\ n[2] \in Words /\ n = NodeAt(n[2], n[1])
  BY DEF Nodes
<1>2. n[1] = 0 => n = Root
  BY <1>1, RootOfWay
<1> QED BY <1>1, <1>2

\* The nodes of a way, the root included, and where words end.
LEMMA WayDepth ==
  ASSUME NEW v \in Words, NEW d \in 0 .. Width
  PROVE  NodeAt(v, d) \in Nodes /\ NodeAt(v, d)[1] = d /\ (NodeAt(v, d) = Root => d = 0)
<1>1. CASE d = 0
  <2>1. {} \in Words /\ NodeAt({}, 0) = Root
    BY RootOfWay DEF Words
  <2>2. Root[1] = 0 /\ Root[2] = {} /\ Root \in (0 .. Width) \X Words
    BY <2>1, WidthAssumption DEF Root
  <2>3. Root \in Nodes
    BY <2>1, <2>2 DEF Nodes
  <2>4. NodeAt(v, d) = Root
    BY <1>1, RootOfWay
  <2> QED BY <1>1, <2>2, <2>3, <2>4
<1>2. CASE d # 0
  <2>1. d \in 1 .. Width
    BY <1>2
  <2> QED BY <2>1, WayNode
<1> QED BY <1>1, <1>2

\* Different words end in different nodes.
LEMMA WordEnd ==
  ASSUME NEW v \in Words, NEW w \in Words, NodeAt(v, Width) = NodeAt(w, Width)
  PROVE  v = w
<1>1. \A b \in Bits : b >= Width - Width
  BY WidthAssumption DEF Bits
<1>2. \A x \in Words : { b \in x : b >= Width - Width } = x
  BY <1>1 DEF Words
<1> QED BY <1>2 DEF NodeAt

\* A node one below a node of a way is on it as far as that node.
LEMMA ChildOnWay ==
  ASSUME NEW v \in Words, NEW d \in 0 .. Width - 1
  PROVE  NodeAt(NodeAt(v, d + 1)[2], d) = NodeAt(v, d)
<1>1. d + 1 \in 1 .. Width /\ d + 1 - 1 = d
  BY WidthAssumption
<1>2. NodeAt(NodeAt(v, d + 1)[2], NodeAt(v, d + 1)[1] - 1) = NodeAt(v, d + 1 - 1) /\ NodeAt(v, d + 1)[1] = d + 1
  BY <1>1, WayNode
<1> QED BY <1>1, <1>2

\* search_rule finds the words of the trie.
LEMMA WordIsFound ==
  ASSUME NEW t, WordTrie(t), NEW key \in Words
  PROVE  SearchRule(t, key) <=> HasWord(t, key)
<1>1. Width \in 1 .. Width /\ Width \in 0 .. Width
  BY WidthAssumption
<1>2. ASSUME SearchRule(t, key) PROVE HasWord(t, key)
  BY <1>1, <1>2 DEF SearchRule, HasWord, Ways
<1>3. ASSUME HasWord(t, key) PROVE SearchRule(t, key)
  <2>1. NodeAt(key, Width) \in DOMAIN t.priority /\ NodeAt(key, Width)[1] = Width
    BY <1>1, <1>3, WayDepth DEF HasWord
  <2>2. t.priority[NodeAt(key, Width)] # 0
    BY <2>1 DEF WordTrie
  <2>3. ASSUME NEW n \in Ways(key, Width) PROVE n \in DOMAIN t.priority
    <3>1. PICK d \in 1 .. Width : n = NodeAt(key, d)
      BY DEF Ways
    <3>2. d \in 0 .. Width
      OBVIOUS
    <3> QED BY <1>1, <2>1, <3>1, <3>2, AncestorsExist DEF WordTrie
  <2> QED BY <2>2, <2>3 DEF SearchRule
<1> QED BY <1>2, <1>3

\* insert_rule adds the word and the nodes on its way.
LEMMA WordIsInserted ==
  ASSUME NEW t, WordTrie(t), NEW v \in Words, NEW u, u = InsertRuleValue(t, v)
  PROVE  WordTrie(u) /\ \A w \in Words : HasWord(u, w) <=> HasWord(t, w) \/ w = v
<1> DEFINE end == NodeAt(v, Width)
           way == Ways(v, Width)
           missing == way \ DOMAIN t.priority
           here == DOMAIN t.priority
           grown == here \cup missing
<1>1. Tree(t)
  BY DEF WordTrie
<1>2. /\ DOMAIN t = Fields
      /\ u = [t EXCEPT !.priority = [WithNodes(t.priority, missing) EXCEPT ![end] = t.count + 1],
                       !.count = t.count + 1, !.node_count = t.node_count + Cardinality(missing)]
  BY <1>1 DEF Tree, InsertRuleValue
<1>3. /\ DOMAIN u = Fields
      /\ u.priority = [WithNodes(t.priority, missing) EXCEPT ![end] = t.count + 1]
      /\ u.count = t.count + 1 /\ u.node_count = t.node_count + Cardinality(missing)
      /\ u.expand_count = t.expand_count /\ u.expandedTable = t.expandedTable /\ u.blowup = t.blowup
  BY <1>2 DEF Fields
<1>4. Width \in 1 .. Width /\ Width \in 0 .. Width
  BY WidthAssumption
<1>5. end \in way /\ end[1] = Width
  BY <1>4, WayDepth DEF Ways
<1>6. ASSUME NEW d \in 1 .. Width PROVE NodeAt(v, d - 1) \in here \cup way
  <2>1. CASE d = 1
    BY <1>1, <2>1, RootOfWay DEF Tree
  <2>2. CASE d # 1
    <3>1. d - 1 \in 1 .. Width
      BY <2>2, WidthAssumption
    <3> QED BY <3>1 DEF Ways
  <2> QED BY <2>1, <2>2
<1>7. grown = here \cup way
  OBVIOUS
<1>8. /\ Root \in grown /\ grown \subseteq Nodes
      /\ \A n \in grown \ {Root} : NodeAt(n[2], n[1] - 1) \in grown
      /\ Cardinality(missing) \in Nat
  <2>1. missing \subseteq Ways(v, Width)
    OBVIOUS
  <2>2. \A d \in 1 .. Width : NodeAt(v, d) \in missing => NodeAt(v, d - 1) \in here \cup missing
    BY <1>6, <1>7
  <2>3. missing \ here = missing
    OBVIOUS
  <2> HIDE DEF missing
  <2>4. /\ Root \in grown /\ grown \subseteq Nodes
        /\ \A n \in grown \ {Root} : NodeAt(n[2], n[1] - 1) \in grown
        /\ Cardinality(missing \ here) \in Nat
    BY <1>1, <2>1, <2>2, TreeGrows
  <2> QED BY <2>3, <2>4
<1>9. DOMAIN u.priority = grown /\ \A n \in grown :
        u.priority[n] = IF n = end THEN t.count + 1 ELSE IF n \in here THEN t.priority[n] ELSE 0
  BY <1>3 DEF WithNodes
<1> HIDE DEF end, way, missing, here, grown
<1>10. t.count \in Nat /\ t.node_count \in Nat /\ t.expand_count \in Nat /\ t.blowup \in BOOLEAN
       /\ t.expandedTable \in Seq(PrefixRules) /\ \A n \in here : t.priority[n] \in Nat
  BY <1>1 DEF Tree, here
<1>11. Tree(u)
  <2>1. \A n \in grown : u.priority[n] \in Nat
    BY <1>9, <1>10
  <2>2. u.count \in Nat /\ u.node_count \in Nat /\ u.expand_count \in Nat
    BY <1>3, <1>8, <1>10
  <2> QED BY <1>3, <1>8, <1>9, <1>10, <2>1, <2>2 DEF Tree
<1>12. ASSUME NEW n \in grown PROVE u.priority[n] # 0 <=> n[1] = Width
  <2>1. CASE n = end
    BY <1>5, <1>9, <1>10, <2>1
  <2>2. CASE n # end /\ n \in here
    <3>1. u.priority[n] = t.priority[n]
      BY <1>9, <2>2
    <3> QED BY <2>2, <3>1 DEF WordTrie, here
  <2>3. CASE n # end /\ n \notin here
    <3>1. u.priority[n] = 0 /\ n \in way
      BY <1>7, <1>9, <2>3
    <3>2. PICK d \in 1 .. Width : n = NodeAt(v, d)
      BY <3>1 DEF way, Ways
    <3>3. n[1] = d
      BY <3>2, WayNode
    <3>4. d # Width
      BY <2>3, <3>2 DEF end
    <3> QED BY <3>1, <3>3, <3>4
  <2> QED BY <2>1, <2>2, <2>3
<1>13. ASSUME NEW n \in grown \ {Root}, n[1] < Width PROVE Children(u, n) # {}
  <2>1. CASE n \in here
    <3>1. PICK c \in Children(t, n) : TRUE
      BY <1>13, <2>1 DEF WordTrie, here
    <3>2. c \in here
      BY DEF Children, here
    <3>3. c \in Children(u, n)
      BY <1>7, <1>9, <3>2 DEF Children
    <3> QED BY <3>3
  <2>2. CASE n \notin here
    <3>1. n \in way
      BY <1>7, <2>2
    <3>2. PICK d \in 1 .. Width : n = NodeAt(v, d)
      BY <3>1 DEF way, Ways
    <3>3. n[1] = d /\ d \in 0 .. Width - 1 /\ d + 1 \in 1 .. Width
      BY <1>13, <3>2, WayNode, WidthAssumption
    <3>4. NodeAt(v, d + 1) \in grown /\ NodeAt(v, d + 1)[1] = d + 1
      BY <1>7, <3>3, WayNode DEF way, Ways
    <3>5. NodeAt(NodeAt(v, d + 1)[2], d) = n
      BY <3>2, <3>3, ChildOnWay
    <3>6. NodeAt(v, d + 1) \in Children(u, n)
      BY <1>9, <3>3, <3>4, <3>5 DEF Children
    <3> QED BY <3>6
  <2> QED BY <2>1, <2>2
<1>14. WordTrie(u)
  BY <1>9, <1>11, <1>12, <1>13 DEF WordTrie
<1>15. ASSUME NEW w \in Words PROVE HasWord(u, w) <=> HasWord(t, w) \/ w = v
  <2>1. ASSUME HasWord(u, w), ~HasWord(t, w) PROVE w = v
    <3>1. NodeAt(w, Width) \in way
      BY <1>7, <1>9, <2>1 DEF HasWord, here
    <3>2. PICK d \in 1 .. Width : NodeAt(w, Width) = NodeAt(v, d)
      BY <3>1 DEF way, Ways
    <3>3. d = Width
      BY <1>4, <3>2, WayNode
    <3> QED BY <3>2, <3>3, WordEnd
  <2>2. HasWord(t, w) => HasWord(u, w)
    BY <1>7, <1>9 DEF HasWord, here
  <2>3. w = v => HasWord(u, w)
    BY <1>5, <1>7, <1>9 DEF HasWord, end
  <2> QED BY <2>1, <2>2, <2>3
<1> QED BY <1>14, <1>15

\* The depth down to which remove keeps the way of a word: below it every node
\* has the next one of the way as its only child, and at it there is another
\* child, unless it is the root.
LEMMA KeptDepthIs ==
  ASSUME NEW t, WordTrie(t), NEW v \in Words,
         NEW kept, kept = CHOOSE d \in KeptDepths(t, v) : \A e \in KeptDepths(t, v) : e <= d
  PROVE  /\ kept \in 0 .. Width - 1
         /\ \A d \in kept + 1 .. Width - 1 : Children(t, NodeAt(v, d)) = { NodeAt(v, d + 1) }
         /\ kept # 0 => \/ t.priority[NodeAt(v, kept)] # 0
                        \/ Children(t, NodeAt(v, kept)) # { NodeAt(v, kept + 1) }
<1> DEFINE K == KeptDepths(t, v)
<1>1. K \subseteq 0 .. Width - 1 /\ 0 \in K
  BY WidthAssumption DEF KeptDepths
<1>2. K \subseteq Nat /\ K # {} /\ Width \in Nat /\ \A d \in K : d <= Width
  BY <1>1, WidthAssumption
<1>3. kept = CHOOSE d \in K : \A e \in K : e <= d
  OBVIOUS
<1>4. \A d \in K : d = 0 \/ t.priority[NodeAt(v, d)] # 0 \/ Children(t, NodeAt(v, d)) # { NodeAt(v, d + 1) }
  BY DEF KeptDepths
<1>5. \A d \in 0 .. Width - 1 : d \notin K => Children(t, NodeAt(v, d)) = { NodeAt(v, d + 1) }
  BY Zenon DEF KeptDepths
<1> HIDE DEF K
<1>6. \E d \in K : \A e \in K : e <= d
  BY <1>2, GreatestNatural
<1>7. kept \in K /\ \A e \in K : e <= kept
  BY <1>3, <1>6
<1>8. kept \in 0 .. Width - 1
  BY <1>1, <1>7
<1>9. ASSUME NEW d \in kept + 1 .. Width - 1 PROVE Children(t, NodeAt(v, d)) = { NodeAt(v, d + 1) }
  <2>1. d \in 0 .. Width - 1 /\ ~ (d <= kept)
    BY <1>8, WidthAssumption
  <2>2. d \notin K
    BY <1>7, <2>1
  <2> QED BY <1>5, <2>1, <2>2
<1>10. kept # 0 => \/ t.priority[NodeAt(v, kept)] # 0
                   \/ Children(t, NodeAt(v, kept)) # { NodeAt(v, kept + 1) }
  BY <1>4, <1>7
<1> QED BY <1>8, <1>9, <1>10

\* remove takes the word out, and nothing else.
LEMMA WordIsRemoved ==
  ASSUME NEW t, WordTrie(t), NEW v \in Words, NEW u, u = RemoveWord(t, v)
  PROVE  WordTrie(u) /\ \A w \in Words : HasWord(u, w) <=> HasWord(t, w) /\ w # v
<1> DEFINE end == NodeAt(v, Width)
           here == DOMAIN t.priority
           kept == CHOOSE d \in KeptDepths(t, v) : \A e \in KeptDepths(t, v) : e <= d
           useless == { NodeAt(v, d) : d \in kept + 1 .. Width }
           left == here \ useless
           unmarked == [t.priority EXCEPT ![end] = 0]
<1>1. Tree(t) /\ DOMAIN t = Fields
  BY DEF WordTrie, Tree
<1>2. Width \in 1 .. Width /\ Width \in 0 .. Width /\ Width \in Nat
  BY WidthAssumption
<1>3. CASE ~ (Ways(v, Width) \subseteq here)
  <2>1. u = t
    BY <1>3 DEF RemoveWord
  <2>2. ~HasWord(t, v)
    <3>1. ~SearchRule(t, v)
      BY <1>3 DEF SearchRule
    <3> QED BY <3>1, WordIsFound
  <2> QED BY <2>1, <2>2
<1>4. CASE Ways(v, Width) \subseteq here
  <2>1. end \in here /\ end[1] = Width /\ end \in Nodes
    BY <1>2, <1>4, WayDepth DEF Ways
  <2>2. Children(t, end) = {}
    <3> SUFFICES ASSUME NEW c \in Children(t, end) PROVE FALSE
      OBVIOUS
    <3>1. c \in Nodes /\ c[1] = Width + 1
      BY <1>1, <2>1 DEF Children, Tree
    <3> QED BY <1>2, <3>1, NodeShape
  <2>3. u = [t EXCEPT !.priority = [n \in DOMAIN unmarked \ useless |-> unmarked[n]]]
    BY <1>4, <2>2 DEF RemoveWord
  <2>4. DOMAIN unmarked = here
    OBVIOUS
  <2>5. /\ kept \in 0 .. Width - 1
        /\ \A d \in kept + 1 .. Width - 1 : Children(t, NodeAt(v, d)) = { NodeAt(v, d + 1) }
        /\ kept # 0 => \/ t.priority[NodeAt(v, kept)] # 0
                       \/ Children(t, NodeAt(v, kept)) # { NodeAt(v, kept + 1) }
    BY KeptDepthIs
  <2> HIDE DEF kept
  <2>6. end \in useless
    BY <1>2, <2>5
  <2>7. \A n \in left : n # end /\ unmarked[n] = t.priority[n]
    BY <2>6
  <2>8. /\ DOMAIN u = Fields /\ u.priority = [n \in left |-> t.priority[n]]
        /\ u.count = t.count /\ u.node_count = t.node_count
        /\ u.expand_count = t.expand_count /\ u.expandedTable = t.expandedTable /\ u.blowup = t.blowup
    <3>1. [n \in DOMAIN unmarked \ useless |-> unmarked[n]] = [n \in left |-> t.priority[n]]
      BY <2>4, <2>7
    <3>2. u = [t EXCEPT !.priority = [n \in left |-> t.priority[n]]]
      BY <2>3, <3>1
    <3> HIDE DEF left
    <3> QED BY <1>1, <3>2 DEF Fields
  <2>9. \A n \in useless : \E d \in kept + 1 .. Width : n = NodeAt(v, d)
    OBVIOUS
  <2>10. \A d \in kept + 1 .. Width : NodeAt(v, d) \in useless
    OBVIOUS
  <2>11. \A n : n \in left <=> n \in here /\ n \notin useless
    OBVIOUS
  <2> HIDE DEF useless, left, unmarked
  <2>12. \A d \in kept + 1 .. Width : d \in 1 .. Width /\ d \in 0 .. Width /\ NodeAt(v, d)[1] = d
    <3>1. \A d \in kept + 1 .. Width : d \in 1 .. Width /\ d \in 0 .. Width
      BY <1>2, <2>5
    <3> QED BY <3>1, WayDepth
  <2>13. here \subseteq Nodes /\ Root \in here
    BY <1>1 DEF Tree
  <2>14. Root \in left
    <3> SUFFICES ASSUME Root \in useless PROVE FALSE
      BY <2>11, <2>13
    <3>1. PICK d \in kept + 1 .. Width : Root = NodeAt(v, d)
      BY <2>9
    <3>2. d = 0
      BY <2>12, <3>1, WayDepth
    <3> QED BY <2>5, <3>2
  <2>15. ASSUME NEW n \in left \ {Root} PROVE NodeAt(n[2], n[1] - 1) \in left
    <3> DEFINE up == NodeAt(n[2], n[1] - 1)
    <3>1. n \in here /\ up \in here /\ n \in Nodes
      BY <1>1, <2>11, <2>13 DEF Tree
    <3>2. n[1] \in 1 .. Width /\ n[2] \in Words /\ n[1] - 1 \in 0 .. Width
      BY <1>2, <3>1, NodeShape
    <3>3. up[1] = n[1] - 1
      BY <3>2, WayDepth
    <3>4. up \notin useless
      <4> SUFFICES ASSUME up \in useless PROVE FALSE
        OBVIOUS
      <4>1. PICK d \in kept + 1 .. Width : up = NodeAt(v, d)
        BY <2>9
      <4>2. d = n[1] - 1
        BY <2>12, <3>3, <4>1
      <4>3. d \in kept + 1 .. Width - 1 /\ d + 1 \in kept + 1 .. Width /\ n[1] = d + 1
        BY <1>2, <2>5, <3>2, <4>2
      <4>4. n \in Children(t, NodeAt(v, d))
        BY <2>12, <3>1, <4>1, <4>2, <4>3 DEF Children
      <4>5. n = NodeAt(v, d + 1)
        BY <2>5, <4>3, <4>4
      <4> QED BY <2>10, <2>11, <4>3, <4>5
    <3> QED BY <2>11, <3>1, <3>4
  <2>16. Tree(u)
    <3>1. DOMAIN u.priority = left /\ \A n \in left : u.priority[n] = t.priority[n]
      BY <2>8
    <3>2. left \subseteq Nodes /\ \A n \in left : t.priority[n] \in Nat
      BY <1>1, <2>11 DEF Tree
    <3> QED BY <1>1, <2>8, <2>14, <2>15, <3>1, <3>2 DEF Tree
  <2>17. \A n \in left : u.priority[n] # 0 <=> n[1] = Width
    BY <2>8, <2>11 DEF WordTrie
  <2>18. ASSUME NEW n \in left \ {Root}, n[1] < Width PROVE Children(u, n) # {}
    <3>1. n \in here /\ n \in Nodes /\ Children(t, n) # {}
      BY <2>11, <2>13, <2>18 DEF WordTrie
    <3>2. PICK c \in Children(t, n) : TRUE
      BY <3>1
    <3>3. c \in here /\ c \in Nodes /\ c[1] = n[1] + 1 /\ NodeAt(c[2], n[1]) = n
      BY <2>13 DEF Children
    <3>4. CASE c \in left
      <4>1. c \in Children(u, n)
        BY <2>8, <3>3, <3>4 DEF Children
      <4> QED BY <4>1
    <3>5. CASE c \notin left
      <4>1. PICK d \in kept + 1 .. Width : c = NodeAt(v, d)
        BY <2>9, <2>11, <3>3, <3>5
      <4>2. d = n[1] + 1 /\ n[1] \in 0 .. Width - 1
        BY <1>2, <2>12, <2>18, <3>1, <3>3, <4>1, NodeShape
      <4>3. n = NodeAt(v, n[1])
        BY <3>3, <4>1, <4>2, ChildOnWay
      <4>4. n[1] \notin kept + 1 .. Width
        BY <2>10, <2>11, <4>3
      <4>5. n[1] = kept
        BY <1>2, <2>5, <4>2, <4>4
      <4>6. kept # 0
        BY <2>18, <3>1, <4>5, NodeShape
      <4>7. t.priority[n] = 0
        BY <1>2, <3>1, <4>2 DEF WordTrie
      <4>8. Children(t, n) # { NodeAt(v, kept + 1) }
        BY <2>5, <4>3, <4>5, <4>6, <4>7
      <4>9. c = NodeAt(v, kept + 1)
        BY <4>1, <4>2, <4>5
      <4>10. PICK o \in Children(t, n) : o # c
        BY <3>2, <4>8, <4>9
      <4>11. o \in here /\ o[1] = n[1] + 1 /\ NodeAt(o[2], n[1]) = n
        BY DEF Children
      <4>12. o \notin useless
        <5> SUFFICES ASSUME o \in useless PROVE FALSE
          OBVIOUS
        <5>1. PICK e \in kept + 1 .. Width : o = NodeAt(v, e)
          BY <2>9
        <5>2. e = kept + 1
          BY <2>12, <4>5, <4>11, <5>1
        <5> QED BY <4>9, <4>10, <5>1, <5>2
      <4>13. o \in Children(u, n)
        BY <2>8, <2>11, <4>11, <4>12 DEF Children
      <4> QED BY <4>13
    <3> QED BY <3>4, <3>5
  <2>19. WordTrie(u)
    <3>1. DOMAIN u.priority = left
      BY <2>8
    <3> QED BY <2>16, <2>17, <2>18, <3>1 DEF WordTrie
  <2>20. ASSUME NEW w \in Words PROVE HasWord(u, w) <=> HasWord(t, w) /\ w # v
    <3>1. HasWord(u, w) <=> NodeAt(w, Width) \in here /\ NodeAt(w, Width) \notin useless
      BY <2>8, <2>11 DEF HasWord
    <3>2. NodeAt(w, Width) \in useless => w = v
      <4> SUFFICES ASSUME NodeAt(w, Width) \in useless PROVE w = v
        OBVIOUS
      <4>1. PICK d \in kept + 1 .. Width : NodeAt(w, Width) = NodeAt(v, d)
        BY <2>9
      <4>2. d = Width
        BY <1>2, <2>12, <4>1, WayDepth
      <4> QED BY <4>1, <4>2, WordEnd
    <3> QED BY <2>6, <3>1, <3>2 DEF HasWord, end
  <2> QED BY <2>19, <2>20
<1> QED BY <1>3, <1>4

\* Words inserted one after the other.
InsertedTo(t, e, u, i) ==
  WordTrie(u) /\ \A w \in Words : HasWord(u, w) <=> HasWord(t, w) \/ \E j \in 1 .. i : w = e[j]

\* The loop of insert_rule inserts the words of the sequence, and no other.
LEMMA WordsAreInserted ==
  ASSUME NEW t, WordTrie(t), NEW n \in Nat,
         NEW e, DOMAIN e = 1 .. n, \A j \in 1 .. n : e[j] \in Words
  PROVE  InsertedTo(t, e, FoldLeft(InsertRuleValue, t, e), n)
<1>1. FoldLeft(InsertRuleValue, t, e) = Inserting!Folded(t, e, n)
  BY DEF FoldLeft, MapThenFoldSet, Max, Inserting!Folded, Inserting!Folds, Inserting!Greatest
<1>chain. PICK h : Inserting!Chain(h, t, e, n)
  BY Inserting!FoldIsChain
<1>2. /\ h[0] = t
      /\ \A i \in 1 .. n : h[i] = InsertRuleValue(h[i - 1], e[i])
      /\ Inserting!Folded(t, e, n) = h[n]
  BY <1>chain DEF Inserting!Chain
<1> DEFINE Bad == { i \in 0 .. n : ~InsertedTo(t, e, h[i], i) }
<1>3. InsertedTo(t, e, h[0], 0)
  BY <1>2 DEF InsertedTo
<1>4. ASSUME NEW i \in 1 .. n, InsertedTo(t, e, h[i - 1], i - 1) PROVE InsertedTo(t, e, h[i], i)
  <2>1. e[i] \in Words /\ h[i] = InsertRuleValue(h[i - 1], e[i]) /\ WordTrie(h[i - 1])
    BY <1>2, <1>4 DEF InsertedTo
  <2>2. WordTrie(h[i]) /\ \A w \in Words : HasWord(h[i], w) <=> HasWord(h[i - 1], w) \/ w = e[i]
    BY <2>1, WordIsInserted
  <2>3. \A j : j \in 1 .. i <=> j \in 1 .. i - 1 \/ j = i
    OBVIOUS
  <2> QED BY <1>4, <2>2, <2>3 DEF InsertedTo
<1>5. Bad = {}
  <2> SUFFICES ASSUME Bad # {} PROVE FALSE
    OBVIOUS
  <2>1. Bad \subseteq Nat
    OBVIOUS
  <2> HIDE DEF Bad
  <2>2. PICK i \in Bad : \A j \in Bad : i <= j
    BY <2>1, LeastNatural
  <2> USE DEF Bad
  <2>3. i # 0 /\ i \in 0 .. n /\ ~InsertedTo(t, e, h[i], i)
    BY <1>3, <2>2
  <2>4. i \in 1 .. n /\ i - 1 \in 0 .. n /\ i - 1 \notin Bad
    BY <2>2, <2>3
  <2> QED BY <1>4, <2>3, <2>4
<1>6. n \in 0 .. n
  OBVIOUS
<1>7. InsertedTo(t, e, h[n], n)
  BY <1>5, <1>6
<1> QED BY <1>1, <1>2, <1>7

\* The bits that 1 << p sets are bits of a word; as long as the shift stays below
\* the sign bit it is the one bit.
LEMMA ShiftedOneIs ==
  ASSUME NEW p \in Bits, NEW long \in BOOLEAN
  PROVE  /\ ShiftedOne(p, long) \subseteq Bits
         /\ p \in 0 .. IntWidth - 2 => ShiftedOne(p, long) = {p}
<1> DEFINE q == p % IntWidth
<1>1. IntWidth \in Nat /\ IntWidth > 0 /\ p \in Nat /\ p < Width /\ Width \in Nat
  BY IntWidthAssumption, WidthAssumption DEF Bits
<1>2. q \in 0 .. IntWidth - 1 /\ (p < IntWidth => q = p)
  BY <1>1
<1>3. ShiftedOne(p, long) = IF long /\ p >= IntWidth THEN {p}
                            ELSE IF q = IntWidth - 1 THEN q .. Width - 1 ELSE {q}
  BY DEF ShiftedOne
<1> HIDE DEF q
<1>4. q \in Bits
  BY <1>1, <1>2 DEF Bits
<1>5. ShiftedOne(p, long) = {p} \/ ShiftedOne(p, long) = q .. Width - 1 \/ ShiftedOne(p, long) = {q}
  BY <1>3, Zenon
<1>6. q .. Width - 1 \subseteq Bits
  BY <1>1, <1>2 DEF Bits
<1>7. ShiftedOne(p, long) \subseteq Bits
  BY <1>4, <1>5, <1>6
<1>8. ASSUME p \in 0 .. IntWidth - 2 PROVE ShiftedOne(p, long) = {p}
  <2>1. ~ (p >= IntWidth) /\ q = p /\ q # IntWidth - 1
    BY <1>1, <1>2, <1>8
  <2> QED BY <1>3, <2>1
<1> QED BY <1>7, <1>8

\* The wildcards of a mask are numbered from zero, different ones differently.
LEMMA WildcardsAreNumbered ==
  ASSUME NEW mask \in Words
  PROVE  /\ Cardinality(mask) \in 0 .. Width
         /\ \A p \in mask : WildcardIndex(mask, p) \in 0 .. Cardinality(mask) - 1
         /\ \A p, q \in mask : WildcardIndex(mask, p) = WildcardIndex(mask, q) => p = q
<1> DEFINE Lower(p) == { q \in mask : q < p }
<1>1. Width \in Nat /\ \A p \in mask : p \in Nat
  BY WidthAssumption DEF Words, Bits
<1>2. IsFiniteSet(Bits) /\ Cardinality(Bits) = Width
  BY <1>1, FS_Interval DEF Bits
<1>3. IsFiniteSet(mask) /\ Cardinality(mask) \in Nat /\ Cardinality(mask) <= Width
  BY <1>2, FS_Subset, FS_CardinalityType DEF Words
<1>4. ASSUME NEW p \in mask
      PROVE  /\ IsFiniteSet(Lower(p)) /\ Cardinality(Lower(p)) \in Nat
             /\ Cardinality(Lower(p) \cup {p}) = Cardinality(Lower(p)) + 1
  <2>1. IsFiniteSet(Lower(p)) /\ Cardinality(Lower(p)) \in Nat
    BY <1>3, FS_Subset, FS_CardinalityType
  <2>2. p \notin Lower(p)
    BY <1>1
  <2> QED BY <2>1, <2>2, FS_AddElement
<1>5. ASSUME NEW p \in mask PROVE WildcardIndex(mask, p) \in 0 .. Cardinality(mask) - 1
  <2>1. Lower(p) \cup {p} \in SUBSET mask
    OBVIOUS
  <2>2. Cardinality(Lower(p) \cup {p}) <= Cardinality(mask)
    BY <1>3, <2>1, FS_Subset
  <2>3. WildcardIndex(mask, p) = Cardinality(Lower(p))
    BY DEF WildcardIndex
  <2> HIDE DEF Lower
  <2> QED BY <1>3, <1>4, <2>2, <2>3
<1>6. ASSUME NEW p \in mask, NEW q \in mask, p < q
      PROVE  WildcardIndex(mask, p) < WildcardIndex(mask, q)
  <2>1. Lower(p) \cup {p} \in SUBSET Lower(q)
    BY <1>1, <1>6
  <2>2. Cardinality(Lower(p) \cup {p}) <= Cardinality(Lower(q))
    BY <1>4, <2>1, FS_Subset
  <2>3. /\ WildcardIndex(mask, p) = Cardinality(Lower(p))
        /\ WildcardIndex(mask, q) = Cardinality(Lower(q))
    BY DEF WildcardIndex
  <2>4. /\ Cardinality(Lower(p)) \in Nat /\ Cardinality(Lower(q)) \in Nat
        /\ Cardinality(Lower(p) \cup {p}) = Cardinality(Lower(p)) + 1
    BY <1>4
  <2> HIDE DEF Lower
  <2> QED BY <2>2, <2>3, <2>4
<1>7. \A p, q \in mask : p = q \/ p < q \/ q < p
  BY <1>1
<1>8. \A p \in mask : WildcardIndex(mask, p) \in Int
  BY <1>3, <1>5
<1> QED
  <2>1. \A p, q \in mask : WildcardIndex(mask, p) = WildcardIndex(mask, q) => p = q
    BY <1>6, <1>7, <1>8
  <2> QED BY <1>3, <1>5, <2>1

\* A mask that insert_rule expands as it should: it shifts an int to every wildcard
\* and to the number of them, which must leave the sign bit alone.
Narrow(mask) == mask \subseteq 0 .. IntWidth - 2 /\ Cardinality(mask) < IntWidth - 1

\* The words of insert_rule are words; they are the keys that the rule matches as
\* long as an int can shift to every wildcard and to their number.
LEMMA ExpandedWordsAre ==
  ASSUME NEW rule \in CleanRules, NEW long \in BOOLEAN, NEW e, e = ExpandedWords(rule, long)
  PROVE  /\ \E n \in Nat : DOMAIN e = 1 .. n
         /\ \A i \in DOMAIN e : e[i] \in Words
         /\ Narrow(rule.mask) => \A w \in Words : Matches(rule, w) <=> \E i \in DOMAIN e : w = e[i]
<1> DEFINE num == Cardinality(rule.mask)
           counters == Counters(num, long)
           order == InOrder(counters, Below)
           n == Cardinality(counters)
           Index(p) == WildcardIndex(rule.mask, p)
           Ones(i) == { p \in rule.mask : ShiftedOne(Index(p), long) \cap i = {} }
           Shifted(c) == UNION { ShiftedOne(p, long) : p \in c }
<1>1. rule.value \in Words /\ rule.mask \in Words /\ rule.value \cap rule.mask = {}
  BY DEF CleanRules, Rules
<1>2. /\ num \in 0 .. Width
      /\ \A p \in rule.mask : Index(p) \in 0 .. num - 1
      /\ \A p, q \in rule.mask : Index(p) = Index(q) => p = q
  BY <1>1, WildcardsAreNumbered
<1>3. Width \in Nat /\ IntWidth \in Nat /\ IntWidth > 0
  BY WidthAssumption, IntWidthAssumption
<1> HIDE DEF num, Index
<1>4. counters \in SUBSET Words /\ (Narrow(rule.mask) => counters = SUBSET (0 .. num - 1))
  <2> DEFINE q == IF long /\ num >= IntWidth THEN num ELSE num % IntWidth
  <2>1. q \in Nat /\ q <= num
    BY <1>2, <1>3
  <2>2. num < IntWidth - 1 => q = num /\ q # IntWidth - 1
    BY <1>2, <1>3
  <2>3. counters = IF q = IntWidth - 1 THEN {} ELSE SUBSET (0 .. q - 1)
    BY DEF Counters
  <2> HIDE DEF q, counters
  <2>4. 0 .. q - 1 \subseteq Bits
    BY <1>2, <1>3, <2>1 DEF Bits
  <2>5. counters \subseteq SUBSET Bits
    BY <2>3, <2>4
  <2>6. Narrow(rule.mask) => num < IntWidth - 1
    BY DEF Narrow, num
  <2> QED BY <2>2, <2>3, <2>5, <2>6 DEF Words
<1>5. n \in Nat /\ order \in Bijection(1 .. n, counters)
  BY <1>4, AscendingWords
<1>6. /\ DOMAIN order = 1 .. n /\ \A k \in 1 .. n : order[k] \in counters
      /\ \A i \in counters : \E k \in 1 .. n : order[k] = i
  BY <1>5 DEF Bijection, Surjection
<1>7. e = [k \in DOMAIN order |-> (rule.value \ rule.mask) \cup Shifted(Ones(order[k]))]
  BY DEF ExpandedWords, num, Index
<1> HIDE DEF order, n, counters
<1>8. rule.value \ rule.mask = rule.value
  BY <1>1
<1>9. \A i : Ones(i) \subseteq rule.mask
  OBVIOUS
<1>10. DOMAIN e = 1 .. n /\ \A k \in 1 .. n : e[k] = rule.value \cup Shifted(Ones(order[k]))
  BY <1>6, <1>7, <1>8
<1>11. ASSUME NEW c \in SUBSET rule.mask PROVE Shifted(c) \subseteq Bits
  <2>1. \A p \in c : ShiftedOne(p, long) \subseteq Bits
    BY <1>1, ShiftedOneIs DEF Words
  <2> QED BY <2>1, Zenon
<1>12. ASSUME Narrow(rule.mask), NEW c \in SUBSET rule.mask PROVE Shifted(c) = c
  <2>1. \A p \in c : ShiftedOne(p, long) = {p}
    BY <1>1, <1>12, ShiftedOneIs DEF Words, Narrow
  <2>2. \A x : x \in Shifted(c) <=> \E p \in c : x \in ShiftedOne(p, long)
    BY Zenon
  <2> HIDE DEF Shifted
  <2> QED BY <2>1, <2>2
<1>13. ASSUME Narrow(rule.mask), NEW i PROVE Ones(i) = { p \in rule.mask : Index(p) \notin i }
  <2>1. ASSUME NEW p \in rule.mask PROVE ShiftedOne(Index(p), long) = {Index(p)}
    <3>1. num < IntWidth - 1
      BY <1>13 DEF Narrow, num
    <3>2. Index(p) \in 0 .. IntWidth - 2 /\ Index(p) \in Bits
      BY <1>2, <1>3, <3>1 DEF Bits
    <3> QED BY <3>2, ShiftedOneIs
  <2> QED BY <2>1
<1> HIDE DEF Shifted, Ones
<1>14. \A k \in 1 .. n : e[k] \in Words
  BY <1>1, <1>9, <1>10, <1>11 DEF Words
<1>15. ASSUME Narrow(rule.mask), NEW w \in Words
       PROVE  Matches(rule, w) <=> \E k \in 1 .. n : w = e[k]
  <2>1. ASSUME NEW k \in 1 .. n PROVE e[k] = rule.value \cup Ones(order[k])
    BY <1>9, <1>10, <1>12, <1>15
  <2>2. ASSUME Matches(rule, w) PROVE \E k \in 1 .. n : w = e[k]
    <3> DEFINE zeros == { Index(p) : p \in rule.mask \ w }
    <3>1. w = rule.value \cup (w \cap rule.mask)
      BY <2>2 DEF Matches
    <3>2. zeros \in counters
      BY <1>2, <1>4, <1>15
    <3>3. Ones(zeros) = w \cap rule.mask
      BY <1>2, <1>13, <1>15
    <3>4. PICK k \in 1 .. n : order[k] = zeros
      BY <1>6, <3>2
    <3> QED BY <2>1, <3>1, <3>3, <3>4
  <2>3. ASSUME NEW k \in 1 .. n, w = e[k] PROVE Matches(rule, w)
    <3>1. w = rule.value \cup Ones(order[k]) /\ Ones(order[k]) \subseteq rule.mask
      BY <1>9, <2>1, <2>3
    <3> QED BY <1>1, <3>1 DEF Matches
  <2> QED BY <2>2, <2>3
<1> QED BY <1>5, <1>10, <1>14, <1>15
=============================================================================
