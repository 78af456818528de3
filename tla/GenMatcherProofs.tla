--------------------------- MODULE GenMatcherProofs ---------------------------
(***************************************************************************)
(* Proofs about GenMatcher for every width and every file of rules:        *)
(* clustering and regrouping lose no rule and duplicate none, permuting    *)
(* the bits changes no match, and the finished matcher decides every key   *)
(* as the linear table of the same file does.                              *)
(***************************************************************************)
EXTENDS GenMatcher, BinaryTrieProofs

Summing == INSTANCE FoldTheorems WITH Op <- +

-----------------------------------------------------------------------------
(* What a trie keeps of the rules that are stored in it                    *)

Keeps(t, rules) ==
  \E accepted : /\ TrieHolds(t, accepted) /\ PartsOf(accepted, rules)
                /\ Ample /\ ~t.blowup => Covers(accepted, rules)

\* Nothing, when it is new.
LEMMA NewTrieKeeps == Keeps(NewTrie, {})
<1>1. PartsOf({}, {}) /\ Covers({}, {})
  BY DEF PartsOf, Covers
<1> QED BY <1>1, NewTrieHolds DEF Keeps

\* A prefix rule more.
LEMMA PrefixIsKept ==
  ASSUME NEW t, NEW rules, Keeps(t, rules), NEW rule \in CleanRules, IsPrefixRule(rule)
  PROVE  Keeps(InsertPrefixRulePriority(t, rule).trie, rules \cup {rule})
<1> DEFINE result == InsertPrefixRulePriority(t, rule)
           u == result.trie
<1>1. PICK accepted : /\ TrieHolds(t, accepted) /\ PartsOf(accepted, rules)
                      /\ Ample /\ ~t.blowup => Covers(accepted, rules)
  BY DEF Keeps
<1>2. rule \in PrefixRules
  BY DEF PrefixRules
<1>3. result = InsertPrefixRulePriority(t, rule)
  OBVIOUS
<1> HIDE DEF result
<1>4. /\ result.error \in {0, 1}
      /\ result.error = 0 => TrieHolds(u, accepted \cup {rule})
      /\ result.error = 1 => TrieHolds(u, accepted)
      /\ u.blowup = t.blowup
      /\ result.error = 1 => ~Fits(t, Missing(t, rule.value, PrefixLen(rule.mask)))
  BY <1>1, <1>2, <1>3, InsertHolds
<1>5. CASE result.error = 0
  <2>1. PartsOf(accepted \cup {rule}, rules \cup {rule})
    BY <1>1 DEF PartsOf
  <2>2. Ample /\ ~u.blowup => Covers(accepted \cup {rule}, rules \cup {rule})
    BY <1>1, <1>4 DEF Covers
  <2> QED BY <1>3, <1>4, <1>5, <2>1, <2>2 DEF Keeps
<1>6. CASE result.error = 1
  <2>1. ~Ample
    BY <1>1, <1>2, <1>4, <1>6, AmpleFits DEF TrieHolds
  <2>2. PartsOf(accepted, rules \cup {rule})
    BY <1>1 DEF PartsOf
  <2> QED BY <1>3, <1>4, <1>6, <2>1, <2>2 DEF Keeps
<1> QED BY <1>4, <1>5, <1>6

\* An expanded rule more.
LEMMA ExpandedIsKept ==
  ASSUME NEW t, NEW rules, Keeps(t, rules), NEW rule \in CleanRules
  PROVE  Keeps(ExpandRule(t, rule).trie, rules \cup {rule})
<1> DEFINE result == ExpandRule(t, rule)
           added == Added(t, result.trie)
<1>1. PICK accepted : /\ TrieHolds(t, accepted) /\ PartsOf(accepted, rules)
                      /\ Ample /\ ~t.blowup => Covers(accepted, rules)
  BY DEF Keeps
<1>2. Expanded(t, accepted, rule, result)
  BY <1>1, ExpandHolds
<1> HIDE DEF result
<1>3. /\ TrieHolds(result.trie, accepted \cup added)
      /\ \A r \in added : /\ r \in PrefixRules /\ r.priority = rule.priority
                          /\ \A key \in Words : Matches(r, key) => Matches(rule, key)
      /\ result.error = 0 => \A key \in Words : Matches(rule, key) =>
                               \E r \in added : Matches(r, key)
      /\ t.blowup => result.trie.blowup
      /\ Ample /\ ~result.trie.blowup => result.error = 0
  BY <1>2 DEF Expanded
<1> HIDE DEF added
<1>4. PartsOf(accepted \cup added, rules \cup {rule})
  BY <1>1, <1>3 DEF PartsOf
<1>5. Ample /\ ~result.trie.blowup => Covers(accepted \cup added, rules \cup {rule})
  <2> SUFFICES ASSUME Ample, ~result.trie.blowup PROVE Covers(accepted \cup added, rules \cup {rule})
    OBVIOUS
  <2>1. Covers(accepted, rules) /\ result.error = 0
    BY <1>1, <1>3
  <2> QED BY <1>3, <2>1 DEF Covers
<1>6. Keeps(result.trie, rules \cup {rule})
  BY <1>3, <1>4, <1>5 DEF Keeps
<1> QED BY <1>6 DEF result

\* With room for all nodes and no expansion given up, the search finds the best.
LEMMA KeptIsFound ==
  ASSUME NEW t, NEW rules \in SUBSET CleanRules, Keeps(t, rules), Ample, ~t.blowup, NEW key \in Words
  PROVE  LPM1SearchRule(t, key) = BestPriority(rules, key)
BY BestOfAccepted DEF Keeps

\* The best priority of a set of rules is that of a rule that matches.
LEMMA BestIsLeast ==
  ASSUME NEW rules \in SUBSET CleanRules, NEW key, NEW p, p = BestPriority(rules, key)
  PROVE  /\ p \in Nat
         /\ p # 0 => \E r \in rules : Matches(r, key) /\ r.priority = p
         /\ \A r \in rules : Matches(r, key) => p # 0 /\ p <= r.priority
<1> DEFINE matching == { r.priority : r \in { s \in rules : Matches(s, key) } }
<1>1. matching \subseteq Nat /\ 0 \notin matching
  BY DEF CleanRules, Rules
<1>2. p = IF matching = {} THEN 0 ELSE CHOOSE x \in matching : \A q \in matching : x <= q
  BY DEF BestPriority
<1>3. \A r \in rules : Matches(r, key) => r.priority \in matching
  OBVIOUS
<1>4. \A x \in matching : \E r \in rules : Matches(r, key) /\ r.priority = x
  OBVIOUS
<1> HIDE DEF matching
<1>5. CASE matching = {}
  BY <1>2, <1>3, <1>5
<1>6. CASE matching # {}
  <2>1. \E x \in matching : \A q \in matching : x <= q
    BY <1>1, <1>6, LeastNatural
  <2>2. p \in matching /\ \A q \in matching : p <= q
    BY <1>2, <1>6, <2>1
  <2> QED BY <1>1, <1>3, <1>4, <2>2
<1> QED BY <1>5, <1>6

-----------------------------------------------------------------------------
(* Permuting the bits                                                      *)

SortsBefore(group) ==
  { pair \in Bits \X Bits : \/ Score(group, pair[1]) > Score(group, pair[2])
                            \/ Score(group, pair[1]) = Score(group, pair[2]) /\ pair[1] < pair[2] }

\* my_pairsort gives every position a place of its own, the most masked first.
LEMMA DeltaIsBijection ==
  ASSUME NEW group \in Seq(CleanRules)
  PROVE  /\ Delta(group) \in Bijection(Bits, Bits)
         /\ \A p, q \in Bits : Score(group, p) > Score(group, q) => Delta(group)[p] < Delta(group)[q]
<1> DEFINE R == SortsBefore(group)
           S(p) == Score(group, p)
<1>1. IsFiniteSet(Bits) /\ Cardinality(Bits) = Width /\ 0 .. Cardinality(Bits) - 1 = Bits
  BY WidthAssumption, FS_Interval DEF Bits
<1>2. ASSUME NEW p PROVE S(p) \in Nat
  <2>1. IsFiniteSet(DOMAIN group)
    BY FS_Interval
  <2>2. IsFiniteSet({ i \in DOMAIN group : p \in group[i].mask })
    BY <2>1, FS_Subset
  <2> QED BY <2>2, FS_CardinalityType DEF Score
<1>3. ASSUME NEW p \in Bits, NEW q \in Bits
      PROVE  << p, q >> \in R <=> S(p) > S(q) \/ (S(p) = S(q) /\ p < q)
  BY DEF SortsBefore
<1>4. \A p \in Bits : p \in Int
  BY DEF Bits
<1>5. \A p, q \in Bits : S(p) > S(q) \/ (S(p) = S(q) /\ p < q) <=> << p, q >> \in R
  BY <1>3
<1>6. \A p \in Bits : S(p) \in Nat
  BY <1>2
<1>7. Delta(group) = [p \in Bits |-> Cardinality(Under(R, Bits, p))]
  <2>1. ASSUME NEW p \in Bits PROVE Rank(group, p) = Cardinality(Under(R, Bits, p))
    <3>1. Under(R, Bits, p) = { q \in Bits : \/ Score(group, q) > Score(group, p)
                                             \/ Score(group, q) = Score(group, p) /\ q < p }
      BY <1>3 DEF Under
    <3> QED BY <3>1, Zenon DEF Rank
  <2> QED BY <2>1 DEF Delta
<1> HIDE DEF R, S
<1>8. StrictOrder(R, Bits)
  BY <1>4, <1>5, <1>6 DEF StrictOrder
<1>9. /\ Delta(group) \in Bijection(Bits, 0 .. Cardinality(Bits) - 1)
      /\ \A x, y \in Bits : << x, y >> \in R <=> Delta(group)[x] < Delta(group)[y]
  BY <1>1, <1>7, <1>8, RanksAreDistinct
<1>10. Delta(group) \in Bijection(Bits, Bits)
  BY <1>1, <1>9, Zenon
<1> QED BY <1>5, <1>9, <1>10 DEF S

Moved(rule, delta) == [rule EXCEPT !.value = KeysRearrange(@, delta), !.mask = KeysRearrange(@, delta)]

\* Moving the bits of rules and keys alike changes no match.
LEMMA MovedMatches ==
  ASSUME NEW delta \in Bijection(Bits, Bits), NEW rule \in CleanRules
  PROVE  /\ Moved(rule, delta) \in CleanRules
         /\ Moved(rule, delta).priority = rule.priority
         /\ Moved(rule, delta).mask = KeysRearrange(rule.mask, delta)
         /\ \A key \in Words : /\ KeysRearrange(key, delta) \in Words
                               /\ Matches(Moved(rule, delta), KeysRearrange(key, delta)) <=> Matches(rule, key)
<1>1. /\ \A p \in Bits : delta[p] \in Bits
      /\ \A p, q \in Bits : delta[p] = delta[q] => p = q
  BY DEF Bijection, Surjection, Injection, IsInjective
<1>2. ASSUME NEW key \in Words PROVE KeysRearrange(key, delta) \in Words
  BY <1>1 DEF KeysRearrange, Words
<1>3. ASSUME NEW a \in Words, NEW b \in Words
      PROVE  KeysRearrange(a \ b, delta) = KeysRearrange(a, delta) \ KeysRearrange(b, delta)
  BY <1>1 DEF KeysRearrange, Words
<1>4. ASSUME NEW a \in Words, NEW b \in Words, KeysRearrange(a, delta) = KeysRearrange(b, delta) PROVE a = b
  <2>1. ASSUME NEW p \in a PROVE p \in b
    <3>1. p \in Bits /\ delta[p] \in KeysRearrange(b, delta)
      BY <1>4 DEF KeysRearrange, Words
    <3> QED BY <1>1, <3>1 DEF KeysRearrange, Words
  <2>2. ASSUME NEW p \in b PROVE p \in a
    <3>1. p \in Bits /\ delta[p] \in KeysRearrange(a, delta)
      BY <1>4 DEF KeysRearrange, Words
    <3> QED BY <1>1, <3>1 DEF KeysRearrange, Words
  <2> QED BY <2>1, <2>2
<1>5. rule \in [value : Words, mask : Words, priority : Nat \ {0}] /\ rule.value \cap rule.mask = {}
  BY DEF CleanRules, Rules
<1>6. /\ Moved(rule, delta).priority = rule.priority
      /\ Moved(rule, delta).mask = KeysRearrange(rule.mask, delta)
      /\ Moved(rule, delta).value = KeysRearrange(rule.value, delta)
  BY <1>5 DEF Moved
<1>7. Moved(rule, delta) \in [value : Words, mask : Words, priority : Nat \ {0}]
  BY <1>2, <1>5 DEF Moved
<1>8. KeysRearrange(rule.value, delta) \cap KeysRearrange(rule.mask, delta) = {}
  BY <1>1, <1>5 DEF KeysRearrange, Words
<1>9. Moved(rule, delta) \in CleanRules
  BY <1>6, <1>7, <1>8 DEF CleanRules, Rules
<1>10. ASSUME NEW key \in Words
       PROVE  Matches(Moved(rule, delta), KeysRearrange(key, delta)) <=> Matches(rule, key)
  <2>1. Matches(Moved(rule, delta), KeysRearrange(key, delta))
          <=> KeysRearrange(rule.value, delta) = KeysRearrange(key, delta) \ KeysRearrange(rule.mask, delta)
    BY <1>6 DEF Matches
  <2>2. KeysRearrange(key, delta) \ KeysRearrange(rule.mask, delta) = KeysRearrange(key \ rule.mask, delta)
    BY <1>3, <1>5
  <2>3. key \ rule.mask \in Words /\ rule.value \in Words
    BY <1>5 DEF Words
  <2>4. KeysRearrange(rule.value, delta) = KeysRearrange(key \ rule.mask, delta)
          <=> rule.value = key \ rule.mask
    BY <1>4, <2>3, Zenon
  <2> QED BY <2>1, <2>2, <2>4, Zenon DEF Matches
<1> QED BY <1>2, <1>6, <1>9, <1>10

-----------------------------------------------------------------------------
(* The rules in their groups                                               *)

Groups == Seq(Seq(CleanRules))

\* Groups and unclustered points hold every rule of a set once.
Kept(gs, ps, rules) ==
  /\ gs \in Groups /\ ps \in Seq(CleanRules)
  /\ IsInjective(ps) /\ \A j \in DOMAIN gs : IsInjective(gs[j])
  /\ \A j, k \in DOMAIN gs : j # k => Range(gs[j]) \cap Range(gs[k]) = {}
  /\ \A j \in DOMAIN gs : Range(gs[j]) \cap Range(ps) = {}
  /\ \A r : r \in rules <=> r \in Range(ps) \/ \E j \in DOMAIN gs : r \in Range(gs[j])

\* The sorted file is one group.
LEMMA SortedIsKept ==
  ASSUME NEW file \in Seq(CleanRules), NEW data \in SortedByMask(file)
  PROVE  Kept(<< data >>, << >>, Range(file)) /\ (Len(file) > 0 => Len(data) > 0)
<1> DEFINE S == Range(file)
           n == Cardinality(S)
           gs == << data >>
<1>1. S \subseteq CleanRules
  BY DEF Range
<1>2. IsFiniteSet(S)
  <2>1. IsFiniteSet(DOMAIN file)
    BY FS_Interval
  <2>2. file \in Surjection(DOMAIN file, S)
    BY DEF Surjection, Range
  <2> QED BY <2>1, <2>2, FS_Surjection
<1>3. n \in Nat
  BY <1>2, FS_CardinalityType
<1>4. data \in [1 .. n -> S] /\ \A i, j \in 1 .. n : i # j => data[i] # data[j]
  BY DEF SortedByMask, SetToSeqs
<1> HIDE DEF n
<1>5. data \in Injection(1 .. n, S)
  BY <1>4 DEF Injection, IsInjective
<1>6. IsFiniteSet(1 .. n) /\ Cardinality(1 .. n) = n
  BY <1>3, FS_Interval
<1>7. data \in Surjection(1 .. n, S)
  BY <1>2, <1>5, <1>6, FS_Injection DEF n
<1>8. Range(data) = S
  BY <1>4, <1>7 DEF Range, Surjection
<1>9. data \in Seq(CleanRules) /\ IsInjective(data)
  BY <1>1, <1>3, <1>4, <1>5 DEF Injection
<1>10. ASSUME Len(file) > 0 PROVE Len(data) > 0
  <2>1. file[1] \in S
    BY <1>10 DEF Range
  <2>2. \E i \in DOMAIN data : data[i] = file[1]
    BY <1>8, <2>1 DEF Range
  <2> QED BY <1>9, <2>2
<1> HIDE DEF S
<1>11. gs \in Groups /\ DOMAIN gs = {1} /\ gs[1] = data
  BY <1>9 DEF Groups
<1>12. << >> \in Seq(CleanRules) /\ IsInjective(<< >>) /\ Range(<< >>) = {}
  BY DEF IsInjective, Range
<1> HIDE DEF gs
<1>13. Kept(gs, << >>, S)
  BY <1>8, <1>9, <1>11, <1>12 DEF Kept
<1> QED BY <1>10, <1>13 DEF gs, S

\* Giving up the one trie makes its group the points.
LEMMA GivingUpKeeps ==
  ASSUME NEW gs, NEW rules, Kept(gs, << >>, rules), Len(gs) = 1
  PROVE  Kept(<< >>, gs[1], rules)
<1>1. gs \in Groups /\ DOMAIN gs = {1} /\ gs[1] \in Seq(CleanRules)
  BY DEF Kept, Groups
<1>2. Range(<< >>) = {} /\ << >> \in Groups /\ DOMAIN << >> = {}
  BY DEF Range, Groups
<1> QED BY <1>1, <1>2 DEF Kept

\* Clustering moves some points to a group of their own.
LEMMA ClusteringKeeps ==
  ASSUME NEW gs, NEW ps, NEW rules, Kept(gs, ps, rules), NEW near \in SUBSET DOMAIN ps
  PROVE  Kept(Append(gs, Pick(ps, near)), Pick(ps, DOMAIN ps \ near), rules)
<1> DEFINE new == Pick(ps, near)
           rest == Pick(ps, DOMAIN ps \ near)
           all == Append(gs, new)
           n == Len(gs)
<1>1. gs \in Groups /\ ps \in Seq(CleanRules) /\ IsInjective(ps) /\ DOMAIN ps = 1 .. Len(ps)
  BY DEF Kept
<1>2. /\ new \in Seq(CleanRules) /\ Range(new) = { ps[i] : i \in near } /\ IsInjective(new)
      /\ rest \in Seq(CleanRules) /\ Range(rest) = { ps[i] : i \in DOMAIN ps \ near } /\ IsInjective(rest)
  BY <1>1, PickKeeps
<1> HIDE DEF new, rest
<1>3. n \in Nat /\ DOMAIN gs = 1 .. n
  BY <1>1 DEF Groups
<1>4. all \in Groups /\ DOMAIN all = 1 .. n + 1 /\ all[n + 1] = new /\ \A j \in 1 .. n : all[j] = gs[j]
  BY <1>1, <1>2, AppendProperties DEF Groups
<1> HIDE DEF all, n
<1>5. Range(new) \cap Range(rest) = {}
  BY <1>1, <1>2 DEF IsInjective
<1>6. \A r : r \in Range(ps) <=> r \in Range(new) \/ r \in Range(rest)
  <2>1. Range(ps) = { ps[i] : i \in DOMAIN ps }
    BY DEF Range
  <2> QED BY <1>2, <2>1
<1>7. \A j \in 1 .. n + 1 : j \in 1 .. n \/ j = n + 1
  BY <1>3
<1>8. n + 1 \in 1 .. n + 1 /\ n + 1 \notin 1 .. n /\ \A j \in 1 .. n : j \in 1 .. n + 1
  BY <1>3
<1>9. \A j \in 1 .. n + 1 : IsInjective(all[j])
  BY <1>2, <1>3, <1>4, <1>7 DEF Kept
<1>10. ASSUME NEW j \in 1 .. n + 1, NEW k \in 1 .. n + 1, j # k PROVE Range(all[j]) \cap Range(all[k]) = {}
  <2>1. CASE j \in 1 .. n /\ k \in 1 .. n
    BY <1>3, <1>4, <1>10, <2>1 DEF Kept
  <2>2. CASE j \in 1 .. n /\ k = n + 1
    BY <1>3, <1>4, <1>6, <2>2 DEF Kept
  <2>3. CASE j = n + 1 /\ k \in 1 .. n
    BY <1>3, <1>4, <1>6, <2>3 DEF Kept
  <2> QED BY <1>7, <1>10, <2>1, <2>2, <2>3
<1>11. ASSUME NEW j \in 1 .. n + 1 PROVE Range(all[j]) \cap Range(rest) = {}
  <2>1. CASE j \in 1 .. n
    BY <1>3, <1>4, <1>6, <2>1 DEF Kept
  <2>2. CASE j = n + 1
    BY <1>4, <1>5, <2>2
  <2> QED BY <1>7, <2>1, <2>2
<1>12. ASSUME NEW r PROVE r \in rules <=> r \in Range(rest) \/ \E j \in 1 .. n + 1 : r \in Range(all[j])
  <2>1. r \in rules <=> r \in Range(ps) \/ \E j \in 1 .. n : r \in Range(gs[j])
    BY <1>3 DEF Kept
  <2>2. (\E j \in 1 .. n + 1 : r \in Range(all[j])) <=> r \in Range(new) \/ \E j \in 1 .. n : r \in Range(gs[j])
    BY <1>4, <1>7, <1>8
  <2> QED BY <1>6, <2>1, <2>2
<1>13. Kept(all, rest, rules)
  BY <1>2, <1>4, <1>9, <1>10, <1>11, <1>12 DEF Kept
<1> QED BY <1>13 DEF all, new, rest

\* Regrouping moves one rule of a group to a group of its own.
LEMMA RegroupingShape ==
  ASSUME NEW gs \in Groups, NEW j \in DOMAIN gs, NEW k \in DOMAIN gs[j], NEW n, n = Len(gs)
  PROVE  /\ n \in Nat /\ DOMAIN gs = 1 .. n
         /\ Regrouped(gs, j, k) \in Groups /\ DOMAIN Regrouped(gs, j, k) = 1 .. n + 1
         /\ Regrouped(gs, j, k)[n + 1] = << gs[j][k] >>
         /\ Regrouped(gs, j, k)[j] = RemoveAt(gs[j], k)
         /\ \A i \in 1 .. n : i # j => Regrouped(gs, j, k)[i] = gs[i]
<1> DEFINE group == gs[j]
           less == RemoveAt(group, k)
           changed == [gs EXCEPT ![j] = less]
           own == << group[k] >>
           all == Append(changed, own)
<1>1. group \in Seq(CleanRules) /\ n \in Nat /\ DOMAIN gs = 1 .. n /\ DOMAIN group = 1 .. Len(group)
  BY DEF Groups
<1>2. Regrouped(gs, j, k) = all
  BY DEF Regrouped
<1>3. k \in 1 .. Len(group) /\ group[k] \in CleanRules
  BY <1>1
<1> HIDE DEF group
<1>4. less \in Seq(CleanRules)
  <2>1. less = Pick(group, DOMAIN group \ {k})
    BY <1>1, <1>3, PickAllButOne
  <2>2. DOMAIN group \ {k} \in SUBSET (1 .. Len(group))
    BY <1>1
  <2>3. Pick(group, DOMAIN group \ {k}) \in Seq(CleanRules)
    BY <1>1, <2>2, PickKeeps
  <2> QED BY <2>1, <2>3
<1>5. own \in Seq(CleanRules)
  BY <1>3
<1> HIDE DEF less, own
<1>6. changed \in Seq(Seq(CleanRules)) /\ Len(changed) = n /\ changed[j] = less
      /\ \A i \in 1 .. n : i # j => changed[i] = gs[i]
  <2>1. gs \in Seq(Seq(CleanRules)) /\ j \in 1 .. Len(gs)
    BY <1>1 DEF Groups
  <2>2. /\ changed \in Seq(Seq(CleanRules)) /\ Len(changed) = Len(gs)
        /\ \A i \in 1 .. Len(gs) : changed[i] = IF i = j THEN less ELSE gs[i]
    BY <1>4, <2>1, ExceptSeq
  <2> QED BY <2>1, <2>2
<1> HIDE DEF changed
<1>7. /\ all \in Seq(Seq(CleanRules)) /\ Len(all) = Len(changed) + 1
      /\ \A i \in 1 .. Len(changed) : all[i] = changed[i]
      /\ all[Len(changed) + 1] = own
  <2> DEFINE T == Seq(CleanRules)
  <2>1. changed \in Seq(T) /\ own \in T
    BY <1>5, <1>6
  <2> HIDE DEF T
  <2>2. /\ all \in Seq(T) /\ Len(all) = Len(changed) + 1
        /\ \A i \in 1 .. Len(changed) : all[i] = changed[i]
        /\ all[Len(changed) + 1] = own
    BY <2>1, AppendProperties
  <2> QED BY <2>2 DEF T
<1> HIDE DEF all
<1>8. DOMAIN all = 1 .. n + 1 /\ all[n + 1] = own /\ all[j] = less /\ \A i \in 1 .. n : i # j => all[i] = gs[i]
  BY <1>1, <1>6, <1>7
<1> QED BY <1>1, <1>2, <1>7, <1>8 DEF Groups, own, less, group

\* A group without one of its rules has all the others, once.
LEMMA RemovedEntry ==
  ASSUME NEW group \in Seq(CleanRules), IsInjective(group), NEW k \in DOMAIN group
  PROVE  /\ RemoveAt(group, k) \in Seq(CleanRules) /\ IsInjective(RemoveAt(group, k))
         /\ \A r : r \in Range(RemoveAt(group, k)) <=> r \in Range(group) /\ r # group[k]
         /\ Len(group) > 1 => Len(RemoveAt(group, k)) > 0
<1> DEFINE S == DOMAIN group \ {k}
           less == Pick(group, S)
<1>1. RemoveAt(group, k) = less
  BY PickAllButOne
<1>2. S \in SUBSET (1 .. Len(group))
  OBVIOUS
<1>3. /\ less \in Seq(CleanRules) /\ Range(less) = { group[i] : i \in S } /\ IsInjective(less)
      /\ S # {} => Len(less) > 0
  BY <1>2, PickKeeps
<1> HIDE DEF less
<1>4. \A r : r \in Range(less) <=> r \in Range(group) /\ r # group[k]
  BY <1>3 DEF Range, IsInjective
<1>5. ASSUME Len(group) > 1 PROVE S # {}
  <2>1. CASE k = 1
    <3>1. 2 \in S
      BY <1>5, <2>1
    <3> QED BY <3>1
  <2>2. CASE k # 1
    <3>1. 1 \in S
      BY <1>5, <2>2
    <3> QED BY <3>1
  <2> QED BY <2>1, <2>2
<1> QED BY <1>1, <1>3, <1>4, <1>5

\* Moving a rule to a group of its own keeps every rule once.
LEMMA RegroupingKeeps ==
  ASSUME NEW gs, NEW rules, Kept(gs, << >>, rules), NEW j \in DOMAIN gs, NEW k \in DOMAIN gs[j]
  PROVE  Kept(Regrouped(gs, j, k), << >>, rules)
<1> DEFINE all == Regrouped(gs, j, k)
           n == Len(gs)
           rule == gs[j][k]
<1>1. gs \in Groups
  BY DEF Kept
<1>2. /\ n \in Nat /\ DOMAIN gs = 1 .. n
      /\ all \in Groups /\ DOMAIN all = 1 .. n + 1
      /\ all[n + 1] = << rule >>
      /\ all[j] = RemoveAt(gs[j], k)
      /\ \A i \in 1 .. n : i # j => all[i] = gs[i]
  BY <1>1, RegroupingShape
<1>3. gs[j] \in Seq(CleanRules) /\ IsInjective(gs[j]) /\ rule \in Range(gs[j])
  BY <1>1 DEF Kept, Groups, Range
<1>4. /\ IsInjective(all[j])
      /\ \A r : r \in Range(all[j]) <=> r \in Range(gs[j]) /\ r # rule
  BY <1>2, <1>3, RemovedEntry
<1>5. IsInjective(all[n + 1]) /\ \A r : r \in Range(all[n + 1]) <=> r = rule
  BY <1>2 DEF IsInjective, Range
<1> HIDE DEF all, n, rule
<1>6. j \in 1 .. n /\ \A i \in 1 .. n + 1 : i \in 1 .. n \/ i = n + 1
  BY <1>2
<1>7. n + 1 \in 1 .. n + 1 /\ n + 1 \notin 1 .. n /\ \A i \in 1 .. n : i \in 1 .. n + 1
  BY <1>2
<1>8. \A i \in 1 .. n : \A r \in Range(all[i]) : r \in Range(gs[i]) /\ r # rule
  BY <1>2, <1>3, <1>4, <1>6 DEF Kept
<1>9. \A i \in 1 .. n + 1 : IsInjective(all[i])
  BY <1>2, <1>4, <1>5, <1>6 DEF Kept
<1>10. ASSUME NEW i \in 1 .. n + 1, NEW m \in 1 .. n + 1, i # m PROVE Range(all[i]) \cap Range(all[m]) = {}
  <2>1. CASE i \in 1 .. n /\ m \in 1 .. n
    <3>1. Range(gs[i]) \cap Range(gs[m]) = {}
      BY <1>2, <1>10, <2>1 DEF Kept
    <3> QED BY <1>8, <2>1, <3>1
  <2>2. CASE i \in 1 .. n /\ m = n + 1
    BY <1>5, <1>8, <2>2
  <2>3. CASE i = n + 1 /\ m \in 1 .. n
    BY <1>5, <1>8, <2>3
  <2> QED BY <1>6, <1>10, <2>1, <2>2, <2>3
<1>11. << >> \in Seq(CleanRules) /\ IsInjective(<< >>) /\ Range(<< >>) = {}
  BY DEF IsInjective, Range
<1>12. ASSUME NEW r PROVE r \in rules <=> r \in Range(<< >>) \/ \E i \in 1 .. n + 1 : r \in Range(all[i])
  <2>1. r \in rules <=> \E i \in 1 .. n : r \in Range(gs[i])
    BY <1>2, <1>11 DEF Kept
  <2>2. ASSUME NEW i \in 1 .. n, r \in Range(gs[i]) PROVE \E m \in 1 .. n + 1 : r \in Range(all[m])
    <3>1. CASE r = rule
      BY <1>5, <1>7, <3>1
    <3>2. CASE r # rule
      BY <1>2, <1>4, <1>7, <2>2, <3>2
    <3> QED BY <3>1, <3>2
  <2>3. ASSUME NEW m \in 1 .. n + 1, r \in Range(all[m]) PROVE \E i \in 1 .. n : r \in Range(gs[i])
    <3>1. CASE m \in 1 .. n
      BY <1>8, <2>3, <3>1
    <3>2. CASE m = n + 1
      BY <1>3, <1>5, <1>6, <2>3, <3>2
    <3> QED BY <1>6, <3>1, <3>2
  <2> QED BY <1>11, <2>1, <2>2, <2>3
<1>13. Kept(all, << >>, rules)
  BY <1>2, <1>9, <1>10, <1>11, <1>12 DEF Kept
<1> QED BY <1>13 DEF all

-----------------------------------------------------------------------------
(* The build                                                               *)

Stored(group, delta, indices) == { Moved(group[i], delta) : i \in indices }

\* The rules of a group that the build has reached, when it is at a place.
Done(gs, at, j) == IF j < at[1] THEN DOMAIN gs[j] ELSE IF j = at[1] THEN 1 .. at[2] - 1 ELSE {}

Place(gs, at) ==
  /\ at = << at[1], at[2] >>
  /\ at[1] \in DOMAIN gs /\ at[2] \in 1 .. Len(gs[at[1]]) + 1

\* One trie of the matcher: the permutation of its group and the rules so far.
TrieKeeps(gs, m, at, j) ==
  /\ m[j] = [trie |-> m[j].trie, delta |-> Delta(gs[j])]
  /\ Keeps(m[j].trie, Stored(gs[j], Delta(gs[j]), Done(gs, at, j)))

Built(gs, m, at) ==
  /\ Place(gs, at)
  /\ DOMAIN m = DOMAIN gs
  /\ \A j \in DOMAIN gs : TrieKeeps(gs, m, at, j)

\* New tries hold nothing.
LEMMA BuildStarts ==
  ASSUME NEW gs \in Groups, Len(gs) > 0
  PROVE  Built(gs, NewMatcher(gs), << 1, 1 >>)
<1> DEFINE m == NewMatcher(gs)
           at == << 1, 1 >>
<1>1. at = << at[1], at[2] >> /\ at[1] = 1 /\ at[2] = 1
  OBVIOUS
<1>2. 1 \in DOMAIN gs /\ gs[1] \in Seq(CleanRules) /\ DOMAIN gs = 1 .. Len(gs)
  BY DEF Groups
<1>3. Place(gs, at)
  BY <1>1, <1>2 DEF Place
<1>4. DOMAIN m = DOMAIN gs /\ \A j \in DOMAIN gs : m[j] = [trie |-> NewTrie, delta |-> Delta(gs[j])]
  BY DEF NewMatcher
<1> HIDE DEF m, at
<1>5. ASSUME NEW j \in DOMAIN gs PROVE TrieKeeps(gs, m, at, j)
  <2>1. Done(gs, at, j) = {}
    BY <1>1, <1>2 DEF Done
  <2>2. Stored(gs[j], Delta(gs[j]), Done(gs, at, j)) = {}
    BY <2>1 DEF Stored
  <2>3. m[j].trie = NewTrie
    BY <1>4
  <2>4. Keeps(m[j].trie, Stored(gs[j], Delta(gs[j]), Done(gs, at, j)))
    BY <2>2, <2>3, NewTrieKeeps, Zenon
  <2> QED BY <1>4, <2>3, <2>4 DEF TrieKeeps
<1>6. Built(gs, m, at)
  BY <1>3, <1>4, <1>5 DEF Built
<1> QED BY <1>6 DEF m, at

\* Storing the rule at the place takes the build one rule further.
LEMMA BuildStores ==
  ASSUME NEW gs \in Groups, NEW m, NEW at, Built(gs, m, at), at[2] <= Len(gs[at[1]]),
         NEW rule, rule = Moved(gs[at[1]][at[2]], Delta(gs[at[1]])),
         NEW t, \A rules : Keeps(m[at[1]].trie, rules) => Keeps(t, rules \cup {rule})
  PROVE  Built(gs, [m EXCEPT ![at[1]].trie = t], [at EXCEPT ![2] = @ + 1])
<1> DEFINE g == at[1]
           k == at[2]
           new == [m EXCEPT ![g].trie = t]
           then == [at EXCEPT ![2] = @ + 1]
<1>1. at = << g, k >> /\ g \in DOMAIN gs /\ k \in 1 .. Len(gs[g]) /\ DOMAIN gs = 1 .. Len(gs)
      /\ gs[g] \in Seq(CleanRules) /\ DOMAIN gs[g] = 1 .. Len(gs[g]) /\ Len(gs[g]) \in Nat
  BY DEF Built, Place, Groups
<1>2. then = << g, k + 1 >> /\ then[1] = g /\ then[2] = k + 1
  BY <1>1
<1>3. Place(gs, then)
  BY <1>1, <1>2 DEF Place
<1>4. DOMAIN new = DOMAIN gs /\ DOMAIN m = DOMAIN gs /\ \A j \in DOMAIN gs : j # g => new[j] = m[j]
  BY <1>1 DEF Built
<1>5. new[g] = [m[g] EXCEPT !.trie = t]
  BY <1>1, <1>4
<1>6. m[g] = [trie |-> m[g].trie, delta |-> Delta(gs[g])]
      /\ Keeps(m[g].trie, Stored(gs[g], Delta(gs[g]), Done(gs, at, g)))
  BY <1>1 DEF Built, TrieKeeps
<1>7. new[g] = [trie |-> t, delta |-> Delta(gs[g])]
  BY <1>5, <1>6
<1>8. Done(gs, at, g) = 1 .. k - 1 /\ Done(gs, then, g) = 1 .. k
  <2>1. ~ (g < g) /\ then[1] = g /\ then[2] - 1 = k
    BY <1>1, <1>2
  <2> HIDE DEF then
  <2>2. Done(gs, then, g) = 1 .. then[2] - 1
    BY <2>1, Zenon DEF Done
  <2>3. Done(gs, at, g) = 1 .. k - 1
    BY <2>1 DEF Done
  <2> QED BY <2>1, <2>2, <2>3, Zenon
<1>9. Stored(gs[g], Delta(gs[g]), 1 .. k) = Stored(gs[g], Delta(gs[g]), 1 .. k - 1) \cup {rule}
  <2>1. \A i : i \in 1 .. k <=> i \in 1 .. k - 1 \/ i = k
    BY <1>1
  <2> QED BY <2>1 DEF Stored
<1>10. \A j \in DOMAIN gs : j # g => Done(gs, then, j) = Done(gs, at, j)
  BY <1>2 DEF Done
<1> HIDE DEF new, then, g, k
<1>11. TrieKeeps(gs, new, then, g)
  <2>1. Keeps(t, Stored(gs[g], Delta(gs[g]), 1 .. k - 1) \cup {rule})
    <3>1. Keeps(m[g].trie, Stored(gs[g], Delta(gs[g]), 1 .. k - 1))
      BY <1>6, <1>8, Zenon
    <3> QED BY <3>1 DEF g
  <2>2. Keeps(t, Stored(gs[g], Delta(gs[g]), Done(gs, then, g)))
    BY <1>8, <1>9, <2>1, Zenon
  <2>3. new[g].trie = t
    BY <1>7
  <2> QED BY <1>7, <2>2, <2>3 DEF TrieKeeps
<1>12. ASSUME NEW j \in DOMAIN gs, j # g PROVE TrieKeeps(gs, new, then, j)
  <2>1. TrieKeeps(gs, m, at, j) /\ new[j] = m[j] /\ Done(gs, then, j) = Done(gs, at, j)
    BY <1>4, <1>10, <1>12 DEF Built
  <2> QED BY <2>1, Zenon DEF TrieKeeps
<1>13. Built(gs, new, then)
  BY <1>3, <1>4, <1>11, <1>12 DEF Built
<1> QED BY <1>13 DEF new, then, g

\* After the last rule of a group the build goes on with the next group.
LEMMA BuildGoesOn ==
  ASSUME NEW gs \in Groups, NEW m, NEW at, Built(gs, m, at), at[2] > Len(gs[at[1]]), at[1] < Len(gs)
  PROVE  Built(gs, m, << at[1] + 1, 1 >>)
<1> DEFINE g == at[1]
           then == << g + 1, 1 >>
<1>1. g \in 1 .. Len(gs) /\ g + 1 \in 1 .. Len(gs) /\ DOMAIN gs = 1 .. Len(gs) /\ gs[g] \in Seq(CleanRules)
      /\ gs[g + 1] \in Seq(CleanRules)
  BY DEF Built, Place, Groups
<1>2. at[2] - 1 = Len(gs[g]) /\ DOMAIN gs[g] = 1 .. Len(gs[g])
  BY <1>1 DEF Built, Place
<1>3. then[1] = g + 1 /\ then[2] = 1 /\ then = << then[1], then[2] >>
  OBVIOUS
<1>4. Place(gs, then)
  BY <1>1, <1>3 DEF Place
<1>5. ASSUME NEW j \in DOMAIN gs PROVE Done(gs, then, j) = Done(gs, at, j)
  BY <1>1, <1>2, <1>3 DEF Done
<1> HIDE DEF then
<1>6. ASSUME NEW j \in DOMAIN gs PROVE TrieKeeps(gs, m, then, j)
  <2>1. TrieKeeps(gs, m, at, j) /\ Done(gs, then, j) = Done(gs, at, j)
    BY <1>5 DEF Built
  <2> QED BY <2>1, Zenon DEF TrieKeeps
<1> QED BY <1>4, <1>6 DEF Built, then

-----------------------------------------------------------------------------
(* The program                                                             *)

\* The table is the file.
TableHolds ==
  /\ table \in Seq(CleanRules) /\ Len(table) > 0
  /\ \A i, j \in DOMAIN table : i < j => table[i].priority < table[j].priority

\* The inductive invariant.
GenInvariant ==
  /\ TableHolds
  /\ Kept(groups, points, Range(table))
  /\ phase \in {"one", "cluster", "build", "ready"}
  /\ phase = "one" => Len(groups) = 1
  /\ phase = "cluster" => matcher = << >>
  /\ phase # "cluster" => points = << >> /\ Built(groups, matcher, next)
  /\ phase = "ready" => next[1] = Len(groups) /\ next[2] > Len(groups[next[1]])

\* No rule of a file is dropped when the table is filled.
LEMMA TableIsFile ==
  ASSUME NEW file \in Files
  PROVE  FoldLeft(InsertIntoTable, << >>, file) = file
<1>1. /\ file \in Seq(CleanRules)
      /\ \A i, j \in DOMAIN file : i < j => ~SameRule(file[i], file[j])
  BY FilesAssumption
<1>2. Distinct(file)
  <2> SUFFICES ASSUME NEW i \in DOMAIN file, NEW j \in DOMAIN file, SameRule(file[i], file[j])
               PROVE  i = j
    BY DEF Distinct
  <2>1. SameRule(file[j], file[i])
    BY DEF SameRule
  <2>2. i \in Nat /\ j \in Nat
    BY <1>1
  <2>3. ~ (i < j) /\ ~ (j < i)
    BY <1>1, <2>1
  <2> QED BY <2>2, <2>3
<1> QED BY <1>1, <1>2, FillingKeepsOrder

\* A file is read, sorted, and put into one group.
LEMMA GenInvariantInit == Init => GenInvariant
<1> SUFFICES ASSUME Init PROVE GenInvariant
  OBVIOUS
<1>1. PICK file \in Files : \E data \in SortedByMask(file) :
        /\ phase = "one"
        /\ table = FoldLeft(InsertIntoTable, << >>, file)
        /\ groups = << data >>
        /\ points = << >>
        /\ matcher = NewMatcher(groups)
        /\ next = << 1, 1 >>
  BY DEF Init
<1>2. PICK data \in SortedByMask(file) :
        /\ phase = "one"
        /\ table = FoldLeft(InsertIntoTable, << >>, file)
        /\ groups = << data >>
        /\ points = << >>
        /\ matcher = NewMatcher(groups)
        /\ next = << 1, 1 >>
  BY <1>1
<1>3. /\ file \in Seq(CleanRules) /\ Len(file) > 0
      /\ \A i, j \in DOMAIN file : i < j => file[i].priority < file[j].priority
  BY FilesAssumption
<1>5. table = file
  BY <1>2, TableIsFile
<1>6. Kept(groups, points, Range(table))
  BY <1>2, <1>3, <1>5, SortedIsKept, Zenon
<1>7. groups \in Groups /\ Len(groups) = 1
  BY <1>2, <1>6 DEF Kept
<1>8. Built(groups, matcher, next)
  BY <1>2, <1>7, BuildStarts
<1>9. TableHolds
  BY <1>3, <1>5 DEF TableHolds
<1> QED BY <1>2, <1>6, <1>7, <1>8, <1>9 DEF GenInvariant

\* The rule the build is at, moved.
LEMMA CurrentIsMoved ==
  ASSUME GenInvariant, Building
  PROVE  /\ groups \in Groups /\ Built(groups, matcher, next) /\ next[2] <= Len(groups[next[1]])
         /\ phase # "cluster" /\ phase # "ready"
         /\ next[1] \in DOMAIN groups /\ next[2] \in DOMAIN groups[next[1]]
         /\ groups[next[1]] \in Seq(CleanRules)
         /\ CurrentRule = Moved(groups[next[1]][next[2]], Delta(groups[next[1]]))
         /\ CurrentRule \in CleanRules
<1>1. /\ groups \in Groups /\ Built(groups, matcher, next) /\ next[2] <= Len(groups[next[1]])
      /\ phase # "cluster" /\ phase # "ready"
  BY DEF GenInvariant, Building, Kept
<1>2. next[1] \in DOMAIN groups /\ next[2] \in DOMAIN groups[next[1]] /\ groups[next[1]] \in Seq(CleanRules)
  BY <1>1 DEF Built, Place, Groups
<1>3. matcher[next[1]].delta = Delta(groups[next[1]])
  <2>1. matcher[next[1]] = [trie |-> matcher[next[1]].trie, delta |-> Delta(groups[next[1]])]
    BY <1>1, <1>2 DEF Built, TrieKeeps
  <2> QED BY <2>1
<1>4. CurrentRule = Moved(groups[next[1]][next[2]], Delta(groups[next[1]]))
  BY <1>2, <1>3 DEF CurrentRule, RulesRearrange, Moved
<1>5. groups[next[1]][next[2]] \in CleanRules
  BY <1>2
<1>6. CurrentRule \in CleanRules
  BY <1>2, <1>4, <1>5, DeltaIsBijection, MovedMatches
<1> QED BY <1>1, <1>2, <1>4, <1>6

\* What is stored is built.
LEMMA GenInvariantStore ==
  ASSUME GenInvariant, Building, NEW result, Store(result),
         \A rules : Keeps(matcher[next[1]].trie, rules) => Keeps(result.trie, rules \cup {CurrentRule})
  PROVE  GenInvariant'
<1>1. /\ groups \in Groups /\ Built(groups, matcher, next) /\ next[2] <= Len(groups[next[1]])
      /\ phase # "cluster" /\ phase # "ready"
      /\ CurrentRule = Moved(groups[next[1]][next[2]], Delta(groups[next[1]]))
  BY CurrentIsMoved
<1>2. Built(groups, [matcher EXCEPT ![next[1]].trie = result.trie], [next EXCEPT ![2] = @ + 1])
  BY <1>1, BuildStores
<1>3. /\ matcher' = [matcher EXCEPT ![next[1]].trie = result.trie]
      /\ next' = [next EXCEPT ![2] = @ + 1]
      /\ phase' = phase /\ table' = table /\ groups' = groups /\ points' = points
  BY DEF Store
<1>4. Built(groups', matcher', next')
  BY <1>2, <1>3
<1> QED BY <1>1, <1>3, <1>4 DEF GenInvariant, TableHolds

\* Every step keeps it.
LEMMA GenInvariantStep == GenInvariant /\ [Next]_vars => GenInvariant'
<1> SUFFICES ASSUME GenInvariant, [Next]_vars PROVE GenInvariant'
  OBVIOUS
<1>1. CASE UNCHANGED vars
  BY <1>1 DEF vars, GenInvariant, TableHolds
<1>2. CASE InsertPrefix
  <2>1. /\ Building /\ IsPrefixRule(CurrentRule)
        /\ Store(InsertPrefixRulePriority(matcher[next[1]].trie, CurrentRule))
    BY <1>2 DEF InsertPrefix
  <2>2. CurrentRule \in CleanRules
    BY <2>1, CurrentIsMoved
  <2>3. \A rules : Keeps(matcher[next[1]].trie, rules) =>
          Keeps(InsertPrefixRulePriority(matcher[next[1]].trie, CurrentRule).trie, rules \cup {CurrentRule})
    BY <2>1, <2>2, PrefixIsKept
  <2> QED BY <2>1, <2>3, GenInvariantStore
<1>3. CASE InsertExpanded
  <2>1. Building /\ Store(ExpandRule(matcher[next[1]].trie, CurrentRule))
    BY <1>3 DEF InsertExpanded
  <2>2. CurrentRule \in CleanRules
    BY <2>1, CurrentIsMoved
  <2>3. \A rules : Keeps(matcher[next[1]].trie, rules) =>
          Keeps(ExpandRule(matcher[next[1]].trie, CurrentRule).trie, rules \cup {CurrentRule})
    BY <2>2, ExpandedIsKept
  <2> QED BY <2>1, <2>3, GenInvariantStore
<1>4. CASE GiveUpOneTrie
  <2>1. /\ phase = "one" /\ phase' = "cluster" /\ points' = groups[1] /\ groups' = << >> /\ matcher' = << >>
        /\ table' = table
    BY <1>4 DEF GiveUpOneTrie
  <2>2. Kept(groups', points', Range(table)')
    BY <2>1, GivingUpKeeps DEF GenInvariant
  <2> QED BY <2>1, <2>2 DEF GenInvariant, TableHolds
<1>5. CASE Cluster
  <2> DEFINE near == Neighbours(points)
             clusters == Append(groups, Pick(points, near))
  <2>1. /\ phase = "cluster" /\ groups' = clusters /\ points' = Pick(points, DOMAIN points \ near)
        /\ IF near = DOMAIN points
           THEN phase' = "build" /\ matcher' = NewMatcher(clusters) /\ next' = << 1, 1 >>
           ELSE phase' = phase /\ matcher' = matcher
        /\ table' = table
    BY <1>5 DEF Cluster
  <2>2. near \in SUBSET DOMAIN points
    BY DEF Neighbours
  <2>3. Kept(clusters, Pick(points, DOMAIN points \ near), Range(table))
    BY <2>2, ClusteringKeeps DEF GenInvariant
  <2> HIDE DEF near
  <2>4. clusters \in Groups /\ Len(clusters) > 0
    <3>1. groups \in Groups /\ clusters \in Groups
      BY <2>3 DEF Kept, GenInvariant
    <3>2. Len(clusters) = Len(groups) + 1 /\ Len(groups) \in Nat
      BY <3>1 DEF Groups
    <3> QED BY <3>1, <3>2
  <2> HIDE DEF clusters
  <2>5. Kept(groups', points', Range(table)')
    BY <2>1, <2>3
  <2>6. CASE near = DOMAIN points
    <3>1. phase' = "build" /\ matcher' = NewMatcher(clusters) /\ next' = << 1, 1 >>
      BY <2>1, <2>6
    <3>2. Built(groups', matcher', next')
      BY <2>1, <2>4, <3>1, BuildStarts
    <3>3. points' = << >>
      <4>1. points \in Seq(CleanRules)
        BY DEF GenInvariant, Kept
      <4>2. DOMAIN points \ near = {}
        BY <2>6
      <4>3. {} \in SUBSET (1 .. Len(points)) /\ Cardinality({}) = 0
        BY FS_EmptySet
      <4>4. Pick(points, {}) \in Seq(CleanRules) /\ Len(Pick(points, {})) = Cardinality({})
        BY <4>1, <4>3, PickEntries
      <4>5. Pick(points, {}) = << >>
        BY <4>3, <4>4
      <4> QED BY <2>1, <4>2, <4>5, Zenon
    <3> QED BY <2>1, <2>5, <3>1, <3>2, <3>3 DEF GenInvariant, TableHolds
  <2>7. CASE near # DOMAIN points
    BY <2>1, <2>5, <2>7 DEF GenInvariant, TableHolds
  <2> QED BY <2>6, <2>7
<1>6. CASE Regroup
  <2> DEFINE regrouped == Regrouped(groups, next[1], next[2])
  <2>1. /\ Building /\ phase = "build" /\ groups' = regrouped /\ matcher' = NewMatcher(regrouped)
        /\ next' = << 1, 1 >> /\ phase' = phase /\ table' = table /\ points' = points
    BY <1>6 DEF Regroup
  <2>2. groups \in Groups /\ next[1] \in DOMAIN groups /\ next[2] \in DOMAIN groups[next[1]] /\ points = << >>
    BY <2>1, CurrentIsMoved DEF GenInvariant
  <2>3. Kept(regrouped, << >>, Range(table))
    BY <2>2, RegroupingKeeps DEF GenInvariant
  <2>4. regrouped \in Groups /\ Len(regrouped) > 0
    <3>1. regrouped \in Groups /\ Len(groups) \in Nat /\ DOMAIN regrouped = 1 .. Len(groups) + 1
      <4> DEFINE n == Len(groups)
      <4>1. n = Len(groups)
        OBVIOUS
      <4> HIDE DEF n
      <4>2. n \in Nat /\ regrouped \in Groups /\ DOMAIN regrouped = 1 .. n + 1
        BY <2>2, <4>1, RegroupingShape
      <4> QED BY <4>1, <4>2
    <3> HIDE DEF regrouped
    <3>2. Len(regrouped) = Len(groups) + 1
      BY <3>1 DEF Groups
    <3> QED BY <3>1, <3>2
  <2> HIDE DEF regrouped
  <2>5. Built(groups', matcher', next')
    BY <2>1, <2>4, BuildStarts
  <2>6. Kept(groups', points', Range(table)')
    BY <2>1, <2>2, <2>3
  <2> QED BY <2>1, <2>2, <2>5, <2>6 DEF GenInvariant, TableHolds
<1>7. CASE NextGroup
  <2>1. /\ phase \in {"one", "build"} /\ next[2] > Len(groups[next[1]])
        /\ IF next[1] < Len(groups)
           THEN next' = << next[1] + 1, 1 >> /\ phase' = phase
           ELSE phase' = "ready" /\ next' = next
        /\ table' = table /\ groups' = groups /\ points' = points /\ matcher' = matcher
    BY <1>7 DEF NextGroup
  <2>2. groups \in Groups /\ Built(groups, matcher, next) /\ points = << >>
    BY <2>1 DEF GenInvariant, Kept
  <2>3. next[1] \in 1 .. Len(groups) /\ Len(groups) \in Nat
    BY <2>2 DEF Built, Place, Groups
  <2>4. CASE next[1] < Len(groups)
    <3>1. Built(groups', matcher', next')
      BY <2>1, <2>2, <2>4, BuildGoesOn
    <3> QED BY <2>1, <2>2, <2>4, <3>1 DEF GenInvariant, TableHolds
  <2>5. CASE ~ (next[1] < Len(groups))
    <3>1. next[1] = Len(groups)
      BY <2>3, <2>5
    <3>2. Built(groups', matcher', next')
      BY <2>1, <2>2, <2>5
    <3> QED BY <2>1, <2>2, <2>5, <3>1, <3>2 DEF GenInvariant, TableHolds
  <2> QED BY <2>4, <2>5
<1> QED BY <1>1, <1>2, <1>3, <1>4, <1>5, <1>6, <1>7 DEF Next

\* It holds for every file, through clustering and all regroupings.
THEOREM GenInvariantHolds == Spec => []GenInvariant
<1>1. Init => GenInvariant
  BY GenInvariantInit
<1>2. GenInvariant /\ [Next]_vars => GenInvariant'
  BY GenInvariantStep
<1> QED BY <1>1, <1>2, PTL DEF Spec

\* The groups and the points have the rules of the table.
LEMMA AllRulesKept == ASSUME GenInvariant PROVE AllRules = Range(table)
<1>1. \A r : r \in Range(table) <=> r \in Range(points) \/ \E j \in DOMAIN groups : r \in Range(groups[j])
  BY DEF GenInvariant, Kept
<1>2. \A r : r \in AllRules <=> r \in Range(points) \/ \E j \in DOMAIN groups : r \in Range(groups[j])
  <2>1. \A g : g \in Range(groups) <=> \E j \in DOMAIN groups : g = groups[j]
    BY DEF Range
  <2>2. \A r : r \in AllRules <=> r \in Range(points) \/ \E g \in Range(groups) : r \in Range(g)
    BY DEF AllRules
  <2> QED BY <2>1, <2>2
<1> QED BY <1>1, <1>2

\* The groups hold rules, the build is at one of them, and my_pairsort gives a
\* permutation of the bits: no two positions are moved to one.
THEOREM MatcherTypeCorrect == Spec => []TypeOK
<1>1. ASSUME GenInvariant PROVE TypeOK
  <2>1. AllRules \subseteq Rules(Nat \ {0})
    BY <1>1, AllRulesKept DEF GenInvariant, TableHolds, CleanRules, Range
  <2>2. ASSUME phase # "cluster"
        PROVE  DOMAIN matcher = DOMAIN groups /\ next[1] \in DOMAIN groups /\ next[2] \in Nat \ {0}
    BY <1>1, <2>2 DEF GenInvariant, Built, Place
  <2>3. ASSUME NEW m \in Range(matcher) PROVE IsInjective(m.delta) /\ Range(m.delta) \subseteq Bits
    <3>1. phase # "cluster"
      BY <1>1 DEF GenInvariant, Range
    <3>2. PICK j \in DOMAIN groups : m = matcher[j]
      BY <2>2, <3>1 DEF Range
    <3>3. m.delta = Delta(groups[j]) /\ groups[j] \in Seq(CleanRules)
      <4>1. TrieKeeps(groups, matcher, next, j) /\ groups \in Groups
        BY <1>1, <3>1 DEF GenInvariant, Built, Kept
      <4> QED BY <3>2, <4>1 DEF TrieKeeps, Groups
    <3>4. m.delta \in Bijection(Bits, Bits)
      BY <3>3, DeltaIsBijection
    <3> QED BY <3>4 DEF Bijection, Injection, Range
  <2>4. phase \in {"one", "cluster", "build", "ready"}
    BY <1>1 DEF GenInvariant
  <2> QED BY <2>1, <2>2, <2>3, <2>4 DEF TypeOK
<1> QED BY <1>1, GenInvariantHolds, PTL

\* Clustering and regrouping lose no rule, add none, and put none in two groups.
THEOREM NoRuleIsLost == Spec => []RulesAreKept
<1>1. ASSUME GenInvariant PROVE RulesAreKept
  <2> DEFINE parts == Append(groups, points)
             n == Len(groups)
  <2>1. AllRules = Range(table)
    BY <1>1, AllRulesKept
  <2>2. groups \in Groups /\ points \in Seq(CleanRules)
    BY <1>1 DEF GenInvariant, Kept
  <2>3. /\ n \in Nat /\ DOMAIN groups = 1 .. n
        /\ DOMAIN parts = 1 .. n + 1 /\ parts[n + 1] = points /\ \A j \in 1 .. n : parts[j] = groups[j]
    BY <2>2, AppendProperties DEF Groups
  <2> HIDE DEF parts, n
  <2>4. /\ IsInjective(points) /\ \A j \in 1 .. n : IsInjective(groups[j])
        /\ \A j, k \in 1 .. n : j # k => Range(groups[j]) \cap Range(groups[k]) = {}
        /\ \A j \in 1 .. n : Range(groups[j]) \cap Range(points) = {}
    BY <1>1, <2>3 DEF GenInvariant, Kept
  <2>5. \A j \in 1 .. n + 1 : j \in 1 .. n \/ j = n + 1
    BY <2>3
  <2>6. \A j \in DOMAIN parts : IsInjective(parts[j])
    BY <2>3, <2>4, <2>5
  <2>7. ASSUME NEW j \in DOMAIN parts, NEW k \in DOMAIN parts, j # k
        PROVE  Range(parts[j]) \cap Range(parts[k]) = {}
    <3>1. CASE j \in 1 .. n /\ k \in 1 .. n
      BY <2>3, <2>4, <2>7, <3>1
    <3>2. CASE j \in 1 .. n /\ k = n + 1
      BY <2>3, <2>4, <3>2
    <3>3. CASE j = n + 1 /\ k \in 1 .. n
      BY <2>3, <2>4, <3>3
    <3> QED BY <2>3, <2>5, <2>7, <3>1, <3>2, <3>3
  <2> QED BY <2>1, <2>6, <2>7 DEF RulesAreKept, parts
<1> QED BY <1>1, GenInvariantHolds, PTL

-----------------------------------------------------------------------------
(* The decision                                                            *)

\* What the trie of one group answers when the matcher is finished.
LEMMA AnswerOfGroup ==
  ASSUME GenInvariant, phase = "ready", ~Blowup, Ample, NEW j \in DOMAIN groups, NEW key \in Words,
         NEW p, p = LPM1SearchRule(matcher[j].trie, KeysRearrange(key, matcher[j].delta))
  PROVE  /\ p \in Nat
         /\ p # 0 => \E r \in Range(groups[j]) : Matches(r, key) /\ r.priority = p
         /\ \A r \in Range(groups[j]) : Matches(r, key) => p # 0 /\ p <= r.priority
<1> DEFINE group == groups[j]
           delta == Delta(group)
           rules == Stored(group, delta, Done(groups, next, j))
           moved == KeysRearrange(key, delta)
<1>1. /\ groups \in Groups /\ Built(groups, matcher, next)
      /\ next[1] = Len(groups) /\ next[2] > Len(groups[next[1]])
  BY DEF GenInvariant, Kept
<1>2. group \in Seq(CleanRules) /\ DOMAIN groups = 1 .. Len(groups) /\ DOMAIN group = 1 .. Len(group)
  BY <1>1 DEF Groups
<1>3. Done(groups, next, j) = DOMAIN group
  <2>1. CASE j < next[1]
    BY <2>1 DEF Done
  <2>2. CASE ~ (j < next[1])
    <3>1. j = next[1]
      BY <1>1, <1>2, <2>2
    <3>2. next[2] - 1 = Len(group)
      BY <1>1, <1>2, <3>1 DEF Built, Place
    <3>3. Done(groups, next, j) = 1 .. next[2] - 1
      BY <2>2, <3>1, Zenon DEF Done
    <3> QED BY <1>2, <3>2, <3>3, Zenon
  <2> QED BY <2>1, <2>2
<1>4. delta \in Bijection(Bits, Bits)
  BY <1>2, DeltaIsBijection
<1>5. TrieKeeps(groups, matcher, next, j) /\ DOMAIN matcher = DOMAIN groups
  BY <1>1 DEF Built
<1>6. matcher[j] = [trie |-> matcher[j].trie, delta |-> delta] /\ Keeps(matcher[j].trie, rules)
  BY <1>5 DEF TrieKeeps
<1>7. ~matcher[j].trie.blowup
  BY <1>5 DEF Blowup, Range
<1>8. rules = { Moved(group[i], delta) : i \in DOMAIN group }
  BY <1>3 DEF Stored
<1> HIDE DEF group, delta, rules
<1>9. \A i \in DOMAIN group :
         /\ group[i] \in CleanRules /\ Moved(group[i], delta) \in CleanRules
         /\ Moved(group[i], delta).priority = group[i].priority
         /\ Matches(Moved(group[i], delta), moved) <=> Matches(group[i], key)
  BY <1>2, <1>4, MovedMatches
<1>10. moved \in Words
  BY <1>4 DEF KeysRearrange, Words, Bijection, Surjection
<1>11. rules \in SUBSET CleanRules
  BY <1>8, <1>9
<1>12. p = LPM1SearchRule(matcher[j].trie, moved)
  <2>1. matcher[j].delta = delta
    BY <1>6
  <2> QED BY <2>1
<1> HIDE DEF moved
<1>13. p = BestPriority(rules, moved)
  BY <1>6, <1>7, <1>10, <1>11, <1>12, KeptIsFound
<1>14. /\ p \in Nat
       /\ p # 0 => \E r \in rules : Matches(r, moved) /\ r.priority = p
       /\ \A r \in rules : Matches(r, moved) => p # 0 /\ p <= r.priority
  BY <1>11, <1>13, BestIsLeast
<1>15. Range(group) = { group[i] : i \in DOMAIN group }
  BY DEF Range
<1>16. p # 0 => \E r \in Range(group) : Matches(r, key) /\ r.priority = p
  BY <1>8, <1>9, <1>14, <1>15
<1>17. \A r \in Range(group) : Matches(r, key) => p # 0 /\ p <= r.priority
  BY <1>8, <1>9, <1>14, <1>15
<1> QED BY <1>14, <1>16, <1>17 DEF group

\* With a threshold that admits all nodes, search_result_1 and search_result_2 count
\* the keys that the linear table of the same file matches, and the best of the
\* answers they see is that of the table, unless an expansion was given up.
THEOREM MatcherDecides == ASSUME Ample PROVE Spec => []DecidesAsLinearTable
<1>1. ASSUME GenInvariant PROVE DecidesAsLinearTable
  <2> SUFFICES ASSUME phase = "ready", ~Blowup, NEW key \in Words
               PROVE  /\ IsMatched(key) <=> SearchTable(table, key) # 0
                      /\ Decision(key) = SearchTable(table, key)
    BY DEF DecidesAsLinearTable
  <2> DEFINE answer(j) == LPM1SearchRule(matcher[j].trie, KeysRearrange(key, matcher[j].delta))
             answers == Range(MatchVector(key)) \ {0}
  <2>1. Decision(key) = IF answers = {} THEN 0 ELSE Min(answers)
    BY DEF Decision
  <2>2. DOMAIN matcher = DOMAIN groups /\ points = << >>
    BY <1>1 DEF GenInvariant, Built
  <2>3. \A p : p \in answers <=> p # 0 /\ \E j \in DOMAIN groups : p = answer(j)
    BY <2>2 DEF Range, MatchVector
  <2>matched. IsMatched(key) <=> answers # {}
    <3>1. IsMatched(key) <=> \E j \in DOMAIN groups : answer(j) # 0
      BY <2>2 DEF IsMatched, MatchVector
    <3> HIDE DEF answers, answer
    <3> QED BY <2>3, <3>1
  <2>4. ASSUME NEW j \in DOMAIN groups
        PROVE  /\ answer(j) \in Nat
               /\ answer(j) # 0 => \E r \in Range(groups[j]) : Matches(r, key) /\ r.priority = answer(j)
               /\ \A r \in Range(groups[j]) : Matches(r, key) => answer(j) # 0 /\ answer(j) <= r.priority
    BY <1>1, AnswerOfGroup
  <2> HIDE DEF answers, answer
  <2>5. \A r : r \in Range(table) <=> \E j \in DOMAIN groups : r \in Range(groups[j])
    <3>1. Range(<< >>) = {}
      BY DEF Range
    <3> QED BY <1>1, <2>2, <3>1 DEF GenInvariant, Kept
  <2>6. answers \subseteq Nat
    BY <2>3, <2>4
  <2>7. \A p \in answers : \E r \in Range(table) : Matches(r, key) /\ r.priority = p
    BY <2>3, <2>4, <2>5
  <2>8. \A r \in Range(table) : Matches(r, key) => \E p \in answers : p <= r.priority
    BY <2>3, <2>4, <2>5
  <2>9. TableHolds /\ table \in Seq(CleanRules)
    BY <1>1 DEF GenInvariant, TableHolds
  <2>10. Range(table) = { table[i] : i \in DOMAIN table } /\ DOMAIN table \subseteq Nat
         /\ \A i \in DOMAIN table : table[i].priority \in Nat
    BY <2>9 DEF Range, CleanRules, Rules
  <2>11. CASE \E i \in DOMAIN table : Matches(table[i], key)
    <3>1. PICK i \in DOMAIN table : /\ Matches(table[i], key)
                                    /\ SearchTable(table, key) = table[i].priority
                                    /\ \A k \in DOMAIN table : Matches(table[k], key) => i <= k
      BY <2>9, <2>11, SearchFindsFirst
    <3>2. PICK p \in answers : p <= table[i].priority
      BY <2>8, <2>10, <3>1
    <3>3. answers # {}
      BY <3>2
    <3>4. Min(answers) \in answers /\ \A q \in answers : Min(answers) <= q
      BY <2>6, <3>3, MinIsLeast
    <3>5. ASSUME NEW q \in answers PROVE table[i].priority <= q
      <4>1. PICK k \in DOMAIN table : Matches(table[k], key) /\ table[k].priority = q
        BY <2>7, <2>10
      <4>2. i <= k
        BY <3>1, <4>1
      <4>3. CASE i = k
        BY <2>10, <4>1, <4>3
      <4>4. CASE i < k
        BY <2>9, <2>10, <4>1, <4>4 DEF TableHolds
      <4> QED BY <2>10, <4>2, <4>3, <4>4
    <3>6. Min(answers) = table[i].priority
      <4>1. Min(answers) \in Nat /\ p \in Nat /\ Min(answers) <= p /\ table[i].priority \in Nat
        BY <2>6, <2>10, <3>4
      <4>2. table[i].priority <= Min(answers)
        BY <3>4, <3>5
      <4> QED BY <3>2, <4>1, <4>2
    <3>7. table[i].priority # 0
      BY <2>9, <3>1 DEF CleanRules, Rules
    <3> QED BY <2>1, <2>matched, <3>1, <3>3, <3>6, <3>7
  <2>12. CASE ~ \E i \in DOMAIN table : Matches(table[i], key)
    <3>1. SearchTable(table, key) = 0
      BY <2>9, <2>12, SearchFindsFirst
    <3>2. answers = {}
      BY <2>7, <2>10, <2>12
    <3> QED BY <2>1, <2>matched, <3>1, <3>2
  <2> QED BY <2>11, <2>12
<1> QED BY <1>1, GenInvariantHolds, PTL

-----------------------------------------------------------------------------
(* Regrouping                                                              *)

\* A rule alone in its group is a prefix rule there: its wildcards are the most
\* masked positions.  A rule of wildcards only is not.
LEMMA AloneIsPrefix ==
  ASSUME NEW group \in Seq(CleanRules), Len(group) = 1, group[1].mask # Bits
  PROVE  IsPrefixRule(Moved(group[1], Delta(group)))
<1> DEFINE rule == group[1]
           delta == Delta(group)
           moved == Moved(rule, delta)
           low == KeysRearrange(rule.mask, delta)
           high == Bits \ low
<1>1. rule \in CleanRules /\ DOMAIN group = {1}
  OBVIOUS
<1>2. rule.mask \subseteq Bits
  BY <1>1 DEF CleanRules, Rules, Words
<1>3. delta \in Bijection(Bits, Bits) /\ \A p, q \in Bits : Score(group, p) > Score(group, q) => delta[p] < delta[q]
  BY DeltaIsBijection
<1>4. moved.mask = low
  BY <1>1, <1>3, MovedMatches
<1>5. ASSUME NEW p \in rule.mask PROVE Score(group, p) = 1
  <2>1. { i \in DOMAIN group : p \in group[i].mask } = {1}
    BY <1>1
  <2> QED BY <2>1, FS_Singleton, Zenon DEF Score
<1>6. ASSUME NEW p \in Bits \ rule.mask PROVE Score(group, p) = 0
  <2>1. { i \in DOMAIN group : p \in group[i].mask } = {}
    BY <1>1
  <2> QED BY <2>1, FS_EmptySet, Zenon DEF Score
<1> HIDE DEF rule, delta, moved
<1>7. \A p \in rule.mask, q \in Bits \ rule.mask : delta[p] < delta[q]
  BY <1>2, <1>3, <1>5, <1>6
<1>8. /\ \A p \in Bits : delta[p] \in Bits
      /\ \A b \in Bits : \E p \in Bits : delta[p] = b
      /\ \A p, q \in Bits : delta[p] = delta[q] => p = q
  BY <1>3 DEF Bijection, Surjection, Injection, IsInjective
<1>9. low \subseteq Bits /\ high # {} /\ \A a \in low, b \in high : a < b
  <2>1. low \subseteq Bits
    BY <1>2, <1>8 DEF KeysRearrange
  <2>2. PICK p \in Bits : p \notin rule.mask
    BY <1>2 DEF rule
  <2>3. delta[p] \in high
    BY <1>2, <1>8, <2>2 DEF KeysRearrange
  <2>4. ASSUME NEW a \in low, NEW b \in high PROVE a < b
    <3>1. PICK p1 \in rule.mask : a = delta[p1]
      BY DEF KeysRearrange
    <3>2. PICK q1 \in Bits : b = delta[q1]
      BY <1>8
    <3>3. q1 \notin rule.mask
      BY <3>2 DEF KeysRearrange
    <3> QED BY <1>7, <3>1, <3>2, <3>3
  <2> QED BY <2>1, <2>3, <2>4
<1>10. Bits \subseteq Nat /\ high \subseteq Nat
  BY DEF Bits
<1>11. PICK b \in high : \A c \in high : b <= c
  BY <1>9, <1>10, LeastNatural
<1> HIDE DEF low
<1>17. b \in Bits /\ \A c \in Bits : c \notin low => b <= c
  BY <1>11
<1> HIDE DEF high
<1>12. low = 0 .. b - 1
  <2>1. ASSUME NEW a \in low PROVE a \in 0 .. b - 1
    <3>1. a < b
      BY <1>9, <1>11
    <3> QED BY <1>9, <1>17, <3>1 DEF Bits
  <2>2. ASSUME NEW a \in 0 .. b - 1 PROVE a \in low
    <3>1. a \in Bits /\ ~ (b <= a)
      BY <1>17, WidthAssumption DEF Bits
    <3> QED BY <1>17, <3>1
  <2> QED BY <2>1, <2>2
<1>13. Cardinality(low) = b
  <2>1. b \in Nat
    BY <1>10, <1>11
  <2>2. Cardinality(0 .. b - 1) = b
    BY <2>1, FS_Interval
  <2> QED BY <1>12, <2>2, Zenon
<1>14. low # Bits
  BY <1>9 DEF high
<1>15. low = 0 .. Cardinality(low) - 1
  BY <1>12, <1>13, Zenon
<1>16. IsPrefixRule(moved)
  BY <1>4, <1>14, <1>15, Zenon DEF IsPrefixRule
<1> QED BY <1>16 DEF moved, rule, delta

\* The sum of a row of the matrix is a number.
LEMMA RowSumType ==
  ASSUME NEW rules \in Seq(CleanRules), NEW i \in DOMAIN rules
  PROVE  RowSum(rules, i) \in Nat
<1> DEFINE row == Row(rules, i)
           n == Len(rules)
<1>1. n \in Nat /\ DOMAIN row = 1 .. n
  BY DEF Row
<1>2. ASSUME NEW j \in 1 .. n PROVE row[j] \in Nat
  <2> DEFINE both == rules[i].mask \cap rules[j].mask
  <2>1. row[j] = IF i = j THEN Width ELSE Intersection(rules[i].mask, rules[j].mask)
    BY DEF Row
  <2>2. both \in SUBSET Bits
    BY DEF CleanRules, Rules, Words
  <2>3. IsFiniteSet(Bits)
    BY WidthAssumption, FS_Interval DEF Bits
  <2>4. IsFiniteSet(both)
    BY <2>2, <2>3, FS_Subset, Zenon
  <2>5. Cardinality(both) \in Nat
    BY <2>4, FS_CardinalityType
  <2>6. Intersection(rules[i].mask, rules[j].mask) = 1
        \/ Intersection(rules[i].mask, rules[j].mask) = Cardinality(both)
    BY Zenon DEF Intersection
  <2> QED BY <2>1, <2>5, <2>6, WidthAssumption
<1>3. RowSum(rules, i) = Summing!Folded(0, row, n)
  BY <1>1 DEF RowSum, FoldLeft, MapThenFoldSet, Max, Summing!Folded, Summing!Folds, Summing!Greatest
<1> HIDE DEF row, n
<1>chain. PICK h : Summing!Chain(h, 0, row, n)
  BY <1>1, Summing!FoldIsChain
<1>5. /\ h[0] = 0
      /\ \A j \in 1 .. n : h[j] = h[j - 1] + row[j]
      /\ Summing!Folded(0, row, n) = h[n]
  BY <1>chain DEF Summing!Chain
<1> DEFINE Bad == { j \in 0 .. n : h[j] \notin Nat }
<1>6. Bad = {}
  <2> SUFFICES ASSUME Bad # {} PROVE FALSE
    OBVIOUS
  <2>1. Bad \subseteq Nat
    BY <1>1
  <2> HIDE DEF Bad
  <2>2. PICK j \in Bad : \A k \in Bad : j <= k
    BY <2>1, LeastNatural
  <2> USE DEF Bad
  <2>3. j \in 1 .. n /\ j - 1 \in 0 .. n /\ ~ (j <= j - 1)
    BY <1>1, <1>5, <2>2
  <2>4. h[j - 1] \in Nat
    BY <2>2, <2>3
  <2>5. h[j] \in Nat
    BY <1>2, <1>5, <2>3, <2>4
  <2> QED BY <2>2, <2>5
<1>7. n \in 0 .. n
  BY <1>1
<1>8. h[n] \in Nat
  BY <1>6, <1>7
<1> HIDE DEF Bad
<1> QED BY <1>3, <1>5, <1>8

\* There is a rule with the largest sum, it is near to itself, and so a round of
\* clustering takes at least one rule.
LEMMA NearIsNotEmpty ==
  ASSUME NEW rules \in Seq(CleanRules), Len(rules) > 0
  PROVE  Neighbours(rules) # {}
<1> DEFINE S == DOMAIN rules
           Sum(i) == RowSum(rules, i)
           R == { pair \in S \X S : \/ Sum(pair[1]) > Sum(pair[2])
                                    \/ Sum(pair[1]) = Sum(pair[2]) /\ pair[1] < pair[2] }
           rank == [x \in S |-> Cardinality(Under(R, S, x))]
<1>1. \A i \in S : Sum(i) \in Nat /\ i \in Nat
  BY RowSumType
<1>2. \A i, j \in S : << i, j >> \in R <=> Sum(i) > Sum(j) \/ (Sum(i) = Sum(j) /\ i < j)
  OBVIOUS
<1>3. IsFiniteSet(S) /\ Cardinality(S) = Len(rules) /\ Len(rules) \in Nat
  <2>1. Len(rules) \in Nat /\ S = 1 .. Len(rules)
    OBVIOUS
  <2>2. IsFiniteSet(1 .. Len(rules)) /\ Cardinality(1 .. Len(rules)) = Len(rules)
    BY <2>1, FS_Interval
  <2> QED BY <2>1, <2>2, Zenon
<1>4. rank = [x \in S |-> Cardinality(Under(R, S, x))]
  OBVIOUS
<1>5. CenterIndex(rules) = CHOOSE i \in S : \A j \in S : Sum(j) <= Sum(i) /\ (Sum(j) = Sum(i) => i <= j)
  BY DEF CenterIndex
<1> HIDE DEF S, Sum, R, rank
<1>6. StrictOrder(R, S)
  BY <1>1, <1>2 DEF StrictOrder
<1>7. rank \in Bijection(S, 0 .. Cardinality(S) - 1) /\ \A x, y \in S : << x, y >> \in R <=> rank[x] < rank[y]
  BY <1>3, <1>4, <1>6, RanksAreDistinct
<1>8. \A x \in S : rank[x] \in 0 .. Cardinality(S) - 1
  BY <1>7 DEF Bijection, Surjection
<1>9. 0 \in 0 .. Cardinality(S) - 1
  BY <1>3
<1>10. PICK i \in S : rank[i] = 0
  BY <1>7, <1>9 DEF Bijection, Surjection
<1>11. \A j \in S : Sum(j) <= Sum(i) /\ (Sum(j) = Sum(i) => i <= j)
  <2> SUFFICES ASSUME NEW j \in S PROVE Sum(j) <= Sum(i) /\ (Sum(j) = Sum(i) => i <= j)
    OBVIOUS
  <2>1. ~ (rank[j] < rank[i])
    BY <1>3, <1>8, <1>10
  <2>2. ~ (Sum(j) > Sum(i)) /\ ~ (Sum(j) = Sum(i) /\ j < i)
    BY <1>2, <1>7, <2>1
  <2> QED BY <1>1, <2>2
<1>12. CenterIndex(rules) \in S
  BY <1>5, <1>11
<1>13. Row(rules, CenterIndex(rules))[CenterIndex(rules)] > 0
  BY <1>12, WidthAssumption DEF Row, S
<1> QED BY <1>12, <1>13 DEF Neighbours, S

\* No rule of a file is made of wildcards only.
NoAllWildcards == \A file \in Files : \A i \in DOMAIN file : file[i].mask # Bits

\* Then no group is ever empty, and there is a rule to cluster.
NothingIsEmpty ==
  /\ \A i \in DOMAIN table : table[i].mask # Bits
  /\ \A j \in DOMAIN groups : Len(groups[j]) > 0
  /\ phase = "cluster" => Len(points) > 0

\* The one group of the file is not empty.
LEMMA NothingIsEmptyInit == ASSUME NoAllWildcards PROVE Init => NothingIsEmpty
<1> SUFFICES ASSUME Init PROVE NothingIsEmpty
  OBVIOUS
<1>1. PICK file \in Files : \E data \in SortedByMask(file) :
        phase = "one" /\ table = FoldLeft(InsertIntoTable, << >>, file) /\ groups = << data >>
  BY DEF Init
<1>3. PICK data \in SortedByMask(file) :
        phase = "one" /\ table = FoldLeft(InsertIntoTable, << >>, file) /\ groups = << data >>
  BY <1>1
<1>2. file \in Seq(CleanRules) /\ Len(file) > 0
  BY FilesAssumption
<1>4. table = file
  BY <1>3, TableIsFile
<1>5. Len(data) > 0
  BY <1>2, SortedIsKept
<1>6. \A j \in DOMAIN groups : groups[j] = data
  BY <1>3
<1> QED BY <1>3, <1>4, <1>5, <1>6 DEF NothingIsEmpty, NoAllWildcards

\* A rule that expands too much is not alone in its group.
LEMMA NotAlone ==
  ASSUME GenInvariant, NothingIsEmpty, Building, ExpandsTooMuch
  PROVE  Len(groups[next[1]]) > 1
<1> DEFINE group == groups[next[1]]
<1>1. /\ groups \in Groups /\ next[1] \in DOMAIN groups /\ next[2] \in DOMAIN group
      /\ group \in Seq(CleanRules)
      /\ CurrentRule = Moved(group[next[2]], Delta(group))
  BY CurrentIsMoved
<1>2. ~IsPrefixRule(CurrentRule)
  BY DEF ExpandsTooMuch
<1>3. group[next[2]] \in Range(table)
  <2>1. group[next[2]] \in Range(group)
    BY <1>1 DEF Range
  <2> QED BY <1>1, <2>1 DEF GenInvariant, Kept
<1>4. group[next[2]].mask # Bits
  BY <1>3 DEF NothingIsEmpty, Range
<1> HIDE DEF group
<1>5. Len(group) # 1
  <2> SUFFICES ASSUME Len(group) = 1 PROVE FALSE
    OBVIOUS
  <2>1. next[2] = 1
    BY <1>1
  <2>2. IsPrefixRule(Moved(group[1], Delta(group)))
    BY <1>1, <1>4, <2>1, AloneIsPrefix
  <2> QED BY <1>1, <1>2, <2>1, <2>2
<1>6. Len(group) \in Nat /\ next[2] \in 1 .. Len(group)
  BY <1>1
<1>7. Len(group) >= 1
  BY <1>6
<1>8. Len(group) > 1
  <2>1. \A l \in Nat : l >= 1 /\ l # 1 => l > 1
    OBVIOUS
  <2> QED BY <1>5, <1>6, <1>7, <2>1, Zenon
<1> QED BY <1>8 DEF group

\* Clustering and regrouping leave no group empty.
LEMMA NothingIsEmptyStep == GenInvariant /\ NothingIsEmpty /\ [Next]_vars => NothingIsEmpty'
<1> SUFFICES ASSUME GenInvariant, NothingIsEmpty, [Next]_vars PROVE NothingIsEmpty'
  OBVIOUS
<1>1. CASE UNCHANGED vars
  BY <1>1 DEF vars, NothingIsEmpty
<1>2. CASE InsertPrefix \/ InsertExpanded \/ NextGroup
  <2>1. table' = table /\ groups' = groups /\ points' = points
    BY <1>2 DEF InsertPrefix, InsertExpanded, NextGroup, Store
  <2>2. phase' # "cluster"
    BY <1>2 DEF InsertPrefix, InsertExpanded, NextGroup, Store, Building
  <2> QED BY <2>1, <2>2 DEF NothingIsEmpty
<1>3. CASE GiveUpOneTrie
  <2>1. points' = groups[1] /\ groups' = << >> /\ table' = table /\ phase = "one"
    BY <1>3 DEF GiveUpOneTrie
  <2>2. Len(groups) = 1 /\ groups \in Groups
    BY <2>1 DEF GenInvariant, Kept
  <2>3. 1 \in DOMAIN groups /\ DOMAIN << >> = {}
    BY <2>2 DEF Groups
  <2> QED BY <2>1, <2>3 DEF NothingIsEmpty
<1>4. CASE Cluster
  <2> DEFINE near == Neighbours(points)
             new == Pick(points, near)
             rest == Pick(points, DOMAIN points \ near)
             n == Len(groups)
  <2>1. /\ phase = "cluster" /\ groups' = Append(groups, new) /\ points' = rest /\ table' = table
        /\ near = DOMAIN points => phase' = "build"
    BY <1>4 DEF Cluster
  <2>2. near \in SUBSET DOMAIN points
    BY DEF Neighbours
  <2>3. groups \in Groups /\ points \in Seq(CleanRules) /\ Len(points) > 0 /\ DOMAIN points = 1 .. Len(points)
    BY <2>1 DEF GenInvariant, NothingIsEmpty, Kept
  <2>4. near # {}
    BY <2>3, NearIsNotEmpty
  <2> HIDE DEF near
  <2>5. /\ new \in Seq(CleanRules) /\ Len(new) > 0
        /\ DOMAIN points \ near # {} => Len(rest) > 0
    BY <2>2, <2>3, <2>4, PickKeeps
  <2> HIDE DEF new, rest
  <2>6. n \in Nat /\ DOMAIN groups = 1 .. n /\ DOMAIN groups' = 1 .. n + 1 /\ groups'[n + 1] = new
        /\ \A j \in 1 .. n : groups'[j] = groups[j]
    BY <2>1, <2>3, <2>5, AppendProperties DEF Groups
  <2> HIDE DEF n
  <2>7. \A j \in 1 .. n + 1 : j \in 1 .. n \/ j = n + 1
    BY <2>6
  <2>8. \A j \in DOMAIN groups' : Len(groups'[j]) > 0
    BY <2>5, <2>6, <2>7 DEF NothingIsEmpty
  <2>9. phase' = "cluster" => Len(points') > 0
    BY <2>1, <2>2, <2>5
  <2> QED BY <2>1, <2>8, <2>9 DEF NothingIsEmpty
<1>5. CASE Regroup
  <2> DEFINE j == next[1]
             k == next[2]
             n == Len(groups)
  <2>1. /\ Building /\ ExpandsTooMuch /\ phase = "build" /\ phase' = phase
        /\ groups' = Regrouped(groups, j, k) /\ table' = table
    BY <1>5 DEF Regroup
  <2>2. groups \in Groups /\ j \in DOMAIN groups /\ k \in DOMAIN groups[j] /\ groups[j] \in Seq(CleanRules)
    BY <2>1, CurrentIsMoved
  <2>3. Len(groups[j]) > 1 /\ IsInjective(groups[j])
    BY <2>1, <2>2, NotAlone DEF GenInvariant, Kept
  <2>9. n = Len(groups)
    OBVIOUS
  <2> HIDE DEF j, k, n
  <2>4. /\ n \in Nat /\ DOMAIN groups = 1 .. n /\ DOMAIN groups' = 1 .. n + 1
        /\ groups'[n + 1] = << groups[j][k] >> /\ groups'[j] = RemoveAt(groups[j], k)
        /\ \A i \in 1 .. n : i # j => groups'[i] = groups[i]
    <3> DEFINE all == Regrouped(groups, j, k)
    <3>1. /\ n \in Nat /\ DOMAIN groups = 1 .. n /\ DOMAIN all = 1 .. n + 1
          /\ all[n + 1] = << groups[j][k] >> /\ all[j] = RemoveAt(groups[j], k)
          /\ \A i \in 1 .. n : i # j => all[i] = groups[i]
      BY <2>2, <2>9, RegroupingShape
    <3>2. groups' = all
      BY <2>1
    <3> HIDE DEF all
    <3> QED BY <3>1, <3>2
  <2>5. Len(groups'[j]) > 0
    BY <2>2, <2>3, <2>4, RemovedEntry
  <2>6. Len(groups'[n + 1]) > 0
    BY <2>4
  <2>7. \A i \in 1 .. n + 1 : i \in 1 .. n \/ i = n + 1
    BY <2>4
  <2>8. \A i \in DOMAIN groups' : Len(groups'[i]) > 0
    BY <2>4, <2>5, <2>6, <2>7 DEF NothingIsEmpty
  <2> QED BY <2>1, <2>8 DEF NothingIsEmpty
<1> QED BY <1>1, <1>2, <1>3, <1>4, <1>5 DEF Next

\* Unless a rule has wildcards only, there are never more groups than rules:
\* kmeans_build_tries regroups at most that often.
THEOREM RegroupingStaysBounded == ASSUME NoAllWildcards PROVE Spec => []RegroupingIsBounded
<1>1. Init => NothingIsEmpty
  BY NothingIsEmptyInit
<1>2. GenInvariant /\ NothingIsEmpty /\ [Next]_vars => NothingIsEmpty'
  BY NothingIsEmptyStep
<1>3. ASSUME GenInvariant, NothingIsEmpty PROVE RegroupingIsBounded
  <2> DEFINE n == Len(groups)
             S == Range(table)
             f == [j \in 1 .. n |-> groups[j][1]]
  <2>1. groups \in Groups /\ table \in Seq(CleanRules)
    BY <1>3 DEF GenInvariant, TableHolds, Kept
  <2>2. n \in Nat /\ DOMAIN groups = 1 .. n /\ \A j \in 1 .. n : groups[j] \in Seq(CleanRules)
    BY <2>1 DEF Groups
  <2>3. ASSUME NEW j \in 1 .. n PROVE groups[j][1] \in Range(groups[j])
    <3>1. Len(groups[j]) > 0 /\ groups[j] \in Seq(CleanRules)
      BY <1>3, <2>2 DEF NothingIsEmpty
    <3>2. 1 \in DOMAIN groups[j]
      BY <3>1
    <3> QED BY <3>2 DEF Range
  <2>4. ASSUME NEW j \in 1 .. n PROVE groups[j][1] \in S
    BY <1>3, <2>2, <2>3 DEF GenInvariant, Kept
  <2>5. ASSUME NEW i \in 1 .. n, NEW j \in 1 .. n, groups[i][1] = groups[j][1] PROVE i = j
    <3>1. groups[i][1] \in Range(groups[i]) \cap Range(groups[j])
      BY <2>3, <2>5
    <3>2. i # j => Range(groups[i]) \cap Range(groups[j]) = {}
      BY <1>3, <2>2 DEF GenInvariant, Kept
    <3> QED BY <3>1, <3>2
  <2>6. f \in Injection(1 .. n, S)
    BY <2>4, <2>5 DEF Injection, IsInjective
  <2>7. IsFiniteSet(S) /\ Cardinality(S) <= Len(table)
    <3> DEFINE l == Len(table)
    <3>1. l \in Nat /\ DOMAIN table = 1 .. l
      BY <2>1
    <3> HIDE DEF l
    <3>2. IsFiniteSet(1 .. l) /\ Cardinality(1 .. l) = l
      BY <3>1, FS_Interval
    <3>3. table \in Surjection(1 .. l, S)
      BY <2>1, <3>1 DEF Surjection, Range
    <3> HIDE DEF S
    <3>4. IsFiniteSet(S) /\ Cardinality(S) <= Cardinality(1 .. l)
      BY <3>2, <3>3, FS_Surjection
    <3> QED BY <3>2, <3>4 DEF l
  <2> HIDE DEF f, S, n
  <2>8. Cardinality(1 .. n) <= Cardinality(S)
    BY <2>6, <2>7, FS_Injection
  <2>9. Cardinality(1 .. n) = n
    BY <2>2, FS_Interval
  <2>10. Cardinality(S) \in Nat /\ Len(table) \in Nat
    BY <2>1, <2>7, FS_CardinalityType
  <2> QED BY <2>2, <2>7, <2>8, <2>9, <2>10 DEF RegroupingIsBounded, n
<1>4. GenInvariant /\ [Next]_vars => GenInvariant'
  BY GenInvariantStep
<1>5. Init => GenInvariant
  BY GenInvariantInit
<1> QED BY <1>1, <1>2, <1>3, <1>4, <1>5, PTL DEF Spec
=============================================================================
