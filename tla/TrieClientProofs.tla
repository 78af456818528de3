-------------------------- MODULE TrieClientProofs --------------------------
(***************************************************************************)
(* Proofs about TrieClient for every width, threshold and set of rules.    *)
(* With priorities: the trie stays a tree, LPM1_search_rule never answers  *)
(* with a rule that does not match and never misses an accepted one, also  *)
(* for rules that are expanded, and node_count stays exact.  With exact    *)
(* words: the trie has the words of the linear table, and deleting leaves  *)
(* no useless node.                                                        *)
(***************************************************************************)
EXTENDS TrieClient, BinaryTrieProofs

-----------------------------------------------------------------------------
(* Prefix rules and expanded rules                                         *)

\* The inductive invariant.
PrefixInvariant ==
  /\ TrieHolds(trie, accepted)
  /\ offered \subseteq RulesOffered
  /\ complete \in BOOLEAN
  /\ PartsOf(accepted, offered)
  /\ complete => Covers(accepted, offered)

\* A new trie satisfies it.
LEMMA PrefixInvariantInit == Init => PrefixInvariant
<1> SUFFICES ASSUME Init PROVE PrefixInvariant
  OBVIOUS
<1>1. TrieHolds(trie, accepted)
  BY NewTrieHolds DEF Init
<1>2. offered = {} /\ accepted = {} /\ complete \in BOOLEAN
  BY DEF Init
<1> QED BY <1>1, <1>2 DEF PrefixInvariant, PartsOf, Covers

\* Accepting one prefix rule of the caller.
LEMMA PrefixInvariantInsert ==
  ASSUME PrefixInvariant, NEW rule \in RulesOffered, InsertPrefix(rule), offered' = offered \cup {rule}
  PROVE  PrefixInvariant'
<1> USE DEF PrefixInvariant
<1> DEFINE result == InsertPrefixRulePriority(trie, rule)
<1>1. rule \in PrefixRules
  BY RulesAssumption DEF InsertPrefix, PrefixRules
<1>2. /\ trie' = result.trie
      /\ accepted' = IF result.error = 0 THEN accepted \cup {rule} ELSE accepted
      /\ complete' = (complete /\ result.error = 0)
      /\ result = InsertPrefixRulePriority(trie, rule)
  BY DEF InsertPrefix
<1> HIDE DEF result
<1>3. /\ result.error \in {0, 1}
      /\ result.error = 0 => TrieHolds(result.trie, accepted \cup {rule})
      /\ result.error = 1 => TrieHolds(result.trie, accepted)
  BY <1>1, <1>2, InsertHolds
<1>4. offered' \subseteq RulesOffered
  OBVIOUS
<1>5. CASE result.error = 0
  <2>1. accepted' = accepted \cup {rule} /\ (complete' = complete)
    BY <1>2, <1>5
  <2>2. TrieHolds(trie', accepted')
    BY <1>2, <1>3, <1>5, <2>1, Zenon
  <2>3. PartsOf(accepted', offered')
    BY <2>1 DEF PartsOf
  <2>4. complete => Covers(accepted', offered')
    BY <2>1 DEF Covers
  <2> QED BY <1>4, <2>1, <2>2, <2>3, <2>4
<1>6. CASE result.error = 1
  <2>1. accepted' = accepted /\ complete' = FALSE
    <3>1. ~ (result.error = 0)
      BY <1>6
    <3>2. accepted' = accepted
      BY <1>2, <3>1
    <3>3. complete' = FALSE
      BY <1>2, <3>1, Zenon
    <3> QED BY <3>2, <3>3
  <2>2. TrieHolds(trie', accepted')
    BY <1>2, <1>3, <1>6, <2>1
  <2>3. PartsOf(accepted', offered')
    BY <2>1 DEF PartsOf
  <2> QED BY <1>4, <2>1, <2>2, <2>3
<1> QED BY <1>3, <1>5, <1>6

\* Expanding any other rule.
LEMMA PrefixInvariantExpand ==
  ASSUME PrefixInvariant, NEW rule \in RulesOffered, InsertExpanded(rule), offered' = offered \cup {rule}
  PROVE  PrefixInvariant'
<1> USE DEF PrefixInvariant
<1> DEFINE result == ExpandRule(trie, rule)
           added == Added(trie, result.trie)
<1>1. rule \in CleanRules
  BY RulesAssumption
<1>2. /\ trie' = result.trie
      /\ accepted' = accepted \cup added
      /\ complete' = (complete /\ result.error = 0)
  BY DEF InsertExpanded, Added
<1>3. Expanded(trie, accepted, rule, result)
  BY <1>1, ExpandHolds
<1> HIDE DEF result
<1>4. /\ result.error \in {0, 1}
      /\ TrieHolds(result.trie, accepted \cup added)
      /\ \A r \in added : /\ r \in PrefixRules /\ r.priority = rule.priority
                          /\ \A key \in Words : Matches(r, key) => Matches(rule, key)
      /\ result.error = 0 => \A key \in Words : Matches(rule, key) =>
                               \E r \in added : Matches(r, key)
  BY <1>3 DEF Expanded
<1> HIDE DEF added
<1>5. offered' \subseteq RulesOffered
  OBVIOUS
<1>6. TrieHolds(trie', accepted')
  BY <1>2, <1>4, Zenon
<1>7. PartsOf(accepted', offered')
  BY <1>2, <1>4 DEF PartsOf
<1>8. complete' => Covers(accepted', offered')
  <2> SUFFICES ASSUME complete' PROVE Covers(accepted', offered')
    OBVIOUS
  <2>1. complete /\ result.error = 0
    BY <1>2
  <2> SUFFICES ASSUME NEW s \in offered', NEW key \in Words, Matches(s, key)
               PROVE  \E r \in accepted' : r.priority = s.priority /\ Matches(r, key)
    BY DEF Covers
  <2>2. CASE s \in offered
    BY <1>2, <2>1, <2>2 DEF Covers
  <2>3. CASE s = rule
    BY <1>2, <1>4, <2>1, <2>3
  <2> QED BY <2>2, <2>3
<1>9. complete' \in BOOLEAN
  BY <1>2
<1> QED BY <1>5, <1>6, <1>7, <1>8, <1>9

\* Every step keeps it.
LEMMA PrefixInvariantStep == PrefixInvariant /\ [PrefixNext]_vars => PrefixInvariant'
<1> SUFFICES ASSUME PrefixInvariant, [PrefixNext]_vars PROVE PrefixInvariant'
  OBVIOUS
<1>1. CASE UNCHANGED vars
  BY <1>1 DEF vars, PrefixInvariant, PartsOf, Covers
<1>2. CASE PrefixNext
  BY <1>2, PrefixInvariantInsert, PrefixInvariantExpand DEF PrefixNext
<1> QED BY <1>1, <1>2

\* The invariant holds throughout, whatever rules are inserted in whatever order.
THEOREM PrefixInvariantHolds == PrefixSpec => []PrefixInvariant
<1>1. Init => PrefixInvariant
  BY PrefixInvariantInit
<1>2. PrefixInvariant /\ [PrefixNext]_vars => PrefixInvariant'
  BY PrefixInvariantStep
<1> QED BY <1>1, <1>2, PTL DEF PrefixSpec

\* insert_prefix_rule_priority and expand_rule keep the trie a tree: nodes of the
\* right depth and word, each with its parent, also where the threshold cuts a way off.
THEOREM TrieTypeCorrect == PrefixSpec => []TypeOK
<1>1. ASSUME PrefixInvariant PROVE TypeOK
  <2>1. Tree(trie) /\ accepted \subseteq PrefixRules
    BY <1>1 DEF PrefixInvariant, TrieHolds, Answers
  <2>2. PrefixRules \subseteq Rules(Nat \ {0})
    BY DEF PrefixRules, CleanRules
  <2>3. trie.expandedTable \in Seq(Rules(Nat \ {0}))
    BY <2>1, <2>2 DEF Tree
  <2> QED BY <2>1, <2>2, <2>3 DEF Tree, TypeOK, ParentsExist
<1> QED BY <1>1, PrefixInvariantHolds, PTL

\* LPM1_search_rule answers with the priority of an inserted rule that matches.
THEOREM AnswersComeFromRules == PrefixSpec => []AnswersAreRules
<1>1. PrefixInvariant => AnswersAreRules
  BY SearchAnswers DEF PrefixInvariant, AnswersAreRules
<1> QED BY <1>1, PrefixInvariantHolds, PTL

\* LPM1_search_rule misses no rule whose insertion returned 0, though shadowed
\* rules are dropped and marks replaced.
THEOREM NoAcceptedRuleIsMissed == PrefixSpec => []NoRuleIsMissed
<1>1. PrefixInvariant => NoRuleIsMissed
  BY SearchAnswers DEF PrefixInvariant, NoRuleIsMissed
<1> QED BY <1>1, PrefixInvariantHolds, PTL

\* While no insertion was refused, LPM1_search_rule returns the best priority of
\* the rules that match the key, expanded or not.
THEOREM SearchIsExact == PrefixSpec => []SearchIsBestMatch
<1>1. ASSUME PrefixInvariant PROVE SearchIsBestMatch
  <2> SUFFICES ASSUME complete, NEW key \in Words
               PROVE  LPM1SearchRule(trie, key) = BestPriority(offered, key)
    BY DEF SearchIsBestMatch
  <2>1. offered \subseteq CleanRules
    BY <1>1, RulesAssumption DEF PrefixInvariant
  <2> QED BY <1>1, <2>1, BestOfAccepted DEF PrefixInvariant
<1> QED BY <1>1, PrefixInvariantHolds, PTL

\* node_count is the number of nodes and keeps to the threshold, also after walks
\* that were cut off and after expansions that were given up.
THEOREM NodeCountStaysExact == PrefixSpec => []NodeCountIsExact
<1>1. PrefixInvariant => NodeCountIsExact
  BY DEF PrefixInvariant, TrieHolds, Counted, NodeCountIsExact
<1> QED BY <1>1, PrefixInvariantHolds, PTL

-----------------------------------------------------------------------------
(* Exact words                                                             *)

\* The trie is one of words and the table too; without further assumptions.
ExactInvariant == WordTrie(trie) /\ WordTable(table)

\* Both have the same words.
SameWords == \A w \in Words : HasWord(trie, w) <=> InTable(table, w)

\* insert_rule shifts an int, to every wildcard and to the number of wildcards: it
\* expands what leaves the sign bit alone.
NarrowMasks == \A rule \in RulesOffered : Narrow(rule.mask)

\* A new trie holds no word.
LEMMA NewTrieHasNoWords == WordTrie(NewTrie) /\ \A w \in Words : ~HasWord(NewTrie, w)
<1> DEFINE t == NewTrie
<1>1. Width \in Nat /\ Width > 0
  BY WidthAssumption
<1>2. Tree(t)
  BY NewTrieHolds DEF TrieHolds
<1>3. DOMAIN t.priority = {Root} /\ t.priority[Root] = 0 /\ Root[1] = 0
  BY DEF NewTrie, Root
<1>4. \A w : NodeAt(w, Width)[1] = Width
  BY DEF NodeAt
<1> HIDE DEF t
<1>5. WordTrie(t)
  BY <1>1, <1>2, <1>3 DEF WordTrie
<1>6. \A w : NodeAt(w, Width) # Root
  BY <1>1, <1>3, <1>4
<1> QED BY <1>3, <1>5, <1>6 DEF HasWord, t

\* The rule of a word has no wildcards.
LEMMA WordRuleIsClean ==
  ASSUME ExactInvariant, NEW w \in Words
  PROVE  WordRule(w) \in CleanRules /\ WordRule(w).mask = {} /\ WordRule(w).value = w
<1>1. trie.count + 1 \in Nat \ {0}
  BY DEF ExactInvariant, WordTrie, Tree
<1>2. {} \in Words
  BY DEF Words
<1> QED BY <1>1, <1>2 DEF WordRule, CleanRules, Rules

\* A new trie and an empty table have the same words: none.
LEMMA ExactInit == Init => ExactInvariant /\ SameWords
<1> SUFFICES ASSUME Init PROVE ExactInvariant /\ SameWords
  OBVIOUS
<1>1. trie = NewTrie /\ table = << >>
  BY DEF Init
<1>2. WordTable(<< >>) /\ \A w : ~InTable(<< >>, w)
  BY DEF WordTable, Distinct, InTable
<1> QED BY <1>1, <1>2, NewTrieHasNoWords DEF ExactInvariant, SameWords

\* insert_word and the insertion into the table keep the invariant and the words alike.
LEMMA ExactInsert ==
  ASSUME ExactInvariant, NEW v \in Words, InsertWord(v)
  PROVE  ExactInvariant' /\ (SameWords => SameWords') /\ Len(table') >= Len(table)
<1>1. trie' = InsertRuleValue(trie, v) /\ table' = InsertIntoTable(table, WordRule(v))
  BY DEF InsertWord
<1>2. WordTrie(trie) /\ WordTable(table)
  BY DEF ExactInvariant
<1>3. WordTrie(trie') /\ \A w \in Words : HasWord(trie', w) <=> HasWord(trie, w) \/ w = v
  BY <1>1, <1>2, WordIsInserted
<1>4. /\ WordTable(table') /\ Len(table') >= Len(table)
      /\ \A w : InTable(table', w) <=> InTable(table, w) \/ w = WordRule(v).value
  BY <1>1, <1>2, WordRuleIsClean, WordIsAdded
<1>5. SameWords => SameWords'
  BY <1>3, <1>4, WordRuleIsClean DEF SameWords
<1> QED BY <1>3, <1>4, <1>5 DEF ExactInvariant

\* So do the words of a rule with wildcards, if an int can be shifted to them.
LEMMA ExactInsertRule ==
  ASSUME ExactInvariant, NEW rule \in RulesOffered, InsertWildcards(rule)
  PROVE  /\ ExactInvariant' /\ Len(table') >= Len(table)
         /\ SameWords /\ Narrow(rule.mask) => SameWords'
<1> DEFINE matched == { key \in Words : Matches(rule, key) }
           words == InOrder(matched, Below)
           n == Cardinality(matched)
           added == [i \in DOMAIN words |-> WordRule(words[i])]
<1>1. rule \in CleanRules
  BY RulesAssumption
<1>2. WordTrie(trie) /\ WordTable(table)
  BY DEF ExactInvariant
<1>3. PICK long \in BOOLEAN : trie' = FoldLeft(InsertRuleValue, trie, ExpandedWords(rule, long))
  BY DEF InsertWildcards
<1>4. table' = FoldLeft(InsertIntoTable, table, added)
  BY DEF InsertWildcards
<1> DEFINE e == ExpandedWords(rule, long)
<1>5. /\ \E k \in Nat : DOMAIN e = 1 .. k
      /\ \A i \in DOMAIN e : e[i] \in Words
      /\ Narrow(rule.mask) =>
           \A w \in Words : Matches(rule, w) <=> \E i \in DOMAIN e : w = e[i]
  BY <1>1, ExpandedWordsAre
<1>6. trie' = FoldLeft(InsertRuleValue, trie, e)
  BY <1>3
<1> HIDE DEF e
<1>7. PICK k \in Nat : DOMAIN e = 1 .. k
  BY <1>5
<1>8. InsertedTo(trie, e, trie', k)
  BY <1>2, <1>5, <1>6, <1>7, WordsAreInserted
<1>9. n \in Nat /\ words \in Bijection(1 .. n, matched)
  BY AscendingWords
<1> HIDE DEF words, n, matched
<1>10. /\ DOMAIN words = 1 .. n /\ \A i \in 1 .. n : words[i] \in matched
       /\ \A w \in matched : \E i \in 1 .. n : words[i] = w
  BY <1>9 DEF Bijection, Surjection
<1>11. /\ DOMAIN added = 1 .. n
       /\ \A i \in 1 .. n : added[i] = WordRule(words[i])
  BY <1>10
<1> HIDE DEF added
<1>12. \A i \in 1 .. n : words[i] \in Words
  BY <1>10 DEF matched
<1>13. \A i \in 1 .. n : added[i] \in CleanRules /\ added[i].mask = {} /\ added[i].value = words[i]
  BY <1>11, <1>12, WordRuleIsClean
<1>14. AddedTo(table, added, table', n)
  BY <1>2, <1>4, <1>9, <1>11, <1>13, WordsAreAdded
<1>15. ASSUME SameWords, Narrow(rule.mask) PROVE SameWords'
  <2> SUFFICES ASSUME NEW w \in Words PROVE HasWord(trie', w) <=> InTable(table', w)
    BY DEF SameWords
  <2>1. HasWord(trie, w) <=> InTable(table, w)
    BY <1>15 DEF SameWords
  <2>2. HasWord(trie', w) <=> HasWord(trie, w) \/ \E j \in 1 .. k : w = e[j]
    BY <1>8 DEF InsertedTo
  <2>3. Matches(rule, w) <=> \E j \in 1 .. k : w = e[j]
    BY <1>5, <1>7, <1>15
  <2>4. InTable(table', w) <=> InTable(table, w) \/ \E j \in 1 .. n : w = added[j].value
    BY <1>14 DEF AddedTo
  <2>5. Matches(rule, w) <=> w \in matched
    BY DEF matched
  <2>6. w \in matched <=> \E j \in 1 .. n : w = added[j].value
    BY <1>10, <1>13
  <2> QED BY <2>1, <2>2, <2>3, <2>4, <2>5, <2>6
<1> QED BY <1>8, <1>14, <1>15 DEF InsertedTo, AddedTo, ExactInvariant

\* So does deleting, which takes one entry of the table or none.
LEMMA ExactDelete ==
  ASSUME ExactInvariant, NEW v \in Words, DeleteRule(v)
  PROVE  /\ ExactInvariant' /\ (SameWords => SameWords')
         /\ table' = table \/ \E j \in DOMAIN table : table' = RemoveAt(table, j)
<1>1. trie' = RemoveWord(trie, v) /\ table' = DeleteFromTable(table, WordRule(v))
  BY DEF DeleteRule
<1>2. WordTrie(trie) /\ WordTable(table)
  BY DEF ExactInvariant
<1>3. WordTrie(trie') /\ \A w \in Words : HasWord(trie', w) <=> HasWord(trie, w) /\ w # v
  BY <1>1, <1>2, WordIsRemoved
<1>4. /\ WordTable(table')
      /\ \A w : InTable(table', w) <=> InTable(table, w) /\ w # WordRule(v).value
      /\ table' = table \/ \E j \in DOMAIN table : table' = RemoveAt(table, j)
  BY <1>1, <1>2, WordRuleIsClean, WordIsDeleted
<1>5. SameWords => SameWords'
  BY <1>3, <1>4, WordRuleIsClean DEF SameWords
<1> QED BY <1>3, <1>4, <1>5 DEF ExactInvariant

\* Every step keeps both, and only a deletion shortens the table, by one entry.
LEMMA ExactStep ==
  ASSUME ExactInvariant, [ExactNext]_vars
  PROVE  /\ ExactInvariant'
         /\ NarrowMasks /\ SameWords => SameWords'
         /\ Len(table') < Len(table) => \E i \in DOMAIN table : table' = RemoveAt(table, i)
<1>1. CASE UNCHANGED vars
  <2>1. Len(table) \in Nat
    BY DEF ExactInvariant, WordTable
  <2> QED BY <1>1, <2>1 DEF vars, ExactInvariant, SameWords
<1>2. ASSUME ExactInvariant' PROVE Len(table) \in Nat /\ Len(table') \in Nat
  BY <1>2 DEF ExactInvariant, WordTable
<1>3. ASSUME NEW v \in Words, InsertWord(v)
      PROVE  /\ ExactInvariant' /\ (SameWords => SameWords') /\ ~(Len(table') < Len(table))
  BY <1>2, <1>3, ExactInsert
<1>4. ASSUME NEW rule \in RulesOffered, InsertWildcards(rule)
      PROVE  /\ ExactInvariant' /\ (NarrowMasks /\ SameWords => SameWords')
             /\ ~(Len(table') < Len(table))
  BY <1>2, <1>4, ExactInsertRule DEF NarrowMasks
<1>5. ASSUME NEW v \in Words, DeleteRule(v)
      PROVE  /\ ExactInvariant' /\ (SameWords => SameWords')
             /\ Len(table') < Len(table) => \E i \in DOMAIN table : table' = RemoveAt(table, i)
  BY <1>2, <1>5, ExactDelete
<1>6. CASE ExactNext
  BY <1>3, <1>4, <1>5, <1>6 DEF ExactNext
<1> QED BY <1>1, <1>6

\* Both hold throughout, whatever is inserted and deleted in whatever order.
THEOREM ExactInvariantHolds == ExactSpec => []ExactInvariant
<1>1. Init => ExactInvariant
  BY ExactInit
<1>2. ExactInvariant /\ [ExactNext]_vars => ExactInvariant'
  BY ExactStep
<1> QED BY <1>1, <1>2, PTL DEF ExactSpec

\* remove leaves no node that leads to no word, and none without its parent, after
\* any insertions and deletions.
THEOREM DeletingLeavesNoNodes == ExactSpec => []NoUselessNodes
<1>1. ASSUME ExactInvariant PROVE NoUselessNodes
  <2>1. WordTrie(trie)
    BY <1>1 DEF ExactInvariant
  <2>2. ParentsExist
    BY <2>1 DEF WordTrie, Tree, ParentsExist
  <2> SUFFICES ASSUME NEW n \in DOMAIN trie.priority \ {Root}, trie.priority[n] = 0
               PROVE  Children(trie, n) # {}
    BY <2>2 DEF NoUselessNodes
  <2>3. n[1] # Width /\ n \in Nodes
    BY <2>1 DEF WordTrie, Tree
  <2>4. n[1] < Width
    BY <2>3, WidthAssumption DEF Nodes
  <2> QED BY <2>1, <2>4 DEF WordTrie
<1> QED BY <1>1, ExactInvariantHolds, PTL

\* The loop of delete_rule never meets two entries to erase, so what it skips does
\* not matter: it erases one entry or none.
THEOREM DeletionTakesOneEntry == ExactSpec => DeletesOneAtMost
<1>1. ExactInvariant /\ [ExactNext]_vars
        => [Len(table') < Len(table) => \E i \in DOMAIN table : table' = RemoveAt(table, i)]_vars
  BY ExactStep
<1> QED BY <1>1, ExactInvariantHolds, PTL DEF ExactSpec, DeletesOneAtMost

\* While insert_rule is given wildcards below the sign bit of an int, and fewer than
\* there is room for there (of IntWidth - 1 the bound of its loop is negative and it
\* stores nothing), search_rule of the trie finds exactly the words that the linear
\* table finds, after any insertions and deletions in both.
THEOREM TrieAgreesWithTable ==
  ASSUME NarrowMasks
  PROVE  ExactSpec => []SearchAgreesWithTable
<1>1. Init => SameWords
  BY ExactInit
<1>2. ExactInvariant /\ SameWords /\ [ExactNext]_vars => SameWords'
  BY ExactStep
<1>3. ExactInvariant /\ SameWords => SearchAgreesWithTable
  BY WordIsFound, WordIsSearched DEF ExactInvariant, SameWords, SearchAgreesWithTable
<1> QED BY <1>1, <1>2, <1>3, ExactInvariantHolds, PTL DEF ExactSpec
=============================================================================
