------------------------------ MODULE TrieClient ------------------------------
(***************************************************************************)
(* Two ways a binary trie is used, each a specification of its own: prefix *)
(* rules with priorities, into which other rules are expanded (PrefixSpec, *)
(* how the matcher builds its tries), and exact words that may be deleted  *)
(* again (ExactSpec), beside a linear table of the same words.             *)
(* Rules come with their masked value bits zero, as rule files have them.  *)
(***************************************************************************)
EXTENDS BinaryTrie, LinearTable

CONSTANTS RulesOffered,   \* rules that may be inserted
          MaxInserts      \* bound on the words and rules inserted

ASSUME RulesAssumption == RulesOffered \subseteq CleanRules

VARIABLES trie,      \* the Trie object
          offered,   \* history: rules inserted by PrefixSpec
          accepted,  \* history: prefix rules whose insertion returned 0
          complete,  \* history: no rule was refused or cut off
          table      \* the linear table of ExactSpec

vars == << trie, offered, accepted, complete, table >>

Init ==
  /\ trie = NewTrie
  /\ offered = {} /\ accepted = {} /\ complete = TRUE /\ table = << >>

\* A prefix rule of the caller.
InsertPrefix(rule) ==
  LET result == InsertPrefixRulePriority(trie, rule)
  IN /\ IsPrefixRule(rule)
     /\ trie' = result.trie
     /\ accepted' = IF result.error = 0 THEN accepted \cup {rule} ELSE accepted
     /\ complete' = (complete /\ result.error = 0)

\* Any other rule is expanded.
InsertExpanded(rule) ==
  LET result == ExpandRule(trie, rule)
      before == Len(trie.expandedTable)
      after == result.trie.expandedTable
  IN /\ ~IsPrefixRule(rule)
     /\ trie' = result.trie
     /\ accepted' = accepted \cup { after[i] : i \in before + 1 .. Len(after) }
     /\ complete' = (complete /\ result.error = 0)

PrefixNext == \E rule \in RulesOffered \ offered :
  /\ Cardinality(offered) < MaxInserts
  /\ InsertPrefix(rule) \/ InsertExpanded(rule)
  /\ offered' = offered \cup {rule}
  /\ UNCHANGED table

WordRule(value) == [value |-> value, mask |-> {}, priority |-> trie.count + 1]

InsertWord(value) ==
  /\ trie' = InsertRuleValue(trie, value)
  /\ table' = InsertIntoTable(table, WordRule(value))

\* insert_rule; the table gets the words that the rule matches.
InsertWildcards(rule) ==
  LET words == InOrder({ key \in Words : Matches(rule, key) }, Below)
  IN /\ \E long \in BOOLEAN :
          trie' = FoldLeft(InsertRuleValue, trie, ExpandedWords(rule, long))
     /\ table' = FoldLeft(InsertIntoTable, table, [i \in DOMAIN words |-> WordRule(words[i])])

DeleteRule(value) ==
  /\ trie' = RemoveWord(trie, value)
  /\ table' = DeleteFromTable(table, WordRule(value))

ExactNext ==
  /\ \/ trie.count < MaxInserts /\ \E value \in Words : InsertWord(value)
     \/ trie.count < MaxInserts /\ \E rule \in RulesOffered : InsertWildcards(rule)
     \/ \E value \in Words : DeleteRule(value)
  /\ UNCHANGED << offered, accepted, complete >>

PrefixSpec == Init /\ [][PrefixNext]_vars
ExactSpec == Init /\ [][ExactNext]_vars

-----------------------------------------------------------------------------
(***************************************************************************)
(* Properties                                                              *)
(***************************************************************************)

ParentsExist == \A n \in DOMAIN trie.priority \ {Root} :
  NodeAt(n[2], n[1] - 1) \in DOMAIN trie.priority

\* The trie is a tree of words with priorities: every node but the root has its
\* parent, and the counters are numbers.
TypeOK ==
  /\ Root \in DOMAIN trie.priority /\ DOMAIN trie.priority \subseteq Nodes
  /\ ParentsExist
  /\ \A n \in DOMAIN trie.priority : trie.priority[n] \in Nat
  /\ trie.count \in Nat /\ trie.node_count \in Nat /\ trie.expand_count \in Nat
  /\ trie.blowup \in BOOLEAN /\ trie.expandedTable \in Seq(Rules(Nat \ {0}))
  /\ accepted \subseteq Rules(Nat \ {0})

\* No answer of LPM1_search_rule is invented: it is the priority of a prefix rule
\* that was inserted and that the key matches, whatever rules were dropped because
\* a better one was on their way and wherever the node threshold cut a way off.
AnswersAreRules == \A key \in Words :
  LET p == LPM1SearchRule(trie, key)
  IN p # 0 => \E rule \in accepted : rule.priority = p /\ Matches(rule, key)

\* No matching rule is missed: the answer is at least as good as every prefix rule
\* that was accepted, in whatever order the rules and their priorities came.
NoRuleIsMissed == \A key \in Words, rule \in accepted :
  Matches(rule, key) => LPM1SearchRule(trie, key) \in 1 .. rule.priority

\* Together, for rules as the caller gave them, expanded or not: unless the node
\* threshold or the expansion limit refused something, the search returns the best
\* priority of the matching rules.
SearchIsBestMatch == complete =>
  \A key \in Words : LPM1SearchRule(trie, key) = BestPriority(offered, key)

\* node_count is what the threshold is compared with: it is the number of nodes
\* and stays within the threshold, though a walk that is refused leaves nodes.
NodeCountIsExact ==
  /\ trie.node_count = Cardinality(DOMAIN trie.priority)
  /\ trie.node_count <= Threshold \/ trie.node_count = 1

\* search_rule finds exactly the words that the linear table finds, after any
\* insertions and deletions in both.
SearchAgreesWithTable ==
  \A key \in Words : SearchRule(trie, key) <=> SearchTable(table, key) # 0

\* The loop of delete_rule, which erases from the vector it runs over and then skips
\* an entry, has one entry at most to erase and keeps the others in order.
DeletesOneAtMost ==
  [][Len(table') < Len(table) => \E i \in DOMAIN table : table' = RemoveAt(table, i)]_vars

\* Deleting leaves no node that leads to no rule, and none whose parent is gone.
NoUselessNodes ==
  /\ ParentsExist
  /\ \A n \in DOMAIN trie.priority \ {Root} : trie.priority[n] = 0 => Children(trie, n) # {}
=============================================================================
