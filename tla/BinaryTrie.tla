------------------------------ MODULE BinaryTrie ------------------------------
(***************************************************************************)
(* The binary trie of libmatch (class Trie) as operators on its state.  A  *)
(* node is named by its depth and by the word of the bits on its way from  *)
(* the root; a trie maps its nodes to their priorities, zero for a node    *)
(* that ends no rule.                                                      *)
(***************************************************************************)
EXTENDS MatchRules, SequencesExt

CONSTANTS Threshold,      \* most nodes of a trie, from the command line
          BlowupLimit,    \* most wildcards that are expanded, 15 in the code
          IntWidth        \* bits of an int, 32 in the code

ASSUME ThresholdAssumption == Threshold \in Nat
ASSUME IntWidthAssumption == IntWidth \in Nat \ {0}

\* A rule of wildcards only is never expanded: 15 is less than 63.
ASSUME BlowupAssumption == BlowupLimit \in Nat /\ BlowupLimit < Width - 1

Root == << 0, {} >>
NodeAt(value, depth) == << depth, { b \in value : b >= Width - depth } >>
Nodes == { n \in (0 .. Width) \X Words : NodeAt(n[2], n[1]) = n }
\* The nodes below the root on the way of a value, down to a depth.  The mutant
\* misses the first.
WaysFromSecond(value, length) == { NodeAt(value, d) : d \in 2 .. length }
Ways(value, length) == { NodeAt(value, d) : d \in 1 .. length }
Children(t, node) == { n \in DOMAIN t.priority :
                         /\ n[1] = node[1] + 1
                         /\ NodeAt(n[2], node[1]) = node }

NewTrie == [priority |-> [n \in {Root} |-> 0], count |-> 0, node_count |-> 1,
            expand_count |-> 0, expandedTable |-> << >>, blowup |-> FALSE]

-----------------------------------------------------------------------------
(***************************************************************************)
(* Prefix rules                                                            *)
(***************************************************************************)

\* mylog2(mask + 1); a mask of ones only makes the sum overflow to zero, whose
\* logarithm is UINT_MAX: 64 - UINT_MAX is 65 in 32 bits.  The mutant stops one
\* level too early.
PrefixLenTooShort(mask) ==
  IF Cardinality(mask) < Width - 1 THEN Width - Cardinality(mask) - 1 ELSE 1
PrefixLen(mask) ==
  IF mask = Bits THEN Width + 1
  ELSE Width - (IF \E n \in Bits : mask = 0 .. n - 1 THEN Cardinality(mask)
                ELSE CHOOSE p \in mask : \A q \in mask : q <= p)

\* Nodes given priority zero where the trie has none.
WithNodes(priority, nodes) ==
  [n \in DOMAIN priority \cup nodes |-> IF n \in DOMAIN priority THEN priority[n] ELSE 0]

\* Mutant: a rule on the way that is worse is taken to hide the new one.
ShadowedByAny(t, way, rule) == \E n \in way \cap DOMAIN t.priority : t.priority[n] > 0
\* A rule on the way is better: the new one is never the answer.
Shadowed(t, way, rule) ==
  \E n \in way \cap DOMAIN t.priority : 0 < t.priority[n] /\ t.priority[n] < rule.priority

\* Mutant: the node of the rule keeps a priority it has.
MarkedIfUnmarked(priority, node, rule) ==
  [priority EXCEPT ![node] = IF @ = 0 THEN rule.priority ELSE @]
Marked(priority, node, rule) == [priority EXCEPT ![node] = rule.priority]

\* Mutant: one node more than the threshold.
FitsOneMore(t, missing) == t.node_count + Cardinality(missing) <= Threshold + 1
Fits(t, missing) == t.node_count + Cardinality(missing) <= Threshold

\* The walk creates what is missing and stops at the node threshold with what it
\* has created; a shadowing rule is met before the first missing node.
InsertPrefixRulePriority(t, rule) ==
  LET length == PrefixLen(rule.mask)
      way == Ways(rule.value, length)
      missing == way \ DOMAIN t.priority
      first == length - Cardinality(missing) + 1
      room == { n \in missing : t.node_count + (n[1] - first) + 1 <= Threshold }
      created == IF Fits(t, missing) THEN missing ELSE room
      grown == [t EXCEPT !.priority = WithNodes(@, created),
                         !.node_count = @ + Cardinality(created)]
  IN IF Shadowed(t, way, rule) THEN [trie |-> t, error |-> 0]
     ELSE IF ~Fits(t, missing) THEN [trie |-> grown, error |-> 1]
     ELSE [trie |-> [grown EXCEPT !.count = @ + 1,
                                  !.priority = Marked(@, NodeAt(rule.value, length), rule)],
           error |-> 0]

\* The lowest position that is not masked; none leaves the initial zero.
Boundary(mask) ==
  IF mask = Bits THEN 0
  ELSE CHOOSE b \in Bits \ mask : \A c \in Bits \ mask : b <= c

NewPositions(mask) == { j \in mask : j > Boundary(mask) }
GetNewNum(rule) == Cardinality(NewPositions(rule.mask))

\* The prefix rules a rule is expanded into, in the order of the loop.  The
\* mutant leaves the last one out.
ExpansionsButLast(rule) ==
  LET words == InOrder(SUBSET NewPositions(rule.mask), Below)
  IN [i \in 1 .. Len(words) - 1 |->
        [rule EXCEPT !.value = @ \cup words[i], !.mask = 0 .. Boundary(rule.mask) - 1]]
Expansions(rule) ==
  LET words == InOrder(SUBSET NewPositions(rule.mask), Below)
  IN [i \in DOMAIN words |->
        [rule EXCEPT !.value = @ \cup words[i], !.mask = 0 .. Boundary(rule.mask) - 1]]

\* One round of the loop in expand_rule, which the first refusal ends.
ExpandOne(result, rule) ==
  LET inserted == InsertPrefixRulePriority(result.trie, rule)
      table == Append(inserted.trie.expandedTable, rule)
  IN IF result.error = 1 THEN result
     ELSE IF inserted.error = 1 THEN inserted
     ELSE [trie |-> [inserted.trie EXCEPT !.expandedTable = table,
                                          !.expand_count = @ + Len(table)],
           error |-> 0]

ExpandRule(t, rule) ==
  IF GetNewNum(rule) > BlowupLimit THEN [trie |-> [t EXCEPT !.blowup = TRUE], error |-> 1]
  ELSE FoldLeft(ExpandOne, [trie |-> t, error |-> 0], Expansions(rule))

\* is_prefix: 1 << 64, for 64 wildcards, is 1 << 0 on this processor.
IsPrefixRule(rule) == rule.mask # Bits /\ rule.mask = 0 .. Cardinality(rule.mask) - 1

\* LPM1_search_rule: the best priority on the way of the key, the root apart.
LPM1SearchRule(t, key) ==
  LET met == { t.priority[n] : n \in Ways(key, Width) \cap DOMAIN t.priority } \ {0}
  IN IF met = {} THEN 0 ELSE CHOOSE p \in met : \A q \in met : p <= q

-----------------------------------------------------------------------------
(***************************************************************************)
(* Exact words                                                             *)
(***************************************************************************)

InsertRuleValue(t, value) ==
  LET missing == Ways(value, Width) \ DOMAIN t.priority
  IN [t EXCEPT !.priority = [WithNodes(@, missing) EXCEPT ![NodeAt(value, Width)] = t.count + 1],
               !.count = @ + 1,
               !.node_count = @ + Cardinality(missing)]

\* 1 << p for an int: bit IntWidth - 1 is the sign and extends to the upper
\* bits; from IntWidth on the shift is undefined and gives either the shift by
\* p modulo IntWidth or, computed in a longer register, the bit itself.
ShiftedOne(p, long) ==
  LET q == p % IntWidth
  IN IF long /\ p >= IntWidth THEN {p}
     ELSE IF q = IntWidth - 1 THEN q .. Width - 1
     ELSE {q}

\* The counters of the loop of insert_rule, from zero on, as sets of their one
\* bits.  Its bound 1 << num is an int too: of IntWidth - 1 wildcards it is negative,
\* and there is no round.
Counters(num, long) ==
  LET q == IF long /\ num >= IntWidth THEN num ELSE num % IntWidth
  IN IF q = IntWidth - 1 THEN {} ELSE SUBSET (0 .. q - 1)

\* The index of a wildcard in maskPosition, which lists them from the lowest.
WildcardIndex(mask, p) == Cardinality({ q \in mask : q < p })

\* The words of insert_rule, in the order of the loop: a wildcard is one where the
\* counter has a zero at the wildcard's index.
ExpandedWords(rule, long) ==
  LET Chosen(i) == { p \in rule.mask : ShiftedOne(WildcardIndex(rule.mask, p), long) \cap i = {} }
      Word(i) == (rule.value \ rule.mask) \cup UNION { ShiftedOne(p, long) : p \in Chosen(i) }
      counters == InOrder(Counters(Cardinality(rule.mask), long), Below)
  IN [k \in DOMAIN counters |-> Word(counters[k])]

SearchRule(t, key) ==
  /\ Ways(key, Width) \subseteq DOMAIN t.priority
  /\ t.priority[NodeAt(key, Width)] # 0

\* Mutant: a node above the word is deleted though it leads elsewhere.
KeptDepthsOfRulesOnly(t, value) ==
  { d \in 0 .. Width - 1 : d = 0 \/ t.priority[NodeAt(value, d)] # 0 }
\* Mutant: only the node of the word is deleted.
KeptDepthsAll(t, value) == 0 .. Width - 1
\* The nodes above a deleted word that remove keeps: the root, those that end a
\* rule and those with another child.
KeptDepths(t, value) ==
  { d \in 0 .. Width - 1 :
      \/ d = 0
      \/ t.priority[NodeAt(value, d)] # 0
      \/ Children(t, NodeAt(value, d)) # { NodeAt(value, d + 1) } }

\* remove unmarks the word and gives up nodes on the way back, while they have
\* no rule and no child.
RemoveWord(t, value) ==
  LET unmarked == [t.priority EXCEPT ![NodeAt(value, Width)] = 0]
      kept == CHOOSE d \in KeptDepths(t, value) : \A e \in KeptDepths(t, value) : e <= d
      useless == { NodeAt(value, d) : d \in kept + 1 .. Width }
  IN IF Ways(value, Width) \subseteq DOMAIN t.priority
     THEN IF Children(t, NodeAt(value, Width)) = {}
          THEN [t EXCEPT !.priority = [n \in DOMAIN unmarked \ useless |-> unmarked[n]]]
          ELSE [t EXCEPT !.priority = unmarked]
     ELSE t
=============================================================================
