------------------------------ MODULE GenMatcher ------------------------------
(***************************************************************************)
(* The matcher that prefix_kmeans builds from a file of rules.  All rules  *)
(* are first put into one binary trie, after a permutation of the bit      *)
(* positions that gathers the wildcards at the low end.  If a rule still   *)
(* has too many wildcards above its prefix, the rules are clustered by     *)
(* their masks and every cluster gets a permutation and a trie of its own; *)
(* a rule that does not fit there is moved to a new group and everything   *)
(* is built again.  A key is permuted for every trie and searched in all.  *)
(***************************************************************************)
EXTENDS BinaryTrie, LinearTable

CONSTANTS ExpandLimit,   \* most wildcards a build accepts to expand, 5 in the code
          Files          \* contents of the rule file, without duplicates: rules
                         \* numbered by their priority

\* The rules are numbered as they are read, and of equal ones remove_duplicate_rule
\* keeps the first.
ASSUME FilesAssumption == \A file \in Files :
  /\ file \in Seq(CleanRules) /\ Len(file) > 0
  /\ \A i, j \in DOMAIN file : i < j => /\ file[i].priority < file[j].priority
                                        /\ ~SameRule(file[i], file[j])

VARIABLES phase,     \* "one", "cluster", "build" or "ready"
          table,     \* the linear table of the same file
          groups,    \* bigArray, the groups of rules
          points,    \* rules not yet clustered
          matcher,   \* the trie and the bit permutation of every group
          next       \* << group, rule >>: where the build is

vars == << phase, table, groups, points, matcher, next >>

-----------------------------------------------------------------------------
(***************************************************************************)
(* Permuting the bits: my_pairsort puts the most masked position first,    *)
(* and among equals the lowest; rules_rearrange and keys_rearrange move    *)
(* every bit by the difference, to its rank in that order.                 *)
(***************************************************************************)

Score(group, position) == Cardinality({ i \in DOMAIN group : position \in group[i].mask })

\* Mutant: positions of equal score share a rank.
RankSharingTies(group, position) ==
  Cardinality({ p \in Bits : Score(group, p) > Score(group, position) })
Rank(group, position) ==
  Cardinality({ p \in Bits :
                  \/ Score(group, p) > Score(group, position)
                  \/ Score(group, p) = Score(group, position) /\ p < position })

Delta(group) == [p \in Bits |-> Rank(group, p)]
KeysRearrange(key, delta) == { delta[p] : p \in key }
RulesRearrange(group, delta) ==
  [i \in DOMAIN group |-> [group[i] EXCEPT !.value = KeysRearrange(@, delta),
                                           !.mask = KeysRearrange(@, delta)]]

-----------------------------------------------------------------------------
(***************************************************************************)
(* Clustering by masks                                                     *)
(***************************************************************************)

\* A mask without wildcards is near to every other.
Intersection(a, b) == IF a = {} \/ b = {} THEN 1 ELSE Cardinality(a \cap b)

\* One row of get_cmatrix.
Row(rules, i) == [j \in DOMAIN rules |->
  IF i = j THEN Width ELSE Intersection(rules[i].mask, rules[j].mask)]
RowSum(rules, i) == FoldLeft(+, 0, Row(rules, i))

\* get_center_index: the first of the rows with the largest sum.
CenterIndex(rules) ==
  CHOOSE i \in DOMAIN rules :
    \A j \in DOMAIN rules : /\ RowSum(rules, j) <= RowSum(rules, i)
                            /\ RowSum(rules, j) = RowSum(rules, i) => i <= j

Neighbours(rules) == { j \in DOMAIN rules : Row(rules, CenterIndex(rules))[j] > 0 }

-----------------------------------------------------------------------------
(***************************************************************************)
(* The program                                                             *)
(***************************************************************************)

NewMatcher(gs) == [j \in DOMAIN gs |-> [trie |-> NewTrie, delta |-> Delta(gs[j])]]

\* std::sort by the masks as numbers, rules of one mask in any order.
SortedByMask(file) == { data \in SetToSeqs(Range(file)) :
  \A i, j \in DOMAIN data : i < j => ~Below(data[j].mask, data[i].mask) }

Init ==
  \E file \in Files : \E data \in SortedByMask(file) :
    /\ phase = "one"
    /\ table = FoldLeft(InsertIntoTable, << >>, file)
    /\ groups = << data >>
    /\ points = << >>
    /\ matcher = NewMatcher(groups)
    /\ next = << 1, 1 >>

CurrentRule == RulesRearrange(groups[next[1]], matcher[next[1]].delta)[next[2]]
Building == phase \in {"one", "build"} /\ next[2] <= Len(groups[next[1]])
ExpandsTooMuch == ~IsPrefixRule(CurrentRule) /\ GetNewNum(CurrentRule) > ExpandLimit

\* The result of an insertion is stored whatever it returned.
Store(result) ==
  /\ matcher' = [matcher EXCEPT ![next[1]].trie = result.trie]
  /\ next' = [next EXCEPT ![2] = @ + 1]
  /\ UNCHANGED << phase, table, groups, points >>

InsertPrefix ==
  /\ Building
  /\ IsPrefixRule(CurrentRule)
  /\ Store(InsertPrefixRulePriority(matcher[next[1]].trie, CurrentRule))

\* kmeans_build_tries with a single group expands, whatever it takes.
InsertExpanded ==
  /\ Building
  /\ ~IsPrefixRule(CurrentRule)
  /\ ExpandsTooMuch => phase = "build" /\ Len(groups) = 1
  /\ Store(ExpandRule(matcher[next[1]].trie, CurrentRule))

\* kmeans_build_one_trie gives up, and the rules are clustered.
GiveUpOneTrie ==
  /\ Building /\ phase = "one" /\ ExpandsTooMuch
  /\ phase' = "cluster"
  /\ points' = groups[1]
  /\ groups' = << >> /\ matcher' = << >>
  /\ UNCHANGED << table, next >>

\* One round of assign_cluster_CC.
Cluster ==
  LET near == Neighbours(points)
      clusters == Append(groups, Pick(points, near))
  IN /\ phase = "cluster"
     /\ groups' = clusters
     /\ points' = Pick(points, DOMAIN points \ near)
     /\ IF near = DOMAIN points
        THEN phase' = "build" /\ matcher' = NewMatcher(clusters) /\ next' = << 1, 1 >>
        ELSE UNCHANGED << phase, matcher, next >>
     /\ UNCHANGED table

\* Mutant: the rule is moved to the next group instead of a new one.
RegroupedIntoNeighbour(gs, j, k) ==
  [gs EXCEPT ![j] = RemoveAt(@, k),
             ![(j % Len(gs)) + 1] = Append(@, gs[j][k])]
\* Mutant: the rule stays in its group too.
RegroupedTwice(gs, j, k) == Append(gs, << gs[j][k] >>)
Regrouped(gs, j, k) == Append([gs EXCEPT ![j] = RemoveAt(@, k)], << gs[j][k] >>)

\* A rule that expands too much gets a group of its own and all tries are built
\* again.
Regroup ==
  LET regrouped == Regrouped(groups, next[1], next[2])
  IN /\ Building /\ phase = "build" /\ ExpandsTooMuch /\ Len(groups) # 1
     /\ groups' = regrouped
     /\ matcher' = NewMatcher(regrouped)
     /\ next' = << 1, 1 >>
     /\ UNCHANGED << phase, table, points >>

NextGroup ==
  /\ phase \in {"one", "build"} /\ next[2] > Len(groups[next[1]])
  /\ IF next[1] < Len(groups)
     THEN next' = << next[1] + 1, 1 >> /\ UNCHANGED phase
     ELSE phase' = "ready" /\ UNCHANGED next
  /\ UNCHANGED << table, groups, points, matcher >>

Next == InsertPrefix \/ InsertExpanded \/ GiveUpOneTrie \/ Cluster \/ Regroup \/ NextGroup

\* A sequential program that keeps running: WF_vars(Next), with the condition under
\* which Next is enabled written out.
Fairness == <>[](phase # "ready") => []<><< TRUE >>_vars
Spec == Init /\ [][Next]_vars /\ Fairness

\* generate_keyTable and search_result_2: the answers of all tries, each asked for
\* the key in its own order of bits.
MatchVector(key) ==
  [m \in DOMAIN matcher |-> LPM1SearchRule(matcher[m].trie, KeysRearrange(key, matcher[m].delta))]

\* search_result_1 and search_result_2 count the keys that have an answer.
IsMatched(key) == \E m \in DOMAIN matcher : MatchVector(key)[m] # 0

-----------------------------------------------------------------------------
(***************************************************************************)
(* Properties                                                              *)
(***************************************************************************)

AllRules == Range(points) \cup UNION { Range(g) : g \in Range(groups) }

\* Groups and unclustered points hold rules, a permutation moves every bit to a
\* place of its own, and the build is at a group that exists.
TypeOK ==
  /\ phase \in {"one", "cluster", "build", "ready"}
  /\ AllRules \subseteq Rules(Nat \ {0})
  /\ phase # "cluster" => /\ DOMAIN matcher = DOMAIN groups
                          /\ next[1] \in DOMAIN groups /\ next[2] \in Nat \ {0}
  /\ \A m \in Range(matcher) : IsInjective(m.delta) /\ Range(m.delta) \subseteq Bits

Blowup == \E m \in Range(matcher) : m.trie.blowup

\* The best of the answers.  main only counts matches; this is what the answers are
\* computed for, and what kmeans_search_result, no longer called, takes of them.
Decision(key) ==
  LET answers == Range(MatchVector(key)) \ {0}
  IN IF answers = {} THEN 0 ELSE Min(answers)

\* The finished matcher counts the keys that the linear table matches that was filled
\* from the same file, and has that table's answer for each: grouping, permuting,
\* expanding and the loss of shadowed rules change nothing, unless an expansion was
\* given up.
DecidesAsLinearTable == phase = "ready" /\ ~Blowup =>
  \A key \in Words : /\ IsMatched(key) <=> SearchTable(table, key) # 0
                      /\ Decision(key) = SearchTable(table, key)

\* Clustering and regrouping lose no rule and put none in two groups.
RulesAreKept ==
  LET parts == Append(groups, points)
  IN /\ AllRules = Range(table)
     /\ \A j \in DOMAIN parts : IsInjective(parts[j])
     /\ \A j, k \in DOMAIN parts : j # k => Range(parts[j]) \cap Range(parts[k]) = {}

\* A rule that has a group of its own is not moved again: there are never more
\* groups than rules, so the recursion of kmeans_build_tries ends.
RegroupingIsBounded == Len(groups) <= Len(table)

\* The build ends.
BuildEnds == <>(phase = "ready")
=============================================================================
