------------------------------ MODULE MatchRules ------------------------------
(***************************************************************************)
(* Words and rules of libmatch.  A word of Width bits is the set of the    *)
(* positions of its one bits, position 0 being the least significant, so   *)
(* that & ~ and | of the code are set difference and union.  A one bit of  *)
(* a rule's mask is a wildcard.                                            *)
(***************************************************************************)
EXTENDS Integers, FiniteSets

CONSTANT Width   \* bits of a key: 64 in the code

ASSUME WidthAssumption == Width \in Nat \ {0}

Bits == 0 .. Width - 1
Words == SUBSET Bits

\* struct Rule; the action is carried along unread and is left out.
Rules(Priorities) == [value : Words, mask : Words, priority : Priorities]

\* Rules as rule files have them: numbered from one, their masked value bits zero.
CleanRules == { rule \in Rules(Nat \ {0}) : rule.value \cap rule.mask = {} }

\* The comparison of every matcher: a key matches where it is not masked.
Matches(rule, key) == rule.value = key \ rule.mask

\* a < b as numbers: the highest bit in which they differ is a bit of b.
Below(a, b) == \E p \in b \ a : \A q \in a \ b : q < p

\* The elements of a finite set from the least to the greatest of an order: the
\* i-th has i - 1 elements below it.
InOrder(S, Less(_, _)) ==
  [i \in 1 .. Cardinality(S) |-> CHOOSE x \in S : Cardinality({ y \in S : Less(y, x) }) = i - 1]

\* The entries of a vector at some indices, in their order.
Pick(rules, indices) ==
  LET order == InOrder(indices, <)
  IN [i \in DOMAIN order |-> rules[order[i]]]

\* What a matcher should answer: the smallest priority of the matching rules,
\* zero when there is none.
BestPriority(rules, key) ==
  LET matching == { r.priority : r \in { s \in rules : Matches(s, key) } }
  IN IF matching = {} THEN 0
     ELSE CHOOSE p \in matching : \A q \in matching : p <= q
=============================================================================
