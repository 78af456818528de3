--------------------------- MODULE MCHybridMatcher ---------------------------
(* Instances of HybridMatcher for TLC.                                      *)
EXTENDS HybridMatcher

\* The prefixes of the given lengths, with their wildcards zero, that start as said.
PrefixRules(lengths, start(_)) ==
  {rule \in {[key |-> key, mask |-> {b \in Bits : b >= length}] :
                key \in {k \in AllKeys : start(k)}, length \in lengths} :
     rule.key \cap rule.mask = {}}

\* The prefixes of the left branch, of which 0111 is left out, and one of the right.
InLeftBranch(key) == ~BranchOf(key) /\ key # 1 .. KeyBits - 1
InRightBranch(key) == BranchOf(key) /\ 1 \notin key
MCRules == PrefixRules(1 .. KeyBits, InLeftBranch) \cup PrefixRules({2}, InRightBranch)
=============================================================================
