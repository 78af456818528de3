---------------------------- MODULE MCGenMatcher ----------------------------
(***************************************************************************)
(* Instances of GenMatcher: files of at most MaxRules different patterns   *)
(* with the masks of the instance and ones at some positions only.         *)
(***************************************************************************)
EXTENDS GenMatcher

CONSTANTS Masks, Ones, MaxRules

Patterns == { << v, m >> \in (SUBSET Ones) \X Masks : v \cap m = {} }

MCFiles ==
  UNION { { [i \in 1 .. n |-> [value |-> f[i][1], mask |-> f[i][2], priority |-> i]] :
              f \in { g \in [1 .. n -> Patterns] : IsInjective(g) } } : n \in 1 .. MaxRules }

\* Two masks that overlap so little that one does not fit the other's trie, one
\* apart from them, and one that has to be expanded beside the first.
MCMasks == { {1, 2}, {2, 3, 4}, {0}, {3} }
=============================================================================
