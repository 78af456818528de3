---------------------------- MODULE HybridMatcher ----------------------------
(***************************************************************************)
(* The rule matcher of hot_tree.cpp: a hybrid node whose two branches, for *)
(* the most significant bit of a rule, hold one height optimized trie      *)
(* each.  A rule is a key and a mask of wildcard positions.  A rule that   *)
(* differs from the leaf it meets outside the wildcards becomes a leaf;    *)
(* otherwise it is appended to the lists of the leaves it may concern.     *)
(* The benchmark first inserts all rules and then looks keys up, with      *)
(* flag_mask and extract_mask reset before each of these.                  *)
(***************************************************************************)
EXTENDS HotTrie

CONSTANTS ByteWidth,   \* bits of a byte, 8 in the code
          Rules        \* the rules that may be inserted: [key, mask]

ASSUME ByteWidthAssumption == ByteWidth \in Nat \ {0}
ASSUME RulesAssumption == \A rule \in Rules : rule.key \in AllKeys /\ rule.mask \in AllKeys

VARIABLES tries,      \* the trie of each branch; an empty root: there is no branch yet
          offered,    \* history: the rules that were inserted
          accepted    \* history: those whose insert returned true

vars == << tries, offered, accepted >>

-----------------------------------------------------------------------------
(* Rules.  The branch bit is position 0 of a key and is cleared in a leaf. *)

BranchOf(key) == 0 \in key
Matches(rule, key) == rule.key \ rule.mask = key \ rule.mask

\* The value of a leaf is its mask and its list of further rules.
RuleLeaf(rule) == LeafPointer(rule.key \ {0}, [mask |-> rule.mask, list |-> << >>])

Bytes == {{b \in Bits : b \div ByteWidth = i} : i \in {b \div ByteWidth : b \in Bits}}

Differing(a, b) == (a \ b) \cup (b \ a)

\* Where a rule differs from a key it met: at a bit (and whether the rule has a one
\* there), at a wildcard (isWildcard, flag_mask), or nowhere.  Bytes are compared
\* one by one: the first that differs outside both masks or has a wildcard counts.
NoDifference == [found |-> FALSE]
DifferingAt(bit, value, isWildcard) ==
  [found |-> TRUE, isWildcard |-> isWildcard, newBit |-> [bit |-> bit, value |-> value]]

DifferenceInByte(byte, newKey, mask, existingKey, matchedMask) ==
  LET differing == byte \cap Differing(existingKey, newKey)
      outside   == differing \ (mask \cup matchedMask)
      unmasked  == differing \ mask
  IN  IF outside # {} THEN DifferingAt(Min(outside), Min(outside) \in newKey, FALSE)
      ELSE IF unmasked # {} THEN DifferingAt(Min(unmasked), Min(unmasked) \in newKey, TRUE)
      ELSE DifferingAt(Min(mask \cap byte), TRUE, TRUE)

ExecuteForDiffingKeys(newKey, mask, existingKey, matchedMask) ==
  LET decides(byte) == \/ byte \cap (Differing(existingKey, newKey) \ (mask \cup matchedMask)) # {}
                       \/ byte \cap mask # {}
      deciding == {byte \in Bytes : decides(byte)}
      first    == CHOOSE byte \in deciding : \A other \in deciding : Min(byte) <= Min(other)
  IN  IF deciding = {} THEN NoDifference
      ELSE DifferenceInByte(first, newKey, mask, existingKey, matchedMask)

\* The comparison with a leaf that is the root: its mask does not count, and a byte
\* that differs outside the mask differs at its first bit, be it a wildcard or not.
ExecuteForDiffingRootKey(newKey, mask, existingKey) ==
  LET difference == ExecuteForDiffingKeys(newKey, mask, existingKey, {})
      byte == CHOOSE byte \in Bytes : difference.newBit.bit \in byte
      bit  == Min(byte \cap Differing(existingKey, newKey))
  IN  IF difference.found /\ ~difference.isWildcard
      THEN DifferingAt(bit, bit \in newKey, FALSE) ELSE difference

-----------------------------------------------------------------------------
(* insert(value, mask).                                                    *)

\* Mutant: the last of the affected entries is missed.
InsertNewWildcardRuleIntoNodeButLast(trie, path, newBit, rule) ==
  LET entry == path[InsertDepth(trie.heap, path, newBit)]
      info  == GetInsertInformation(NodeOf(trie.heap, entry), entry.entry, newBit)
      last  == IF info.number = 1 THEN info.first ELSE info.first + info.number - 2
      joined(i, p) ==
        IF IsLeaf(p) /\ i \in info.first .. last
        THEN [p EXCEPT !.value.list = Append(@, rule)] ELSE p
  IN  [trie EXCEPT !.heap[entry.ptr.id].ptrs = [i \in DOMAIN @ |-> joined(i, @[i])]]

\* The rule joins the lists of the leaves among the affected entries.  (The list of
\* a pointer to a node is never read; a single such entry is left alone.)
InsertNewWildcardRuleIntoNode(trie, path, newBit, rule) ==
  LET entry == path[InsertDepth(trie.heap, path, newBit)]
      info  == GetInsertInformation(NodeOf(trie.heap, entry), entry.entry, newBit)
      joined(i, p) ==
        IF IsLeaf(p) /\ i \in info.first .. info.first + info.number - 1
        THEN [p EXCEPT !.value.list = Append(@, rule)] ELSE p
  IN  [trie EXCEPT !.heap[entry.ptr.id].ptrs = [i \in DOMAIN @ |-> joined(i, @[i])]]

\* Of a leaf that is the root a node of two entries is made, for a wildcard too.
InsertIntoTrie(trie, rule) ==
  LET new == RuleLeaf(rule)
      beside(difference, existing) ==
        Replace(trie, RootLocation, Allocate(trie.heap, CreateTwoEntriesNode(
          BiNodeFromExistingAndNew(trie.heap, difference.newBit, existing, new))), {})
      intoNode(difference, path) ==
        IF difference.isWildcard
        THEN InsertNewWildcardRuleIntoNode(trie, path, difference.newBit, rule)
        ELSE InsertNewValueIntoNode(trie, path, difference.newBit, new)
      atRoot(difference) ==
        [inserted |-> difference.found,
         trie |-> IF difference.found THEN beside(difference, trie.root) ELSE trie]
      onPath(difference, path) ==
        [inserted |-> difference.found,
         trie |-> IF difference.found THEN intoNode(difference, path) ELSE trie]
      atLeaf(path) ==
        onPath(ExecuteForDiffingKeys(new.key, rule.mask, LeafEntry(path).ptr.key,
                                     LeafEntry(path).ptr.value.mask), path)
      found == [id \in DOMAIN trie.heap |-> SearchWithMask(trie.heap[id], new.key, rule.mask)]
  IN  IF trie.root = EmptyPointer THEN [inserted |-> TRUE, trie |-> [trie EXCEPT !.root = new]]
      ELSE IF IsLeaf(trie.root)
      THEN atRoot(ExecuteForDiffingRootKey(new.key, rule.mask, trie.root.key))
      ELSE atLeaf(PathBy(trie.heap, trie.root, found))

-----------------------------------------------------------------------------
(* search: the leaf's own rule and then the rules of its list.             *)

\* Mutant: the branch of the key is not chosen anew.
FoundInLeftBranch(key) ==
  LET leaf == FindLeaf(tries[FALSE].heap, tries[FALSE].root, key \ {0})
      own  == [key |-> leaf.key, mask |-> leaf.value.mask]
  IN  IsLeaf(leaf) /\ Matches(own, key \ {0})

Found(key) ==
  LET leaf == FindLeaf(tries[BranchOf(key)].heap, tries[BranchOf(key)].root, key \ {0})
      own  == [key |-> leaf.key, mask |-> leaf.value.mask]
  IN  /\ IsLeaf(leaf)
      /\ \/ Matches(own, key \ {0})
         \/ \E i \in DOMAIN leaf.value.list :
              Matches([leaf.value.list[i] EXCEPT !.key = @ \ {0}], key \ {0})

-----------------------------------------------------------------------------
(* The program.                                                            *)

EmptyTrie == [root |-> EmptyPointer, heap |-> << >>]

Init ==
  /\ tries = [branch \in BOOLEAN |-> EmptyTrie]
  /\ offered = {} /\ accepted = {}

\* The wrapper chooses the branch, and whether it is new, by the first bit.
Insert(rule) ==
  \E result \in {InsertIntoTrie(tries[BranchOf(rule.key)], rule)} :
    /\ tries' = [tries EXCEPT ![BranchOf(rule.key)] = Collected(result.trie)]
    /\ offered' = offered \cup {rule}
    /\ accepted' = IF result.inserted THEN accepted \cup {rule} ELSE accepted

Overlap(a, b) == \E key \in AllKeys : Matches(a, key) /\ Matches(b, key)
Covers(a, b) == \A key \in AllKeys : Matches(b, key) => Matches(a, key)

\* The rules a client may add without losing matches: one apart from all others, one
\* that covers those it overlaps while the trie is a single node (otherwise the
\* rule does not reach the leaves below, and none at all for a single entry that
\* is a node), and an exact one that the leaf it meets covers itself.
Careful(rule) ==
  LET trie        == tries[BranchOf(rule.key)]
      leaf        == FindLeaf(trie.heap, trie.root, rule.key \ {0})
      overlapping == {other \in offered : Overlap(rule, other)}
  IN  \/ overlapping = {}
      \/ Len(trie.heap) = 1 /\ \A other \in overlapping : Covers(rule, other)
      \/ /\ rule.mask = {} /\ IsAValidNode(trie.root)
         /\ leaf.key \ leaf.value.mask = rule.key \ ({0} \cup leaf.value.mask)

Next == \E rule \in Rules \ offered : Careful(rule) /\ Insert(rule)
Spec == Init /\ [][Next]_vars

-----------------------------------------------------------------------------
(* Properties.                                                             *)

\* What the comment on the insertion of wildcard rules sets out to do: whatever rules
\* come later, a rule that was inserted, or was refused because a leaf has its
\* key already, is found by every key it matches.
RulesAreFound == \A rule \in offered, key \in AllKeys : Matches(rule, key) => Found(key)

\* A key is found only if it matches a rule that was accepted: no leaf or list entry
\* is read with the wildcards of another rule.
MatchesAreRules == \A key \in AllKeys : Found(key) => \E rule \in accepted : Matches(rule, key)

=============================================================================
