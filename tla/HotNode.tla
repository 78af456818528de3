------------------------------- MODULE HotNode -------------------------------
(***************************************************************************)
(* The nodes of the height optimized trie, and the copy-on-write           *)
(* operations on them that the concurrent index (HotRowex) is built from.  *)
(*                                                                         *)
(* A key is the set of the positions of its one bits; position 0 is the    *)
(* most significant bit.  A compound node stores, for every entry, a child *)
(* pointer and a sparse partial key: the positions at which the path to    *)
(* the entry inside the node turns right.  The code packs sparse partial   *)
(* keys into 8, 16 or 32 bit lanes with pext / pdep and compares them with *)
(* one SIMD instruction; here they stay sets of absolute bit positions.    *)
(* Entry indexes start at 1.                                               *)
(***************************************************************************)
EXTENDS Naturals, Sequences, FiniteSets, FiniteSetsExt

CONSTANTS KeyBits,     \* number of bits of a key
          MaxEntries   \* fan-out of a node, 32 in the code

ASSUME KeyBitsAssumption == KeyBits \in Nat \ {0}
ASSUME MaxEntriesAssumption == MaxEntries \in Nat \ {0, 1}

Bits == 0 .. KeyBits - 1
AllKeys == SUBSET Bits

-----------------------------------------------------------------------------
(* Keys and discriminative bits.                                           *)

\* The first position at which two different keys disagree, with the bit of
\* the new key there.
GetMismatchingBit(existingKey, newKey) ==
  LET differing == (existingKey \ newKey) \cup (newKey \ existingKey)
      first     == Min(differing)
  IN  [bit |-> first, value |-> first \in newKey]

\* Lexicographic order of the keys, the order of the leaves of the trie.
KeyLess(a, b) == a # b /\ GetMismatchingBit(a, b).value

-----------------------------------------------------------------------------
(* Child pointers: empty, a leaf (tuple identifier) or a node address.     *)

EmptyPointer == [type |-> "empty"]
LeafPointer(key, value) == [type |-> "leaf", key |-> key, value |-> value]
NodePointer(id) == [type |-> "node", id |-> id]

IsLeaf(pointer) == pointer.type = "leaf"
IsAValidNode(pointer) == pointer.type = "node"

GetHeight(heap, pointer) ==
  IF IsLeaf(pointer) THEN 0 ELSE heap[pointer.id].height

GetNumberEntries(heap, pointer) ==
  IF IsLeaf(pointer) THEN 1 ELSE Len(heap[pointer.id].ptrs)

-----------------------------------------------------------------------------
(* Node contents and read operations.                                      *)

NodeContent(height, keys, ptrs) ==
  [height |-> height, keys |-> keys, ptrs |-> ptrs]

DiscriminativeBits(node) == UNION {node.keys[i] : i \in DOMAIN node.keys}
MostSignificantBit(node) == Min(DiscriminativeBits(node))

\* Mutant: the bound is tested one entry too late.
IsFullTooLate(node) == Len(node.ptrs) > MaxEntries
IsFull(node) == Len(node.ptrs) = MaxEntries

\* Complying entries are those whose sparse partial key is contained in the
\* search key; the last of them is the result.
Search(node, key) == Max({i \in DOMAIN node.keys : node.keys[i] \subseteq key})

\* The entries that share with the given entry all discriminative bits in
\* front of the new bit: the subtree the new entry becomes a sibling of.
GetInsertInformation(node, entry, newBit) ==
  LET prefixBits == {b \in DiscriminativeBits(node) : b < newBit.bit}
      prefix     == node.keys[entry] \cap prefixBits
      affected   == {i \in DOMAIN node.keys : node.keys[i] \cap prefixBits = prefix}
  IN  [prefix |-> prefix, first |-> Min(affected),
       number |-> Cardinality(affected), key |-> newBit]

\* Bits that discriminate the entries first .. first + number - 1.
GetRelevantBitsForRange(node, first, number) ==
  UNION {node.keys[i] \ node.keys[i - 1] : i \in first + 1 .. first + number - 1}

\* Number of entries on the one side of the node's most significant bit.
NumberLargerEntries(node) ==
  Cardinality({i \in DOMAIN node.keys : MostSignificantBit(node) \in node.keys[i]})

-----------------------------------------------------------------------------
(* Building new nodes.                                                     *)

\* A node of two entries from a BiNode (discriminative bit, height, sides).
BiNode(bit, height, left, right) ==
  [bit |-> bit, height |-> height, left |-> left, right |-> right]

BiNodeFromExistingAndNew(heap, newBit, existing, new) ==
  IF newBit.value
  THEN BiNode(newBit.bit, GetHeight(heap, existing) + 1, existing, new)
  ELSE BiNode(newBit.bit, GetHeight(heap, existing) + 1, new, existing)

CreateTwoEntriesNode(binode) ==
  NodeContent(binode.height, << {}, {binode.bit} >>, << binode.left, binode.right >>)

\* Copy of the entries of the range with one more entry next to the affected
\* subtree; "relevant" are the discriminative bits the copy keeps.  The
\* existing affected entries receive the new bit when the new entry is on the
\* zero side.  The code forces the first partial key to zero.
CopyRangeAndAdd(node, first, number, relevant, info, new) ==
  LET afterAffected == info.first + info.number
      newIndex == IF info.key.value THEN afterAffected ELSE info.first
      isAffected(i) == i \in info.first .. afterAffected - 1
      oldKey(i) == (node.keys[i] \cap relevant)
                     \cup (IF isAffected(i) /\ ~info.key.value
                           THEN {info.key.bit} ELSE {})
      newKey == (info.prefix \cap relevant)
                     \cup (IF info.key.value THEN {info.key.bit} ELSE {})
      source(target) == first + target - 1
      key(target) == IF source(target) < newIndex THEN oldKey(source(target))
                     ELSE IF source(target) = newIndex THEN newKey
                     ELSE oldKey(source(target) - 1)
      ptr(target) == IF source(target) < newIndex THEN node.ptrs[source(target)]
                     ELSE IF source(target) = newIndex THEN new
                     ELSE node.ptrs[source(target) - 1]
  IN  NodeContent(node.height,
                  [t \in 1 .. number + 1 |-> IF t = 1 THEN {} ELSE key(t)],
                  [t \in 1 .. number + 1 |-> ptr(t)])

AddEntry(node, info, new) ==
  CopyRangeAndAdd(node, 1, Len(node.ptrs), DiscriminativeBits(node), info, new)

\* Copy of a range of entries, without the bits that are constant in it.
CopyRange(node, first, number) ==
  LET relevant == GetRelevantBitsForRange(node, first, number)
  IN  NodeContent(node.height,
                  [t \in 1 .. number |->
                     IF t = 1 THEN {} ELSE node.keys[first + t - 1] \cap relevant],
                  [t \in 1 .. number |-> node.ptrs[first + t - 1]])

-----------------------------------------------------------------------------
(* Operations that allocate.  The heap is the sequence of all nodes ever   *)
(* allocated; a node is addressed by its position.  A fresh node is        *)
(* unlocked, not obsolete and not scheduled for deletion.                  *)

NoThread == "no thread"

Allocate(heap, content) ==
  [heap |-> Append(heap, [height |-> content.height, keys |-> content.keys,
                          ptrs |-> content.ptrs, lock |-> NoThread,
                          obsolete |-> FALSE, scheduled |-> 0]),
   ptr  |-> NodePointer(Len(heap) + 1)]

\* A single entry is not wrapped into a node: its pointer moves up.
CompressEntries(heap, node, first, number) ==
  IF number > 1
  THEN Allocate(heap, CopyRange(node, first, number))
  ELSE [heap |-> heap, ptr |-> node.ptrs[first]]

CompressEntriesAndAddOneEntryIntoNewNode(heap, node, first, number, info, new) ==
  Allocate(heap,
    IF number # 1
    THEN CopyRangeAndAdd(node, first, number,
                         GetRelevantBitsForRange(node, first, number), info, new)
    ELSE CreateTwoEntriesNode(
           BiNodeFromExistingAndNew(heap, info.key, node.ptrs[first], new)))

\* Splits a full node at its most significant bit and adds the new entry to
\* the half that holds the affected subtree.
Split(heap, node, info, new) ==
  LET larger   == NumberLargerEntries(node)
      smaller  == Len(node.ptrs) - larger
      inLarger == info.first > smaller
      left == IF inLarger
              THEN CompressEntries(heap, node, 1, smaller)
              ELSE CompressEntriesAndAddOneEntryIntoNewNode(heap, node, 1, smaller, info, new)
      right(rest) == IF inLarger
                     THEN CompressEntriesAndAddOneEntryIntoNewNode(
                            rest, node, smaller + 1, larger, info, new)
                     ELSE CompressEntries(rest, node, smaller + 1, larger)
      halves(low, high) ==
        [heap   |-> high.heap,
         binode |-> BiNode(MostSignificantBit(node), node.height + 1, low.ptr, high.ptr)]
      leftThenRight(low) == halves(low, right(low.heap))
  IN  leftThenRight(left)

\* Overwrites one slot of a node of the heap.
SetSlot(heap, id, slot, pointer) == [heap EXCEPT ![id].ptrs[slot] = pointer]

=============================================================================
