------------------------------- MODULE HotTrie -------------------------------
(***************************************************************************)
(* The operations of the single-threaded height optimized trie: what       *)
(* insert, remove, find, the bounds and the iterator do to, and read from, *)
(* a trie.  A trie is a record of its root pointer and its heap.  Nodes    *)
(* are replaced by copies as in the concurrent trie, but the old node is   *)
(* freed at once: "scheduled" counts how often a node was freed.           *)
(***************************************************************************)
EXTENDS HotPath, SequencesExt

-----------------------------------------------------------------------------
(* Memory.                                                                 *)

WriteSlot(trie, location, pointer) ==
  [root |-> IF location = RootLocation THEN pointer ELSE trie.root,
   heap |-> HeapAfter(trie.heap, location, pointer)]

FreeNodes(trie, ids) ==
  [trie EXCEPT !.heap = [i \in DOMAIN @ |->
     IF i \in ids THEN [@[i] EXCEPT !.scheduled = @ + 1] ELSE @[i]]]

\* The slot receives the pointer of the new node of an allocation, and the nodes
\* it replaces are freed.
Replace(trie, location, new, ids) ==
  FreeNodes(WriteSlot([trie EXCEPT !.heap = new.heap], location, new.ptr), ids)

\* The nodes below the pointer, every node before its children.
Preorder(nodes, pointer) ==
  LET below[p \in {NodePointer(i) : i \in DOMAIN nodes}] ==
        << p.id >> \o FlattenSeq([i \in DOMAIN nodes[p.id].ptrs |->
                        IF IsAValidNode(nodes[p.id].ptrs[i])
                        THEN below[nodes[p.id].ptrs[i]] ELSE << >>])
  IN  IF IsAValidNode(pointer) THEN below[pointer] ELSE << >>

\* Addresses mean nothing: nodes are numbered in preorder.  A node that is not
\* linked any more disappears if it was freed exactly once; a leaked or doubly
\* freed one stays.
Renumbered(trie, order) ==
  LET target(p) == IF ~IsAValidNode(p) THEN p
                   ELSE IF \E i \in DOMAIN order : order[i] = p.id
                   THEN NodePointer(Min({i \in DOMAIN order : order[i] = p.id}))
                   ELSE NodePointer(0)
      moved(node) == [node EXCEPT !.ptrs = [i \in DOMAIN @ |-> target(@[i])]]
  IN  [root |-> target(trie.root),
       heap |-> [i \in DOMAIN order |-> moved(trie.heap[order[i]])]]

Collected(trie) ==
  LET linked == Preorder(trie.heap, trie.root)
      lost   == {i \in DOMAIN trie.heap : trie.heap[i].scheduled # 1
                                            /\ \A j \in DOMAIN linked : linked[j] # i}
  IN  Renumbered(trie, linked \o SetToSeq(lost))

-----------------------------------------------------------------------------
(* insert.                                                                 *)

\* Entries are compared outside the wildcards; with none of the node's bits left
\* the search finds the first entry.
SearchWithMask(node, key, mask) ==
  IF DiscriminativeBits(node) \subseteq mask THEN 1
  ELSE Max({i \in DOMAIN node.keys : node.keys[i] \ mask \subseteq key})

\* The BiNode takes the place of the node or leaf at the depth: it becomes a
\* node of its own if the parent is high enough, otherwise its sides become
\* entries of the parent, which is split if it is full.
IntegrateBiNodeIntoTree(trie, path, depth, binode) ==
  LET node(j) == NodeOf(trie.heap, path[j])
      fits(j) == node(j).height > GetHeight(trie.heap, path[j + 1].ptr) + 1
      top == Min({i \in 1 .. depth :
                    \A j \in i .. depth - 1 : ~fits(j) /\ IsFull(node(j))})
      splitParent(below, entry) == IntegrateAndSplit(below.heap, entry, below.binode)
      splitAt[i \in top .. depth] ==
        IF i = depth THEN [heap |-> trie.heap, binode |-> binode]
        ELSE splitParent(splitAt[i + 1], path[i])
      halved == {path[i].ptr.id : i \in top .. depth - 1}
      intoParent(new) ==
        Replace(trie, path[top - 1].loc, IntegrateIntoCopy(new.heap, path[top - 1], new.binode),
                halved \cup {path[top - 1].ptr.id})
      between(new) ==
        Replace(trie, path[top].loc, Allocate(new.heap, CreateTwoEntriesNode(new.binode)), halved)
  IN  IF top > 1 /\ ~fits(top - 1) THEN intoParent(splitAt[top]) ELSE between(splitAt[top])

\* The node at the depth receives the new entry, or is split if it is full; a
\* BiNode with the new value is put above a leaf, and above a full node that
\* discriminates only behind the new bit.
InsertNewValue(trie, path, depth, info, new) ==
  LET entry   == path[depth]
      isAbove == IsLeaf(entry.ptr) \/ info.key.bit < MostSignificantBit(NodeOf(trie.heap, entry))
      halves  == IF isAbove
                 THEN [heap   |-> trie.heap,
                       binode |-> BiNodeFromExistingAndNew(trie.heap, info.key, entry.ptr, new)]
                 ELSE Split(trie.heap, NodeOf(trie.heap, entry), info, new)
      integrate(split) ==
        IntegrateBiNodeIntoTree([trie EXCEPT !.heap = split.heap], path, depth, split.binode)
  IN  IF ~IsLeaf(entry.ptr) /\ ~IsFull(NodeOf(trie.heap, entry))
      THEN Replace(trie, entry.loc,
                   Allocate(trie.heap, AddEntry(NodeOf(trie.heap, entry), info, new)),
                   {entry.ptr.id})
      ELSE FreeNodes(integrate(halves), IF isAbove THEN {} ELSE {entry.ptr.id})

\* Several affected entries get the new value beside them.  A single one is passed
\* on to: a leaf, or a child node all of whose entries are affected.
InsertNewValueIntoNode(trie, path, newBit, new) ==
  LET allEntries(depth) ==
        [prefix |-> {}, first |-> 1, key |-> newBit,
         number |-> GetNumberEntries(trie.heap, path[depth].ptr)]
      target(depth, info) ==
        IF info.number # 1 THEN [depth |-> depth, info |-> info]
        ELSE [depth |-> depth + 1, info |-> allEntries(depth + 1)]
      At(depth) ==
        target(depth, GetInsertInformation(NodeOf(trie.heap, path[depth]), path[depth].entry, newBit))
      insertAt(at) == InsertNewValue(trie, path, at.depth, at.info, new)
  IN  insertAt(At(InsertDepth(trie.heap, path, newBit)))

\* The trie after new was inserted beside the leaf the path leads to.  With a
\* leaf as the root, a node of two entries becomes the root.
InsertWithInsertStack(trie, path, new) ==
  LET newBit == GetMismatchingBit(LeafEntry(path).ptr.key, new.key)
  IN  IF IsLeaf(trie.root)
      THEN Replace(trie, RootLocation, Allocate(trie.heap, CreateTwoEntriesNode(
             BiNodeFromExistingAndNew(trie.heap, newBit, trie.root, new))), {})
      ELSE InsertNewValueIntoNode(trie, path, newBit, new)

-----------------------------------------------------------------------------
(* remove: node operations.                                                *)

\* Whether an entry is the right side of the BiNode that holds it.
DetermineValueOfDiscriminatingBit(node, index) ==
  /\ index # 1
  /\ \/ index = Len(node.keys)
     \/ (node.keys[index] \cap node.keys[index + 1])
          \subseteq (node.keys[index - 1] \cap node.keys[index])

GetRelevantBitsForAllExceptOneEntry(node, index) ==
  LET firstRange == IF DetermineValueOfDiscriminatingBit(node, index) THEN index - 1 ELSE index
  IN  GetRelevantBitsForRange(node, 1, firstRange)
        \cup GetRelevantBitsForRange(node, firstRange + 1, Len(node.keys) - firstRange)

\* What is known of an entry that is to be removed: the bits the other entries
\* still need, and the BiNode it is a side of (its bit, the range of its
\* entries, the side).  There is a direct neighbour if both sides are single
\* entries.
GetDeletionInformation(node, index) ==
  LET isRight    == DetermineValueOfDiscriminatingBit(node, index)
      lastLeft   == node.keys[IF isRight THEN index - 1 ELSE index]
      firstRight == node.keys[IF isRight THEN index ELSE index + 1]
      prefix     == lastLeft \cap firstRight
      bit        == Max(firstRight \ prefix)
      affected   == {i \in DOMAIN node.keys : {b \in node.keys[i] : b < bit} = prefix}
  IN  [index |-> index, isRight |-> isRight, bit |-> bit,
       first |-> Min(affected), number |-> Cardinality(affected),
       relevant |-> GetRelevantBitsForAllExceptOneEntry(node, index)]

HasDirectNeighbour(info) == info.number = 2
DirectNeighbour(info) == IF info.isRight THEN info.index - 1 ELSE info.index + 1

\* Mutant: the bit of the BiNode stays in the keys of its remaining entries.
RemainingKeysKeepingBit(node, info) ==
  [t \in 1 .. Len(node.keys) - 1 |->
     node.keys[IF t < info.index THEN t ELSE t + 1] \cap info.relevant]

\* The partial keys and pointers of the other entries.  The bit of the BiNode
\* that disappears is cleared in its range.
RemainingKeys(node, info) ==
  LET unused(t) == IF t \in info.first .. info.first + info.number - 2 THEN {info.bit} ELSE {}
  IN  [t \in 1 .. Len(node.keys) - 1 |->
         (node.keys[IF t < info.index THEN t ELSE t + 1] \cap info.relevant) \ unused(t)]

RemainingPointers(node, info) == RemoveAt(node.ptrs, info.index)

\* Sides of a node with one bit on top; the first partial key is always zero.
BesideEachOther(height, bit, leftKeys, leftPointers, rightKeys, rightPointers) ==
  LET keys == leftKeys \o [i \in DOMAIN rightKeys |-> rightKeys[i] \cup {bit}]
  IN  NodeContent(height, [keys EXCEPT ![1] = {}], leftPointers \o rightPointers)

\* A node of two entries leaves the other entry.
RemoveEntry(nodes, node, info) ==
  IF Len(node.ptrs) > 2
  THEN Allocate(nodes, NodeContent(node.height, [RemainingKeys(node, info) EXCEPT ![1] = {}],
                                   RemainingPointers(node, info)))
  ELSE [heap |-> nodes, ptr |-> RemainingPointers(node, info)[1]]

\* The entry goes and the neighbour of the node in its parent comes in.
RemoveAndAddEntry(nodes, node, info, newBit, new) ==
  LET keys == RemainingKeys(node, info)
      ptrs == RemainingPointers(node, info)
  IN  Allocate(nodes,
        IF Len(node.ptrs) = 2
        THEN CreateTwoEntriesNode(BiNodeFromExistingAndNew(nodes, newBit, ptrs[1], new))
        ELSE IF newBit.value
        THEN BesideEachOther(node.height, newBit.bit, keys, ptrs, << {} >>, << new >>)
        ELSE BesideEachOther(node.height, newBit.bit, << {} >>, << new >>, keys, ptrs))

\* Two neighbours become one node without the entry.  From a node of two entries
\* only one is left, which is added to the neighbour.
MergeNodesAndRemoveEntry(nodes, bit, left, right, info, inRight) ==
  LET deletionSide == IF inRight THEN right ELSE left
      otherSide    == IF inRight THEN left ELSE right
      newBit       == [bit |-> bit, value |-> inRight]
      keys == RemainingKeys(deletionSide, info)
      ptrs == RemainingPointers(deletionSide, info)
  IN  Allocate(nodes,
        IF Len(deletionSide.ptrs) = 2
        THEN AddEntry(otherSide,
               GetInsertInformation(otherSide, IF inRight THEN Len(otherSide.ptrs) ELSE 1, newBit),
               ptrs[1])
        ELSE IF inRight
        THEN BesideEachOther(left.height, bit, left.keys, left.ptrs, keys, ptrs)
        ELSE BesideEachOther(left.height, bit, keys, ptrs, right.keys, right.ptrs))

-----------------------------------------------------------------------------
(* remove: along the path.                                                 *)

\* The replacement of the remaining side of a BiNode, due in the copy of the
\* node that held it.
NoReplacement == [slot |-> 0, ptr |-> EmptyPointer]

\* Mutant: the entries of the left neighbour in front of it are not counted.
WithReplacementAtOldSlot(new, op, offset) ==
  IF op = NoReplacement THEN new
  ELSE [new EXCEPT !.heap = SetSlot(@, new.ptr.id, op.slot, op.ptr)]

\* The offset counts the entries the new node has in front of the node's own.
WithReplacement(new, op, offset) ==
  IF op = NoReplacement THEN new
  ELSE [new EXCEPT !.heap = SetSlot(@, new.ptr.id, offset + op.slot, op.ptr)]

Removal(trie, op, done) == [trie |-> trie, op |-> op, done |-> done]

\* The entry is removed from a copy of the node, and nothing else changes.
RemoveEntryAt(state, entry) ==
  LET node == NodeOf(state.trie.heap, entry)
      info == GetDeletionInformation(node, entry.entry)
  IN  Removal(Replace(state.trie, entry.loc,
                      WithReplacement(RemoveEntry(state.trie.heap, node, info), state.op, 0),
                      {entry.ptr.id}),
              NoReplacement, TRUE)

\* Mutant: the parent that goes away is not freed.
RemoveRecurseUpKeepingParent(trie, parent, parentInfo, new, freed) ==
  IF GetNumberEntries(trie.heap, parent.ptr) = 2
  THEN Removal(Replace(trie, parent.loc, new, freed), NoReplacement, TRUE)
  ELSE Removal(FreeNodes([trie EXCEPT !.heap = new.heap], freed),
               [slot |-> IF parentInfo.isRight THEN parentInfo.index - 1 ELSE parentInfo.index,
                ptr  |-> new.ptr],
               FALSE)

\* The new node replaces the node and its neighbour in the parent: a parent of
\* two entries goes away, from another one the entry is removed in turn.
RemoveRecurseUp(trie, parent, parentInfo, new, freed) ==
  IF GetNumberEntries(trie.heap, parent.ptr) = 2
  THEN Removal(Replace(trie, parent.loc, new, freed \cup {parent.ptr.id}), NoReplacement, TRUE)
  ELSE Removal(FreeNodes([trie EXCEPT !.heap = new.heap], freed),
               [slot |-> IF parentInfo.isRight THEN parentInfo.index - 1 ELSE parentInfo.index,
                ptr  |-> new.ptr],
               FALSE)

MergeAt(state, parent, entry, parentInfo) ==
  LET nodes     == state.trie.heap
      neighbour == NodeOf(nodes, parent).ptrs[DirectNeighbour(parentInfo)]
      left  == IF parentInfo.isRight THEN neighbour ELSE entry.ptr
      right == IF parentInfo.isRight THEN entry.ptr ELSE neighbour
      info  == GetDeletionInformation(NodeOf(nodes, entry), entry.entry)
      merged == MergeNodesAndRemoveEntry(nodes, parentInfo.bit, nodes[left.id], nodes[right.id],
                                         info, parentInfo.isRight)
      offset == IF parentInfo.isRight THEN GetNumberEntries(nodes, left) ELSE 0
  IN  RemoveRecurseUp(state.trie, parent, parentInfo, WithReplacement(merged, state.op, offset),
                      {left.id, right.id})

PullDownAt(state, parent, entry, parentInfo) ==
  LET nodes == state.trie.heap
      node  == NodeOf(nodes, entry)
      added == RemoveAndAddEntry(nodes, node, GetDeletionInformation(node, entry.entry),
                 [bit |-> parentInfo.bit, value |-> ~parentInfo.isRight],
                 NodeOf(nodes, parent).ptrs[DirectNeighbour(parentInfo)])
  IN  RemoveRecurseUp(state.trie, parent, parentInfo,
                      WithReplacement(added, state.op, IF parentInfo.isRight THEN 1 ELSE 0),
                      {entry.ptr.id})

\* The node is merged with a direct neighbour of its height if they fit into one
\* node, or takes in a lower neighbour; otherwise only the entry is removed.
RemoveBeside(state, parent, entry, parentInfo) ==
  LET nodes      == state.trie.heap
      neighbour  == NodeOf(nodes, parent).ptrs[DirectNeighbour(parentInfo)]
      height     == GetHeight(nodes, entry.ptr)
      together   == GetNumberEntries(nodes, neighbour) + GetNumberEntries(nodes, entry.ptr) - 1
      merges     == GetHeight(nodes, neighbour) = height /\ together <= MaxEntries
      pullsDown  == GetHeight(nodes, neighbour) < height
  IN  IF HasDirectNeighbour(parentInfo) /\ merges THEN MergeAt(state, parent, entry, parentInfo)
      ELSE IF HasDirectNeighbour(parentInfo) /\ pullsDown
      THEN PullDownAt(state, parent, entry, parentInfo)
      ELSE RemoveEntryAt(state, entry)

\* The removal starts at the node above the leaf and goes up.
RemoveWithStack(trie, path) ==
  LET depth == Len(path) - 1
      removeAt(d, state) ==
        IF state.done THEN state
        ELSE IF d = 1 THEN RemoveEntryAt(state, path[d])
        ELSE RemoveBeside(state, path[d - 1], path[d],
                          GetDeletionInformation(NodeOf(state.trie.heap, path[d - 1]),
                                                 path[d - 1].entry))
      after[d \in 1 .. depth + 1] ==
        IF d = depth + 1 THEN Removal(trie, NoReplacement, FALSE) ELSE removeAt(d, after[d + 1])
  IN  after[1].trie

-----------------------------------------------------------------------------
(* find, the bounds and the iterator.  An iterator is its stack of slots,  *)
(* the bottom one the root pointer; at the end it is empty.                *)

End == << >>
LastSlot(trie, location) == IF location = RootLocation THEN 0 ELSE Len(trie.heap[location.id].ptrs)
PointerAt(trie, location) ==
  IF location = RootLocation THEN trie.root ELSE trie.heap[location.id].ptrs[location.slot]

\* Down to the first leaf below the current slot.
Descend(trie, iterator) ==
  LET down[n \in Nat] ==
        IF n = 0 THEN iterator
        ELSE LET above   == down[n - 1]
                 current == PointerAt(trie, Last(above))
             IN  IF IsAValidNode(current) THEN Append(above, SlotLocation(current.id, 1)) ELSE above
  IN  down[Len(trie.heap)]

\* Mutant: one exhausted level is left, not all of them.
IncrementLeavingOneLevel(trie, iterator) ==
  LET last == Last(iterator)
  IN  IF last.slot < LastSlot(trie, last)
      THEN Descend(trie, [iterator EXCEPT ![Len(iterator)].slot = @ + 1])
      ELSE IF Len(iterator) < 2 \/ iterator[Len(iterator) - 1].slot
                                     >= LastSlot(trie, iterator[Len(iterator) - 1])
      THEN End
      ELSE Descend(trie, [Front(iterator) EXCEPT ![Len(iterator) - 1].slot = @ + 1])

\* The next slot; exhausted levels are left.
Increment(trie, iterator) ==
  LET open == {d \in DOMAIN iterator : iterator[d].slot < LastSlot(trie, iterator[d])}
  IN  IF open = {} THEN End
      ELSE Descend(trie, [SubSeq(iterator, 1, Max(open)) EXCEPT ![Max(open)].slot = @ + 1])

Begin(trie) == IF trie.root = EmptyPointer THEN End ELSE Descend(trie, << RootLocation >>)

IteratorOf(path) == [d \in DOMAIN path |-> path[d].loc]

Find(trie, key) ==
  LET found(path) == IF LeafEntry(path).ptr.key = key THEN IteratorOf(path) ELSE End
  IN  IF IsAValidNode(trie.root) THEN found(PathTo(trie.heap, trie.root, key)) ELSE End

\* The position next to where the key would be inserted.
BoundOfAbsentKey(trie, path, newBit) ==
  LET depth == Max({d \in 1 .. Len(path) - 1 :
                      d = 1 \/ newBit.bit >= MostSignificantBit(NodeOf(trie.heap, path[d]))})
      node  == NodeOf(trie.heap, path[depth])
      info  == GetInsertInformation(node, path[depth].entry, newBit)
      next  == IF newBit.value THEN info.first + info.number ELSE info.first
      moved == Append(SubSeq(IteratorOf(path), 1, depth), SlotLocation(path[depth].ptr.id, next))
  IN  IF next > Len(node.ptrs) THEN Increment(trie, moved) ELSE Descend(trie, moved)

LowerOrUpperBound(trie, key, isLowerBound) ==
  LET bound(path) ==
        IF LeafEntry(path).ptr.key # key
        THEN BoundOfAbsentKey(trie, path, GetMismatchingBit(LeafEntry(path).ptr.key, key))
        ELSE IF isLowerBound THEN IteratorOf(path) ELSE Increment(trie, IteratorOf(path))
  IN  IF trie.root = EmptyPointer THEN End
      ELSE IF IsLeaf(trie.root)
      THEN IF trie.root.key = key \/ KeyLess(trie.root.key, key) THEN << RootLocation >> ELSE End
      ELSE bound(PathTo(trie.heap, trie.root, key))

\* The keys an iteration visits.
KeysFrom(trie, start) ==
  LET visit(state) ==
        IF state.it = End THEN state
        ELSE [it   |-> Increment(trie, state.it),
              seen |-> Append(state.seen, PointerAt(trie, Last(state.it)).key)]
      after[n \in Nat] == IF n = 0 THEN [it |-> start, seen |-> << >>] ELSE visit(after[n - 1])
  IN  after[Len(trie.heap) * MaxEntries + 1].seen

=============================================================================
