------------------------------- MODULE HotPath -------------------------------
(***************************************************************************)
(* Paths through a height optimized trie: what a search puts on its stack, *)
(* at which depth of it a new entry belongs, and how the halves of a node  *)
(* that was split are worked into its parent.  Shared by the concurrent    *)
(* trie (HotRowex) and the single-threaded one (HotSingleThreaded).        *)
(***************************************************************************)
EXTENDS HotNode

-----------------------------------------------------------------------------
(* Locations of child pointers: the root pointer or a slot of a node.      *)

RootLocation == [id |-> 0, slot |-> 0]
SlotLocation(id, slot) == [id |-> id, slot |-> slot]

\* The nodes after the pointer at the location was written.
HeapAfter(nodes, location, pointer) ==
  IF location = RootLocation THEN nodes
  ELSE SetSlot(nodes, location.id, location.slot, pointer)

\* One entry of the insert stack; entry is the index found in the node.
StackEntry(location, pointer, entry) ==
  [loc |-> location, ptr |-> pointer, entry |-> entry]

NodeOf(nodes, stackEntry) == nodes[stackEntry.ptr.id]
LeafEntry(path) == path[Len(path)]

\* The path from the start pointer to a leaf, by the entry found in each node.  It goes
\* down through at most as many nodes as there are.
PathBy(nodes, start, found) ==
  LET entry(loc, p) ==
        StackEntry(loc, p, IF IsAValidNode(p) THEN found[p.id] ELSE 0)
      path[n \in 0 .. Len(nodes)] ==
        IF n = 0 THEN << entry(RootLocation, start) >>
        ELSE LET above == path[n - 1]
                 last  == above[Len(above)]
             IN  IF ~IsAValidNode(last.ptr) THEN above
                 ELSE Append(above, entry(SlotLocation(last.ptr.id, last.entry),
                                          NodeOf(nodes, last).ptrs[last.entry]))
  IN  path[Len(nodes)]

\* The path to the leaf the key leads to.
PathTo(nodes, start, key) ==
  PathBy(nodes, start, [id \in DOMAIN nodes |-> Search(nodes[id], key)])

\* The leaf at the end of that path.
FindLeaf(nodes, start, key) ==
  LET leafBelow[id \in DOMAIN nodes] ==
        LET child == nodes[id].ptrs[Search(nodes[id], key)]
        IN  IF IsAValidNode(child) THEN leafBelow[child.id] ELSE child
  IN  IF IsAValidNode(start) THEN leafBelow[start.id] ELSE start

-----------------------------------------------------------------------------
(* Inserts and splits along a path.                                        *)

\* The deepest node of the path that the new bit can belong to: the next one
\* is a leaf or discriminates at a later bit only.
InsertDepth(nodes, path, newBit) ==
  LET leaf == Len(path)
  IN  Min({j \in 2 .. leaf :
             j = leaf \/ newBit.bit <= MostSignificantBit(NodeOf(nodes, path[j]))}) - 1

\* Mutant: counts the entries of the left half without asking whether it is a
\* copy or a child that was pulled up.
NumberEntriesInLowerPartByCount(new, node) == GetNumberEntries(new.heap, new.binode.left)

\* The number of entries of the split node that went to the left half: a single
\* entry was not copied into a node, its pointer moved up.
NumberEntriesInLowerPart(new, node) ==
  IF GetHeight(new.heap, new.binode.left) = node.height
  THEN GetNumberEntries(new.heap, new.binode.left) ELSE 1

\* In the half that holds it, the slot of the split child receives the child's
\* left half.
ReplaceSplitChild(new, lower, slot, pointer) ==
  [new EXCEPT !.heap =
     IF lower < slot THEN SetSlot(@, new.binode.right.id, slot - lower, pointer)
     ELSE SetSlot(@, new.binode.left.id, slot, pointer)]

\* A copy of a parent that has room, in which the halves replace the child.
IntegrateIntoCopy(nodes, entry, binode) ==
  LET node == NodeOf(nodes, entry)
      info == GetInsertInformation(node, entry.entry, [bit |-> binode.bit, value |-> TRUE])
      copy == Allocate(nodes, AddEntry(node, info, binode.right))
  IN  [copy EXCEPT !.heap = SetSlot(@, copy.ptr.id, entry.entry, binode.left)]

\* The halves of a split child replace the child in its full parent, which is
\* split in turn.
IntegrateAndSplit(nodes, entry, binode) ==
  LET node == NodeOf(nodes, entry)
      info == GetInsertInformation(node, entry.entry, [bit |-> binode.bit, value |-> TRUE])
      replaceIn(new) == ReplaceSplitChild(new, NumberEntriesInLowerPart(new, node),
                                          entry.entry, binode.left)
  IN  replaceIn(Split(nodes, node, info, binode.right))

=============================================================================
