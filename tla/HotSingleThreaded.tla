-------------------------- MODULE HotSingleThreaded --------------------------
(***************************************************************************)
(* The single-threaded height optimized trie (HOTSingleThreaded) behind    *)
(* one branch of the hybrid node, with keys without wildcards: insert,     *)
(* upsert and remove as one step each, find, the bounds and the iteration  *)
(* as what they read.  (HybridMatcher models the rules with wildcards.)    *)
(***************************************************************************)
EXTENDS PartialKeys

CONSTANTS Keys, Values, None,
          Calls,   \* the calls the client may make: [kind, key, value]
          Loads    \* what was inserted before the client starts: sequences of leaves

ASSUME KeysAssumption == Keys \subseteq AllKeys
ASSUME NoneAssumption == None \notin Values

VARIABLES root,     \* *mRoot
          heap,     \* the nodes that are allocated
          branch,   \* the branch of the hybrid node: absent, new (T_left or T_right is
                    \* 1 since the insert that created it) or used (the flag is 0)
          reply     \* history: the last call with its answer (see Dictionary)

vars == << root, heap, branch, reply >>

-----------------------------------------------------------------------------
(* The operations of the index.                                            *)

Trie == [root |-> root, heap |-> heap]

Contents ==
  [key \in Keys |->
     LET leaf == FindLeaf(heap, root, key)
     IN  IF IsLeaf(leaf) /\ leaf.key = key THEN leaf.value ELSE None]

Index == INSTANCE Dictionary WITH map <- Contents

\* insert.  In a branch that was just created the leaf becomes the root.  A root
\* that is empty although its branch is not new is "should never come here".
InsertValue(trie, isFresh, new) ==
  LET onPath(path) ==
        IF LeafEntry(path).ptr.key = new.key THEN [trie |-> trie, inserted |-> FALSE]
        ELSE [trie |-> InsertWithInsertStack(trie, path, new), inserted |-> TRUE]
  IN  IF isFresh THEN [trie |-> [trie EXCEPT !.root = new], inserted |-> TRUE]
      ELSE IF trie.root = EmptyPointer THEN [trie |-> trie, inserted |-> TRUE]
      ELSE onPath(PathTo(trie.heap, trie.root, new.key))

Store(trie) ==
  \E collected \in {Collected(trie)} : root' = collected.root /\ heap' = collected.heap

\* The wrapper sets the flag of the branch and calls insert.
Insert(key, value) ==
  /\ branch' = IF branch = "absent" THEN "new" ELSE "used"
  /\ \E result \in {InsertValue(Trie, branch' = "new", LeafPointer(key, value))} :
       /\ Store(result.trie)
       /\ reply' = Index!Answer("insert", key, result.inserted)

\* upsert.  It does not set the flag; on a root leaf of another key it runs
\* insert with the flag the last insert left.
Upsert(key, value) ==
  LET new == LeafPointer(key, value)
      leaf == FindLeaf(heap, root, key)
      present == IsLeaf(leaf) /\ leaf.key = key
  IN  /\ branch # "absent"
      /\ \E result \in {
              IF root = EmptyPointer THEN [Trie EXCEPT !.root = new]
              ELSE IF present
              THEN WriteSlot(Trie, LeafEntry(PathTo(heap, root, key)).loc, new)
              ELSE InsertValue(Trie, IsLeaf(root) /\ branch = "new", new).trie} : Store(result)
      /\ reply' = Index!Answer("upsert", key, IF present THEN leaf.value ELSE None)
      /\ UNCHANGED branch

\* remove.  A root leaf leaves the empty trie.
RemoveKey(key) ==
  LET leaf    == FindLeaf(heap, root, key)
      present == IsLeaf(leaf) /\ leaf.key = key
  IN  /\ branch # "absent"
      /\ \E result \in {
              IF ~present THEN Trie
              ELSE IF IsLeaf(root) THEN [Trie EXCEPT !.root = EmptyPointer]
              ELSE RemoveWithStack(Trie, PathTo(heap, root, key))} : Store(result)
      /\ reply' = Index!Answer("remove", key, present)
      /\ UNCHANGED branch

\* The client starts with a trie that the leaves were inserted into, in order.
InsertNext(trie, leaves, n) == Collected(InsertValue(trie, n = 1, leaves[n]).trie)

Init ==
  \E leaves \in Loads :
    /\ LET loaded[n \in 0 .. Len(leaves)] ==
             IF n = 0 THEN [root |-> EmptyPointer, heap |-> << >>]
             ELSE InsertNext(loaded[n - 1], leaves, n)
       IN  \E trie \in {loaded[Len(leaves)]} : root = trie.root /\ heap = trie.heap
    /\ branch = CASE Len(leaves) = 0 -> "absent" [] Len(leaves) = 1 -> "new" [] OTHER -> "used"
    /\ reply = None

Do(call) == \/ call.kind = "insert" /\ Insert(call.key, call.value)
            \/ call.kind = "upsert" /\ Upsert(call.key, call.value)
            \/ call.kind = "remove" /\ RemoveKey(call.key)

\* The client avoids two traps: it never removes the last key (an insert into the
\* emptied index stores nothing), and makes a second insert before its first upsert
\* (the flag of the first insert makes the upsert overwrite the root).
Careful(call) ==
  /\ call.kind = "upsert" => branch = "used"
  /\ call.kind = "remove" => ~(IsLeaf(root) /\ root.key = call.key)

Next == \E call \in Calls : Careful(call) /\ Do(call)
Spec == Init /\ [][Next]_vars

-----------------------------------------------------------------------------
(* Properties.                                                             *)

\* Every call of a careful client changes the map and returns its answer as the
\* comments of HOTSingleThreadedInterface promise, however the nodes were split,
\* merged and pulled down before.
ImplementsDictionary == Index!Spec

\* A call stores or removes its own key only: neither the splits of an insert nor
\* the merges of a remove lose, change or revive another key.
OtherKeysAreKept ==
  [][\A key \in Keys : Contents'[key] # Contents[key] => reply'.key = key]_vars

\* Every node that a call unlinks is freed once, and no node of the trie is freed
\* or linked twice.
MemoryIsBalanced ==
  /\ \A id \in DOMAIN heap : heap[id].scheduled = 0
  /\ Preorder(heap, root) = [i \in DOMAIN heap |-> i]

\* What isPartitionCorrect asserts of a node, and the trie condition the comment in
\* integrateBiNodeIntoTree relies on: the partial keys are those of a binary trie
\* in order (each one bit has a zero side before it), and a child discriminates
\* only behind all the bits of the path to it.
PartitionsAreCorrect ==
  \A id \in DOMAIN heap :
    LET node == heap[id]
        before(i, b) == {x \in node.keys[i] : x < b}
        pathBits(i) == {b \in DiscriminativeBits(node) :
                          \E j \in DOMAIN node.keys :
                            b \in node.keys[j] /\ before(i, b) = before(j, b)}
    IN  /\ Len(node.ptrs) \in 2 .. MaxEntries /\ Len(node.keys) = Len(node.ptrs)
        /\ node.keys[1] = {}
        /\ \A i \in 2 .. Len(node.keys) :
             /\ KeyLess(node.keys[i - 1], node.keys[i])
             /\ \A b \in node.keys[i] : \E j \in 1 .. i - 1 :
                  before(j, b + 1) = before(i, b)
        /\ \A i \in DOMAIN node.ptrs : IsAValidNode(node.ptrs[i]) =>
             \A b \in pathBits(i) : b < MostSignificantBit(heap[node.ptrs[i].id])

PresentKeys == {key \in Keys : Contents[key] # None}

\* The sequence visits exactly the keys of the set, in order.
Visits(sequence, keys) ==
  /\ {sequence[i] : i \in DOMAIN sequence} = keys
  /\ \A i \in 1 .. Len(sequence) - 1 : KeyLess(sequence[i], sequence[i + 1])

\* Whatever shape inserts and removes left: an iteration from begin, from the lower
\* and the upper bound of any key, and from a key that find meets visits exactly the
\* keys from there on, in key order, and then ends.  Of a trie that is one leaf this
\* is not true: there find and the bounds answer something else.
IterationIsOrdered ==
  IsAValidNode(root) =>
    /\ Visits(KeysFrom(Trie, Begin(Trie)), PresentKeys)
    /\ \A key \in Keys :
         LET greater == {k \in PresentKeys : KeyLess(key, k)}
             atLeast == greater \cup (PresentKeys \cap {key})
         IN  /\ Visits(KeysFrom(Trie, LowerOrUpperBound(Trie, key, TRUE)), atLeast)
             /\ Visits(KeysFrom(Trie, LowerOrUpperBound(Trie, key, FALSE)), greater)
             /\ Visits(KeysFrom(Trie, Find(Trie, key)),
                       IF key \in PresentKeys THEN atLeast ELSE {})

\* The next insert of an absent key, in the layout of the node it concerns.
InsertIsRecoded(key) ==
  LET path    == PathTo(heap, root, key)
      newBit  == GetMismatchingBit(LeafEntry(path).ptr.key, key)
      entry   == path[InsertDepth(heap, path, newBit)]
      node    == NodeOf(heap, entry)
      layout  == LayoutOf(node)
      info    == GetInsertInformation(node, entry.entry, newBit)
      recoded == InsertInformation(layout, entry.entry, newBit)
      new     == LeafPointer(key, None)
      smaller == Len(node.ptrs) - NumberLargerEntries(node)
      first   == IF info.first > smaller THEN smaller + 1 ELSE 1
      number  == IF info.first > smaller THEN Len(node.ptrs) - smaller ELSE smaller
  IN  /\ recoded = [info EXCEPT !.prefix = Pext(Word(@), layout.mask)]
      /\ LayoutOf(AddEntry(node, info, new)) = AddEntryToLayout(layout, recoded)
      /\ (newBit.bit > MostSignificantBit(node) /\ number # 1) =>
           LayoutOf(CopyRangeAndAdd(node, first, number,
                                    GetRelevantBitsForRange(node, first, number), info, new))
             = CompressRangeAndAdd(layout, first, number, recoded)

\* The next remove of a key, in the layouts of its node and of a neighbour.
RemoveIsRecoded(key) ==
  LET path    == PathTo(heap, root, key)
      entry   == path[Len(path) - 1]
      parent  == path[Len(path) - 2]
      node    == NodeOf(heap, entry)
      layout  == LayoutOf(node)
      info    == GetDeletionInformation(node, entry.entry)
      recoded == DeletionInformation(layout, entry.entry)
      above   == GetDeletionInformation(NodeOf(heap, parent), parent.entry)
      beside  == NodeOf(heap, parent).ptrs[DirectNeighbour(above)]
      newBit  == [bit |-> above.bit, value |-> ~above.isRight]
      left    == IF above.isRight THEN heap[beside.id] ELSE node
      right   == IF above.isRight THEN node ELSE heap[beside.id]
      contentOf(new) == new.heap[new.ptr.id]
  IN  /\ recoded.bit = info.bit /\ recoded.first = info.first /\ recoded.number = info.number
      /\ Len(node.ptrs) > 2 =>
           /\ LayoutOf(contentOf(RemoveEntry(heap, node, info))) = RemoveFromLayout(layout, recoded)
           /\ (Len(path) > 2 /\ HasDirectNeighbour(above)) =>
                /\ LayoutOf(contentOf(RemoveAndAddEntry(heap, node, info, newBit, beside)))
                     = RemoveAndAddToLayout(layout, recoded, newBit)
                /\ IsAValidNode(beside) =>
                     LayoutOf(contentOf(MergeNodesAndRemoveEntry(heap, above.bit, left, right,
                                                                 info, above.isRight)))
                       = MergeLayouts(LayoutOf(left), LayoutOf(right), above.bit, recoded, above.isRight)

\* What the trie does with partial keys as sets of key bits, the code does with
\* masks, pext and pdep on words in another byte order: in every node that inserts
\* and removes leave, searches (with a wildcard suffix too) find the same entry, and
\* the next insert, split, remove, pull-down or merge writes the layout that
\* represents its result.
LayoutsAreFaithful ==
  IsAValidNode(root) =>
    /\ \A id \in DOMAIN heap :
         LET node   == heap[id]
             layout == LayoutOf(node)
             larger == NumberLargerEntries(node)
             smaller == Len(node.ptrs) - larger
         IN  /\ Cardinality(GetMaskForLargerEntries(layout)) = larger
             /\ smaller > 1 => LayoutOf(CopyRange(node, 1, smaller)) = CompressRange(layout, 1, smaller)
             /\ larger > 1 => LayoutOf(CopyRange(node, smaller + 1, larger))
                               = CompressRange(layout, smaller + 1, larger)
             /\ \A key \in Keys, length \in 1 .. KeyBits :
                  LET mask == {b \in Bits : b >= length}
                  IN  SearchPartialKeysWithMask(layout, key, mask) = SearchWithMask(node, key, mask)
    /\ \A key \in Keys :
         IF key \in PresentKeys THEN RemoveIsRecoded(key) ELSE InsertIsRecoded(key)

=============================================================================
