---------------------------- MODULE HotRowexProofs ----------------------------
(***************************************************************************)
(* Proofs about the concurrent trie HotRowex for every number of threads,  *)
(* every workload and every height of the trie.                            *)
(*                                                                         *)
(* The first part is the protocol of the locks: what a writer has locked   *)
(* covers the slot it writes and the nodes it retires, whatever the nodes  *)
(* hold.  The second part is the shape of the trie: every node that was    *)
(* ever allocated represents the keys it was built from, what a thread     *)
(* remembers of its descent is still true of the nodes it has locked, and  *)
(* so the nodes it builds fit where they are published.  The third part    *)
(* is the trie that one thread alone builds, where the system starts.      *)
(* Together they give the inductive invariant IInv, from which the         *)
(* theorems at the end follow.                                             *)
(***************************************************************************)
EXTENDS HotNodeProofs, FiniteSetTheorems

-----------------------------------------------------------------------------
(* What building copies does to the nodes that are there                   *)

\* Of a node only child pointers may differ.
SameNode(m, n) ==
  /\ n.height = m.height /\ n.keys = m.keys /\ DOMAIN n.ptrs = DOMAIN m.ptrs
  /\ n.lock = m.lock /\ n.obsolete = m.obsolete /\ n.scheduled = m.scheduled

\* The heap g has the nodes of h, with nothing changed but child pointers, and
\* maybe new ones.
Grown(h, g) ==
  /\ \E S : g \in Seq(S)
  /\ DOMAIN h \subseteq DOMAIN g
  /\ \A i \in DOMAIN g : DOMAIN g[i] = NodeFields
  /\ \A i \in DOMAIN h : SameNode(h[i], g[i])

\* The heap with nothing done to it.
LEMMA GrownFromItself ==
  ASSUME heap \in Seq(NodeRecords)
  PROVE  Grown(heap, heap)
<1>1. \A i \in DOMAIN heap : heap[i] \in NodeRecords
  OBVIOUS
<1>2. \A i \in DOMAIN heap : DOMAIN heap[i] = NodeFields
  BY <1>1 DEF NodeRecords, NodeFields
<1> QED BY <1>2 DEF Grown, SameNode

\* A new node is added behind the others.
LEMMA GrownAllocate ==
  ASSUME NEW h, NEW g, Grown(h, g), NEW content, NEW a, a = Allocate(g, content)
  PROVE  Grown(h, a.heap)
<1> DEFINE new == [height |-> content.height, keys |-> content.keys, ptrs |-> content.ptrs,
                   lock |-> NoThread, obsolete |-> FALSE, scheduled |-> 0]
           u == Append(g, new)
<1>1. a.heap = u
  BY DEF Allocate
<1>2. PICK S : g \in Seq(S)
  BY DEF Grown
<1>3. DOMAIN new = NodeFields
  BY DEF NodeFields
<1> HIDE DEF new
<1>4. g \in Seq(S \cup {new})
  BY <1>2
<1>5. /\ u \in Seq(S \cup {new}) /\ DOMAIN u = 1 .. Len(g) + 1
      /\ \A i \in 1 .. Len(g) : u[i] = g[i]
      /\ u[Len(g) + 1] = new
  BY <1>4, AppendProperties
<1>6. DOMAIN g = 1 .. Len(g) /\ Len(g) \in Nat
  BY <1>2
<1> HIDE DEF u
<1>7. DOMAIN g \subseteq DOMAIN u /\ \A i \in DOMAIN u : i \in DOMAIN g \/ i = Len(g) + 1
  BY <1>5, <1>6
<1>8. \A i \in DOMAIN u : DOMAIN u[i] = NodeFields
  BY <1>3, <1>5, <1>6, <1>7 DEF Grown
<1>9. \A i \in DOMAIN h : i \in DOMAIN g /\ u[i] = g[i]
  BY <1>5, <1>6 DEF Grown
<1>10. \A i \in DOMAIN h : SameNode(h[i], u[i])
  BY <1>9 DEF Grown
<1>11. \E T : u \in Seq(T)
  BY <1>5
<1>12. DOMAIN h \subseteq DOMAIN u
  BY <1>7, <1>9
<1> QED BY <1>1, <1>8, <1>10, <1>11, <1>12 DEF Grown

\* Writing a slot changes a child pointer only.
LEMMA GrownSetSlot ==
  ASSUME NEW h, NEW g, Grown(h, g), NEW id, NEW slot, NEW p
  PROVE  Grown(h, SetSlot(g, id, slot, p))
<1> DEFINE n == [g[id] EXCEPT !.ptrs[slot] = p]
           u == [g EXCEPT ![id] = n]
<1>1. SetSlot(g, id, slot, p) = u
  BY DEF SetSlot
<1>2. PICK S : g \in Seq(S)
  BY DEF Grown
<1>3. CASE id \notin DOMAIN g
  <2>1. u = g
    BY <1>2, <1>3
  <2> QED BY <1>1, <2>1
<1>4. CASE id \in DOMAIN g
  <2>1. DOMAIN g[id] = NodeFields
    BY <1>4 DEF Grown
  <2>2. DOMAIN n = NodeFields /\ SameNode(g[id], n)
    BY <2>1 DEF NodeFields, SameNode
  <2> HIDE DEF n
  <2>3. u \in Seq(S \cup {n}) /\ DOMAIN u = DOMAIN g /\ u[id] = n
        /\ \A i \in DOMAIN g : i # id => u[i] = g[i]
    BY <1>2, <1>4
  <2> HIDE DEF u
  <2>4. \A i \in DOMAIN u : DOMAIN u[i] = NodeFields
    BY <2>2, <2>3 DEF Grown
  <2>5. \A i \in DOMAIN h : i \in DOMAIN g /\ SameNode(h[i], g[i])
    BY DEF Grown
  <2>6. ASSUME NEW i \in DOMAIN h PROVE SameNode(h[i], u[i])
    <3>1. CASE i = id
      BY <2>2, <2>3, <2>5, <3>1 DEF SameNode
    <3>2. CASE i # id
      BY <2>3, <2>5, <3>2
    <3> QED BY <3>1, <3>2
  <2>7. (\E T : u \in Seq(T)) /\ DOMAIN h \subseteq DOMAIN u
    BY <2>3, <2>5
  <2> QED BY <1>1, <2>4, <2>6, <2>7 DEF Grown
<1> QED BY <1>3, <1>4

\* compressEntries builds a new node, or none for a single entry.
LEMMA GrownCompress ==
  ASSUME NEW h, NEW g, Grown(h, g), NEW node, NEW first, NEW number
  PROVE  Grown(h, CompressEntries(g, node, first, number).heap)
<1>1. CASE number > 1
  BY <1>1, GrownAllocate DEF CompressEntries
<1>2. CASE ~(number > 1)
  BY <1>2 DEF CompressEntries
<1> QED BY <1>1, <1>2

\* compressEntriesAndAddOneEntryIntoNewNode builds new nodes only.
LEMMA GrownCompressAndAdd ==
  ASSUME NEW h, NEW g, Grown(h, g), NEW node, NEW first, NEW number, NEW info, NEW new
  PROVE  Grown(h, CompressEntriesAndAddOneEntryIntoNewNode(g, node, first, number, info, new).heap)
BY GrownAllocate DEF CompressEntriesAndAddOneEntryIntoNewNode

\* A split node stays as it is; its halves are one level below their parent.
LEMMA GrownSplit ==
  ASSUME NEW h, NEW g, Grown(h, g), NEW node, NEW info, NEW new, NEW r, r = Split(g, node, info, new)
  PROVE  Grown(h, r.heap) /\ r.binode.height = node.height + 1
<1> DEFINE larger == NumberLargerEntries(node)
           smaller == Len(node.ptrs) - larger
<1>1. CASE info.first > smaller
  <2> DEFINE low == CompressEntries(g, node, 1, smaller)
             high == CompressEntriesAndAddOneEntryIntoNewNode(
                       low.heap, node, smaller + 1, larger, info, new)
  <2>1. r = [heap |-> high.heap,
             binode |-> BiNode(MostSignificantBit(node), node.height + 1, low.ptr, high.ptr)]
    BY <1>1, Zenon DEF Split
  <2>2. Grown(h, low.heap)
    BY GrownCompress
  <2> HIDE DEF low
  <2>3. Grown(h, high.heap)
    BY <2>2, GrownCompressAndAdd
  <2> HIDE DEF high
  <2> QED BY <2>1, <2>3 DEF BiNode
<1>2. CASE ~(info.first > smaller)
  <2> DEFINE low == CompressEntriesAndAddOneEntryIntoNewNode(g, node, 1, smaller, info, new)
             high == CompressEntries(low.heap, node, smaller + 1, larger)
  <2>1. r = [heap |-> high.heap,
             binode |-> BiNode(MostSignificantBit(node), node.height + 1, low.ptr, high.ptr)]
    BY <1>2, Zenon DEF Split
  <2>2. Grown(h, low.heap)
    BY GrownCompressAndAdd
  <2> HIDE DEF low
  <2>3. Grown(h, high.heap)
    BY <2>2, GrownCompress
  <2> HIDE DEF high
  <2> QED BY <2>1, <2>3 DEF BiNode
<1> QED BY <1>1, <1>2

\* Splitting a node leaves it as it is, and its halves are joined one level above it.
LEMMA GrownIntegrateAndSplit ==
  ASSUME NEW h, NEW g, Grown(h, g), NEW entry, NEW binode,
         NEW r, r = IntegrateAndSplit(g, entry, binode)
  PROVE  Grown(h, r.heap) /\ r.binode.height = NodeOf(g, entry).height + 1
<1> DEFINE node == NodeOf(g, entry)
           info == GetInsertInformation(node, entry.entry, [bit |-> binode.bit, value |-> TRUE])
           halves == Split(g, node, info, binode.right)
           lower == NumberEntriesInLowerPart(halves, node)
<1>1. r = ReplaceSplitChild(halves, lower, entry.entry, binode.left)
  BY DEF IntegrateAndSplit
<1>2. Grown(h, halves.heap) /\ halves.binode.height = node.height + 1
  BY GrownSplit
<1>3. "heap" \in DOMAIN halves /\ "binode" \in DOMAIN halves
  BY DEF Split
<1> HIDE DEF halves, lower
<1>4. /\ r.binode = halves.binode
      /\ \E id, slot : r.heap = SetSlot(halves.heap, id, slot, binode.left)
  BY <1>1, <1>3 DEF ReplaceSplitChild
<1> QED BY <1>2, <1>4, GrownSetSlot

\* Copying a parent with the halves below it leaves the parent as it is.
LEMMA GrownIntegrateIntoCopy ==
  ASSUME NEW h, NEW g, Grown(h, g), NEW entry, NEW binode
  PROVE  Grown(h, IntegrateIntoCopy(g, entry, binode).heap)
<1> DEFINE node == NodeOf(g, entry)
           info == GetInsertInformation(node, entry.entry, [bit |-> binode.bit, value |-> TRUE])
           copy == Allocate(g, AddEntry(node, info, binode.right))
<1>1. IntegrateIntoCopy(g, entry, binode)
        = [copy EXCEPT !.heap = SetSlot(copy.heap, copy.ptr.id, entry.entry, binode.left)]
  BY DEF IntegrateIntoCopy
<1>2. Grown(h, copy.heap)
  BY GrownAllocate
<1>3. "heap" \in DOMAIN copy
  BY DEF Allocate
<1> HIDE DEF copy
<1> QED BY <1>1, <1>2, <1>3, GrownSetSlot

-----------------------------------------------------------------------------
(* The levels of a path                                                    *)

\* What the insert stack of a writer looks like when its last entry was read: every
\* entry but the last leads to a node, and the slot it was read from is the one that
\* the search found in the node above.
PathOn(h, path) ==
  /\ \E S : path \in Seq(S)
  /\ Len(path) >= 2
  /\ path[1].loc = RootLocation
  /\ \A j \in 1 .. Len(path) - 1 :
       /\ IsAValidNode(path[j].ptr) /\ path[j].ptr.id \in DOMAIN h
       /\ path[j + 1].loc = SlotLocation(path[j].ptr.id, path[j].entry)

\* The insert depth is a level above the leaf.
LEMMA InsertDepthIs ==
  ASSUME NEW h, NEW path, PathOn(h, path), NEW newBit
  PROVE  InsertDepth(h, path, newBit) \in 1 .. Len(path) - 1
<1> DEFINE leaf == Len(path)
           levels == { j \in 2 .. leaf :
                         j = leaf \/ newBit.bit <= MostSignificantBit(NodeOf(h, path[j])) }
<1>1. leaf \in Nat /\ leaf >= 2
  BY DEF PathOn
<1>2. InsertDepth(h, path, newBit) = Min(levels) - 1
  BY DEF InsertDepth
<1>3. levels \subseteq 2 .. leaf /\ leaf \in levels
  BY <1>1
<1> HIDE DEF levels
<1>4. levels \subseteq Nat /\ levels # {}
  BY <1>3
<1>5. Min(levels) \in 2 .. leaf
  BY <1>3, <1>4, MinIsLeast
<1> QED BY <1>1, <1>2, <1>5

\* The new entry goes to a node of the path, not to its leaf.
LEMMA InsertLevelIs ==
  ASSUME NEW h, NEW path, PathOn(h, path), NEW newBit,
         NEW level, level = InsertLevel(h, path, newBit)
  PROVE  /\ level.first \in 1 .. Len(path) - 1
         /\ level.pushdown \in BOOLEAN
         /\ level.pushdown => level.first = Len(path) - 1
<1> DEFINE possible == InsertDepth(h, path, newBit)
           single == GetInsertInformation(NodeOf(h, path[possible]), path[possible].entry,
                                          newBit).number = 1
<1>1. possible \in 1 .. Len(path) - 1 /\ Len(path) \in Nat
  BY InsertDepthIs DEF PathOn
<1>2. CASE single /\ possible + 1 # Len(path)
  <2>1. level.first = possible + 1 /\ level.pushdown = FALSE
    BY <1>2 DEF InsertLevel
  <2> HIDE DEF possible
  <2>2. level.first \in 1 .. Len(path) - 1
    BY <1>1, <1>2, <2>1
  <2> QED BY <2>1, <2>2, Zenon
<1>3. CASE ~(single /\ possible + 1 # Len(path))
  <2>1. /\ level.first = possible
        /\ level.pushdown = (single /\ possible + 1 = Len(path) /\ NodeOf(h, path[possible]).height > 1)
    BY <1>3 DEF InsertLevel
  <2> HIDE DEF possible
  <2>2. level.pushdown \in BOOLEAN /\ (level.pushdown => possible + 1 = Len(path))
    BY <2>1, Zenon
  <2> QED BY <1>1, <2>1, <2>2
<1> QED BY <1>2, <1>3

-----------------------------------------------------------------------------
(* The locks cover the plan                                                *)

\* Of the levels that are locked, from top to first, the plan retires some before it
\* is published and others after that, and it writes the root pointer or a slot of
\* one that is not retired before.
Covered(path, top, first, plan) ==
  \E B, A \in SUBSET (top .. first) : \E k \in 1 .. Len(path) :
    /\ B \cap A = {}
    /\ plan.before = { path[i].ptr.id : i \in B }
    /\ plan.after = { path[i].ptr.id : i \in A }
    /\ plan.loc = path[k].loc
    /\ k = 1 \/ k - 1 \in (top .. first) \ B

\* leafNodePushDown writes a slot of the insert level, which is locked.
LEMMA PushDownIsCovered ==
  ASSUME NEW h, Grown(h, h), NEW path, PathOn(h, path), NEW level, level.pushdown,
         level.first = Len(path) - 1, NEW new,
         NEW plan, plan = LeafNodePushDown(h, path, level, new)
  PROVE  Grown(h, plan.heap) /\ Covered(path, level.first, level.first, plan)
<1> DEFINE leaf == Len(path)
<1>1. leaf \in Nat /\ leaf >= 2
  BY DEF PathOn
<1>2. /\ plan.loc = path[leaf].loc /\ plan.before = {} /\ plan.after = {}
      /\ \E content : plan.heap = Allocate(h, content).heap
  BY DEF LeafNodePushDown, InsertPlan, LeafEntry
<1>3. Grown(h, plan.heap)
  BY <1>2, GrownAllocate
<1>4. {} \in SUBSET (level.first .. level.first) /\ leaf \in 1 .. leaf
      /\ leaf - 1 \in (level.first .. level.first) \ {}
  BY <1>1
<1>5. {} = { path[i].ptr.id : i \in {} }
  OBVIOUS
<1>6. {} \cap {} = {}
  OBVIOUS
<1> QED BY <1>2, <1>3, <1>4, <1>5, <1>6 DEF Covered

\* normalInsert writes the slot that leads to the node, in its parent, and retires the node.
LEMMA NormalInsertIsCovered ==
  ASSUME NEW h, Grown(h, h), NEW path, PathOn(h, path), NEW level,
         level.first \in 1 .. Len(path) - 1, NEW new,
         NEW top \in 1 .. level.first, level.first > 1 => top <= level.first - 1,
         NEW plan, plan = NormalInsert(h, path, level, new)
  PROVE  Grown(h, plan.heap) /\ Covered(path, top, level.first, plan)
<1> DEFINE first == level.first
<1>1. Len(path) \in Nat
  BY DEF PathOn
<1>2. /\ plan.loc = path[first].loc /\ plan.before = {} /\ plan.after = { path[first].ptr.id }
      /\ \E content : plan.heap = Allocate(h, content).heap
  BY DEF NormalInsert, InsertPlan
<1>3. Grown(h, plan.heap)
  BY <1>2, GrownAllocate
<1>4. {} \in SUBSET (top .. first) /\ {first} \in SUBSET (top .. first) /\ first \in 1 .. Len(path)
      /\ (first = 1 \/ first - 1 \in (top .. first) \ {})
  BY <1>1
<1>5. {} = { path[i].ptr.id : i \in {} } /\ { path[first].ptr.id } = { path[i].ptr.id : i \in {first} }
  OBVIOUS
<1>6. {} \cap {first} = {}
  OBVIOUS
<1> QED BY <1>2, <1>3, <1>4, <1>5, <1>6 DEF Covered

\* A split at level i of the path: what is below is grown from h, and the halves go
\* one above the height of the node that was split.
SplitAt(h, path, r, i) ==
  Grown(h, r.heap) /\ r.binode.height = NodeOf(h, path[i]).height + 1

\* Splitting from the insert level upwards keeps that.
LEMMA SplitsGoUp ==
  ASSUME NEW h, NEW path, PathOn(h, path), NEW first \in 1 .. Len(path) - 1, NEW top \in 1 .. first,
         NEW base, SplitAt(h, path, base, first)
  PROVE  SplitAt(h, path, Climbing!Climbed(base, path, top, first), top)
<1>1. Len(path) \in Nat
  BY DEF PathOn
<1>2. top \in Nat /\ first \in Nat /\ top <= first
  BY <1>1
<1>chain. PICK s : Climbing!ChainUp(s, base, path, top, first)
  BY <1>2, Climbing!ClimbIsChain
<1>3. /\ s[first] = base
      /\ \A i \in top .. first - 1 : s[i] = IntegrateAbove(s[i + 1], path[i])
      /\ Climbing!Climbed(base, path, top, first) = s[top]
  BY <1>chain DEF Climbing!ChainUp
<1> DEFINE Bad == { k \in 0 .. first - top : ~SplitAt(h, path, s[first - k], first - k) }
<1>4. ASSUME NEW i \in top .. first - 1, SplitAt(h, path, s[i + 1], i + 1)
      PROVE  SplitAt(h, path, s[i], i)
  <2> DEFINE g == s[i + 1].heap
  <2>1. s[i] = IntegrateAndSplit(g, path[i], s[i + 1].binode)
    BY <1>3 DEF IntegrateAbove
  <2>2. Grown(h, g)
    BY <1>4 DEF SplitAt
  <2> HIDE DEF g
  <2>3. Grown(h, s[i].heap) /\ s[i].binode.height = NodeOf(g, path[i]).height + 1
    BY <2>1, <2>2, GrownIntegrateAndSplit
  <2>4. i \in 1 .. Len(path) - 1
    BY <1>1, <1>2
  <2>5. path[i].ptr.id \in DOMAIN h
    BY <2>4 DEF PathOn
  <2>6. NodeOf(g, path[i]).height = NodeOf(h, path[i]).height
    BY <2>2, <2>5 DEF Grown, SameNode, NodeOf
  <2> QED BY <2>3, <2>6 DEF SplitAt
<1>5. Bad = {}
  <2> SUFFICES ASSUME Bad # {} PROVE FALSE
    OBVIOUS
  <2>1. Bad \subseteq Nat
    BY <1>2
  <2> HIDE DEF Bad
  <2>2. PICK k \in Bad : \A l \in Bad : k <= l
    BY <2>1, LeastNatural
  <2> USE DEF Bad
  <2>3. k \in 0 .. first - top /\ ~SplitAt(h, path, s[first - k], first - k)
    BY <2>2
  <2>4. k # 0
    <3>1. CASE k = 0
      <4>1. first - k = first
        BY <1>2, <3>1
      <4> QED BY <1>3, <2>3, <4>1
    <3> QED BY <3>1
  <2>5. /\ k - 1 \in 0 .. first - top /\ ~(k <= k - 1)
        /\ first - k \in top .. first - 1 /\ first - (k - 1) = (first - k) + 1
    BY <1>2, <2>3, <2>4
  <2>6. k - 1 \notin Bad
    BY <2>2, <2>5
  <2>7. SplitAt(h, path, s[first - (k - 1)], first - (k - 1))
    BY <2>5, <2>6
  <2>8. SplitAt(h, path, s[(first - k) + 1], (first - k) + 1)
    BY <2>5, <2>7
  <2> QED BY <1>4, <2>3, <2>5, <2>8
<1>6. first - top \in 0 .. first - top /\ first - (first - top) = top
  BY <1>2
<1>7. SplitAt(h, path, s[first - (first - top)], first - (first - top))
  BY <1>5, <1>6
<1> QED BY <1>3, <1>6, <1>7

\* Where the splits end, the halves go to a locked level, whichever way they are placed.
LEMMA PlacedHalvesAreCovered ==
  ASSUME NEW h, NEW path, PathOn(h, path), NEW first \in 1 .. Len(path) - 1,
         NEW top \in 1 .. first, NEW lock \in 1 .. first,
         \A i \in 1 .. first - 1 : (\A j \in i + 1 .. first - 1 : PassesUp(h, path, j)) => lock <= i,
         \A j \in top .. first - 1 : PassesUp(h, path, j),
         IsFull(NodeOf(h, path[top])),
         NEW halves, SplitAt(h, path, halves, top),
         NEW split \in SUBSET (top .. first),
         NEW before, before = { path[i].ptr.id : i \in split },
         NEW plan, plan = PlaceHalves(halves, path, top, before)
  PROVE  Grown(h, plan.heap) /\ Covered(path, lock, first, plan)
<1>1. Len(path) \in Nat /\ first \in Nat /\ top \in Nat /\ lock \in Nat
  BY DEF PathOn
<1>2. split \in SUBSET (lock .. first) /\ (top > 1 => lock <= top - 1) /\ lock <= top
  <2>1. CASE first = 1
    BY <1>1, <2>1
  <2>2. CASE first > 1 /\ top = 1
    <3>1. 1 \in 1 .. first - 1 /\ \A j \in 1 + 1 .. first - 1 : j \in top .. first - 1
      BY <1>1, <2>2
    <3>2. lock <= 1
      BY <3>1
    <3> QED BY <1>1, <2>2, <3>2
  <2>3. CASE top > 1
    <3>1. top - 1 \in 1 .. first - 1 /\ \A j \in (top - 1) + 1 .. first - 1 : j \in top .. first - 1
      BY <1>1, <2>3
    <3>2. lock <= top - 1
      BY <3>1
    <3> QED BY <1>1, <2>3, <3>2
  <2> QED BY <1>1, <2>1, <2>2, <2>3
<1>3. CASE top > 1 /\ NodeOf(halves.heap, path[top - 1]).height = halves.binode.height
  <2> DEFINE up == top - 1
             copy == IntegrateIntoCopy(halves.heap, path[up], halves.binode)
  <2>1. /\ plan.loc = path[up].loc /\ plan.before = before /\ plan.after = { path[up].ptr.id }
        /\ plan.heap = copy.heap
    BY <1>3 DEF PlaceHalves, FinalParentPullUp, InsertPlan
  <2>2. Grown(h, plan.heap)
    BY <2>1, GrownIntegrateIntoCopy DEF SplitAt
  <2>3. up \in 1 .. Len(path) - 1 /\ up + 1 = top /\ up \in lock .. first /\ up \notin split
    BY <1>1, <1>2, <1>3
  <2> HIDE DEF up
  <2>4. path[up].ptr.id \in DOMAIN h
    BY <2>3 DEF PathOn
  <2>5. NodeOf(h, path[up]).height = NodeOf(h, path[up + 1]).height + 1
    BY <1>3, <2>3, <2>4 DEF SplitAt, Grown, SameNode, NodeOf, up
  <2>6. PassesUp(h, path, up)
    BY <2>3, <2>5 DEF PassesUp
  <2>7. up = 1 \/ up - 1 \in (lock .. first) \ split
    <3>1. CASE up > 1
      <4>1. up - 1 \in 1 .. first - 1 /\ up - 1 \notin split
            /\ \A j \in (up - 1) + 1 .. first - 1 : j = up \/ j \in top .. first - 1
        BY <1>1, <2>3, <3>1
      <4>2. lock <= up - 1
        BY <2>6, <4>1
      <4> QED BY <1>1, <2>3, <4>1, <4>2
    <3> QED BY <1>1, <2>3, <3>1
  <2>8. {up} \in SUBSET (lock .. first) /\ split \cap {up} = {} /\ up \in 1 .. Len(path)
    BY <1>1, <2>3
  <2>9. { path[up].ptr.id } = { path[i].ptr.id : i \in {up} }
    OBVIOUS
  <2> QED BY <1>2, <2>1, <2>2, <2>7, <2>8, <2>9 DEF Covered
<1>4. CASE ~(top > 1 /\ NodeOf(halves.heap, path[top - 1]).height = halves.binode.height)
  <2>1. /\ plan.loc = path[top].loc /\ plan.before = before /\ plan.after = {}
        /\ \E content : plan.heap = Allocate(halves.heap, content).heap
    BY <1>4 DEF PlaceHalves, IntermediateNode, InsertPlan
  <2>2. Grown(h, plan.heap)
    BY <2>1, GrownAllocate DEF SplitAt
  <2>3. top = 1 \/ top - 1 \in (lock .. first) \ split
    BY <1>1, <1>2
  <2>4. {} \in SUBSET (lock .. first) /\ split \cap {} = {} /\ top \in 1 .. Len(path)
        /\ {} = { path[i].ptr.id : i \in {} }
    BY <1>1
  <2> QED BY <1>2, <2>1, <2>2, <2>3, <2>4 DEF Covered
<1> QED BY <1>3, <1>4

\* A split that goes up from the insert level writes and retires locked levels only.
LEMMA SplitUpwardsIsCovered ==
  ASSUME NEW h, Grown(h, h), NEW path, PathOn(h, path), NEW level,
         level.first \in 1 .. Len(path) - 1, NEW new,
         NEW lock \in 1 .. level.first,
         \A i \in 1 .. level.first - 1 :
           (\A j \in i + 1 .. level.first - 1 : PassesUp(h, path, j)) => lock <= i,
         IsFull(NodeOf(h, path[level.first])),
         NEW plan, plan = SplitUpwards(h, path, level, new)
  PROVE  Grown(h, plan.heap) /\ Covered(path, lock, level.first, plan)
<1> DEFINE first == level.first
           node == NodeOf(h, path[first])
           isSplit == level.info.key.bit > MostSignificantBit(node)
           Full(j) == /\ IsFull(NodeOf(h, path[j]))
                      /\ NodeOf(h, path[j]).height = NodeOf(h, path[j + 1]).height + 1
           tops == { i \in 1 .. first : \A j \in i .. first - 1 : Full(j) }
           top == Min(tops)
           split == IF isSplit THEN top .. first ELSE top .. first - 1
           before == { path[i].ptr.id : i \in split }
           base == IF isSplit THEN Split(h, node, level.info, new)
                   ELSE [heap |-> h, binode |->
                           BiNodeFromExistingAndNew(h, level.info.key, path[first].ptr, new)]
           halves == Climbing!Climbed(base, path, top, first)
<1>1. plan = PlaceHalves(halves, path, top, before)
  BY DEF SplitUpwards, Climbing!Climbed, Climbing!Climbs, IntegrateAbove
<1>2. Len(path) \in Nat /\ first \in Nat
  BY DEF PathOn
<1>3. first \in tops /\ tops \subseteq 1 .. first
  BY <1>2
<1>4. \A i \in tops : \A j \in i .. first - 1 : Full(j)
  OBVIOUS
<1> HIDE DEF tops
<1>5. tops \subseteq Nat /\ tops # {}
  BY <1>2, <1>3
<1>6. top \in tops
  BY <1>5, MinIsLeast
<1>7. top \in 1 .. first /\ \A j \in top .. first - 1 : Full(j)
  BY <1>3, <1>4, <1>6
<1>8. split \in SUBSET (top .. first)
  BY <1>2, <1>7
<1> HIDE DEF top, split
<1>9. \A j \in top .. first - 1 : PassesUp(h, path, j)
  <2> SUFFICES ASSUME NEW j \in top .. first - 1 PROVE PassesUp(h, path, j)
    OBVIOUS
  <2>1. j + 1 = first \/ j + 1 \in top .. first - 1
    BY <1>2, <1>7
  <2>2. IsFull(NodeOf(h, path[j + 1]))
    BY <1>7, <2>1
  <2> QED BY <1>7, <2>2 DEF PassesUp
<1>10. IsFull(NodeOf(h, path[top]))
  <2>1. top = first \/ top \in top .. first - 1
    BY <1>2, <1>7
  <2> QED BY <1>7, <2>1
<1>11. SplitAt(h, path, base, first)
  <2>1. CASE isSplit
    <3>1. base = Split(h, node, level.info, new)
      BY <2>1
    <3> QED BY <3>1, GrownSplit DEF SplitAt
  <2>2. CASE ~isSplit
    <3>1. base = [heap |-> h, binode |->
                    BiNodeFromExistingAndNew(h, level.info.key, path[first].ptr, new)]
      BY <2>2
    <3>2. IsAValidNode(path[first].ptr)
      BY DEF PathOn
    <3>3. GetHeight(h, path[first].ptr) = node.height
      BY <3>2 DEF GetHeight, IsLeaf, IsAValidNode, NodeOf
    <3>4. base.binode.height = node.height + 1
      BY <3>1, <3>3 DEF BiNodeFromExistingAndNew, BiNode
    <3> QED BY <3>1, <3>4 DEF SplitAt
  <2> QED BY <2>1, <2>2
<1> HIDE DEF base
<1>12. SplitAt(h, path, halves, top)
  BY <1>7, <1>11, SplitsGoUp
<1> HIDE DEF halves, before
<1>13. before = { path[i].ptr.id : i \in split }
  BY DEF before
<1> QED BY <1>1, <1>7, <1>8, <1>9, <1>10, <1>12, <1>13, PlacedHalvesAreCovered

\* Whatever way insertForStackRange takes, the levels that tryLock has locked cover
\* what it writes and what it retires.
LEMMA PlanIsCovered ==
  ASSUME NEW h, Grown(h, h), NEW path, PathOn(h, path), NEW newBit,
         NEW level, level = InsertLevel(h, path, newBit), NEW new,
         NEW plan, plan = InsertForStackRange(h, path, level, new)
  PROVE  Grown(h, plan.heap) /\ Covered(path, TopLockLevel(h, path, level), level.first, plan)
<1> DEFINE top == TopLockLevel(h, path, level)
<1>1. /\ level.first \in 1 .. Len(path) - 1 /\ level.pushdown \in BOOLEAN
      /\ level.pushdown => level.first = Len(path) - 1
  BY InsertLevelIs
<1>2. level.first \in Nat \ {0} /\ Len(path) \in Nat
  BY <1>1 DEF PathOn
<1>3. /\ top \in 1 .. level.first
      /\ level.pushdown => top = level.first
      /\ ~level.pushdown => \A i \in 1 .. level.first - 1 :
           (\A j \in i + 1 .. level.first - 1 : PassesUp(h, path, j)) => top <= i
  BY <1>1, <1>2, TopLockLevelIs
<1> HIDE DEF top
<1>4. CASE level.pushdown
  <2>1. plan = LeafNodePushDown(h, path, level, new)
    BY <1>4 DEF InsertForStackRange
  <2> QED BY <1>1, <1>3, <1>4, <2>1, PushDownIsCovered DEF top
<1>5. CASE ~level.pushdown /\ ~IsFull(NodeOf(h, path[level.first]))
  <2>1. plan = NormalInsert(h, path, level, new)
    BY <1>5 DEF InsertForStackRange
  <2>2. level.first > 1 => top <= level.first - 1
    <3>1. CASE level.first > 1
      <4>1. level.first - 1 \in 1 .. level.first - 1
            /\ \A j \in (level.first - 1) + 1 .. level.first - 1 : FALSE
        BY <1>2, <3>1
      <4> QED BY <1>3, <1>5, <4>1
    <3> QED BY <3>1
  <2> QED BY <1>1, <1>3, <2>1, <2>2, NormalInsertIsCovered DEF top
<1>6. CASE ~level.pushdown /\ IsFull(NodeOf(h, path[level.first]))
  <2>1. plan = SplitUpwards(h, path, level, new)
    BY <1>6 DEF InsertForStackRange
  <2> QED BY <1>1, <1>3, <1>6, <2>1, SplitUpwardsIsCovered DEF top
<1> QED BY <1>4, <1>5, <1>6

-----------------------------------------------------------------------------
(* A step of a thread, seen by the others                                  *)

\* What the search and the locking of another thread read of a node.
SameShape(h, g) ==
  /\ DOMAIN h \subseteq DOMAIN g
  /\ \A i \in DOMAIN h : /\ g[i].height = h[i].height /\ g[i].keys = h[i].keys
                         /\ DOMAIN g[i].ptrs = DOMAIN h[i].ptrs
                         /\ Len(g[i].ptrs) = Len(h[i].ptrs)

\* A step of thread t leaves alone the nodes that others have locked and the nodes
\* that are obsolete.
RespectsLocks(t, h, g) ==
  /\ \A i \in DOMAIN h : h[i].lock \in Threads \ {t} =>
       g[i].lock = h[i].lock /\ g[i].obsolete = h[i].obsolete
  /\ \A i \in DOMAIN h : h[i].obsolete =>
       g[i].obsolete /\ g[i].scheduled = h[i].scheduled

\* Intervals from one with the same numbers end alike.
LEMMA SameInterval ==
  ASSUME NEW m \in Nat, NEW n \in Nat, \A k \in 1 .. m : k \in 1 .. n,
         \A k \in 1 .. n : k \in 1 .. m
  PROVE  m = n
<1>1. ~(m > n)
  OBVIOUS
<1>2. ~(n > m)
  OBVIOUS
<1> QED BY <1>1, <1>2

\* The elements of a sequence.
LEMMA ElementsOf ==
  ASSUME NEW S, NEW s \in Seq(S)
  PROVE  \A i \in DOMAIN s : s[i] \in S
OBVIOUS

\* Sequences with the same indices have the same length.
LEMMA SameLength ==
  ASSUME NEW S, NEW T, NEW a \in Seq(S), NEW b \in Seq(T), DOMAIN a = DOMAIN b
  PROVE  Len(a) = Len(b)
<1>1. Len(a) \in Nat /\ Len(b) \in Nat /\ DOMAIN a = 1 .. Len(a) /\ DOMAIN b = 1 .. Len(b)
  OBVIOUS
<1>2. \A n \in 1 .. Len(a) : n \in 1 .. Len(b)
  BY <1>1
<1>3. \A n \in 1 .. Len(b) : n \in 1 .. Len(a)
  BY <1>1
<1> QED BY <1>1, <1>2, <1>3, SameInterval, Zenon

\* The type invariant, without the bound on the number of locks that are held, which
\* follows from the lock invariant.
Typed ==
  /\ root \in Pointers
  /\ heap \in Seq(NodeRecords)
  /\ \A i \in DOMAIN heap :
       /\ Len(heap[i].keys) = Len(heap[i].ptrs) /\ Len(heap[i].ptrs) \in 2 .. MaxEntries
       /\ heap[i].keys[1] = {}
  /\ pc \in [Threads -> Labels]
  /\ mode \in [Threads -> {"lookup", "insert", "upsert"}]
  /\ DOMAIN calls = Threads

\* What the type invariant says of the nodes, with child pointers in P.
TypedNodes(h, P) ==
  /\ \E S : h \in Seq(S)
  /\ \A i \in DOMAIN h :
       /\ DOMAIN h[i] = NodeFields
       /\ h[i].ptrs \in Seq(P) /\ h[i].keys \in Seq(SUBSET Bits)
       /\ h[i].lock \in Threads \cup {NoThread} /\ h[i].obsolete \in BOOLEAN
       /\ Len(h[i].keys) = Len(h[i].ptrs) /\ Len(h[i].ptrs) \in 2 .. MaxEntries
       /\ h[i].keys[1] = {}

\* What the types of the records say of the nodes.
LEMMA NodesAreTyped ==
  ASSUME NEW P, NEW R, NEW h,
         R = [height : Nat \ {0}, keys : Seq(SUBSET Bits), ptrs : Seq(P),
              lock : Threads \cup {NoThread}, obsolete : BOOLEAN, scheduled : Nat],
         h \in Seq(R),
         \A i \in DOMAIN h :
           /\ Len(h[i].keys) = Len(h[i].ptrs) /\ Len(h[i].ptrs) \in 2 .. MaxEntries
           /\ h[i].keys[1] = {}
  PROVE  TypedNodes(h, P)
<1>1. \A i \in DOMAIN h : h[i] \in R
  BY ElementsOf, Zenon
<1>2. \A i \in DOMAIN h : DOMAIN h[i] = NodeFields
  BY <1>1 DEF NodeFields
<1>3. \A i \in DOMAIN h :
              /\ h[i].ptrs \in Seq(P) /\ h[i].keys \in Seq(SUBSET Bits)
              /\ h[i].lock \in Threads \cup {NoThread} /\ h[i].obsolete \in BOOLEAN
  <2> TAKE i \in DOMAIN h
  <2>1. h[i] \in R
    BY <1>1
  <2> QED BY <2>1, Zenon
<1>4. \E S : h \in Seq(S)
  OBVIOUS
<1> QED BY <1>2, <1>3, <1>4 DEF TypedNodes

\* The same of the heap.
LEMMA TypeOfNodes ==
  Typed => TypedNodes(heap, Pointers \ {EmptyPointer}) /\ Grown(heap, heap)
<1> SUFFICES ASSUME Typed PROVE TypedNodes(heap, Pointers \ {EmptyPointer}) /\ Grown(heap, heap)
  OBVIOUS
<1>1. /\ heap \in Seq(NodeRecords)
      /\ \A i \in DOMAIN heap :
           /\ Len(heap[i].keys) = Len(heap[i].ptrs) /\ Len(heap[i].ptrs) \in 2 .. MaxEntries
           /\ heap[i].keys[1] = {}
  BY DEF Typed
<1> QED BY <1>1, NodesAreTyped, GrownFromItself DEF NodeRecords

\* And of the heap after a step.
LEMMA TypeOfNextNodes ==
  Typed' => TypedNodes(heap', (Pointers \ {EmptyPointer})')
<1>1. (Typed => TypedNodes(heap, Pointers \ {EmptyPointer}) /\ Grown(heap, heap))'
  BY TypeOfNodes, PTL
<1> QED BY <1>1

\* Building nodes keeps the shape of all others, and their locks.
LEMMA GrownIsSameShape ==
  ASSUME Typed, Typed', NEW t, Grown(heap, heap')
  PROVE  SameShape(heap, heap') /\ RespectsLocks(t, heap, heap')
<1>1. DOMAIN heap \subseteq DOMAIN heap' /\ \A i \in DOMAIN heap : SameNode(heap[i], heap'[i])
  BY DEF Grown
<1>2. \A i \in DOMAIN heap : heap[i].ptrs \in Seq(Pointers \ {EmptyPointer})
  BY TypeOfNodes DEF TypedNodes
<1>3. \A i \in DOMAIN heap' : heap'[i].ptrs \in Seq((Pointers \ {EmptyPointer})')
  BY TypeOfNextNodes DEF TypedNodes
<1>4. \A i \in DOMAIN heap : Len(heap'[i].ptrs) = Len(heap[i].ptrs)
  <2> TAKE i \in DOMAIN heap
  <2>1. DOMAIN heap'[i].ptrs = DOMAIN heap[i].ptrs
    BY <1>1 DEF SameNode
  <2> QED BY <1>1, <1>2, <1>3, <2>1, SameLength
<1>5. SameShape(heap, heap')
  BY <1>1, <1>4 DEF SameShape, SameNode
<1>6. RespectsLocks(t, heap, heap')
  BY <1>1 DEF RespectsLocks, SameNode
<1> QED BY <1>5, <1>6

-----------------------------------------------------------------------------
(* The levels of a path depend on what no step changes                     *)

\* A path stays a path while the nodes keep their shape.
LEMMA SamePath ==
  ASSUME NEW h, NEW g, SameShape(h, g), NEW path, PathOn(h, path)
  PROVE  PathOn(g, path)
BY DEF SameShape, PathOn

\* The insert information depends on the partial keys only.
LEMMA SameInformation ==
  ASSUME NEW m, NEW n, m.keys = n.keys, NEW e, NEW newBit
  PROVE  GetInsertInformation(m, e, newBit) = GetInsertInformation(n, e, newBit)
BY DEF GetInsertInformation, DiscriminativeBits

\* The insert level is the same, whenever it is computed.
LEMMA SameLevel ==
  ASSUME NEW h, NEW g, SameShape(h, g), NEW path, PathOn(h, path), NEW newBit
  PROVE  InsertLevel(g, path, newBit) = InsertLevel(h, path, newBit)
<1> DEFINE leaf == Len(path)
           At(x) == { j \in 2 .. leaf :
                        j = leaf \/ newBit.bit <= MostSignificantBit(NodeOf(x, path[j])) }
           possible == InsertDepth(h, path, newBit)
<1>1. leaf \in Nat
  BY DEF PathOn
<1>2. \A j \in 1 .. leaf - 1 :
        /\ NodeOf(g, path[j]).height = NodeOf(h, path[j]).height
        /\ NodeOf(g, path[j]).keys = NodeOf(h, path[j]).keys
        /\ Len(NodeOf(g, path[j]).ptrs) = Len(NodeOf(h, path[j]).ptrs)
  BY DEF PathOn, SameShape, NodeOf
<1>3. \A j \in 1 .. leaf - 1 : MostSignificantBit(NodeOf(g, path[j])) = MostSignificantBit(NodeOf(h, path[j]))
  BY <1>2, Zenon DEF MostSignificantBit, DiscriminativeBits
<1>4. \A j \in 2 .. leaf : j = leaf \/ j \in 1 .. leaf - 1
  BY <1>1
<1>5. At(g) = At(h)
  BY <1>3, <1>4, Zenon
<1>6. InsertDepth(g, path, newBit) = possible
  BY <1>5, Zenon DEF InsertDepth
<1>7. possible \in 1 .. leaf - 1
  BY InsertDepthIs
<1> HIDE DEF possible
<1>8. \A e : GetInsertInformation(NodeOf(g, path[possible]), e, newBit)
               = GetInsertInformation(NodeOf(h, path[possible]), e, newBit)
  BY <1>2, <1>7, SameInformation
<1> DEFINE info(x) == GetInsertInformation(NodeOf(x, path[possible]), path[possible].entry, newBit)
           single == info(h).number = 1
<1>9. info(g) = info(h)
  BY <1>8
<1> HIDE DEF info
<1>10. \A x : x \in {h, g} => InsertLevel(x, path, newBit) =
         IF info(x).number = 1 /\ possible + 1 # leaf
         THEN [first |-> possible + 1, pushdown |-> FALSE,
               info |-> [prefix |-> {}, first |-> 1,
                         number |-> Len(NodeOf(x, path[possible + 1]).ptrs), key |-> newBit]]
         ELSE [first |-> possible, info |-> info(x),
               pushdown |-> info(x).number = 1 /\ possible + 1 = leaf
                              /\ NodeOf(x, path[possible]).height > 1]
  <2> TAKE x
  <2> HAVE x \in {h, g}
  <2>1. InsertDepth(x, path, newBit) = possible
    BY <1>6 DEF possible
  <2> QED BY <2>1, Zenon DEF InsertLevel, info
<1>11. CASE single /\ possible + 1 # leaf
  <2>1. possible + 1 \in 1 .. leaf - 1
    BY <1>1, <1>7, <1>11
  <2>2. Len(NodeOf(g, path[possible + 1]).ptrs) = Len(NodeOf(h, path[possible + 1]).ptrs)
    BY <1>2, <2>1
  <2>3. h \in {h, g} /\ g \in {h, g}
    OBVIOUS
  <2> QED BY <1>9, <1>10, <1>11, <2>2, <2>3, Zenon
<1>12. CASE ~(single /\ possible + 1 # leaf)
  <2>1. NodeOf(g, path[possible]).height = NodeOf(h, path[possible]).height
    BY <1>2, <1>7
  <2>2. h \in {h, g} /\ g \in {h, g}
    OBVIOUS
  <2> QED BY <1>9, <1>10, <1>12, <2>1, <2>2, Zenon
<1> QED BY <1>11, <1>12

\* So is the level up to which tryLock locks.
LEMMA SameTopLockLevel ==
  ASSUME NEW h, NEW g, SameShape(h, g), NEW path, PathOn(h, path), NEW level,
         level.first \in 1 .. Len(path) - 1
  PROVE  TopLockLevel(g, path, level) = TopLockLevel(h, path, level)
<1> DEFINE first == level.first
           tops(x) == { i \in 1 .. first - 1 : \A j \in i + 1 .. first - 1 : PassesUp(x, path, j) }
<1>1. Len(path) \in Nat /\ first \in Nat
  BY DEF PathOn
<1>2. \A j \in 1 .. Len(path) - 1 :
        /\ NodeOf(g, path[j]).height = NodeOf(h, path[j]).height
        /\ Len(NodeOf(g, path[j]).ptrs) = Len(NodeOf(h, path[j]).ptrs)
  BY DEF PathOn, SameShape, NodeOf
<1>3. \A i \in 1 .. first - 1 : \A j \in i + 1 .. first - 1 :
        j \in 1 .. Len(path) - 1 /\ j + 1 \in 1 .. Len(path) - 1
  BY <1>1
<1>4. \A i \in 1 .. first - 1 : \A j \in i + 1 .. first - 1 :
        PassesUp(g, path, j) <=> PassesUp(h, path, j)
  BY <1>2, <1>3, Zenon DEF PassesUp, IsFull
<1>5. tops(g) = tops(h)
  BY <1>4, Zenon
<1>6. \A x : TopLockLevel(x, path, level) = IF level.pushdown \/ first = 1 THEN first ELSE Min(tops(x))
  BY Zenon DEF TopLockLevel, PassesUp
<1> QED BY <1>5, <1>6, Zenon

-----------------------------------------------------------------------------
(* Locking, unlocking and marking                                          *)

\* The lock of one node is written.
LockSet(h, g, id, l) == g = [h EXCEPT ![id].lock = l]

\* What that means for the nodes.
Relocked(h, g, id, l) ==
  /\ DOMAIN g = DOMAIN h
  /\ g[id].lock = l /\ g[id].obsolete = h[id].obsolete
  /\ \A i \in DOMAIN h : i # id => g[i] = h[i]

\* Taking a free lock or releasing one's own respects the locks of others.
LEMMA SetLock ==
  ASSUME Typed, NEW t \in Threads, NEW id \in DOMAIN heap,
         heap[id].lock = t \/ heap[id].lock = NoThread,
         NEW l, NEW g, LockSet(heap, g, id, l)
  PROVE  SameShape(heap, g) /\ RespectsLocks(t, heap, g) /\ Relocked(heap, g, id, l)
<1>1. DOMAIN heap[id] = NodeFields
  BY TypeOfNodes DEF TypedNodes
<1>2. /\ g[id].lock = l /\ g[id].obsolete = heap[id].obsolete /\ g[id].height = heap[id].height
      /\ g[id].keys = heap[id].keys /\ g[id].ptrs = heap[id].ptrs
      /\ g[id].scheduled = heap[id].scheduled
  BY <1>1 DEF NodeFields, LockSet
<1>3. DOMAIN g = DOMAIN heap /\ \A i \in DOMAIN heap : i # id => g[i] = heap[i]
  BY DEF LockSet
<1>4. SameShape(heap, g)
  BY <1>2, <1>3, Zenon DEF SameShape
<1>5. heap[id].lock \notin Threads \ {t}
  BY NoThreadAssumption
<1>6. RespectsLocks(t, heap, g)
  BY <1>2, <1>3, <1>5, Zenon DEF RespectsLocks
<1> QED BY <1>2, <1>3, <1>4, <1>6 DEF Relocked

\* Marking nodes obsolete that the thread has locked respects the locks of others.
LEMMA MarkNodes ==
  ASSUME Typed, Typed', NEW t \in Threads, NEW g, Grown(heap, g), NEW ids,
         \A i \in ids : i \in DOMAIN heap /\ heap[i].lock = t /\ ~heap[i].obsolete,
         heap' = MarkObsolete(g, ids)
  PROVE  /\ SameShape(heap, heap') /\ RespectsLocks(t, heap, heap')
         /\ \A i \in DOMAIN heap : heap'[i].lock = heap[i].lock
         /\ \A i \in DOMAIN heap : i \notin ids => heap'[i].obsolete = heap[i].obsolete
<1>1. /\ DOMAIN heap \subseteq DOMAIN g /\ \A i \in DOMAIN heap : SameNode(heap[i], g[i])
      /\ \A i \in DOMAIN g : DOMAIN g[i] = NodeFields
  BY DEF Grown
<1>2. DOMAIN heap' = DOMAIN g
  BY Zenon DEF MarkObsolete
<1>3. \A i \in DOMAIN g : heap'[i] = IF i \in ids THEN [g[i] EXCEPT !.obsolete = TRUE, !.scheduled = @ + 1]
                                     ELSE g[i]
  BY Zenon DEF MarkObsolete
<1>4. \A i \in DOMAIN heap : i \notin ids => SameNode(heap[i], heap'[i])
  BY <1>1, <1>3, Zenon
<1>5. \A i \in DOMAIN heap : i \in ids =>
        /\ heap'[i].height = heap[i].height /\ heap'[i].keys = heap[i].keys
        /\ DOMAIN heap'[i].ptrs = DOMAIN heap[i].ptrs /\ heap'[i].lock = heap[i].lock
  <2> TAKE i \in DOMAIN heap
  <2> HAVE i \in ids
  <2>1. heap'[i] = [g[i] EXCEPT !.obsolete = TRUE, !.scheduled = @ + 1]
    BY <1>1, <1>3, Zenon
  <2>2. SameNode(heap[i], g[i]) /\ DOMAIN g[i] = NodeFields
    BY <1>1
  <2> QED BY <2>1, <2>2 DEF SameNode, NodeFields
<1>6. \A i \in DOMAIN heap :
        /\ heap'[i].height = heap[i].height /\ heap'[i].keys = heap[i].keys
        /\ DOMAIN heap'[i].ptrs = DOMAIN heap[i].ptrs /\ heap'[i].lock = heap[i].lock
  BY <1>4, <1>5 DEF SameNode
<1>7. \A i \in DOMAIN heap : Len(heap'[i].ptrs) = Len(heap[i].ptrs)
  <2> TAKE i \in DOMAIN heap
  <2>1. heap[i].ptrs \in Seq(Pointers \ {EmptyPointer})
    BY TypeOfNodes DEF TypedNodes
  <2>2. heap'[i].ptrs \in Seq((Pointers \ {EmptyPointer})')
    BY <1>1, <1>2, TypeOfNextNodes DEF TypedNodes
  <2> QED BY <1>6, <2>1, <2>2, SameLength
<1>8. SameShape(heap, heap')
  BY <1>1, <1>2, <1>6, <1>7, Zenon DEF SameShape
<1>9. RespectsLocks(t, heap, heap')
  <2>1. \A i \in DOMAIN heap : heap[i].lock \in Threads \ {t} => i \notin ids
    OBVIOUS
  <2>2. \A i \in DOMAIN heap : heap[i].obsolete => i \notin ids
    OBVIOUS
  <2> QED BY <1>4, <2>1, <2>2, Zenon DEF RespectsLocks, SameNode
<1>10. \A i \in DOMAIN heap : i \notin ids => heap'[i].obsolete = heap[i].obsolete
  BY <1>4 DEF SameNode
<1> QED BY <1>6, <1>8, <1>9, <1>10

-----------------------------------------------------------------------------
(* The inductive invariant                                                 *)

\* The stack of a writer on its way down: the entries lead to nodes, and the slot of
\* the next one is a slot of the last one.
Descent(h, path) ==
  /\ \E S : path \in Seq(S)
  /\ Len(path) >= 1
  /\ path[1].loc = RootLocation
  /\ \A j \in 1 .. Len(path) :
       /\ IsAValidNode(path[j].ptr) /\ path[j].ptr.id \in DOMAIN h
       /\ path[j].entry \in DOMAIN h[path[j].ptr.id].ptrs
  /\ \A j \in 1 .. Len(path) - 1 : path[j + 1].loc = SlotLocation(path[j].ptr.id, path[j].entry)

\* The thread has locked the nodes of these levels, each of them once.
LocksLevels(h, path, t, low, first) ==
  /\ \A i \in low .. first : h[path[i].ptr.id].lock = t
  /\ \A i, j \in low .. first : i # j => path[i].ptr.id # path[j].ptr.id

AreCurrent(h, path, low, first) == \A i \in low .. first : ~h[path[i].ptr.id].obsolete

Holds(h, t, id) == id \in DOMAIN h /\ h[id].lock = t /\ ~h[id].obsolete

Top(t) == TopLockLevel(heap, stack[t], Level(t))
First(t) == Level(t).first

LockingLabels == {"lock", "validate", "publish", "mark", "unlock", "release"}
LeafLabels == {"lock leaf", "overwrite", "unlock leaf"}

\* insertNewValue: the levels that are locked, and of those that are not the next one.
LockInvariantInsert(t) ==
  /\ PathOn(heap, stack[t])
  /\ LocksLevels(heap, stack[t], t, First(t) - held[t] + 1, First(t))
  /\ pc[t] = "lock" => held[t] \in 0 .. First(t) - Top(t)
  /\ pc[t] \in {"validate", "publish", "mark"} => held[t] = First(t) - Top(t) + 1
  /\ pc[t] \in {"unlock", "release"} => held[t] \in 1 .. First(t) - Top(t) + 1
  /\ pc[t] \in {"lock", "validate"} =>
       AreCurrent(heap, stack[t], First(t) - held[t] + 1, First(t))
  /\ pc[t] = "publish" => pending[t].loc = RootLocation \/ Holds(heap, t, pending[t].loc.id)
  /\ pc[t] \in {"publish", "mark"} => \A id \in pending[t].after : Holds(heap, t, id)

\* upsert of a key that is there: the node above the leaf.
LockInvariantUpsert(t) ==
  /\ PathOn(heap, stack[t])
  /\ pc[t] # "lock leaf" => heap[stack[t][Len(stack[t]) - 1].ptr.id].lock = t
  /\ pc[t] = "overwrite" => ~heap[stack[t][Len(stack[t]) - 1].ptr.id].obsolete
  /\ pc[t] # "lock leaf" => held[t] = 1

LockInvariantOf(t) ==
  /\ pc[t] = "descend" /\ mode[t] # "lookup" => Descent(heap, stack[t])
  /\ pc[t] \in LockingLabels => LockInvariantInsert(t)
  /\ pc[t] \in LeafLabels => LockInvariantUpsert(t)
  /\ pc[t] \notin LockingLabels \cup {"overwrite", "unlock leaf"} => held[t] = 0

\* The variables of the threads are there for every thread.
LocalShape ==
  /\ DOMAIN stack = Threads /\ DOMAIN held = Threads
  /\ DOMAIN pending = Threads /\ DOMAIN call = Threads
  /\ \A t \in Threads : /\ {"loc", "ptr", "after", "expected"} \subseteq DOMAIN pending[t]
                        /\ {"key", "value"} \subseteq DOMAIN call[t]

\* Why the locks suffice: from the moment that a writer starts to lock, its stack is a
\* path of nodes, and it holds the locks of the levels that it has counted, up to the
\* level that TopLockLevel computes again and again from the same immutable nodes.
LockInvariant ==
  /\ LocalShape
  /\ \A t \in Threads : LockInvariantOf(t)

-----------------------------------------------------------------------------
(* What a step leaves to a thread that does not take it                    *)

\* The thread's own data is the same after the step.
Rests(u) ==
  /\ pc'[u] = pc[u] /\ mode'[u] = mode[u] /\ stack'[u] = stack[u] /\ held'[u] = held[u]
  /\ pending'[u] = pending[u] /\ call'[u].key = call[u].key

\* While stack and key stay, so do the levels that are computed from them.
LEMMA LevelsAreKept ==
  ASSUME NEW u, SameShape(heap, heap'), stack'[u] = stack[u], call'[u].key = call[u].key,
         PathOn(heap, stack[u])
  PROVE  First(u)' = First(u) /\ Top(u)' = Top(u) /\ PathOn(heap', stack'[u]) /\ Level(u)' = Level(u)
<1>1. PathOn(heap', stack'[u])
  BY SamePath
<1>2. MismatchingBit(u)' = MismatchingBit(u)
  BY DEF MismatchingBit, Key
<1>3. Level(u)' = Level(u)
  BY <1>2, SameLevel DEF Level
<1>4. Level(u).first \in 1 .. Len(stack[u]) - 1
  BY InsertLevelIs DEF Level
<1>5. Top(u)' = Top(u)
  BY <1>3, <1>4, SameTopLockLevel DEF Top
<1> QED BY <1>1, <1>3, <1>5 DEF First

\* The levels of a path that is locked, as the tests of tryLock and the loops of
\* insertNewValue use them.
LEMMA LevelsOf ==
  ASSUME NEW t, PathOn(heap, stack[t])
  PROVE  /\ Len(stack[t]) \in Nat /\ First(t) \in 1 .. Len(stack[t]) - 1
         /\ Top(t) \in 1 .. First(t)
         /\ \A i \in 1 .. First(t) : stack[t][i].ptr.id \in DOMAIN heap
<1>1. Len(stack[t]) \in Nat
  BY DEF PathOn
<1>2. Level(t).first \in 1 .. Len(stack[t]) - 1 /\ Level(t).pushdown \in BOOLEAN
  BY InsertLevelIs DEF Level
<1>3. Level(t).first \in Nat \ {0}
  BY <1>1, <1>2
<1>4. Top(t) \in 1 .. First(t)
  BY <1>2, <1>3, TopLockLevelIs DEF Top, First
<1>5. \A i \in 1 .. First(t) : i \in 1 .. Len(stack[t]) - 1
  BY <1>1, <1>2 DEF First
<1>6. \A i \in 1 .. First(t) : stack[t][i].ptr.id \in DOMAIN heap
  BY <1>5 DEF PathOn
<1> QED BY <1>1, <1>2, <1>4, <1>6 DEF First

\* The levels that a writer has counted in held are nodes whose lock is its own.
LEMMA HeldLevels ==
  ASSUME NEW t, pc[t] \in LockingLabels, LockInvariantInsert(t)
  PROVE  /\ held[t] \in 0 .. First(t) - Top(t) + 1
         /\ \A i \in First(t) - held[t] + 1 .. First(t) :
              /\ i \in 1 .. First(t) /\ i \in Top(t) .. First(t)
              /\ stack[t][i].ptr.id \in DOMAIN heap
              /\ heap[stack[t][i].ptr.id].lock = t
<1>1. PathOn(heap, stack[t])
  BY Zenon DEF LockInvariantInsert
<1>2. /\ First(t) \in Nat /\ Top(t) \in Nat /\ 1 <= Top(t) /\ Top(t) <= First(t)
      /\ \A i \in 1 .. First(t) : stack[t][i].ptr.id \in DOMAIN heap
  BY <1>1, LevelsOf
<1>3. pc[t] \in {"lock"} \/ pc[t] \in {"validate", "publish", "mark"} \/ pc[t] \in {"unlock", "release"}
  BY DEF LockingLabels
<1>4. \/ held[t] \in 0 .. First(t) - Top(t) \/ held[t] = First(t) - Top(t) + 1
      \/ held[t] \in 1 .. First(t) - Top(t) + 1
  BY <1>3, Zenon DEF LockInvariantInsert
<1>5. held[t] \in 0 .. First(t) - Top(t) + 1
  BY <1>2, <1>4
<1>6. \A i \in First(t) - held[t] + 1 .. First(t) : i \in 1 .. First(t) /\ i \in Top(t) .. First(t)
  BY <1>2, <1>5
<1>7. \A i \in First(t) - held[t] + 1 .. First(t) : heap[stack[t][i].ptr.id].lock = t
  BY Zenon DEF LockInvariantInsert, LocksLevels
<1> QED BY <1>2, <1>5, <1>6, <1>7

\* A step of t that respects the locks keeps the invariant of every other thread.
LEMMA OthersRest ==
  ASSUME NEW t, NEW u \in Threads, u # t, LockInvariantOf(u), Rests(u),
         SameShape(heap, heap'), RespectsLocks(t, heap, heap')
  PROVE  LockInvariantOf(u)'
<1>1. \A i \in DOMAIN heap : heap[i].lock = u => heap'[i].lock = u /\ heap'[i].obsolete = heap[i].obsolete
  BY DEF RespectsLocks
<1>2. DOMAIN heap \subseteq DOMAIN heap'
  BY DEF SameShape
<1>3. pc'[u] = pc[u] /\ mode'[u] = mode[u] /\ stack'[u] = stack[u] /\ held'[u] = held[u]
      /\ pending'[u] = pending[u] /\ call'[u].key = call[u].key
  BY DEF Rests
<1>4. ASSUME Descent(heap, stack[u])
      PROVE  Descent(heap, stack[u])'
  <2>1. Len(stack[u]) \in Nat
    BY <1>4 DEF Descent
  <2>2. \A j \in 1 .. Len(stack[u]) :
          /\ stack[u][j].ptr.id \in DOMAIN heap'
          /\ stack[u][j].entry \in DOMAIN heap'[stack[u][j].ptr.id].ptrs
    BY <1>4 DEF Descent, SameShape
  <2> QED BY <1>3, <1>4, <2>2, Zenon DEF Descent
<1>5. \A id : Holds(heap, u, id) => Holds(heap', u, id)
  BY <1>1, <1>2 DEF Holds
<1>6. ASSUME pc[u] \in LockingLabels, LockInvariantInsert(u)
      PROVE  LockInvariantInsert(u)'
  <2>1. PathOn(heap, stack[u])
    BY <1>6, Zenon DEF LockInvariantInsert
  <2>2. First(u)' = First(u) /\ Top(u)' = Top(u) /\ PathOn(heap', stack'[u])
    BY <1>3, <2>1, LevelsAreKept
  <2> DEFINE low == First(u) - held[u] + 1
  <2>3. \A i \in low .. First(u) : /\ stack[u][i].ptr.id \in DOMAIN heap
                                  /\ heap[stack[u][i].ptr.id].lock = u
    BY <1>6, HeldLevels
  <2>4. LocksLevels(heap, stack[u], u, low, First(u))
    BY <1>6, Zenon DEF LockInvariantInsert
  <2> HIDE DEF low
  <2>5. LocksLevels(heap', stack[u], u, low, First(u))
    BY <1>1, <2>3, <2>4, Zenon DEF LocksLevels
  <2>6. AreCurrent(heap, stack[u], low, First(u)) => AreCurrent(heap', stack[u], low, First(u))
    BY <1>1, <2>3, Zenon DEF AreCurrent
  <2> QED BY <1>3, <1>5, <1>6, <2>2, <2>5, <2>6, Zenon DEF LockInvariantInsert, low
<1>7. ASSUME LockInvariantUpsert(u)
      PROVE  LockInvariantUpsert(u)'
  <2>1. PathOn(heap, stack[u])
    BY <1>7, Zenon DEF LockInvariantUpsert
  <2>2. PathOn(heap', stack'[u])
    BY <1>3, <2>1, SamePath
  <2>3. stack[u][Len(stack[u]) - 1].ptr.id \in DOMAIN heap
    BY <2>1 DEF PathOn
  <2> QED BY <1>1, <1>3, <1>7, <2>2, <2>3, Zenon DEF LockInvariantUpsert
<1> QED BY <1>3, <1>4, <1>6, <1>7, Zenon DEF LockInvariantOf

-----------------------------------------------------------------------------
(* What a step does to the data of the threads                             *)

SameKeys ==
  /\ DOMAIN call' = Threads
  /\ \A u \in Threads : /\ {"key", "value"} \subseteq DOMAIN call'[u]
                        /\ call'[u].key = call[u].key /\ call'[u].value = call[u].value

\* Apart from the thread that takes the step nobody moves.
LocalMove(t) ==
  /\ DOMAIN call' = Threads /\ DOMAIN stack' = Threads /\ DOMAIN pending' = Threads
  /\ \A u \in Threads : /\ {"key", "value"} \subseteq DOMAIN call'[u]
                        /\ {"loc", "ptr", "after", "expected"} \subseteq DOMAIN pending'[u]
  /\ \A u \in Threads : u # t =>
       /\ pc'[u] = pc[u] /\ mode'[u] = mode[u] /\ stack'[u] = stack[u]
       /\ pending'[u] = pending[u]
       /\ call'[u].key = call[u].key /\ call'[u].value = call[u].value

\* A step that leaves the calls alone leaves their keys.
LEMMA KeysUnchanged ==
  ASSUME LocalShape, UNCHANGED call
  PROVE  SameKeys
BY DEF LocalShape, SameKeys

\* So does the moment at which a write takes effect.
LEMMA KeysAfterWrite ==
  ASSUME LocalShape, NEW t, NEW r, call' = Index!CallsAfterWrite(t, r)
  PROVE  SameKeys
<1> DEFINE d(u) == IF call[u].pending /\ call[u].key = call[t].key
                   THEN [call[u] EXCEPT !.seen = @ \cup {call[t].value}] ELSE call[u]
           e(u) == IF u = t /\ ~call[u].wrote THEN [d(u) EXCEPT !.wrote = TRUE, !.old = r] ELSE d(u)
<1>1. call' = [u \in Threads |-> e(u)]
  BY Zenon DEF Index!CallsAfterWrite
<1>2. \A u \in Threads : /\ {"key", "value"} \subseteq DOMAIN d(u)
                        /\ d(u).key = call[u].key /\ d(u).value = call[u].value
  BY DEF LocalShape
<1> HIDE DEF d
<1>3. \A u \in Threads : /\ {"key", "value"} \subseteq DOMAIN e(u)
                        /\ e(u).key = call[u].key /\ e(u).value = call[u].value
  BY <1>2
<1> HIDE DEF e
<1> QED BY <1>1, <1>3 DEF SameKeys

\* So does a return.
LEMMA KeysAfterReturn ==
  ASSUME LocalShape, NEW t, NEW r, call' = Index!CallReturned(t, r)
  PROVE  SameKeys
<1> DEFINE c == [call[t] EXCEPT !.pending = FALSE, !.result = r]
<1>1. call' = [call EXCEPT ![t] = c]
  BY DEF Index!CallReturned
<1>2. t \in Threads => /\ {"key", "value"} \subseteq DOMAIN c
                       /\ c.key = call[t].key /\ c.value = call[t].value
  BY DEF LocalShape
<1> HIDE DEF c
<1> QED BY <1>1, <1>2 DEF LocalShape, SameKeys

\* The plan that says there is nothing to write has the fields of a plan.
LEMMA NoWriteFields == {"loc", "ptr", "after", "expected"} \subseteq DOMAIN NoWrite
BY DEF NoWrite

\* Going to a label moves one thread.
LEMMA GotoIs ==
  ASSUME Typed, NEW t \in Threads, NEW label, Goto(t, label)
  PROVE  pc'[t] = label /\ \A u \in Threads : u # t => pc'[u] = pc[u]
<1>1. DOMAIN pc = Threads
  BY DEF Typed
<1> QED BY <1>1 DEF Goto

\* The thread-local data of a call is gone.
LEMMA DroppedIs ==
  ASSUME LocalShape, NEW t \in Threads, stack' = [stack EXCEPT ![t] = << >>],
         pending' = [pending EXCEPT ![t] = NoWrite]
  PROVE  /\ DOMAIN stack' = Threads /\ DOMAIN pending' = Threads
         /\ \A u \in Threads : {"loc", "ptr", "after", "expected"} \subseteq DOMAIN pending'[u]
         /\ \A u \in Threads : u # t => stack'[u] = stack[u] /\ pending'[u] = pending[u]
<1>1. DOMAIN stack = Threads /\ DOMAIN pending = Threads
      /\ \A u \in Threads : {"loc", "ptr", "after", "expected"} \subseteq DOMAIN pending[u]
  BY DEF LocalShape
<1>2. DOMAIN stack' = Threads /\ DOMAIN pending' = Threads
  BY <1>1
<1>3. \A u \in Threads : u # t => stack'[u] = stack[u] /\ pending'[u] = pending[u]
  BY <1>1
<1>4. pending'[t] = NoWrite
  BY <1>1
<1> HIDE DEF NoWrite
<1> QED BY <1>1, <1>2, <1>3, <1>4, NoWriteFields, Zenon

\* Returning from a call.
LEMMA FinishIs ==
  ASSUME Typed, LocalShape, NEW t \in Threads, NEW r, Finish(t, r)
  PROVE  LocalMove(t) /\ pc'[t] = "idle"
<1>1. SameKeys
  BY KeysAfterReturn DEF Finish
<1>2. pc'[t] = "idle" /\ \A u \in Threads : u # t => pc'[u] = pc[u]
  BY GotoIs DEF Finish
<1>3. mode' = mode
  BY DEF Finish
<1>4. /\ DOMAIN stack' = Threads /\ DOMAIN pending' = Threads
      /\ \A u \in Threads : {"loc", "ptr", "after", "expected"} \subseteq DOMAIN pending'[u]
      /\ \A u \in Threads : u # t => stack'[u] = stack[u] /\ pending'[u] = pending[u]
  BY DroppedIs DEF Finish
<1> QED BY <1>1, <1>2, <1>3, <1>4, Zenon DEF LocalMove, SameKeys

\* Starting again at the root.
LEMMA RetryIs ==
  ASSUME Typed, LocalShape, NEW t \in Threads, Retry(t), UNCHANGED call,
         \A u \in Threads : u # t => mode'[u] = mode[u]
  PROVE  LocalMove(t) /\ pc'[t] = "root"
<1>1. SameKeys
  BY KeysUnchanged
<1>2. pc'[t] = "root" /\ \A u \in Threads : u # t => pc'[u] = pc[u]
  BY GotoIs DEF Retry
<1>4. /\ DOMAIN stack' = Threads /\ DOMAIN pending' = Threads
      /\ \A u \in Threads : {"loc", "ptr", "after", "expected"} \subseteq DOMAIN pending'[u]
      /\ \A u \in Threads : u # t => stack'[u] = stack[u] /\ pending'[u] = pending[u]
  BY DroppedIs DEF Retry
<1> QED BY <1>1, <1>2, <1>4, Zenon DEF LocalMove, SameKeys

\* The end of an insert, which for upsert may be another round.
LEMMA FinishInsertIs ==
  ASSUME Typed, LocalShape, NEW t \in Threads, NEW r, FinishInsert(t, r)
  PROVE  LocalMove(t) /\ pc'[t] \in {"idle", "root"}
<1>1. CASE call[t].kind = "insert"
  BY <1>1, FinishIs DEF FinishInsert
<1>2. CASE call[t].kind # "insert"
  <2>1. /\ mode' = [mode EXCEPT ![t] = "upsert"] /\ Retry(t) /\ UNCHANGED call
    BY <1>2 DEF FinishInsert, Retry
  <2>2. \A u \in Threads : u # t => mode'[u] = mode[u]
    BY <2>1 DEF Typed
  <2> QED BY <2>1, <2>2, RetryIs
<1> QED BY <1>1, <1>2

\* The end of insertNewValue.
LEMMA FinishNewValueIs ==
  ASSUME Typed, LocalShape, NEW t \in Threads, FinishNewValue(t)
  PROVE  LocalMove(t) /\ pc'[t] \in {"idle", "root"}
<1>1. CASE mode[t] = "insert"
  BY <1>1, FinishInsertIs DEF FinishNewValue
<1>2. CASE mode[t] # "insert"
  BY <1>2, FinishIs DEF FinishNewValue
<1> QED BY <1>1, <1>2

-----------------------------------------------------------------------------
(* The steps of a call that hold no lock                                   *)

HeldMove(t) == DOMAIN held' = Threads /\ \A u \in Threads : u # t => held'[u] = held[u]

\* What every step of a thread is shown to be.
Careful(t) ==
  /\ LocalMove(t) /\ HeldMove(t)
  /\ SameShape(heap, heap') /\ RespectsLocks(t, heap, heap')
  /\ LockInvariantOf(t)'

CalmLabels == {"idle", "root", "pair", "cas", "swapped", "fault"}

\* At these labels no lock is held.
LEMMA LabelsDiffer ==
  \A x : x \in CalmLabels \cup {"descend", "lock leaf"} =>
    x \notin LockingLabels /\ x \notin {"overwrite", "unlock leaf"}
<1>1. \A x : x \in CalmLabels \cup {"descend", "lock leaf"} =>
        \/ x = "idle" \/ x = "root" \/ x = "pair" \/ x = "cas" \/ x = "swapped" \/ x = "fault"
        \/ x = "descend" \/ x = "lock leaf"
  BY Zenon DEF CalmLabels
<1>2. \A x : x \in LockingLabels =>
        \/ x = "lock" \/ x = "validate" \/ x = "publish" \/ x = "mark" \/ x = "unlock"
        \/ x = "release"
  BY Zenon DEF LockingLabels
<1> QED BY <1>1, <1>2, Zenon

\* There the invariant asks for nothing else.
LEMMA CalmIsEasy ==
  ASSUME NEW t, pc'[t] \in CalmLabels, held'[t] = 0
  PROVE  LockInvariantOf(t)'
<1>1. pc'[t] \notin LockingLabels /\ pc'[t] \notin {"overwrite", "unlock leaf"}
  BY LabelsDiffer, Zenon
<1>2. pc'[t] # "descend" /\ pc'[t] # "lock leaf"
  BY Zenon DEF CalmLabels
<1>3. pc'[t] \notin LeafLabels
  BY <1>1, <1>2, Zenon DEF LeafLabels
<1> QED BY <1>1, <1>2, <1>3, Zenon DEF LockInvariantOf

\* A step that leaves the heap alone respects all locks.
LEMMA HeapUnchanged ==
  ASSUME NEW t, UNCHANGED heap
  PROVE  SameShape(heap, heap') /\ RespectsLocks(t, heap, heap')
BY Zenon DEF SameShape, RespectsLocks

\* And one that leaves the counters of locks alone.
LEMMA HeldUnchanged ==
  ASSUME LocalShape, NEW t, UNCHANGED held
  PROVE  HeldMove(t)
BY DEF LocalShape, HeldMove

\* A step without locks that leads to a place without locks.
LEMMA CalmStep ==
  ASSUME LockInvariant, NEW t \in Threads, pc[t] \in CalmLabels \cup {"descend"},
         UNCHANGED held, LocalMove(t), pc'[t] \in CalmLabels,
         SameShape(heap, heap'), RespectsLocks(t, heap, heap')
  PROVE  Careful(t)
<1>1. LockInvariantOf(t) /\ LocalShape
  BY DEF LockInvariant
<1>2. pc[t] \notin LockingLabels \cup {"overwrite", "unlock leaf"}
  BY LabelsDiffer, Zenon
<1>3. held'[t] = 0
  BY <1>1, <1>2, Zenon DEF LockInvariantOf
<1> QED BY <1>1, <1>3, CalmIsEasy, HeldUnchanged DEF Careful

\* Only what the thread is about to write changes.
LEMMA PendingMove ==
  ASSUME LocalShape, NEW t \in Threads, NEW p,
         {"loc", "ptr", "after", "expected"} \subseteq DOMAIN p,
         pending' = [pending EXCEPT ![t] = p] \/ pending' = pending,
         SameKeys, UNCHANGED stack, \A u \in Threads : u # t => mode'[u] = mode[u],
         \A u \in Threads : u # t => pc'[u] = pc[u]
  PROVE  LocalMove(t)
<1>1. DOMAIN stack = Threads /\ DOMAIN pending = Threads
      /\ \A u \in Threads : {"loc", "ptr", "after", "expected"} \subseteq DOMAIN pending[u]
  BY DEF LocalShape
<1>2. /\ DOMAIN pending' = Threads
      /\ pending'[t] = p \/ pending'[t] = pending[t]
      /\ \A u \in Threads : u # t => pending'[u] = pending[u]
  BY <1>1
<1>3. \A u \in Threads : {"loc", "ptr", "after", "expected"} \subseteq DOMAIN pending'[u]
  BY <1>1, <1>2, Zenon
<1> QED BY <1>1, <1>2, <1>3, Zenon DEF LocalMove, SameKeys

\* Calling an operation.
LEMMA InvokeIsCareful ==
  ASSUME Typed, LockInvariant, NEW t \in Threads, Invoke(t)
  PROVE  Careful(t)
<1>1. LocalShape
  BY DEF LockInvariant
<1>2. PICK c \in Head(calls[t]) :
        /\ call' = [call EXCEPT ![t] = Index!NewCall(c.kind, c.key, c.value, Contents[c.key])]
        /\ mode' = [mode EXCEPT ![t] = c.kind]
  BY Zenon DEF Invoke
<1>3. pc[t] = "idle" /\ Goto(t, "root") /\ UNCHANGED << root, heap, stack, held, pending >>
  BY Zenon DEF Invoke
<1>4. pc'[t] = "root" /\ \A u \in Threads : u # t => pc'[u] = pc[u]
  BY <1>3, GotoIs
<1>5. \A u \in Threads : u # t => mode'[u] = mode[u]
  BY <1>2 DEF Typed
<1> DEFINE n == Index!NewCall(c.kind, c.key, c.value, Contents[c.key])
<1>6. {"key", "value"} \subseteq DOMAIN n
  BY DEF Index!NewCall
<1>7. call' = [call EXCEPT ![t] = n]
  BY <1>2
<1> HIDE DEF n
<1>8. /\ DOMAIN call' = Threads
      /\ \A u \in Threads :
           /\ {"key", "value"} \subseteq DOMAIN call'[u]
           /\ u # t => call'[u].key = call[u].key /\ call'[u].value = call[u].value
  BY <1>1, <1>6, <1>7 DEF LocalShape
<1>9. LocalMove(t)
  BY <1>1, <1>3, <1>4, <1>5, <1>8, Zenon DEF LocalMove, LocalShape
<1>10. pc[t] \in CalmLabels /\ pc'[t] \in CalmLabels
  BY <1>3, <1>4 DEF CalmLabels
<1> QED BY <1>3, <1>9, <1>10, CalmStep, HeapUnchanged

\* Loading a root that is a leaf.
LEMMA LoadRootLeafIsCareful ==
  ASSUME Typed, LockInvariant, NEW t \in Threads, LoadRootLeaf(t)
  PROVE  Careful(t)
<1>1. LocalShape
  BY DEF LockInvariant
<1>2. pc[t] = "root" /\ UNCHANGED heap /\ UNCHANGED held
  BY Zenon DEF LoadRootLeaf
<1>3. DOMAIN mode = Threads
  BY DEF Typed
<1> SUFFICES LocalMove(t) /\ pc'[t] \in CalmLabels
  <2>1. pc[t] \in CalmLabels
    BY <1>2 DEF CalmLabels
  <2> QED BY <1>2, <2>1, CalmStep, HeapUnchanged
<1>4. ASSUME NEW r, Finish(t, r) \/ FinishInsert(t, r)
      PROVE  LocalMove(t) /\ pc'[t] \in CalmLabels
  BY <1>1, <1>4, FinishIs, FinishInsertIs DEF CalmLabels
<1>5. ASSUME NEW label \in {"pair", "cas"}, Goto(t, label), UNCHANGED << call, mode, stack >>,
             \/ pending' = [pending EXCEPT ![t].expected = root]
             \/ pending' = [pending EXCEPT ![t].expected = root, ![t].ptr = NewLeaf(t)]
      PROVE  LocalMove(t) /\ pc'[t] \in CalmLabels
  <2>1. \E p : /\ {"loc", "ptr", "after", "expected"} \subseteq DOMAIN p
               /\ pending' = [pending EXCEPT ![t] = p]
    <3>1. {"loc", "ptr", "after", "expected"} \subseteq DOMAIN pending[t]
      BY <1>1 DEF LocalShape
    <3> DEFINE p == [pending[t] EXCEPT !.expected = root]
               q == [pending[t] EXCEPT !.expected = root, !.ptr = NewLeaf(t)]
    <3>2. /\ {"loc", "ptr", "after", "expected"} \subseteq DOMAIN p
          /\ {"loc", "ptr", "after", "expected"} \subseteq DOMAIN q
      BY <3>1
    <3>3. pending' = [pending EXCEPT ![t] = p] \/ pending' = [pending EXCEPT ![t] = q]
      BY <1>1, <1>5 DEF LocalShape
    <3> QED BY <3>2, <3>3, Zenon
  <2>2. pc'[t] = label /\ \A u \in Threads : u # t => pc'[u] = pc[u]
    BY <1>5, GotoIs
  <2>3. SameKeys
    BY <1>1, <1>5, KeysUnchanged
  <2>4. LocalMove(t)
    BY <1>1, <1>5, <2>1, <2>2, <2>3, PendingMove
  <2> QED BY <2>2, <2>4 DEF CalmLabels
<1>6. ASSUME mode' = [mode EXCEPT ![t] = "insert"], UNCHANGED << call, pc, stack, pending >>
      PROVE  LocalMove(t) /\ pc'[t] \in CalmLabels
  <2>1. \A u \in Threads : u # t => mode'[u] = mode[u]
    BY <1>3, <1>6
  <2>2. LocalMove(t)
    BY <1>1, <1>6, <2>1, Zenon DEF LocalMove, LocalShape
  <2> QED BY <1>2, <1>6, <2>2 DEF CalmLabels
<1> QED BY <1>4, <1>5, <1>6, Zenon DEF LoadRootLeaf

\* Loading an empty root.
LEMMA LoadEmptyRootIsCareful ==
  ASSUME Typed, LockInvariant, NEW t \in Threads, LoadEmptyRoot(t)
  PROVE  Careful(t)
<1>1. LocalShape
  BY DEF LockInvariant
<1>2. pc[t] = "root" /\ UNCHANGED << heap, call, mode, stack, held >>
  BY Zenon DEF LoadEmptyRoot
<1>3. SameKeys
  BY <1>1, <1>2, KeysUnchanged
<1>4. PICK label \in {"fault", "cas"} : Goto(t, label)
  BY Zenon DEF LoadEmptyRoot
<1>5. pc'[t] = label /\ \A u \in Threads : u # t => pc'[u] = pc[u]
  BY <1>4, GotoIs
<1> DEFINE p == [pending[t] EXCEPT !.expected = root, !.ptr = NewLeaf(t)]
<1>6. {"loc", "ptr", "after", "expected"} \subseteq DOMAIN p
  BY <1>1 DEF LocalShape
<1>7. pending' = [pending EXCEPT ![t] = p] \/ pending' = pending
  BY <1>1 DEF LocalShape, LoadEmptyRoot
<1> HIDE DEF p
<1>8. LocalMove(t)
  BY <1>1, <1>2, <1>3, <1>5, <1>6, <1>7, PendingMove
<1>9. pc[t] \in CalmLabels /\ pc'[t] \in CalmLabels
  BY <1>2, <1>5 DEF CalmLabels
<1> QED BY <1>2, <1>8, <1>9, CalmStep, HeapUnchanged

\* Building the node of two entries for a root that is a leaf.
LEMMA PairWithRootLeafIsCareful ==
  ASSUME Typed, Typed', LockInvariant, NEW t \in Threads, PairWithRootLeaf(t)
  PROVE  Careful(t)
<1>1. LocalShape
  BY DEF LockInvariant
<1>2. pc[t] = "pair" /\ Goto(t, "cas") /\ UNCHANGED << call, mode, stack, held >>
  BY Zenon DEF PairWithRootLeaf
<1>3. \E content : /\ heap' = Allocate(heap, content).heap
                   /\ pending' = [pending EXCEPT ![t].ptr = Allocate(heap, content).ptr]
  BY Zenon DEF PairWithRootLeaf
<1>4. Grown(heap, heap')
  BY <1>3, TypeOfNodes, GrownAllocate
<1>5. PICK q : pending' = [pending EXCEPT ![t].ptr = q]
  BY <1>3, Zenon
<1>6. SameKeys
  BY <1>1, <1>2, KeysUnchanged
<1>7. pc'[t] = "cas" /\ \A u \in Threads : u # t => pc'[u] = pc[u]
  BY <1>2, GotoIs
<1> DEFINE p == [pending[t] EXCEPT !.ptr = q]
<1>8. {"loc", "ptr", "after", "expected"} \subseteq DOMAIN p
  BY <1>1 DEF LocalShape
<1>9. pending' = [pending EXCEPT ![t] = p]
  BY <1>1, <1>5 DEF LocalShape
<1> HIDE DEF p
<1>10. LocalMove(t)
  BY <1>1, <1>2, <1>6, <1>7, <1>8, <1>9, PendingMove
<1>11. pc[t] \in CalmLabels /\ pc'[t] \in CalmLabels
  BY <1>2, <1>7 DEF CalmLabels
<1> QED BY <1>2, <1>4, <1>10, <1>11, CalmStep, GrownIsSameShape

\* The compare-and-swap on the root.
LEMMA CompareAndSwapRootIsCareful ==
  ASSUME Typed, LockInvariant, NEW t \in Threads, CompareAndSwapRoot(t)
  PROVE  Careful(t)
<1>1. LocalShape
  BY DEF LockInvariant
<1>2. pc[t] = "cas" /\ UNCHANGED heap /\ UNCHANGED held
  BY Zenon DEF CompareAndSwapRoot
<1> SUFFICES LocalMove(t) /\ pc'[t] \in CalmLabels
  <2>1. pc[t] \in CalmLabels
    BY <1>2 DEF CalmLabels
  <2> QED BY <1>2, <2>1, CalmStep, HeapUnchanged
<1>3. ASSUME Retry(t), UNCHANGED << call, mode >>
      PROVE  LocalMove(t) /\ pc'[t] \in CalmLabels
  BY <1>1, <1>3, RetryIs DEF CalmLabels
<1>4. ASSUME call' = Index!CallsAfterWrite(t, Contents[Key(t)]), Goto(t, "swapped"),
             UNCHANGED << mode, stack, pending >>
      PROVE  LocalMove(t) /\ pc'[t] \in CalmLabels
  <2>1. SameKeys
    BY <1>1, <1>4, KeysAfterWrite
  <2>2. pc'[t] = "swapped" /\ \A u \in Threads : u # t => pc'[u] = pc[u]
    BY <1>4, GotoIs
  <2>3. LocalMove(t)
    BY <1>1, <1>4, <2>1, <2>2, Zenon DEF LocalMove, LocalShape, SameKeys
  <2> QED BY <2>2, <2>3 DEF CalmLabels
<1> QED BY <1>3, <1>4, Zenon DEF CompareAndSwapRoot

\* Returning after it, or starting again.
LEMMA ReturnAfterSwapIsCareful ==
  ASSUME Typed, LockInvariant, NEW t \in Threads, ReturnAfterSwap(t)
  PROVE  Careful(t)
<1>1. LocalShape
  BY DEF LockInvariant
<1>2. pc[t] = "swapped" /\ UNCHANGED heap /\ UNCHANGED held
  BY Zenon DEF ReturnAfterSwap
<1>3. \E r : Finish(t, r) \/ FinishInsert(t, r)
  BY Zenon DEF ReturnAfterSwap
<1>4. LocalMove(t) /\ pc'[t] \in CalmLabels
  BY <1>1, <1>3, FinishIs, FinishInsertIs DEF CalmLabels
<1>5. pc[t] \in CalmLabels
  BY <1>2 DEF CalmLabels
<1> QED BY <1>2, <1>4, <1>5, CalmStep, HeapUnchanged

\* The search of a node finds one of its entries: the first partial key is empty.
LEMMA SearchFindsAnEntry ==
  ASSUME NEW h, NEW P, TypedNodes(h, P), NEW id \in DOMAIN h, NEW key
  PROVE  Search(h[id], key) \in DOMAIN h[id].ptrs
<1> DEFINE found == { i \in DOMAIN h[id].keys : h[id].keys[i] \subseteq key }
<1>1. /\ h[id].ptrs \in Seq(P) /\ h[id].keys \in Seq(SUBSET Bits)
      /\ Len(h[id].keys) = Len(h[id].ptrs) /\ Len(h[id].ptrs) \in 2 .. MaxEntries
      /\ h[id].keys[1] = {}
  BY DEF TypedNodes
<1>2. Len(h[id].keys) \in Nat /\ DOMAIN h[id].keys = 1 .. Len(h[id].keys) /\ Len(h[id].keys) >= 1
  BY <1>1
<1>3. 1 \in found
  BY <1>1, <1>2
<1>4. found \subseteq Nat /\ \A x \in found : x <= Len(h[id].keys)
  BY <1>2
<1> HIDE DEF found
<1>5. Max(found) \in found
  BY <1>2, <1>3, <1>4, MaxIsGreatest
<1>6. Max(found) \in DOMAIN h[id].keys
  BY <1>5 DEF found
<1>7. DOMAIN h[id].ptrs = DOMAIN h[id].keys
  BY <1>1, <1>2
<1> QED BY <1>6, <1>7, Zenon DEF Search, found

\* A pointer to a node leads to a node.
LEMMA PointersLead ==
  ASSUME NEW p \in Pointers, IsAValidNode(p)
  PROVE  p.id \in DOMAIN heap
<1>1. p # EmptyPointer
  BY DEF IsAValidNode, EmptyPointer
<1>2. \A k, v : p # LeafPointer(k, v)
  BY DEF IsAValidNode, LeafPointer
<1>3. PICK i \in DOMAIN heap : p = NodePointer(i)
  <2> DEFINE leaves == {LeafPointer(k, v) : k \in Keys, v \in Values}
             nodes == {NodePointer(i) : i \in DOMAIN heap}
  <2>1. Pointers = {EmptyPointer} \cup leaves \cup nodes
    BY DEF Pointers
  <2>2. p \notin leaves
    BY <1>2
  <2> HIDE DEF leaves
  <2>3. p \in nodes
    <3> HIDE DEF nodes
    <3> QED BY <1>1, <2>1, <2>2
  <2> QED BY <2>3
<1> QED BY <1>3 DEF NodePointer

-----------------------------------------------------------------------------
(* The descent                                                             *)

\* During the descent the invariant asks for a path.
LEMMA DescendIsEasy ==
  ASSUME NEW t, pc'[t] = "descend", held'[t] = 0, mode'[t] # "lookup" => Descent(heap', stack'[t])
  PROVE  LockInvariantOf(t)'
<1>1. "descend" \notin LockingLabels /\ "descend" \notin {"overwrite", "unlock leaf"}
  BY LabelsDiffer, Zenon
<1>2. "descend" # "lock leaf"
  BY Zenon
<1>3. "descend" \notin LeafLabels
  BY <1>1, <1>2, Zenon DEF LeafLabels
<1> QED BY <1>1, <1>3, Zenon DEF LockInvariantOf

\* Only the stack of the thread changes, and its place.
LEMMA StackMove ==
  ASSUME LocalShape, NEW t \in Threads, NEW s, stack' = [stack EXCEPT ![t] = s],
         UNCHANGED << call, mode, pending >>,
         \A u \in Threads : u # t => pc'[u] = pc[u]
  PROVE  LocalMove(t) /\ stack'[t] = s
<1>1. DOMAIN stack' = Threads /\ stack'[t] = s /\ \A u \in Threads : u # t => stack'[u] = stack[u]
  BY DEF LocalShape
<1> QED BY <1>1, Zenon DEF LocalMove, LocalShape

\* Loading a root that is a node.
LEMMA LoadRootNodeIsCareful ==
  ASSUME Typed, LockInvariant, NEW t \in Threads, LoadRootNode(t)
  PROVE  Careful(t)
<1>1. LocalShape /\ LockInvariantOf(t)
  BY DEF LockInvariant
<1>2. /\ pc[t] = "root" /\ IsAValidNode(root)
      /\ stack' = [stack EXCEPT ![t] = << EntryFor(RootLocation, root, Key(t)) >>]
      /\ Goto(t, "descend")
      /\ UNCHANGED << heap, call, mode, held, pending >>
  BY Zenon DEF LoadRootNode
<1>3. pc'[t] = "descend" /\ \A u \in Threads : u # t => pc'[u] = pc[u]
  BY <1>2, GotoIs
<1> DEFINE e == EntryFor(RootLocation, root, Key(t))
<1>4. /\ e.loc = RootLocation /\ e.ptr = root /\ e.entry = Search(heap[root.id], Key(t))
  BY <1>2 DEF EntryFor, StackEntry
<1>5. root.id \in DOMAIN heap
  BY <1>2, PointersLead DEF Typed
<1>6. Search(heap[root.id], Key(t)) \in DOMAIN heap[root.id].ptrs
  BY <1>5, TypeOfNodes, SearchFindsAnEntry
<1>7. stack' = [stack EXCEPT ![t] = << e >>]
  BY <1>2
<1> HIDE DEF e
<1>8. LocalMove(t) /\ stack'[t] = << e >>
  BY <1>1, <1>2, <1>3, <1>7, StackMove
<1>9. Descent(heap, << e >>)
  <2>1. << e >> \in Seq({e}) /\ Len(<< e >>) = 1 /\ << e >>[1] = e
    OBVIOUS
  <2>2. \A j \in 1 .. 1 : j = 1
    OBVIOUS
  <2>3. \A j \in 1 .. 1 - 1 : FALSE
    OBVIOUS
  <2>4. 1 >= 1
    OBVIOUS
  <2> QED BY <1>2, <1>4, <1>5, <1>6, <2>1, <2>2, <2>3, <2>4, Zenon DEF Descent
<1>10. held'[t] = 0
  <2>1. pc[t] \in CalmLabels
    BY <1>2 DEF CalmLabels
  <2>2. pc[t] \notin LockingLabels \cup {"overwrite", "unlock leaf"}
    BY <2>1, LabelsDiffer, Zenon
  <2> QED BY <1>1, <1>2, <2>2, Zenon DEF LockInvariantOf
<1>11. LockInvariantOf(t)'
  BY <1>2, <1>3, <1>8, <1>9, <1>10, DescendIsEasy
<1> QED BY <1>1, <1>2, <1>8, <1>11, HeapUnchanged, HeldUnchanged DEF Careful

\* The slot that the search found in the last node of a descent.
LEMMA NextOfDescent ==
  ASSUME Typed, NEW path, Descent(heap, path),
         NEW last, last = LeafEntry(path), NEW loc, loc = SlotLocation(last.ptr.id, last.entry)
  PROVE  ReadLocation(loc) \in Pointers
<1>1. Len(path) \in 1 .. Len(path)
  BY DEF Descent
<1>2. last.ptr.id \in DOMAIN heap /\ last.entry \in DOMAIN heap[last.ptr.id].ptrs
  BY <1>1 DEF Descent, LeafEntry
<1>3. TypedNodes(heap, Pointers \ {EmptyPointer})
  BY TypeOfNodes
<1>4. heap[last.ptr.id].ptrs[last.entry] \in Pointers \ {EmptyPointer}
  <2> DEFINE P == Pointers \ {EmptyPointer}
  <2>1. TypedNodes(heap, P)
    BY <1>3
  <2> HIDE DEF P
  <2>2. heap[last.ptr.id].ptrs \in Seq(P)
    BY <1>2, <2>1, Zenon DEF TypedNodes
  <2>3. heap[last.ptr.id].ptrs[last.entry] \in P
    BY <1>2, <2>2, ElementsOf
  <2> QED BY <2>3 DEF P
<1>5. last.ptr.id # 0
  <2>1. PICK S : heap \in Seq(S)
    BY <1>3 DEF TypedNodes
  <2> QED BY <1>2, <2>1
<1>6. loc # RootLocation /\ loc.id = last.ptr.id /\ loc.slot = last.entry
  BY <1>5 DEF SlotLocation, RootLocation
<1> QED BY <1>4, <1>6, Zenon DEF ReadLocation

\* The descent goes on to a node, or ends as a path at a leaf.
LEMMA DescentGoesOn ==
  ASSUME Typed, NEW path, Descent(heap, path), NEW p, NEW key,
         NEW loc, loc = SlotLocation(LeafEntry(path).ptr.id, LeafEntry(path).entry),
         p = ReadLocation(loc), NEW n
  PROVE  /\ (IsAValidNode(p) /\ n = EntryFor(loc, p, key)) => Descent(heap, Append(path, n))
         /\ n = StackEntry(loc, p, 0) => PathOn(heap, Append(path, n))
<1>1. PICK S : path \in Seq(S)
  BY DEF Descent
<1>2. Len(path) \in Nat /\ Len(path) >= 1
  BY <1>1 DEF Descent
<1> DEFINE s == Append(path, n)
<1>3. path \in Seq(S \cup {n})
  BY <1>1
<1>4. /\ s \in Seq(S \cup {n}) /\ Len(s) = Len(path) + 1
      /\ \A j \in 1 .. Len(path) : s[j] = path[j]
      /\ s[Len(path) + 1] = n
  BY <1>3, AppendProperties
<1>5. p \in Pointers
  BY NextOfDescent
<1> HIDE DEF s
<1>6. /\ \A j \in 1 .. Len(path) :
           /\ IsAValidNode(path[j].ptr) /\ path[j].ptr.id \in DOMAIN heap
           /\ path[j].entry \in DOMAIN heap[path[j].ptr.id].ptrs
      /\ \A j \in 1 .. Len(path) - 1 : path[j + 1].loc = SlotLocation(path[j].ptr.id, path[j].entry)
      /\ path[1].loc = RootLocation
  BY DEF Descent
<1>7. s[1] = path[1]
  BY <1>2, <1>4
<1>8. ASSUME n.loc = loc
      PROVE  \A j \in 1 .. Len(path) : s[j + 1].loc = SlotLocation(s[j].ptr.id, s[j].entry)
  <2> TAKE j \in 1 .. Len(path)
  <2>1. CASE j = Len(path)
    BY <1>2, <1>4, <1>8, <2>1 DEF LeafEntry
  <2>2. CASE j # Len(path)
    <3>1. j \in 1 .. Len(path) - 1 /\ j + 1 \in 1 .. Len(path)
      BY <1>2, <2>2
    <3> QED BY <1>4, <1>6, <3>1
  <2> QED BY <2>1, <2>2
<1>9. ASSUME IsAValidNode(p), n = EntryFor(loc, p, key)
      PROVE  Descent(heap, s)
  <2>1. n.loc = loc /\ n.ptr = p /\ n.entry = Search(heap[p.id], key)
    BY <1>9 DEF EntryFor, StackEntry
  <2>2. p.id \in DOMAIN heap
    BY <1>5, <1>9, PointersLead
  <2>3. n.entry \in DOMAIN heap[p.id].ptrs
    BY <2>1, <2>2, TypeOfNodes, SearchFindsAnEntry
  <2>4. \A j \in 1 .. Len(s) : j \in 1 .. Len(path) \/ j = Len(path) + 1
    BY <1>2, <1>4
  <2>5. \A j \in 1 .. Len(s) :
          /\ IsAValidNode(s[j].ptr) /\ s[j].ptr.id \in DOMAIN heap
          /\ s[j].entry \in DOMAIN heap[s[j].ptr.id].ptrs
    <3> TAKE j \in 1 .. Len(s)
    <3>1. CASE j \in 1 .. Len(path)
      BY <1>4, <1>6, <3>1, Zenon
    <3>2. CASE j = Len(path) + 1
      BY <1>4, <1>9, <2>1, <2>2, <2>3, <3>2, Zenon
    <3> QED BY <2>4, <3>1, <3>2
  <2>6. Len(s) >= 1 /\ Len(s) - 1 = Len(path)
    BY <1>2, <1>4
  <2> QED BY <1>4, <1>6, <1>7, <1>8, <2>1, <2>5, <2>6, Zenon DEF Descent
<1>10. ASSUME n = StackEntry(loc, p, 0)
       PROVE  PathOn(heap, s)
  <2>1. n.loc = loc
    BY <1>10 DEF StackEntry
  <2>2. Len(s) >= 2 /\ Len(s) - 1 = Len(path)
    BY <1>2, <1>4
  <2>3. \A j \in 1 .. Len(path) : IsAValidNode(s[j].ptr) /\ s[j].ptr.id \in DOMAIN heap
    BY <1>4, <1>6, Zenon
  <2> QED BY <1>4, <1>6, <1>7, <1>8, <2>1, <2>2, <2>3, Zenon DEF PathOn
<1> QED BY <1>9, <1>10 DEF s

\* The levels of a path after a step.
LEMMA NextLevelsOf ==
  ASSUME NEW t, PathOn(heap', stack'[t])
  PROVE  /\ Len(stack'[t]) \in Nat /\ First(t)' \in 1 .. Len(stack'[t]) - 1
         /\ Top(t)' \in 1 .. First(t)'
<1>1. Len(stack'[t]) \in Nat
  BY DEF PathOn
<1>2. Level(t)'.first \in 1 .. Len(stack'[t]) - 1 /\ Level(t)'.pushdown \in BOOLEAN
  BY InsertLevelIs DEF Level
<1>3. Level(t)'.first \in Nat \ {0}
  BY <1>1, <1>2
<1>4. Top(t)' \in 1 .. First(t)'
  BY <1>2, <1>3, TopLockLevelIs DEF Top, First
<1> QED BY <1>1, <1>2, <1>4 DEF First

\* Descending to a node.
LEMMA DescendToNodeIsCareful ==
  ASSUME Typed, LockInvariant, NEW t \in Threads, DescendToNode(t)
  PROVE  Careful(t)
<1>1. LocalShape /\ LockInvariantOf(t)
  BY DEF LockInvariant
<1> DEFINE last == LeafEntry(stack[t])
           loc == SlotLocation(last.ptr.id, last.entry)
           next == EntryFor(loc, ReadLocation(loc), Key(t))
           s == IF mode[t] = "lookup" THEN << next >> ELSE Append(stack[t], next)
<1>2. /\ pc[t] = "descend" /\ IsAValidNode(next.ptr)
      /\ stack' = [stack EXCEPT ![t] = IF mode[t] = "lookup" THEN << next >> ELSE Append(@, next)]
      /\ UNCHANGED << heap, call, pc, mode, held, pending >>
  BY Zenon DEF DescendToNode
<1>3. stack' = [stack EXCEPT ![t] = s]
  BY <1>1, <1>2 DEF LocalShape
<1>4. pc'[t] = "descend" /\ \A u \in Threads : u # t => pc'[u] = pc[u]
  BY <1>2
<1>5. next.ptr = ReadLocation(loc)
  BY DEF EntryFor, StackEntry
<1>6. mode[t] # "lookup" => Descent(heap, stack[t])
  BY <1>1, <1>2, Zenon DEF LockInvariantOf
<1>7. mode[t] # "lookup" => Descent(heap, s)
  BY <1>2, <1>5, <1>6, DescentGoesOn
<1> HIDE DEF s
<1>8. LocalMove(t) /\ stack'[t] = s
  BY <1>1, <1>2, <1>3, <1>4, StackMove
<1>9. held'[t] = 0
  <2>1. pc[t] \notin LockingLabels \cup {"overwrite", "unlock leaf"}
    BY <1>2, LabelsDiffer, Zenon
  <2> QED BY <1>1, <1>2, <2>1, Zenon DEF LockInvariantOf
<1>10. LockInvariantOf(t)'
  BY <1>2, <1>4, <1>7, <1>8, <1>9, DescendIsEasy
<1> QED BY <1>1, <1>2, <1>8, <1>10, HeapUnchanged, HeldUnchanged DEF Careful

ReadyLabels == {"lock", "lock leaf"}

\* A path that has just been read: nothing is locked.
LEMMA ReadyToLock ==
  ASSUME NEW t, PathOn(heap', stack'[t]), held'[t] = 0, pc'[t] \in ReadyLabels
  PROVE  LockInvariantOf(t)'
<1>1. /\ First(t)' \in Nat /\ Top(t)' \in Nat /\ Top(t)' <= First(t)'
  BY NextLevelsOf
<1>2. 0 \in 0 .. First(t)' - Top(t)' /\ \A i \in First(t)' - 0 + 1 .. First(t)' : FALSE
  BY <1>1
<1>3. CASE pc'[t] = "lock"
  <2>1. LocksLevels(heap', stack'[t], t, First(t)' - held'[t] + 1, First(t)')
    BY <1>2, Zenon DEF LocksLevels
  <2>2. AreCurrent(heap', stack'[t], First(t)' - held'[t] + 1, First(t)')
    BY <1>2, Zenon DEF AreCurrent
  <2>3. pc'[t] \notin {"validate", "publish", "mark"} /\ pc'[t] \notin {"unlock", "release"}
        /\ pc'[t] # "publish" /\ pc'[t] \notin {"publish", "mark"}
    BY <1>3, Zenon
  <2>4. LockInvariantInsert(t)'
    BY <1>2, <2>1, <2>2, <2>3, Zenon DEF LockInvariantInsert
  <2>5. pc'[t] # "descend" /\ pc'[t] \in LockingLabels /\ pc'[t] \notin LeafLabels
    BY <1>3, Zenon DEF LockingLabels, LeafLabels
  <2> QED BY <2>4, <2>5, Zenon DEF LockInvariantOf
<1>4. CASE pc'[t] = "lock leaf"
  <2>1. LockInvariantUpsert(t)'
    <3>1. pc'[t] # "overwrite"
      BY <1>4, Zenon
    <3> QED BY <1>4, <3>1, Zenon DEF LockInvariantUpsert
  <2>2. pc'[t] # "descend" /\ pc'[t] \notin LockingLabels
    BY <1>4, Zenon DEF LockingLabels
  <2> QED BY <2>1, <2>2, Zenon DEF LockInvariantOf
<1> QED BY <1>3, <1>4, Zenon DEF ReadyLabels

\* Arriving at the leaf: returning, or starting to lock with no lock held.
LEMMA DescendToLeafIsCareful ==
  ASSUME Typed, LockInvariant, NEW t \in Threads, DescendToLeaf(t)
  PROVE  Careful(t)
<1>1. LocalShape /\ LockInvariantOf(t)
  BY DEF LockInvariant
<1> DEFINE last == LeafEntry(stack[t])
           loc == SlotLocation(last.ptr.id, last.entry)
           leaf == ReadLocation(loc)
           n == StackEntry(loc, leaf, 0)
           s == Append(stack[t], n)
<1>2. pc[t] = "descend" /\ UNCHANGED heap /\ UNCHANGED held
  BY Zenon DEF DescendToLeaf
<1>3. ASSUME NEW r, Finish(t, r) \/ FinishInsert(t, r)
      PROVE  Careful(t)
  <2>1. LocalMove(t) /\ pc'[t] \in CalmLabels
    BY <1>1, <1>3, FinishIs, FinishInsertIs DEF CalmLabels
  <2> QED BY <1>2, <2>1, CalmStep, HeapUnchanged
<1>4. ASSUME mode[t] # "lookup", stack' = [stack EXCEPT ![t] = Append(@, n)],
             NEW label, label \in ReadyLabels, Goto(t, label),
             UNCHANGED << call, mode, pending >>
      PROVE  Careful(t)
  <2>1. Descent(heap, stack[t])
    BY <1>1, <1>2, <1>4, Zenon DEF LockInvariantOf
  <2>2. PathOn(heap, s)
    BY <2>1, DescentGoesOn
  <2>3. stack' = [stack EXCEPT ![t] = s]
    BY <1>1, <1>4 DEF LocalShape
  <2>4. pc'[t] = label /\ \A u \in Threads : u # t => pc'[u] = pc[u]
    BY <1>4, GotoIs
  <2> HIDE DEF s
  <2>5. LocalMove(t) /\ stack'[t] = s
    BY <1>1, <1>4, <2>3, <2>4, StackMove
  <2>6. held'[t] = 0
    <3>1. pc[t] \notin LockingLabels \cup {"overwrite", "unlock leaf"}
      BY <1>2, LabelsDiffer, Zenon
    <3> QED BY <1>1, <1>2, <3>1, Zenon DEF LockInvariantOf
  <2>7. LockInvariantOf(t)'
    BY <1>2, <1>4, <2>2, <2>4, <2>5, <2>6, ReadyToLock
  <2> QED BY <1>1, <1>2, <2>5, <2>7, HeapUnchanged, HeldUnchanged DEF Careful
<1>5. \/ \E r : Finish(t, r) \/ FinishInsert(t, r)
      \/ /\ mode[t] # "lookup" /\ stack' = [stack EXCEPT ![t] = Append(@, n)]
         /\ \E label \in ReadyLabels : Goto(t, label)
         /\ UNCHANGED << call, mode, pending >>
  BY Zenon DEF DescendToLeaf, ReadyLabels
<1> QED BY <1>3, <1>4, <1>5, Zenon

-----------------------------------------------------------------------------
(* insertNewValue                                                          *)

\* At a label of the locking phase the invariant is that of an insert.
LEMMA StillLocking ==
  ASSUME NEW t, pc'[t] \in LockingLabels, LockInvariantInsert(t)'
  PROVE  LockInvariantOf(t)'
<1>1. pc'[t] # "descend" /\ pc'[t] \notin LeafLabels
  BY Zenon DEF LockingLabels, LeafLabels
<1> QED BY <1>1, Zenon DEF LockInvariantOf

LevelsExist(h, path, low, first) == \A i \in low .. first : path[i].ptr.id \in DOMAIN h

\* One more level, whose node nobody had locked.
LEMMA OneMoreLevel ==
  ASSUME NEW h, NEW g, NEW path, NEW t \in Threads, NEW low \in Nat, NEW first \in Nat,
         NEW id, id = path[low].ptr.id, h[id].lock = NoThread, ~h[id].obsolete,
         Relocked(h, g, id, t), LevelsExist(h, path, low + 1, first),
         LocksLevels(h, path, t, low + 1, first), AreCurrent(h, path, low + 1, first)
  PROVE  LocksLevels(g, path, t, low, first) /\ AreCurrent(g, path, low, first)
<1>1. \A i \in low .. first : i = low \/ i \in low + 1 .. first
  OBVIOUS
<1>2. t # NoThread
  BY NoThreadAssumption
<1>3. \A i \in low + 1 .. first : path[i].ptr.id # id /\ g[path[i].ptr.id] = h[path[i].ptr.id]
  BY <1>2, Zenon DEF LocksLevels, LevelsExist, Relocked
<1>4. \A i \in low .. first : g[path[i].ptr.id].lock = t /\ ~g[path[i].ptr.id].obsolete
  BY <1>1, <1>3, Zenon DEF LocksLevels, AreCurrent, Relocked
<1>5. \A i, j \in low .. first : i # j => path[i].ptr.id # path[j].ptr.id
  BY <1>1, <1>3, Zenon DEF LocksLevels
<1> QED BY <1>4, <1>5, Zenon DEF LocksLevels, AreCurrent

\* Taking the lock of the next level, or giving up because the node is obsolete.
LEMMA TryLockIsCareful ==
  ASSUME Typed, LockInvariant, NEW t \in Threads, TryLock(t)
  PROVE  Careful(t)
<1>1. LocalShape /\ LockInvariantOf(t)
  BY DEF LockInvariant
<1>2. pc[t] = "lock" /\ UNCHANGED << root, call, mode, calls >>
  BY Zenon DEF TryLock
<1>3. pc[t] \in LockingLabels
  BY <1>2 DEF LockingLabels
<1>4. LockInvariantInsert(t)
  BY <1>1, <1>3, Zenon DEF LockInvariantOf
<1>5. /\ PathOn(heap, stack[t])
      /\ LocksLevels(heap, stack[t], t, First(t) - held[t] + 1, First(t))
      /\ held[t] \in 0 .. First(t) - Top(t)
      /\ AreCurrent(heap, stack[t], First(t) - held[t] + 1, First(t))
  BY <1>2, <1>4, Zenon DEF LockInvariantInsert
<1>6. /\ First(t) \in Nat /\ Top(t) \in Nat /\ 1 <= Top(t) /\ Top(t) <= First(t)
      /\ \A i \in 1 .. First(t) : stack[t][i].ptr.id \in DOMAIN heap
  BY <1>5, LevelsOf
<1>7. held[t] \in Nat /\ held[t] <= First(t) - Top(t)
  BY <1>5, <1>6
<1> DEFINE low == First(t) - held[t]
           id == stack[t][low].ptr.id
<1>8. id = NextToLock(t)
  BY DEF NextToLock, First
<1>9. low \in Nat /\ low \in 1 .. First(t) /\ low >= Top(t) /\ low + 1 = First(t) - held[t] + 1
  BY <1>6, <1>7
<1>10. id \in DOMAIN heap
  BY <1>6, <1>9
<1> HIDE DEF low, id
<1>11. SameKeys
  BY <1>1, <1>2, KeysUnchanged
<1>12. CASE heap[id].obsolete /\ held[t] = 0 /\ Retry(t) /\ UNCHANGED << heap, held >>
  <2>1. LocalMove(t) /\ pc'[t] = "root"
    BY <1>1, <1>2, <1>12, RetryIs
  <2>2. LockInvariantOf(t)'
    BY <1>12, <2>1, CalmIsEasy DEF CalmLabels
  <2> QED BY <1>1, <1>12, <2>1, <2>2, HeapUnchanged, HeldUnchanged DEF Careful
<1>13. CASE heap[id].obsolete /\ held[t] # 0 /\ Goto(t, "release") /\ UNCHANGED << stack, pending, heap, held >>
  <2>1. pc'[t] = "release" /\ \A u \in Threads : u # t => pc'[u] = pc[u]
    BY <1>13, GotoIs
  <2>2. LocalMove(t)
    BY <1>1, <1>2, <1>11, <1>13, <2>1, Zenon DEF LocalMove, LocalShape, SameKeys
  <2>3. SameShape(heap, heap') /\ RespectsLocks(t, heap, heap')
    BY <1>13, HeapUnchanged
  <2>4. First(t)' = First(t) /\ Top(t)' = Top(t) /\ PathOn(heap', stack'[t])
    BY <1>2, <1>5, <1>13, <2>3, LevelsAreKept
  <2>5. held[t] \in 1 .. First(t) - Top(t) + 1
    BY <1>6, <1>7, <1>13
  <2>6. LockInvariantInsert(t)'
    <3>1. pc'[t] # "lock" /\ pc'[t] \notin {"validate", "publish", "mark"} /\ pc'[t] # "publish"
          /\ pc'[t] \notin {"lock", "validate"} /\ pc'[t] \notin {"publish", "mark"}
      BY <2>1, Zenon
    <3>2. LocksLevels(heap', stack'[t], t, First(t)' - held'[t] + 1, First(t)')
      BY <1>5, <1>13, <2>4, Zenon
    <3> QED BY <1>13, <2>4, <2>5, <3>1, <3>2, Zenon DEF LockInvariantInsert
  <2>7. pc'[t] \in LockingLabels
    BY <2>1 DEF LockingLabels
  <2> QED BY <1>1, <1>13, <2>2, <2>3, <2>6, <2>7, StillLocking, HeldUnchanged DEF Careful
<1>14. CASE /\ ~heap[id].obsolete /\ heap[id].lock = NoThread
            /\ heap' = [heap EXCEPT ![id].lock = t]
            /\ held' = [held EXCEPT ![t] = @ + 1]
            /\ IF low = Top(t) THEN Goto(t, "validate") ELSE UNCHANGED pc
            /\ UNCHANGED << stack, pending >>
  <2>1. \/ low = Top(t) /\ pc'[t] = "validate"
        \/ low # Top(t) /\ pc'[t] = "lock"
    <3>1. CASE low = Top(t)
      <4>1. Goto(t, "validate")
        BY <1>14, <3>1, Zenon
      <4>2. pc'[t] = "validate"
        BY <4>1, GotoIs
      <4> QED BY <3>1, <4>2, Zenon
    <3>2. CASE low # Top(t)
      BY <1>2, <1>14, <3>2, Zenon
    <3> QED BY <3>1, <3>2
  <2>15. stack'[t] = stack[t] /\ ~heap[id].obsolete /\ heap[id].lock = NoThread
    BY <1>14, Zenon
  <2>16. LockSet(heap, heap', id, t)
    BY <1>14, Zenon DEF LockSet
  <2>2. \A u \in Threads : u # t => pc'[u] = pc[u]
    BY <1>14, GotoIs
  <2>3. LocalMove(t)
    BY <1>1, <1>2, <1>11, <1>14, <2>2, Zenon DEF LocalMove, LocalShape, SameKeys
  <2>4. HeldMove(t) /\ held'[t] = held[t] + 1
    BY <1>1, <1>14 DEF HeldMove, LocalShape
  <2>5. SameShape(heap, heap') /\ RespectsLocks(t, heap, heap') /\ Relocked(heap, heap', id, t)
    BY <1>10, <2>15, <2>16, SetLock
  <2>17. call'[t].key = call[t].key
    BY <1>2
  <2>6. First(t)' = First(t) /\ Top(t)' = Top(t) /\ PathOn(heap', stack'[t])
    BY <1>5, <2>5, <2>15, <2>17, LevelsAreKept, Zenon
  <2>7. LevelsExist(heap, stack[t], low + 1, First(t))
    BY <1>6, <1>9 DEF LevelsExist
  <2>8. /\ LocksLevels(heap, stack[t], t, low + 1, First(t))
        /\ AreCurrent(heap, stack[t], low + 1, First(t))
    BY <1>5, <1>9, Zenon
  <2>9. First(t) - (held[t] + 1) + 1 = low
    BY <1>6, <1>7 DEF low
  <2>10. id = stack[t][low].ptr.id
    BY DEF id
  <2>11. LocksLevels(heap', stack[t], t, low, First(t)) /\ AreCurrent(heap', stack[t], low, First(t))
    BY <1>6, <1>9, <2>15, <2>5, <2>7, <2>8, <2>10, OneMoreLevel
  <2>12. /\ low = Top(t) => held[t] + 1 = First(t) - Top(t) + 1
         /\ low # Top(t) => held[t] + 1 \in 0 .. First(t) - Top(t)
    BY <1>6, <1>7, <1>9 DEF low
  <2>13. LockInvariantInsert(t)'
    <3>1. pc'[t] # "publish" /\ pc'[t] \notin {"unlock", "release"} /\ pc'[t] \notin {"publish", "mark"}
      BY <2>1, Zenon
    <3>2. pc'[t] = "lock" => held'[t] \in 0 .. First(t)' - Top(t)'
      BY <2>1, <2>4, <2>6, <2>12, Zenon
    <3>3. pc'[t] \in {"validate", "publish", "mark"} => held'[t] = First(t)' - Top(t)' + 1
      BY <2>1, <2>4, <2>6, <2>12, Zenon
    <3>4. /\ LocksLevels(heap', stack'[t], t, First(t)' - held'[t] + 1, First(t)')
          /\ AreCurrent(heap', stack'[t], First(t)' - held'[t] + 1, First(t)')
      BY <1>14, <2>4, <2>6, <2>9, <2>11, Zenon
    <3> QED BY <2>6, <3>1, <3>2, <3>3, <3>4, Zenon DEF LockInvariantInsert
  <2>14. pc'[t] \in LockingLabels
    BY <2>1 DEF LockingLabels
  <2> QED BY <2>3, <2>4, <2>5, <2>13, <2>14, StillLocking DEF Careful
<1> QED BY <1>8, <1>12, <1>13, <1>14, Zenon DEF TryLock, First, Top, low

\* The levels that are locked stay so while locks are neither taken nor given back.
LEMMA LocksAreKept ==
  ASSUME NEW t, pc[t] \in LockingLabels, LockInvariantInsert(t), SameShape(heap, heap'),
         stack'[t] = stack[t], held'[t] = held[t], call'[t].key = call[t].key,
         \A i \in DOMAIN heap : heap'[i].lock = heap[i].lock
  PROVE  /\ First(t)' = First(t) /\ Top(t)' = Top(t) /\ PathOn(heap', stack'[t])
         /\ LocksLevels(heap', stack'[t], t, First(t)' - held'[t] + 1, First(t)')
<1>1. PathOn(heap, stack[t]) /\ LocksLevels(heap, stack[t], t, First(t) - held[t] + 1, First(t))
  BY Zenon DEF LockInvariantInsert
<1>2. First(t)' = First(t) /\ Top(t)' = Top(t) /\ PathOn(heap', stack'[t])
  BY <1>1, LevelsAreKept
<1> DEFINE low == First(t) - held[t] + 1
<1>3. \A i \in low .. First(t) : stack[t][i].ptr.id \in DOMAIN heap
  BY HeldLevels
<1>4. LocksLevels(heap, stack[t], t, low, First(t))
  BY <1>1
<1> HIDE DEF low
<1>5. LocksLevels(heap', stack[t], t, low, First(t))
  BY <1>3, <1>4, Zenon DEF LocksLevels
<1> QED BY <1>2, <1>5, Zenon DEF low

\* From validation on to the marking of what was replaced every level is locked.
LEMMA AllLevelsLocked ==
  ASSUME NEW t, pc[t] \in {"validate", "publish", "mark"}, LockInvariantInsert(t)
  PROVE  /\ held[t] = First(t) - Top(t) + 1 /\ First(t) - held[t] + 1 = Top(t)
         /\ First(t) \in Nat /\ Top(t) \in Nat /\ 1 <= Top(t) /\ Top(t) <= First(t)
         /\ LevelsExist(heap, stack[t], Top(t), First(t))
         /\ LocksLevels(heap, stack[t], t, Top(t), First(t))
         /\ pc[t] = "validate" => AreCurrent(heap, stack[t], Top(t), First(t))
<1>1. /\ held[t] = First(t) - Top(t) + 1 /\ PathOn(heap, stack[t])
      /\ LocksLevels(heap, stack[t], t, First(t) - held[t] + 1, First(t))
      /\ pc[t] = "validate" => AreCurrent(heap, stack[t], First(t) - held[t] + 1, First(t))
  BY Zenon DEF LockInvariantInsert
<1>8. PathOn(heap, stack[t])
  BY <1>1, Zenon
<1>2. /\ First(t) \in Nat /\ Top(t) \in Nat /\ 1 <= Top(t) /\ Top(t) <= First(t)
      /\ \A i \in 1 .. First(t) : stack[t][i].ptr.id \in DOMAIN heap
  BY <1>8, LevelsOf
<1>3. First(t) - held[t] + 1 = Top(t)
  BY <1>1, <1>2
<1>4. \A i \in Top(t) .. First(t) : i \in 1 .. First(t)
  BY <1>2
<1>5. LevelsExist(heap, stack[t], Top(t), First(t))
  BY <1>2, <1>4, Zenon DEF LevelsExist
<1>6. /\ LocksLevels(heap, stack[t], t, Top(t), First(t))
      /\ pc[t] = "validate" => AreCurrent(heap, stack[t], Top(t), First(t))
  BY <1>1, <1>3, Zenon
<1>7. held[t] = First(t) - Top(t) + 1
  BY <1>1, Zenon
<1> QED BY <1>2, <1>3, <1>5, <1>6, <1>7

\* The plan of an insert whose levels are locked and current: what it retires before it
\* is published is the writer's, and so is, then, what it writes and retires after that.
LEMMA PlanIsOwned ==
  ASSUME NEW h, NEW g, NEW path, NEW t, NEW top, NEW first, NEW plan,
         Covered(path, top, first, plan), PathOn(h, path), top \in 1 .. first, first \in 1 .. Len(path) - 1,
         LevelsExist(h, path, top, first), LocksLevels(h, path, t, top, first),
         AreCurrent(h, path, top, first), DOMAIN h \subseteq DOMAIN g,
         \A i \in DOMAIN h : g[i].lock = h[i].lock,
         \A i \in DOMAIN h : i \notin plan.before => g[i].obsolete = h[i].obsolete
  PROVE  /\ plan.loc = RootLocation \/ Holds(g, t, plan.loc.id)
         /\ \A id \in plan.after : Holds(g, t, id)
<1>1. PICK B \in SUBSET (top .. first), A \in SUBSET (top .. first), k \in 1 .. Len(path) :
        /\ B \cap A = {}
        /\ plan.before = { path[i].ptr.id : i \in B }
        /\ plan.after = { path[i].ptr.id : i \in A }
        /\ plan.loc = path[k].loc
        /\ k = 1 \/ k - 1 \in (top .. first) \ B
  BY Zenon DEF Covered
<1>2. \A i \in top .. first : i \notin B => Holds(g, t, path[i].ptr.id)
  <2> TAKE i \in top .. first
  <2> HAVE i \notin B
  <2>1. path[i].ptr.id \notin plan.before
    <3>1. \A j \in B : j \in top .. first /\ j # i
      OBVIOUS
    <3>2. \A j \in B : path[i].ptr.id # path[j].ptr.id
      BY <3>1, Zenon DEF LocksLevels
    <3> QED BY <1>1, <3>2
  <2>2. path[i].ptr.id \in DOMAIN h /\ h[path[i].ptr.id].lock = t /\ ~h[path[i].ptr.id].obsolete
    BY Zenon DEF LevelsExist, LocksLevels, AreCurrent
  <2> QED BY <2>1, <2>2, Zenon DEF Holds
<1>3. \A id \in plan.after : Holds(g, t, id)
  <2> TAKE id \in plan.after
  <2>1. PICK i \in A : id = path[i].ptr.id
    BY <1>1
  <2>2. i \in top .. first /\ i \notin B
    BY <1>1, <2>1
  <2> QED BY <1>2, <2>1, <2>2
<1>4. CASE k = 1
  BY <1>1, <1>3, <1>4 DEF PathOn
<1>5. CASE k - 1 \in (top .. first) \ B
  <2>1. Len(path) \in Nat
    BY DEF PathOn
  <2>2. k - 1 \in 1 .. Len(path) - 1 /\ (k - 1) + 1 = k
    BY <1>5, <2>1
  <2>3. path[(k - 1) + 1].loc = SlotLocation(path[k - 1].ptr.id, path[k - 1].entry)
    BY <2>2 DEF PathOn
  <2>4. plan.loc.id = path[k - 1].ptr.id
    BY <1>1, <2>2, <2>3 DEF SlotLocation
  <2> QED BY <1>2, <1>3, <1>5, <2>4
<1> QED BY <1>1, <1>4, <1>5

\* A writer that gives up, or is done, goes on to give back its locks.
LEMMA GoesToUnlock ==
  ASSUME NEW t, pc[t] \in LockingLabels, LockInvariantInsert(t), SameShape(heap, heap'),
         stack'[t] = stack[t], held'[t] = held[t], call'[t].key = call[t].key,
         \A i \in DOMAIN heap : heap'[i].lock = heap[i].lock,
         held[t] # 0, pc'[t] \in {"unlock", "release"}
  PROVE  LockInvariantOf(t)'
<1>1. /\ First(t)' = First(t) /\ Top(t)' = Top(t) /\ PathOn(heap', stack'[t])
      /\ LocksLevels(heap', stack'[t], t, First(t)' - held'[t] + 1, First(t)')
  BY LocksAreKept
<1>2. held[t] \in 0 .. First(t) - Top(t) + 1
  BY HeldLevels
<1>3. /\ First(t) \in Nat /\ Top(t) \in Nat
  <2>1. PathOn(heap, stack[t])
    BY Zenon DEF LockInvariantInsert
  <2> QED BY <2>1, LevelsOf
<1>4. held[t] \in 1 .. First(t) - Top(t) + 1
  BY <1>2, <1>3
<1>5. pc'[t] # "lock" /\ pc'[t] \notin {"validate", "publish", "mark"} /\ pc'[t] # "publish"
      /\ pc'[t] \notin {"lock", "validate"} /\ pc'[t] \notin {"publish", "mark"}
  BY Zenon
<1>6. LockInvariantInsert(t)'
  BY <1>1, <1>4, <1>5, Zenon DEF LockInvariantInsert
<1>7. pc'[t] \in LockingLabels
  BY Zenon DEF LockingLabels
<1> QED BY <1>6, <1>7, StillLocking

\* Validating the locked path and building the copies.
LEMMA ValidateIsCareful ==
  ASSUME Typed, Typed', LockInvariant, NEW t \in Threads, Validate(t)
  PROVE  Careful(t)
<1>1. LocalShape /\ LockInvariantOf(t)
  BY DEF LockInvariant
<1>2. pc[t] = "validate" /\ UNCHANGED << call, mode, stack, held >>
  BY Zenon DEF Validate
<1>3. pc[t] \in LockingLabels /\ pc[t] \in {"validate", "publish", "mark"}
  BY <1>2 DEF LockingLabels
<1>4. LockInvariantInsert(t)
  BY <1>1, <1>3, Zenon DEF LockInvariantOf
<1>5. /\ held[t] = First(t) - Top(t) + 1
      /\ First(t) \in Nat /\ Top(t) \in Nat /\ 1 <= Top(t) /\ Top(t) <= First(t)
      /\ LevelsExist(heap, stack[t], Top(t), First(t))
      /\ LocksLevels(heap, stack[t], t, Top(t), First(t))
      /\ AreCurrent(heap, stack[t], Top(t), First(t))
  BY <1>2, <1>3, <1>4, AllLevelsLocked
<1>6. PathOn(heap, stack[t])
  BY <1>4, Zenon DEF LockInvariantInsert
<1>7. HeldMove(t) /\ SameKeys
  BY <1>1, <1>2, HeldUnchanged, KeysUnchanged
<1>8. stack'[t] = stack[t] /\ held'[t] = held[t] /\ call'[t].key = call[t].key
  BY <1>2
<1>9. CASE Goto(t, "release") /\ UNCHANGED << heap, pending >>
  <2>1. pc'[t] = "release" /\ \A u \in Threads : u # t => pc'[u] = pc[u]
    BY <1>9, GotoIs
  <2>2. LocalMove(t)
    BY <1>1, <1>2, <1>7, <1>9, <2>1, Zenon DEF LocalMove, LocalShape, SameKeys
  <2>3. SameShape(heap, heap') /\ RespectsLocks(t, heap, heap')
    BY <1>9, HeapUnchanged
  <2>4. \A i \in DOMAIN heap : heap'[i].lock = heap[i].lock
    BY <1>9
  <2>5. held[t] # 0
    BY <1>5
  <2>6. LockInvariantOf(t)'
    BY <1>3, <1>4, <1>8, <2>1, <2>3, <2>4, <2>5, GoesToUnlock
  <2> QED BY <1>7, <2>2, <2>3, <2>6 DEF Careful
<1>10. ASSUME NEW plan, plan = InsertForStackRange(heap, stack[t], Level(t), NewLeaf(t)),
              heap' = MarkObsolete(plan.heap, plan.before),
              pending' = [pending EXCEPT ![t].loc = plan.loc, ![t].ptr = plan.ptr,
                                         ![t].after = plan.after],
              Goto(t, "publish")
       PROVE  Careful(t)
  <2>1. pc'[t] = "publish" /\ \A u \in Threads : u # t => pc'[u] = pc[u]
    BY <1>10, GotoIs
  <2> DEFINE p == [pending[t] EXCEPT !.loc = plan.loc, !.ptr = plan.ptr, !.after = plan.after]
  <2>2. /\ {"loc", "ptr", "after", "expected"} \subseteq DOMAIN p
        /\ p.loc = plan.loc /\ p.after = plan.after
    BY <1>1 DEF LocalShape
  <2>3. pending' = [pending EXCEPT ![t] = p] /\ pending'[t] = p
    BY <1>1, <1>10 DEF LocalShape
  <2> HIDE DEF p
  <2>4. LocalMove(t)
    BY <1>1, <1>2, <1>7, <2>1, <2>2, <2>3, PendingMove
  <2>5. /\ Grown(heap, plan.heap) /\ Covered(stack[t], Top(t), First(t), plan)
    <3>1. Grown(heap, heap)
      BY TypeOfNodes
    <3> QED BY <1>6, <1>10, <3>1, PlanIsCovered DEF Level, Top, First
  <2>6. \A i \in plan.before : i \in DOMAIN heap /\ heap[i].lock = t /\ ~heap[i].obsolete
    <3>1. PICK B \in SUBSET (Top(t) .. First(t)) : plan.before = { stack[t][i].ptr.id : i \in B }
      BY <2>5, Zenon DEF Covered
    <3> TAKE x \in plan.before
    <3>2. PICK i \in B : x = stack[t][i].ptr.id
      BY <3>1
    <3>3. i \in Top(t) .. First(t)
      BY <3>1, <3>2
    <3> QED BY <1>5, <3>2, <3>3, Zenon DEF LevelsExist, LocksLevels, AreCurrent
  <2>7. /\ SameShape(heap, heap') /\ RespectsLocks(t, heap, heap')
        /\ \A i \in DOMAIN heap : heap'[i].lock = heap[i].lock
        /\ \A i \in DOMAIN heap : i \notin plan.before => heap'[i].obsolete = heap[i].obsolete
    BY <1>10, <2>5, <2>6, MarkNodes, Zenon
  <2>8. Top(t) \in 1 .. First(t) /\ First(t) \in 1 .. Len(stack[t]) - 1
    BY <1>6, LevelsOf
  <2>9. DOMAIN heap \subseteq DOMAIN heap'
    BY <2>7 DEF SameShape
  <2>10. /\ plan.loc = RootLocation \/ Holds(heap', t, plan.loc.id)
         /\ \A id \in plan.after : Holds(heap', t, id)
    BY <1>5, <1>6, <2>5, <2>7, <2>8, <2>9, PlanIsOwned, Zenon
  <2>11. /\ First(t)' = First(t) /\ Top(t)' = Top(t) /\ PathOn(heap', stack'[t])
         /\ LocksLevels(heap', stack'[t], t, First(t)' - held'[t] + 1, First(t)')
    BY <1>3, <1>4, <1>8, <2>7, LocksAreKept
  <2>12. LockInvariantInsert(t)'
    <3>1. pc'[t] # "lock" /\ pc'[t] \notin {"unlock", "release"} /\ pc'[t] \notin {"lock", "validate"}
      BY <2>1, Zenon
    <3>2. held'[t] = First(t)' - Top(t)' + 1
      BY <1>5, <1>8, <2>11, Zenon
    <3>3. /\ pending'[t].loc = RootLocation \/ Holds(heap', t, pending'[t].loc.id)
          /\ \A id \in pending'[t].after : Holds(heap', t, id)
      BY <2>2, <2>3, <2>10, Zenon
    <3> QED BY <2>11, <3>1, <3>2, <3>3, Zenon DEF LockInvariantInsert
  <2>13. pc'[t] \in LockingLabels
    BY <2>1 DEF LockingLabels
  <2> QED BY <1>7, <2>4, <2>7, <2>12, <2>13, StillLocking DEF Careful
<1> QED BY <1>9, <1>10, Zenon DEF Validate

\* Writing the pointer.
LEMMA PublishIsCareful ==
  ASSUME Typed, Typed', LockInvariant, NEW t \in Threads, Publish(t)
  PROVE  Careful(t)
<1>1. LocalShape /\ LockInvariantOf(t)
  BY DEF LockInvariant
<1>2. /\ pc[t] = "publish" /\ heap' = HeapAfter(heap, pending[t].loc, pending[t].ptr)
      /\ call' = Index!CallsAfterWrite(t, Contents[Key(t)])
      /\ Goto(t, "mark") /\ UNCHANGED << mode, stack, held, pending >>
  BY Zenon DEF Publish
<1>3. pc[t] \in LockingLabels /\ pc[t] \in {"validate", "publish", "mark"}
  BY <1>2 DEF LockingLabels
<1>4. LockInvariantInsert(t)
  BY <1>1, <1>3, Zenon DEF LockInvariantOf
<1>5. SameKeys
  BY <1>1, <1>2, KeysAfterWrite
<1>6. pc'[t] = "mark" /\ \A u \in Threads : u # t => pc'[u] = pc[u]
  BY <1>2, GotoIs
<1>7. LocalMove(t)
  BY <1>1, <1>2, <1>5, <1>6, Zenon DEF LocalMove, LocalShape, SameKeys
<1>8. Grown(heap, heap')
  <2>1. Grown(heap, heap)
    BY TypeOfNodes
  <2>2. heap' = heap \/ heap' = SetSlot(heap, pending[t].loc.id, pending[t].loc.slot, pending[t].ptr)
    BY <1>2, Zenon DEF HeapAfter
  <2> QED BY <2>1, <2>2, GrownSetSlot
<1>9. SameShape(heap, heap') /\ RespectsLocks(t, heap, heap')
  BY <1>8, GrownIsSameShape
<1>10. /\ DOMAIN heap \subseteq DOMAIN heap'
       /\ \A i \in DOMAIN heap : heap'[i].lock = heap[i].lock /\ heap'[i].obsolete = heap[i].obsolete
  BY <1>8 DEF Grown, SameNode
<1>11. stack'[t] = stack[t] /\ held'[t] = held[t] /\ call'[t].key = call[t].key
  BY <1>2, <1>5 DEF SameKeys
<1>12. /\ First(t)' = First(t) /\ Top(t)' = Top(t) /\ PathOn(heap', stack'[t])
       /\ LocksLevels(heap', stack'[t], t, First(t)' - held'[t] + 1, First(t)')
  BY <1>3, <1>4, <1>9, <1>10, <1>11, LocksAreKept
<1>13. \A id \in pending[t].after : Holds(heap, t, id)
  BY <1>2, <1>4, Zenon DEF LockInvariantInsert
<1>14. \A id \in pending'[t].after : Holds(heap', t, id)
  BY <1>2, <1>10, <1>13, Zenon DEF Holds
<1>15. held[t] = First(t) - Top(t) + 1
  BY <1>3, <1>4, Zenon DEF LockInvariantInsert
<1>16. LockInvariantInsert(t)'
  <2>1. pc'[t] # "lock" /\ pc'[t] \notin {"unlock", "release"} /\ pc'[t] \notin {"lock", "validate"}
        /\ pc'[t] # "publish"
    BY <1>6, Zenon
  <2>2. held'[t] = First(t)' - Top(t)' + 1
    BY <1>11, <1>12, <1>15, Zenon
  <2> QED BY <1>12, <1>14, <2>1, <2>2, Zenon DEF LockInvariantInsert
<1>17. pc'[t] \in LockingLabels
  BY <1>6 DEF LockingLabels
<1>18. HeldMove(t)
  BY <1>1, <1>2, HeldUnchanged
<1> QED BY <1>7, <1>9, <1>16, <1>17, <1>18, StillLocking DEF Careful

\* Retiring the replaced nodes.
LEMMA MarkReplacedIsCareful ==
  ASSUME Typed, Typed', LockInvariant, NEW t \in Threads, MarkReplaced(t)
  PROVE  Careful(t)
<1>1. LocalShape /\ LockInvariantOf(t)
  BY DEF LockInvariant
<1>2. /\ pc[t] = "mark" /\ heap' = MarkObsolete(heap, pending[t].after)
      /\ Goto(t, "unlock") /\ UNCHANGED << call, mode, stack, held, pending >>
  BY Zenon DEF MarkReplaced
<1>3. pc[t] \in LockingLabels /\ pc[t] \in {"validate", "publish", "mark"}
  BY <1>2 DEF LockingLabels
<1>4. LockInvariantInsert(t)
  BY <1>1, <1>3, Zenon DEF LockInvariantOf
<1>5. SameKeys
  BY <1>1, <1>2, KeysUnchanged
<1>6. pc'[t] = "unlock" /\ \A u \in Threads : u # t => pc'[u] = pc[u]
  BY <1>2, GotoIs
<1>7. LocalMove(t)
  BY <1>1, <1>2, <1>5, <1>6, Zenon DEF LocalMove, LocalShape, SameKeys
<1>8. \A i \in pending[t].after : i \in DOMAIN heap /\ heap[i].lock = t /\ ~heap[i].obsolete
  <2>1. pc[t] \in {"publish", "mark"}
    BY <1>2
  <2> QED BY <1>4, <2>1, Zenon DEF LockInvariantInsert, Holds
<1>9. Grown(heap, heap)
  BY TypeOfNodes
<1>10. /\ SameShape(heap, heap') /\ RespectsLocks(t, heap, heap')
       /\ \A i \in DOMAIN heap : heap'[i].lock = heap[i].lock
  BY <1>2, <1>8, <1>9, MarkNodes, Zenon
<1>11. stack'[t] = stack[t] /\ held'[t] = held[t] /\ call'[t].key = call[t].key
  BY <1>2
<1>12. held[t] # 0
  BY <1>3, <1>4, AllLevelsLocked
<1>13. LockInvariantOf(t)'
  BY <1>3, <1>4, <1>6, <1>10, <1>11, <1>12, GoesToUnlock
<1>14. HeldMove(t)
  BY <1>1, <1>2, HeldUnchanged
<1> QED BY <1>7, <1>10, <1>13, <1>14 DEF Careful

\* The lock of the topmost level that is locked is given back.
LEMMA UnlockTopIs ==
  ASSUME Typed, LockInvariant, NEW t \in Threads, pc[t] \in {"unlock", "release"}, UnlockTop(t)
  PROVE  /\ SameShape(heap, heap') /\ RespectsLocks(t, heap, heap')
         /\ HeldMove(t) /\ held[t] \in Nat \ {0} /\ held'[t] = held[t] - 1
         /\ (held[t] # 1 /\ pc'[t] = pc[t] /\ stack'[t] = stack[t] /\ call'[t].key = call[t].key)
              => LockInvariantOf(t)'
<1>1. LocalShape /\ LockInvariantOf(t)
  BY DEF LockInvariant
<1>2. pc[t] \in LockingLabels
  BY DEF LockingLabels
<1>3. LockInvariantInsert(t)
  BY <1>1, <1>2, Zenon DEF LockInvariantOf
<1>4. /\ PathOn(heap, stack[t]) /\ held[t] \in 1 .. First(t) - Top(t) + 1
      /\ LocksLevels(heap, stack[t], t, First(t) - held[t] + 1, First(t))
  BY <1>3, Zenon DEF LockInvariantInsert
<1>5. PathOn(heap, stack[t])
  BY <1>4, Zenon
<1>6. /\ First(t) \in Nat /\ Top(t) \in Nat /\ 1 <= Top(t) /\ Top(t) <= First(t)
  BY <1>5, LevelsOf
<1>7. held[t] \in Nat \ {0} /\ held[t] <= First(t) - Top(t) + 1
  BY <1>4, <1>6
<1> DEFINE low == First(t) - held[t] + 1
           id == stack[t][low].ptr.id
<1>8. low \in low .. First(t) /\ low \in Nat
  BY <1>6, <1>7
<1>9. id \in DOMAIN heap /\ heap[id].lock = t
  BY <1>2, <1>3, <1>8, HeldLevels
<1>10. LockSet(heap, heap', id, NoThread) /\ held' = [held EXCEPT ![t] = @ - 1]
  BY Zenon DEF UnlockTop, LockSet, First
<1>11. LocksLevels(heap, stack[t], t, low, First(t))
  BY <1>4
<1>12. \A i \in low .. First(t) : stack[t][i].ptr.id \in DOMAIN heap
  BY <1>2, <1>3, HeldLevels
<1>13. First(t) - (held[t] - 1) + 1 = low + 1
  BY <1>6, <1>7
<1> HIDE DEF low, id
<1>14. SameShape(heap, heap') /\ RespectsLocks(t, heap, heap') /\ Relocked(heap, heap', id, NoThread)
  <2>1. LockSet(heap, heap', id, NoThread)
    BY <1>10, Zenon
  <2> QED BY <1>9, <2>1, SetLock
<1>15. HeldMove(t) /\ held'[t] = held[t] - 1
  BY <1>1, <1>10 DEF HeldMove, LocalShape
<1>16. ASSUME held[t] # 1, pc'[t] = pc[t], stack'[t] = stack[t], call'[t].key = call[t].key
       PROVE  LockInvariantOf(t)'
  <2>1. First(t)' = First(t) /\ Top(t)' = Top(t) /\ PathOn(heap', stack'[t])
    BY <1>5, <1>14, <1>16, LevelsAreKept
  <2>2. held'[t] \in 1 .. First(t) - Top(t) + 1
    BY <1>6, <1>7, <1>15, <1>16
  <2>3. \A i \in low + 1 .. First(t) : i \in low .. First(t) /\ i # low
    BY <1>6, <1>8
  <2>4. LocksLevels(heap', stack[t], t, low + 1, First(t))
    <3>1. id = stack[t][low].ptr.id
      BY DEF id
    <3>2. \A i \in low + 1 .. First(t) : stack[t][i].ptr.id # id /\ stack[t][i].ptr.id \in DOMAIN heap
      BY <1>8, <1>11, <1>12, <2>3, <3>1, Zenon DEF LocksLevels
    <3>3. \A i \in low + 1 .. First(t) : heap'[stack[t][i].ptr.id].lock = t
      BY <1>11, <1>14, <2>3, <3>2, Zenon DEF LocksLevels, Relocked
    <3>4. \A i, j \in low + 1 .. First(t) : i # j => stack[t][i].ptr.id # stack[t][j].ptr.id
      BY <1>11, <2>3, Zenon DEF LocksLevels
    <3> QED BY <3>3, <3>4, Zenon DEF LocksLevels
  <2>5. LocksLevels(heap', stack'[t], t, First(t)' - held'[t] + 1, First(t)')
    BY <1>13, <1>15, <1>16, <2>1, <2>4, Zenon
  <2>6. pc'[t] # "lock" /\ pc'[t] \notin {"validate", "publish", "mark"} /\ pc'[t] # "publish"
        /\ pc'[t] \notin {"lock", "validate"} /\ pc'[t] \notin {"publish", "mark"}
    BY <1>16, Zenon
  <2>7. LockInvariantInsert(t)'
    BY <2>1, <2>2, <2>5, <2>6, Zenon DEF LockInvariantInsert
  <2>8. pc'[t] \in LockingLabels
    BY <1>2, <1>16
  <2> QED BY <2>7, <2>8, StillLocking
<1> QED BY <1>7, <1>14, <1>15, <1>16

\* Releasing the locks after an insert.
LEMMA UnlockInsertedIsCareful ==
  ASSUME Typed, LockInvariant, NEW t \in Threads, UnlockInserted(t)
  PROVE  Careful(t)
<1>1. LocalShape
  BY DEF LockInvariant
<1>2. pc[t] = "unlock" /\ UnlockTop(t)
  BY Zenon DEF UnlockInserted
<1>3. /\ SameShape(heap, heap') /\ RespectsLocks(t, heap, heap')
      /\ HeldMove(t) /\ held[t] \in Nat \ {0} /\ held'[t] = held[t] - 1
      /\ (held[t] # 1 /\ pc'[t] = pc[t] /\ stack'[t] = stack[t] /\ call'[t].key = call[t].key)
           => LockInvariantOf(t)'
  BY <1>2, UnlockTopIs
<1>4. CASE held[t] = 1
  <2>1. FinishNewValue(t)
    BY <1>4, Zenon DEF UnlockInserted
  <2>2. LocalMove(t) /\ pc'[t] \in {"idle", "root"}
    BY <1>1, <2>1, FinishNewValueIs
  <2>3. held'[t] = 0
    BY <1>3, <1>4
  <2>4. LockInvariantOf(t)'
    BY <2>2, <2>3, CalmIsEasy DEF CalmLabels
  <2> QED BY <1>3, <2>2, <2>4 DEF Careful
<1>5. CASE held[t] # 1
  <2>1. UNCHANGED << call, pc, mode, stack, pending >>
    BY <1>5, Zenon DEF UnlockInserted
  <2>2. LocalMove(t)
    BY <1>1, <2>1, Zenon DEF LocalMove, LocalShape
  <2>3. LockInvariantOf(t)'
    BY <1>3, <1>5, <2>1
  <2> QED BY <1>3, <2>2, <2>3 DEF Careful
<1> QED BY <1>4, <1>5

\* Releasing the locks after a failed validation.
LEMMA ReleaseIsCareful ==
  ASSUME Typed, LockInvariant, NEW t \in Threads, Release(t)
  PROVE  Careful(t)
<1>1. LocalShape
  BY DEF LockInvariant
<1>2. pc[t] = "release" /\ UnlockTop(t) /\ UNCHANGED << call, mode >>
  BY Zenon DEF Release
<1>3. /\ SameShape(heap, heap') /\ RespectsLocks(t, heap, heap')
      /\ HeldMove(t) /\ held[t] \in Nat \ {0} /\ held'[t] = held[t] - 1
      /\ (held[t] # 1 /\ pc'[t] = pc[t] /\ stack'[t] = stack[t] /\ call'[t].key = call[t].key)
           => LockInvariantOf(t)'
  BY <1>2, UnlockTopIs
<1>4. CASE held[t] = 1
  <2>1. Retry(t)
    BY <1>4, Zenon DEF Release
  <2>2. LocalMove(t) /\ pc'[t] = "root"
    BY <1>1, <1>2, <2>1, RetryIs
  <2>3. held'[t] = 0
    BY <1>3, <1>4
  <2>4. LockInvariantOf(t)'
    BY <2>2, <2>3, CalmIsEasy DEF CalmLabels
  <2> QED BY <1>3, <2>2, <2>4 DEF Careful
<1>5. CASE held[t] # 1
  <2>1. UNCHANGED << pc, stack, pending >>
    BY <1>5, Zenon DEF Release
  <2>2. LocalMove(t)
    BY <1>1, <1>2, <2>1, Zenon DEF LocalMove, LocalShape
  <2>3. LockInvariantOf(t)'
    BY <1>2, <1>3, <1>5, <2>1
  <2> QED BY <1>3, <2>2, <2>3 DEF Careful
<1> QED BY <1>4, <1>5

-----------------------------------------------------------------------------
(* upsert of a key that is there                                           *)

\* The node above the leaf of a path, whose slot the leaf was read from.
Parent(t) == stack[t][Len(stack[t]) - 1].ptr.id

\* The node above the leaf, whose slot upsert overwrites.
LEMMA ParentIs ==
  ASSUME NEW t, PathOn(heap, stack[t])
  PROVE  Parent(t) \in DOMAIN heap /\ LeafEntry(stack[t]).loc.id = Parent(t)
<1>1. Len(stack[t]) \in Nat /\ Len(stack[t]) >= 2
  BY DEF PathOn
<1>2. Len(stack[t]) - 1 \in 1 .. Len(stack[t]) - 1 /\ (Len(stack[t]) - 1) + 1 = Len(stack[t])
  BY <1>1
<1> DEFINE j == Len(stack[t]) - 1
<1>3. stack[t][j].ptr.id \in DOMAIN heap /\ stack[t][j + 1].loc = SlotLocation(stack[t][j].ptr.id, stack[t][j].entry)
  BY <1>2 DEF PathOn
<1>4. LeafEntry(stack[t]).loc = SlotLocation(stack[t][j].ptr.id, stack[t][j].entry)
  BY <1>2, <1>3 DEF LeafEntry
<1> QED BY <1>3, <1>4 DEF Parent, SlotLocation

\* While upsert holds it, the invariant holds.
LEMMA HoldsParent ==
  ASSUME NEW t, PathOn(heap', stack'[t]), heap'[Parent(t)'].lock = t, held'[t] = 1,
         \/ pc'[t] = "overwrite" /\ ~heap'[Parent(t)'].obsolete
         \/ pc'[t] = "unlock leaf"
  PROVE  LockInvariantOf(t)'
<1>1. pc'[t] # "descend" /\ pc'[t] \notin LockingLabels
  BY Zenon DEF LockingLabels
<1>2. LockInvariantUpsert(t)'
  <2>1. pc'[t] = "overwrite" => ~heap'[Parent(t)'].obsolete
    BY Zenon
  <2> QED BY <2>1, Zenon DEF LockInvariantUpsert, Parent
<1>3. pc'[t] \in {"overwrite", "unlock leaf"}
  BY Zenon
<1> QED BY <1>1, <1>2, <1>3, Zenon DEF LockInvariantOf

\* Locking the node above the leaf.
LEMMA LockParentOfLeafIsCareful ==
  ASSUME Typed, LockInvariant, NEW t \in Threads, LockParentOfLeaf(t)
  PROVE  Careful(t)
<1>1. LocalShape /\ LockInvariantOf(t)
  BY DEF LockInvariant
<1>2. LockInvariantUpsert(t) /\ held[t] = 0 /\ UNCHANGED << call, mode >>
  <2>1. pc[t] = "lock leaf" /\ UNCHANGED << call, mode >>
    BY Zenon DEF LockParentOfLeaf
  <2>2. pc[t] \in LeafLabels /\ pc[t] \notin LockingLabels \cup {"overwrite", "unlock leaf"}
    BY <2>1, Zenon DEF LockingLabels, LeafLabels
  <2> QED BY <1>1, <2>1, <2>2, Zenon DEF LockInvariantOf
<1>3. PathOn(heap, stack[t])
  BY <1>2, Zenon DEF LockInvariantUpsert
<1>4. Parent(t) \in DOMAIN heap
  BY <1>3, ParentIs
<1>5. SameKeys
  BY <1>1, <1>2, KeysUnchanged
<1>6. CASE Retry(t) /\ UNCHANGED << heap, held >>
  <2>1. LocalMove(t) /\ pc'[t] = "root"
    BY <1>1, <1>2, <1>6, RetryIs
  <2>2. LockInvariantOf(t)'
    BY <1>2, <1>6, <2>1, CalmIsEasy DEF CalmLabels
  <2> QED BY <1>1, <1>6, <2>1, <2>2, HeapUnchanged, HeldUnchanged DEF Careful
<1>7. CASE /\ ~heap[Parent(t)].obsolete /\ heap[Parent(t)].lock = NoThread
           /\ LockSet(heap, heap', Parent(t), t) /\ held' = [held EXCEPT ![t] = 1]
           /\ Goto(t, "overwrite") /\ UNCHANGED << stack, pending >>
  <2>1. pc'[t] = "overwrite" /\ \A u \in Threads : u # t => pc'[u] = pc[u]
    BY <1>7, GotoIs
  <2>2. LocalMove(t)
    BY <1>1, <1>2, <1>5, <1>7, <2>1, Zenon DEF LocalMove, LocalShape, SameKeys
  <2>3. HeldMove(t)
    BY <1>1, <1>7 DEF HeldMove, LocalShape
  <2>4. SameShape(heap, heap') /\ RespectsLocks(t, heap, heap') /\ Relocked(heap, heap', Parent(t), t)
    BY <1>4, <1>7, SetLock
  <2>5. Parent(t)' = Parent(t) /\ PathOn(heap', stack'[t])
    BY <1>3, <1>7, <2>4, SamePath DEF Parent
  <2>6. heap'[Parent(t)'].lock = t /\ ~heap'[Parent(t)'].obsolete
    BY <1>7, <2>4, <2>5, Zenon DEF Relocked
  <2>7. held'[t] = 1
    BY <1>1, <1>7 DEF LocalShape
  <2>8. LockInvariantOf(t)'
    BY <2>1, <2>5, <2>6, <2>7, HoldsParent, Zenon
  <2> QED BY <2>2, <2>3, <2>4, <2>8 DEF Careful
<1> QED BY <1>6, <1>7, Zenon DEF LockParentOfLeaf, Parent, LockSet

\* Overwriting the leaf in its slot.
LEMMA OverwriteLeafIsCareful ==
  ASSUME Typed, Typed', LockInvariant, NEW t \in Threads, OverwriteLeaf(t)
  PROVE  Careful(t)
<1>1. LocalShape /\ LockInvariantOf(t)
  BY DEF LockInvariant
<1> DEFINE next == "unlock leaf"
<1>2. /\ pc[t] = "overwrite" /\ Goto(t, next) /\ UNCHANGED << mode, stack, held, pending >>
      /\ call' = Index!CallsAfterWrite(t, Contents[Key(t)])
  BY Zenon DEF OverwriteLeaf
<1> HIDE DEF next
<1>3. \E i, k, p : heap' = SetSlot(heap, i, k, p)
  BY Zenon DEF OverwriteLeaf
<1>4. LockInvariantUpsert(t)
  <2>1. pc[t] \in LeafLabels
    BY <1>2, Zenon DEF LeafLabels
  <2> QED BY <1>1, <2>1, Zenon DEF LockInvariantOf
<1>5. PathOn(heap, stack[t]) /\ heap[Parent(t)].lock = t /\ held[t] = 1
  <2>1. pc[t] # "lock leaf"
    BY <1>2, Zenon
  <2> QED BY <1>4, <2>1, Zenon DEF LockInvariantUpsert, Parent
<1>6. Parent(t) \in DOMAIN heap
  BY <1>5, ParentIs
<1>7. SameKeys
  BY <1>1, <1>2, KeysAfterWrite
<1>8. pc'[t] = next /\ \A u \in Threads : u # t => pc'[u] = pc[u]
  BY <1>2, GotoIs
<1>9. LocalMove(t)
  BY <1>1, <1>2, <1>7, <1>8, Zenon DEF LocalMove, LocalShape, SameKeys
<1>10. Grown(heap, heap')
  <2>1. Grown(heap, heap)
    BY TypeOfNodes
  <2> QED BY <1>3, <2>1, GrownSetSlot
<1>11. SameShape(heap, heap') /\ RespectsLocks(t, heap, heap')
  BY <1>10, GrownIsSameShape
<1>12. heap'[Parent(t)].lock = t
  BY <1>5, <1>6, <1>10 DEF Grown, SameNode
<1>13. Parent(t)' = Parent(t) /\ PathOn(heap', stack'[t])
  BY <1>2, <1>5, <1>11, SamePath DEF Parent
<1>14. HeldMove(t)
  BY <1>1, <1>2, HeldUnchanged
<1>15. LockInvariantOf(t)'
  <2>1. held'[t] = 1
    BY <1>2, <1>5
  <2> QED BY <1>8, <1>12, <1>13, <2>1, HoldsParent, Zenon DEF next
<1> QED BY <1>9, <1>11, <1>14, <1>15 DEF Careful

\* Releasing the node above the leaf.
LEMMA UnlockParentOfLeafIsCareful ==
  ASSUME Typed, LockInvariant, NEW t \in Threads, UnlockParentOfLeaf(t)
  PROVE  Careful(t)
<1>1. LocalShape /\ LockInvariantOf(t)
  BY DEF LockInvariant
<1>2. /\ LockSet(heap, heap', Parent(t), NoThread) /\ held' = [held EXCEPT ![t] = 0]
      /\ \E r : Finish(t, r)
  BY Zenon DEF UnlockParentOfLeaf, LockSet, Parent
<1>3. LockInvariantUpsert(t) /\ pc[t] # "lock leaf"
  <2>1. pc[t] = "unlock leaf"
    BY Zenon DEF UnlockParentOfLeaf
  <2>2. pc[t] \in LeafLabels /\ pc[t] # "lock leaf"
    BY <2>1, Zenon DEF LeafLabels
  <2> QED BY <1>1, <2>2, Zenon DEF LockInvariantOf
<1>4. PathOn(heap, stack[t]) /\ heap[Parent(t)].lock = t
  BY <1>3, Zenon DEF LockInvariantUpsert, Parent
<1>5. Parent(t) \in DOMAIN heap
  BY <1>4, ParentIs
<1>6. LocalMove(t) /\ pc'[t] = "idle"
  BY <1>1, <1>2, FinishIs
<1>7. HeldMove(t) /\ held'[t] = 0
  BY <1>1, <1>2 DEF HeldMove, LocalShape
<1>8. SameShape(heap, heap') /\ RespectsLocks(t, heap, heap')
  BY <1>2, <1>4, <1>5, SetLock
<1>9. LockInvariantOf(t)'
  BY <1>6, <1>7, CalmIsEasy DEF CalmLabels
<1> QED BY <1>6, <1>7, <1>8, <1>9 DEF Careful

-----------------------------------------------------------------------------
(* The specification                                                       *)

\* Before the first call no thread holds a lock.
LEMMA LockInvariantStarts == Init => LockInvariant
<1> SUFFICES ASSUME Init PROVE LockInvariant
  OBVIOUS
<1>1. /\ pc = [t \in Threads |-> "idle"] /\ stack = [t \in Threads |-> << >>]
      /\ held = [t \in Threads |-> 0] /\ pending = [t \in Threads |-> NoWrite]
      /\ \E v : call = [t \in Threads |-> [pending |-> FALSE, kind |-> "lookup",
                 key |-> CHOOSE k \in Keys : TRUE, value |-> v, seen |-> {},
                 wrote |-> FALSE, old |-> None, result |-> None]]
  BY Zenon DEF Init
<1>2. LocalShape
  <2>1. DOMAIN call = Threads /\ \A t \in Threads : {"key", "value"} \subseteq DOMAIN call[t]
    BY <1>1
  <2>2. \A t \in Threads : pending[t] = NoWrite
    BY <1>1
  <2>3. DOMAIN stack = Threads /\ DOMAIN held = Threads /\ DOMAIN pending = Threads
    BY <1>1
  <2> QED BY <2>1, <2>2, <2>3, NoWriteFields, Zenon DEF LocalShape
<1>3. ASSUME NEW t \in Threads PROVE LockInvariantOf(t)
  <2>1. pc[t] = "idle" /\ held[t] = 0
    BY <1>1
  <2>2. pc[t] # "descend" /\ pc[t] \notin LockingLabels /\ pc[t] \notin LeafLabels
    BY <2>1, Zenon DEF LockingLabels, LeafLabels
  <2> QED BY <2>1, <2>2, Zenon DEF LockInvariantOf
<1> QED BY <1>2, <1>3 DEF LockInvariant

\* A careful step keeps the invariant of all threads.
LEMMA CarefulKeepsInvariant ==
  ASSUME LockInvariant, NEW t \in Threads, Careful(t)
  PROVE  LockInvariant'
<1>1. LocalShape'
  BY Zenon DEF Careful, LocalMove, HeldMove, LocalShape
<1>2. ASSUME NEW u \in Threads PROVE LockInvariantOf(u)'
  <2>1. CASE u = t
    BY <2>1 DEF Careful
  <2>2. CASE u # t
    <3>1. Rests(u)
      BY <2>2, Zenon DEF Careful, LocalMove, HeldMove, Rests
    <3>2. LockInvariantOf(u)
      BY DEF LockInvariant
    <3>3. SameShape(heap, heap') /\ RespectsLocks(t, heap, heap')
      BY DEF Careful
    <3> QED BY <2>2, <3>1, <3>2, <3>3, OthersRest
  <2> QED BY <2>1, <2>2
<1> QED BY <1>1, <1>2, Zenon DEF LockInvariant

\* Every step of a thread is careful.
LEMMA StepsAreCareful ==
  ASSUME Typed, Typed', LockInvariant, NEW t \in Threads, Invoke(t) \/ Step(t)
  PROVE  Careful(t)
<1>1. CASE Invoke(t)
  BY <1>1, InvokeIsCareful
<1>2. CASE LoadRootNode(t)
  BY <1>2, LoadRootNodeIsCareful
<1>3. CASE LoadRootLeaf(t)
  BY <1>3, LoadRootLeafIsCareful
<1>4. CASE LoadEmptyRoot(t)
  BY <1>4, LoadEmptyRootIsCareful
<1>5. CASE PairWithRootLeaf(t)
  BY <1>5, PairWithRootLeafIsCareful
<1>6. CASE CompareAndSwapRoot(t)
  BY <1>6, CompareAndSwapRootIsCareful
<1>7. CASE ReturnAfterSwap(t)
  BY <1>7, ReturnAfterSwapIsCareful
<1>8. CASE DescendToNode(t)
  BY <1>8, DescendToNodeIsCareful
<1>9. CASE DescendToLeaf(t)
  BY <1>9, DescendToLeafIsCareful
<1>10. CASE TryLock(t)
  BY <1>10, TryLockIsCareful
<1>11. CASE Validate(t)
  BY <1>11, ValidateIsCareful
<1>12. CASE Publish(t)
  BY <1>12, PublishIsCareful
<1>13. CASE MarkReplaced(t)
  BY <1>13, MarkReplacedIsCareful
<1>14. CASE UnlockInserted(t)
  BY <1>14, UnlockInsertedIsCareful
<1>15. CASE Release(t)
  BY <1>15, ReleaseIsCareful
<1>16. CASE LockParentOfLeaf(t)
  BY <1>16, LockParentOfLeafIsCareful
<1>17. CASE OverwriteLeaf(t)
  BY <1>17, OverwriteLeafIsCareful
<1>18. CASE UnlockParentOfLeaf(t)
  BY <1>18, UnlockParentOfLeafIsCareful
<1> QED BY <1>1, <1>2, <1>3, <1>4, <1>5, <1>6, <1>7, <1>8, <1>9, <1>10, <1>11, <1>12,
           <1>13, <1>14, <1>15, <1>16, <1>17, <1>18, Zenon DEF Step

\* The lock invariant is inductive, where the types hold.
LEMMA LockInvariantStep ==
  Typed /\ Typed' /\ LockInvariant /\ [Next]_vars => LockInvariant'
<1> SUFFICES ASSUME Typed, Typed', LockInvariant, [Next]_vars PROVE LockInvariant'
  OBVIOUS
<1>1. CASE \E t \in Threads : Invoke(t) \/ Step(t)
  BY <1>1, StepsAreCareful, CarefulKeepsInvariant
<1>2. CASE UNCHANGED vars
  <2>1. LocalShape'
    BY <1>2, Zenon DEF vars, LocalShape, LockInvariant
  <2>2. ASSUME NEW u \in Threads PROVE LockInvariantOf(u)'
    <3>1. /\ heap' = heap /\ pc' = pc /\ mode' = mode /\ stack' = stack /\ held' = held
          /\ pending' = pending /\ call' = call
      BY <1>2 DEF vars
    <3>2. First(u)' = First(u) /\ Top(u)' = Top(u)
      BY <3>1 DEF First, Top, Level, MismatchingBit, Key
    <3>3. LockInvariantOf(u)
      BY DEF LockInvariant
    <3> QED BY <3>1, <3>2, <3>3, Zenon DEF LockInvariantOf, LockInvariantInsert, LockInvariantUpsert
  <2> QED BY <2>1, <2>2, Zenon DEF LockInvariant
<1> QED BY <1>1, <1>2 DEF Next, Terminated

\* The lock invariant gives the property.
LEMMA LocksCoverWrites == LockInvariant => WritersHoldTheirNodes
<1> SUFFICES ASSUME LockInvariant, NEW t \in Threads
             PROVE  /\ pc[t] = "publish" => pending[t].loc = RootLocation \/ Holds(heap, t, pending[t].loc.id)
                    /\ pc[t] \in {"publish", "mark"} => \A id \in pending[t].after : Holds(heap, t, id)
                    /\ pc[t] = "overwrite" => Holds(heap, t, LeafEntry(stack[t]).loc.id)
  BY Zenon DEF WritersHoldTheirNodes, Holds
<1>1. LockInvariantOf(t)
  BY DEF LockInvariant
<1>2. CASE pc[t] \in {"publish", "mark"}
  <2>1. pc[t] \in LockingLabels /\ pc[t] # "overwrite"
    BY <1>2, Zenon DEF LockingLabels
  <2>2. LockInvariantInsert(t)
    BY <1>1, <2>1, Zenon DEF LockInvariantOf
  <2> QED BY <1>2, <2>1, <2>2, Zenon DEF LockInvariantInsert
<1>3. CASE pc[t] = "overwrite"
  <2>1. pc[t] \in LeafLabels /\ pc[t] # "lock leaf" /\ pc[t] # "publish" /\ pc[t] \notin {"publish", "mark"}
    BY <1>3, Zenon DEF LeafLabels
  <2>2. LockInvariantUpsert(t)
    BY <1>1, <2>1, Zenon DEF LockInvariantOf
  <2>3. PathOn(heap, stack[t]) /\ heap[Parent(t)].lock = t /\ ~heap[Parent(t)].obsolete
    BY <1>3, <2>1, <2>2, Zenon DEF LockInvariantUpsert, Parent
  <2>4. Parent(t) \in DOMAIN heap /\ LeafEntry(stack[t]).loc.id = Parent(t)
    BY <2>3, ParentIs
  <2> QED BY <2>1, <2>3, <2>4, Zenon DEF Holds
<1>4. CASE pc[t] \notin {"publish", "mark"} /\ pc[t] # "overwrite"
  BY <1>4, Zenon
<1> QED BY <1>2, <1>3, <1>4, Zenon

-----------------------------------------------------------------------------
(* All nodes ever allocated                                                *)

PointersTo(D) == LeafPointers \cup { NodePointer(i) : i \in D }

\* What the type invariant says of the contents of a node, with D the nodes that are there.
HasContent(node, D) ==
  /\ node.height \in Nat \ {0}
  /\ node.keys \in Seq(SUBSET Bits) /\ node.ptrs \in Seq(PointersTo(D))
  /\ Len(node.keys) = Len(node.ptrs) /\ Len(node.ptrs) \in 2 .. MaxEntries
  /\ node.keys[1] = {}

HasState(node) ==
  node.lock \in Threads \cup {NoThread} /\ node.obsolete \in BOOLEAN /\ node.scheduled \in Nat

\* All nodes have the type, and those that r knows are good.
SoundHeap(h, r) ==
  /\ GoodHeap(h, r)
  /\ \A i \in DOMAIN h : HasContent(h[i], DOMAIN h) /\ HasState(h[i])

\* A good node has the type.
LEMMA GoodContent ==
  ASSUME NEW h, NEW r, NEW node, NEW g, GoodNode(h, r, node, g), NEW D, DOMAIN r \subseteq D
  PROVE  HasContent(node, D)
<1> DEFINE n == Len(g.reps)
<1>1. /\ node.height \in Nat \ {0} /\ n \in 2 .. MaxEntries /\ Ascending(g.reps)
      /\ node.keys = [e \in 1 .. n |-> PartialKey(g.reps, e)]
      /\ DOMAIN node.ptrs = 1 .. n /\ Len(node.ptrs) = n /\ IsFunction(node.ptrs)
      /\ \A e \in DOMAIN g.reps : IsChild(r, node.ptrs[e])
  BY DEF GoodNode, Represents, FitsIn
<1>2. n \in Nat /\ DOMAIN g.reps = 1 .. n /\ \A e \in DOMAIN g.reps : g.reps[e] \in AllKeys
  BY <1>1, EntriesAre
<1> HIDE DEF n
<1>3. \A e \in 1 .. n : PartialKey(g.reps, e) \in SUBSET Bits
  BY <1>2 DEF PartialKey, AllKeys
<1>4. node.keys \in Seq(SUBSET Bits) /\ Len(node.keys) = n
  BY <1>1, <1>2, <1>3
<1>5. 1 \in 1 .. n
  BY <1>1, <1>2
<1>6. PartialKey(g.reps, 1) = {}
  BY <1>1, <1>2, <1>5, PathBitsAre
<1>7. node.keys[1] = {}
  BY <1>1, <1>5, <1>6
<1>8. \A e \in 1 .. n : node.ptrs[e] \in PointersTo(D)
  BY <1>1, <1>2 DEF IsChild, PointersTo
<1>9. node.ptrs = [e \in 1 .. n |-> node.ptrs[e]]
  BY <1>1 DEF IsFunction
<1>10. node.ptrs \in [1 .. n -> PointersTo(D)]
  BY <1>8, <1>9
<1>11. node.ptrs \in Seq(PointersTo(D))
  BY <1>2, <1>10
<1> QED BY <1>1, <1>4, <1>7, <1>11 DEF HasContent

\* It keeps it when there are more nodes.
LEMMA ContentLater ==
  ASSUME NEW node, NEW D, NEW E, D \subseteq E, HasContent(node, D)
  PROVE  HasContent(node, E)
<1>1. PointersTo(D) \subseteq PointersTo(E)
  BY DEF PointersTo
<1>2. \A s \in Seq(PointersTo(D)) : s \in Seq(PointersTo(E))
  BY <1>1
<1> QED BY <1>2 DEF HasContent

\* A new node is in a state that a node may be in.
LEMMA FreshState ==
  ASSUME NEW node, IsFresh(node)
  PROVE  HasState(node)
<1>1. node.lock = NoThread /\ node.obsolete = FALSE /\ node.scheduled = 0
  BY Zenon DEF IsFresh
<1>2. node.obsolete \in BOOLEAN
  BY <1>1, Zenon
<1>3. node.lock \in Threads \cup {NoThread} /\ node.scheduled \in Nat
  BY <1>1
<1> QED BY <1>2, <1>3 DEF HasState

\* Building good nodes.
LEMMA SoundBuilt ==
  ASSUME NEW h, NEW r, SoundHeap(h, r), NEW next, NEW more, Builds(h, r, next, more)
  PROVE  SoundHeap(next, more)
<1>1. GoodHeap(next, more) /\ DOMAIN h \subseteq DOMAIN next /\ DOMAIN more \subseteq DOMAIN next
  BY DEF Builds, Extends, GoodHeap
<1>2. ASSUME NEW i \in DOMAIN next PROVE HasContent(next[i], DOMAIN next) /\ HasState(next[i])
  <2>1. CASE i \in DOMAIN h
    <3>1. next[i] = h[i]
      BY <2>1 DEF Builds
    <3>2. HasContent(h[i], DOMAIN h) /\ HasState(h[i])
      BY <2>1 DEF SoundHeap
    <3> QED BY <1>1, <3>1, <3>2, ContentLater
  <2>2. CASE i \notin DOMAIN h
    <3>1. i \in DOMAIN more /\ IsFresh(next[i])
      BY <2>2 DEF Builds
    <3>2. GoodNode(next, more, next[i], more[i])
      BY <1>1, <3>1 DEF GoodHeap
    <3>3. HasContent(next[i], DOMAIN next)
      BY <1>1, <3>2, GoodContent
    <3>4. HasState(next[i])
      BY <3>1, FreshState
    <3> QED BY <3>3, <3>4
  <2> QED BY <2>1, <2>2
<1> QED BY <1>1, <1>2 DEF SoundHeap

\* Writing a slot with a pointer that fits.
LEMMA SoundWritten ==
  ASSUME NEW h, NEW r, SoundHeap(h, r), NEW id \in DOMAIN r, NEW slot \in DOMAIN r[id].reps, NEW p,
         FitsIn(h, r, p, h[id].height, r[id], slot), NEW next, next = SetSlot(h, id, slot, p)
  PROVE  SoundHeap(next, r) /\ Extends(h, r, next, r)
<1>1. GoodHeap(h, r) /\ IsHeap(h) /\ DOMAIN r \subseteq DOMAIN h /\ id \in DOMAIN h
  BY DEF SoundHeap, GoodHeap
<1>2. GoodHeap(next, r) /\ Extends(h, r, next, r)
  BY <1>1, WriteSlot
<1>3. Sets(h, id, slot, p, next)
  BY <1>1, SetSlotIs
<1>4. ASSUME NEW i \in DOMAIN next PROVE HasContent(next[i], DOMAIN next) /\ HasState(next[i])
  <2>1. i \in DOMAIN h /\ DOMAIN next = DOMAIN h
    BY <1>3 DEF Sets
  <2>2. HasContent(h[i], DOMAIN h) /\ HasState(h[i])
    BY <2>1 DEF SoundHeap
  <2>3. CASE i # id
    <3>1. next[i] = h[i]
      BY <1>3, <2>1, <2>3 DEF Sets
    <3> QED BY <2>1, <2>2, <3>1
  <2>4. CASE i = id
    <3>1. HasState(next[i])
      BY <1>3, <2>2, <2>4 DEF Sets, HasState
    <3>2. GoodNode(next, r, next[i], r[i])
      BY <1>2, <2>4 DEF GoodHeap
    <3>3. HasContent(next[i], DOMAIN next)
      BY <1>1, <2>1, <3>2, GoodContent
    <3> QED BY <3>1, <3>3
  <2> QED BY <2>3, <2>4
<1> QED BY <1>2, <1>4 DEF SoundHeap

\* Nothing but locks and marks differs.
SameContent(h, g) ==
  /\ IsHeap(g) /\ DOMAIN g = DOMAIN h
  /\ \A i \in DOMAIN h : /\ g[i].height = h[i].height /\ g[i].keys = h[i].keys
                         /\ g[i].ptrs = h[i].ptrs /\ HasState(g[i])

\* Locking, unlocking and marking.
LEMMA SoundState ==
  ASSUME NEW h, NEW r, SoundHeap(h, r), NEW g, SameContent(h, g)
  PROVE  SoundHeap(g, r) /\ Extends(h, r, g, r)
<1>1. GoodHeap(h, r) /\ DOMAIN r \subseteq DOMAIN h
  BY DEF SoundHeap, GoodHeap
<1>2. Extends(h, r, g, r)
  BY <1>1 DEF SameContent, Extends
<1>3. ASSUME NEW i \in DOMAIN r PROVE GoodNode(g, r, g[i], r[i])
  <2>1. GoodNode(h, r, h[i], r[i])
    BY <1>1 DEF GoodHeap
  <2>2. GoodNode(g, r, h[i], r[i])
    BY <1>2, <2>1, GoodNodeLater
  <2>3. g[i].height = h[i].height /\ g[i].keys = h[i].keys /\ g[i].ptrs = h[i].ptrs
    BY <1>1 DEF SameContent
  <2> QED BY <2>2, <2>3 DEF GoodNode, Represents
<1>4. GoodHeap(g, r)
  BY <1>1, <1>3 DEF SameContent, GoodHeap
<1>5. ASSUME NEW i \in DOMAIN g PROVE HasContent(g[i], DOMAIN g) /\ HasState(g[i])
  <2>1. i \in DOMAIN h /\ HasContent(h[i], DOMAIN h)
    BY DEF SameContent, SoundHeap
  <2> QED BY <2>1 DEF SameContent, HasContent
<1> QED BY <1>2, <1>4, <1>5 DEF SoundHeap

\* A node that nobody will link.
LEMMA SoundStray ==
  ASSUME NEW h, NEW r, SoundHeap(h, r), NEW content, HasContent(content, DOMAIN h),
         NEW a, a = Allocate(h, content)
  PROVE  SoundHeap(a.heap, r) /\ Extends(h, r, a.heap, r)
<1>1. GoodHeap(h, r) /\ IsHeap(h) /\ DOMAIN r \subseteq DOMAIN h
  BY DEF SoundHeap, GoodHeap
<1>2. Adds(h, content, a, Len(h) + 1)
  BY <1>1, AllocateIs
<1>3. PICK n : n = Len(h) + 1 /\ Adds(h, content, a, n)
  BY <1>2
<1>4. DOMAIN h \subseteq DOMAIN a.heap /\ (\A i \in DOMAIN a.heap : i \in DOMAIN h \/ i = n) /\ IsHeap(a.heap)
  BY <1>3 DEF Adds
<1>5. Extends(h, r, a.heap, r)
  BY <1>1, <1>3, <1>4 DEF Adds, Extends
<1>6. ASSUME NEW i \in DOMAIN r PROVE GoodNode(a.heap, r, a.heap[i], r[i])
  <2>1. GoodNode(h, r, h[i], r[i]) /\ a.heap[i] = h[i]
    BY <1>1, <1>3 DEF GoodHeap, Adds
  <2> QED BY <1>5, <2>1, GoodNodeLater
<1>7. GoodHeap(a.heap, r)
  BY <1>1, <1>4, <1>6 DEF GoodHeap
<1>8. ASSUME NEW i \in DOMAIN a.heap PROVE HasContent(a.heap[i], DOMAIN a.heap) /\ HasState(a.heap[i])
  <2>1. CASE i \in DOMAIN h
    <3>1. a.heap[i] = h[i]
      BY <1>3, <2>1 DEF Adds
    <3>2. HasContent(h[i], DOMAIN h) /\ HasState(h[i])
      BY <2>1 DEF SoundHeap
    <3> QED BY <1>4, <3>1, <3>2, ContentLater
  <2>2. CASE i = n
    <3>1. /\ a.heap[i].height = content.height /\ a.heap[i].keys = content.keys
          /\ a.heap[i].ptrs = content.ptrs /\ IsFresh(a.heap[i])
      BY <1>3, <2>2 DEF Adds
    <3>2. HasContent(content, DOMAIN a.heap)
      BY <1>4, ContentLater
    <3> QED BY <3>1, <3>2, FreshState DEF HasContent
  <2> QED BY <1>4, <2>1, <2>2
<1> QED BY <1>5, <1>7, <1>8 DEF SoundHeap

\* The heap has the type that the type invariant gives it.
LEMMA SoundIsTyped ==
  ASSUME NEW h, NEW r, SoundHeap(h, r)
  PROVE  /\ h \in Seq([height : Nat \ {0}, keys : Seq(SUBSET Bits), ptrs : Seq(PointersTo(DOMAIN h)),
                      lock : Threads \cup {NoThread}, obsolete : BOOLEAN, scheduled : Nat])
         /\ \A i \in DOMAIN h :
              /\ Len(h[i].keys) = Len(h[i].ptrs) /\ Len(h[i].ptrs) \in 2 .. MaxEntries
              /\ h[i].keys[1] = {}
<1> DEFINE R == [height : Nat \ {0}, keys : Seq(SUBSET Bits), ptrs : Seq(PointersTo(DOMAIN h)),
                 lock : Threads \cup {NoThread}, obsolete : BOOLEAN, scheduled : Nat]
<1>1. IsHeap(h)
  BY DEF SoundHeap, GoodHeap
<1>2. ASSUME NEW i \in DOMAIN h PROVE h[i] \in R
  <2>1. DOMAIN h[i] = NodeFields /\ h[i] = [f \in DOMAIN h[i] |-> h[i][f]]
    BY <1>1 DEF IsHeap, IsFunction
  <2>2. HasContent(h[i], DOMAIN h) /\ HasState(h[i])
    BY DEF SoundHeap
  <2> QED BY <2>1, <2>2 DEF HasContent, HasState, NodeFields
<1> HIDE DEF R
<1>3. PICK S : h \in Seq(S)
  BY <1>1 DEF IsHeap
<1>4. h \in Seq(R)
  BY <1>2, <1>3
<1>5. \A i \in DOMAIN h : HasContent(h[i], DOMAIN h)
  BY DEF SoundHeap
<1> QED BY <1>4, <1>5 DEF R, HasContent

-----------------------------------------------------------------------------
(* What every thread knows of the nodes                                    *)

\* The root pointer, read once, is still not empty, and if it is a leaf then that of a key.
RootStays(top, key) == top # EmptyPointer /\ (IsLeaf(top) => top.key = key)

\* The root pointer leads somewhere.
RootFits(top, r) == top = EmptyPointer \/ IsChild(r, top)

\* How the root pointer changes: what is there is not lost, and a leaf stays one of its key.
RootMoves(top, next) ==
  \/ next = top
  \/ next # EmptyPointer /\ (IsLeaf(next) => top = EmptyPointer \/ (IsLeaf(top) /\ next.key = top.key))

\* A lookup keeps the node that it is in, the others keep the path to it.
DescentFits(h, r, path, key, routine) ==
  /\ Len(path) \in Nat \ {0} /\ AtNode(r, LeafEntry(path), key)
  /\ routine # "lookup" => IsPath(h, r, path, key)

\* The path of an upsert ends at the leaf of its key.
LeafFits(h, r, path, key) ==
  /\ IsPath(h, r, path, key) /\ Len(path) >= 2
  /\ LeafEntry(path).ptr \in LeafPointers /\ LeafEntry(path).ptr.key = key

\* The root that was a leaf of another key.
PairFits(top, expected, key) ==
  expected \in LeafPointers /\ expected.key # key /\ RootStays(top, expected.key)

\* What is swapped in for the root fits if the root is what it was.
SwapFits(top, r, expected, p) ==
  \/ expected = EmptyPointer /\ p \in LeafPointers
  \/ /\ expected \in LeafPointers /\ RootStays(top, expected.key)
     /\ IsLeaf(top) => IsChild(r, p) /\ (IsLeaf(p) => p.key = expected.key)

\* What is about to be written to a slot, or to the root, fits in there.
WriteFits(h, r, loc, p) ==
  /\ IsChild(r, p) /\ ~IsLeaf(p)
  /\ \/ loc = RootLocation
     \/ \E id \in DOMAIN r : \E slot \in DOMAIN r[id].reps :
          loc = SlotLocation(id, slot) /\ FitsIn(h, r, p, h[id].height, r[id], slot)

\* What a thread knows at a label, by its routine, its stack, its plan and its key.
KnowsAt(h, r, top, label, routine, path, plan, key) ==
  /\ label = "descend" => DescentFits(h, r, path, key, routine)
  /\ label \in LockingLabels => IsLeafPath(h, r, path, key)
  /\ label = "publish" => WriteFits(h, r, plan.loc, plan.ptr)
  /\ label \in LeafLabels => LeafFits(h, r, path, key)
  /\ label = "pair" => PairFits(top, plan.expected, key)
  /\ label = "cas" => SwapFits(top, r, plan.expected, plan.ptr)

\* A search that has read a node, its place in the path and what is below it stay where they
\* are: nodes do not change but for pointers that fit as well.
LEMMA PathLater ==
  ASSUME NEW h, NEW r, NEW next, NEW more, Extends(h, r, next, more), NEW key
  PROVE  /\ \A s : AtNode(r, s, key) => AtNode(more, s, key)
         /\ \A path : IsPath(h, r, path, key) => IsPath(next, more, path, key)
<1>1. ASSUME NEW s, AtNode(r, s, key) PROVE AtNode(more, s, key)
  BY <1>1 DEF AtNode, Extends
<1>2. ASSUME NEW s, NEW t, AtNode(r, s, key), IsBelow(h, r, s, t) PROVE IsBelow(next, more, s, t)
  <2>1. s.ptr.id \in DOMAIN r
    BY <1>2 DEF AtNode
  <2>2. more[s.ptr.id] = r[s.ptr.id] /\ next[s.ptr.id].height = h[s.ptr.id].height
    BY <2>1 DEF Extends
  <2>3. FitsIn(h, r, t.ptr, h[s.ptr.id].height, r[s.ptr.id], s.entry)
    BY <1>2 DEF IsBelow
  <2>4. FitsIn(next, more, t.ptr, h[s.ptr.id].height, r[s.ptr.id], s.entry)
    BY <2>3, FitsInLater
  <2> QED BY <1>2, <2>2, <2>4 DEF IsBelow
<1>3. ASSUME NEW path, IsPath(h, r, path, key) PROVE IsPath(next, more, path, key)
  BY <1>1, <1>2, <1>3, Zenon DEF IsPath
<1> QED BY <1>1, <1>3

\* What a thread knows stays true when there are more nodes and the root moves.
LEMMA KnowsLater ==
  ASSUME NEW h, NEW r, NEW next, NEW more, Extends(h, r, next, more),
         NEW top, NEW to, RootMoves(top, to),
         NEW label, NEW routine, NEW path, NEW plan, NEW key,
         KnowsAt(h, r, top, label, routine, path, plan, key)
  PROVE  KnowsAt(next, more, to, label, routine, path, plan, key)
<1>1. DescentFits(h, r, path, key, routine) => DescentFits(next, more, path, key, routine)
  BY PathLater, Zenon DEF DescentFits
<1>2. IsLeafPath(h, r, path, key) => IsLeafPath(next, more, path, key)
  BY PathLater, Zenon DEF IsLeafPath
<1>3. LeafFits(h, r, path, key) => LeafFits(next, more, path, key)
  BY PathLater, Zenon DEF LeafFits
<1>4. ASSUME NEW loc, NEW p, WriteFits(h, r, loc, p) PROVE WriteFits(next, more, loc, p)
  <2>1. IsChild(more, p) /\ ~IsLeaf(p)
    BY <1>4, FitsInLater DEF WriteFits
  <2>2. ASSUME NEW id \in DOMAIN r, NEW slot \in DOMAIN r[id].reps, loc = SlotLocation(id, slot),
               FitsIn(h, r, p, h[id].height, r[id], slot)
        PROVE  /\ id \in DOMAIN more /\ slot \in DOMAIN more[id].reps
               /\ FitsIn(next, more, p, next[id].height, more[id], slot)
    <3>1. id \in DOMAIN more /\ more[id] = r[id] /\ next[id].height = h[id].height
      BY DEF Extends
    <3>2. FitsIn(next, more, p, h[id].height, r[id], slot)
      BY <2>2, FitsInLater
    <3> QED BY <3>1, <3>2
  <2> QED BY <1>4, <2>1, <2>2, Zenon DEF WriteFits
<1>5. ASSUME NEW l, RootStays(top, l) PROVE RootStays(to, l) /\ (IsLeaf(to) => IsLeaf(top))
  BY <1>5 DEF RootStays, RootMoves
<1>6. ASSUME NEW p, IsChild(r, p) PROVE IsChild(more, p)
  BY <1>6, FitsInLater
<1>7. \A expected : PairFits(top, expected, key) => PairFits(to, expected, key)
  BY <1>5, Zenon DEF PairFits
<1>8. \A expected, p : SwapFits(top, r, expected, p) => SwapFits(to, more, expected, p)
  BY <1>5, <1>6, Zenon DEF SwapFits
<1> QED BY <1>1, <1>2, <1>3, <1>4, <1>7, <1>8, Zenon DEF KnowsAt

\* A chain of extensions.
LEMMA ExtendsOn ==
  ASSUME NEW h, NEW r, NEW g, NEW s, Extends(h, r, g, s), NEW k, NEW u, Extends(g, s, k, u)
  PROVE  Extends(h, r, k, u)
BY DEF Extends

\* Nothing changes.
LEMMA ExtendsItself ==
  ASSUME NEW h, NEW r
  PROVE  Extends(h, r, h, r)
BY DEF Extends

\* Writing a lock.
LEMMA LockIsState ==
  ASSUME NEW h, NEW r, SoundHeap(h, r), NEW id \in DOMAIN h, NEW l \in Threads \cup {NoThread},
         NEW g, LockSet(h, g, id, l)
  PROVE  SameContent(h, g)
<1>1. IsHeap(h) /\ \A i \in DOMAIN h : HasState(h[i])
  BY DEF SoundHeap, GoodHeap
<1> DEFINE new == [h[id] EXCEPT !.lock = l]
<1>2. g = [h EXCEPT ![id] = new]
  BY DEF LockSet
<1>3. DOMAIN h[id] = NodeFields
  BY <1>1 DEF IsHeap
<1>4. IsFunction(new)
  BY DEF IsFunction
<1>5. /\ DOMAIN new = NodeFields /\ new.height = h[id].height /\ new.keys = h[id].keys
      /\ new.ptrs = h[id].ptrs /\ new.lock = l /\ new.obsolete = h[id].obsolete
      /\ new.scheduled = h[id].scheduled
  BY <1>3 DEF NodeFields
<1> HIDE DEF new
<1>6. PICK S : h \in Seq(S)
  BY <1>1 DEF IsHeap
<1>7. g \in Seq(S \cup {new})
  BY <1>2, <1>6
<1>8. DOMAIN g = DOMAIN h /\ g[id] = new /\ \A i \in DOMAIN h \ {id} : g[i] = h[i]
  BY <1>2
<1>9. IsHeap(g)
  BY <1>1, <1>4, <1>5, <1>7, <1>8 DEF IsHeap
<1>10. HasState(new)
  BY <1>1, <1>5 DEF HasState
<1> QED BY <1>1, <1>5, <1>8, <1>9, <1>10 DEF SameContent

\* Marking nodes.
LEMMA MarkIsState ==
  ASSUME NEW h, NEW r, SoundHeap(h, r), NEW ids, NEW g, g = MarkObsolete(h, ids)
  PROVE  SameContent(h, g)
<1>1. IsHeap(h) /\ \A i \in DOMAIN h : HasState(h[i])
  BY DEF SoundHeap, GoodHeap
<1> DEFINE new(i) == [h[i] EXCEPT !.obsolete = TRUE, !.scheduled = @ + 1]
<1>2. g = [i \in DOMAIN h |-> IF i \in ids THEN new(i) ELSE h[i]]
  BY DEF MarkObsolete
<1>3. ASSUME NEW i \in DOMAIN h
      PROVE  /\ IsFunction(new(i)) /\ DOMAIN new(i) = NodeFields
             /\ new(i).height = h[i].height /\ new(i).keys = h[i].keys /\ new(i).ptrs = h[i].ptrs
             /\ HasState(new(i))
  <2>1. DOMAIN h[i] = NodeFields
    BY <1>1 DEF IsHeap
  <2>2. IsFunction(new(i))
    BY DEF IsFunction
  <2>3. /\ DOMAIN new(i) = NodeFields /\ new(i).height = h[i].height /\ new(i).keys = h[i].keys
        /\ new(i).ptrs = h[i].ptrs /\ new(i).lock = h[i].lock /\ new(i).obsolete \in BOOLEAN
        /\ new(i).scheduled = h[i].scheduled + 1
    BY <2>1 DEF NodeFields
  <2>4. HasState(new(i))
    BY <1>1, <2>3 DEF HasState
  <2> QED BY <2>2, <2>3, <2>4
<1> HIDE DEF new
<1>4. DOMAIN g = DOMAIN h /\ \A i \in DOMAIN h : g[i] = new(i) \/ g[i] = h[i]
  BY <1>2
<1>5. PICK S : h \in Seq(S)
  BY <1>1 DEF IsHeap
<1>6. Len(h) \in Nat /\ DOMAIN h = 1 .. Len(h)
  BY <1>5
<1>7. g \in [1 .. Len(h) -> { g[i] : i \in DOMAIN h }]
  BY <1>2, <1>6
<1>8. g \in Seq({ g[i] : i \in DOMAIN h })
  BY <1>6, <1>7
<1>9. \A i \in DOMAIN h : IsFunction(g[i]) /\ DOMAIN g[i] = NodeFields
  BY <1>1, <1>3, <1>4 DEF IsHeap
<1>10. IsHeap(g)
  BY <1>4, <1>8, <1>9 DEF IsHeap
<1> QED BY <1>1, <1>3, <1>4, <1>10 DEF SameContent

-----------------------------------------------------------------------------
(* The shape of the trie as an invariant                                   *)

KeyTyped(t) == Key(t) \in Keys /\ call[t].value \in Values

\* What a thread knows: its key, and of the nodes what its place in the call says.
ThreadShape(t, r) ==
  /\ \E S : stack[t] \in Seq(S)
  /\ pc[t] # "idle" => KeyTyped(t)
  /\ KnowsAt(heap, r, root, pc[t], mode[t], stack[t], pending[t], Key(t))

\* The nodes that r knows are good, the root leads to one of them or to a leaf, and what
\* the threads know of them is true.
Shape(r) ==
  /\ SoundHeap(heap, r) /\ RootFits(root, r)
  /\ \A t \in Threads : ThreadShape(t, r)

\* What a step of a thread is shown to do: it leaves a shape, in which it knows what its new
\* place in the call says, and in which what the others know is true still.
ShapeMove(t, r, more) ==
  /\ SoundHeap(heap', more) /\ Extends(heap, r, heap', more)
  /\ RootMoves(root, root') /\ RootFits(root', more)
  /\ ThreadShape(t, more)'

\* A step that writes no shared memory.
LEMMA QuietMove ==
  ASSUME NEW t, NEW r, Shape(r), UNCHANGED << root, heap >>, ThreadShape(t, r)'
  PROVE  ShapeMove(t, r, r)
<1>1. Extends(heap, r, heap, r)
  BY ExtendsItself
<1>2. SoundHeap(heap, r) /\ RootFits(root, r) /\ RootMoves(root, root)
  BY DEF Shape, RootMoves
<1>3. heap' = heap /\ root' = root
  OBVIOUS
<1> QED BY <1>1, <1>2, <1>3, Zenon DEF ShapeMove

\* Where a thread knows nothing of the nodes.
EasyLabels == {"idle", "root", "swapped", "fault"}

\* Nothing is to be shown there.
LEMMA NothingKnown ==
  ASSUME NEW label, label \in EasyLabels, NEW h, NEW r, NEW top, NEW routine, NEW path, NEW plan, NEW key
  PROVE  KnowsAt(h, r, top, label, routine, path, plan, key)
<1>1. label = "idle" \/ label = "root" \/ label = "swapped" \/ label = "fault"
  BY Zenon DEF EasyLabels
<1>2. label \in CalmLabels \cup {"descend", "lock leaf"}
  BY <1>1, Zenon DEF CalmLabels
<1>3. label \notin LockingLabels /\ label \notin {"overwrite", "unlock leaf"}
  BY <1>2, LabelsDiffer
<1>4. label # "descend" /\ label # "publish" /\ label # "pair" /\ label # "cas" /\ label # "lock leaf"
  BY <1>1, Zenon
<1>5. label \notin LeafLabels
  BY <1>3, <1>4, Zenon DEF LeafLabels
<1> QED BY <1>3, <1>4, <1>5, Zenon DEF KnowsAt

\* A thread at such a label.
LEMMA EasyShape ==
  ASSUME NEW t, NEW r, pc'[t] \in EasyLabels, \E S : stack'[t] \in Seq(S),
         pc'[t] # "idle" => KeyTyped(t)'
  PROVE  ThreadShape(t, r)'
<1>1. KnowsAt(heap', r, root', pc'[t], mode'[t], stack'[t], pending'[t], Key(t)')
  BY NothingKnown
<1> QED BY <1>1, Zenon DEF ThreadShape

\* The key of a call does not change while it runs.
LEMMA KeyStays ==
  ASSUME NEW t \in Threads, SameKeys
  PROVE  Key(t)' = Key(t) /\ (KeyTyped(t) => KeyTyped(t)')
BY DEF SameKeys, KeyTyped, Key

\* The stack is empty after a call and before another round.
LEMMA StackDropped ==
  ASSUME LocalShape, NEW t \in Threads, stack' = [stack EXCEPT ![t] = << >>]
  PROVE  \E S : stack'[t] \in Seq(S)
<1>1. stack'[t] = << >>
  BY DEF LocalShape
<1>2. << >> \in Seq({})
  OBVIOUS
<1> QED BY <1>1, <1>2, Zenon

\* After a call.
LEMMA FinishShape ==
  ASSUME Typed, LocalShape, NEW t \in Threads, NEW result, Finish(t, result), NEW r
  PROVE  ThreadShape(t, r)'
<1>1. pc'[t] = "idle"
  BY FinishIs
<1>2. \E S : stack'[t] \in Seq(S)
  BY StackDropped DEF Finish
<1>3. pc'[t] \in EasyLabels
  BY <1>1 DEF EasyLabels
<1> QED BY <1>1, <1>2, <1>3, EasyShape

\* Before another round.
LEMMA RetryShape ==
  ASSUME Typed, LocalShape, NEW t \in Threads, Retry(t), SameKeys, KeyTyped(t), NEW r
  PROVE  ThreadShape(t, r)'
<1>1. pc'[t] = "root"
  BY GotoIs DEF Retry
<1>2. \E S : stack'[t] \in Seq(S)
  BY StackDropped DEF Retry
<1>3. pc'[t] \in EasyLabels
  BY <1>1 DEF EasyLabels
<1>4. KeyTyped(t)'
  BY KeyStays
<1> QED BY <1>2, <1>3, <1>4, EasyShape

\* After an insert, which may have been called by upsert.
LEMMA FinishInsertShape ==
  ASSUME Typed, LocalShape, NEW t \in Threads, NEW result, FinishInsert(t, result), KeyTyped(t), NEW r
  PROVE  ThreadShape(t, r)'
<1>1. CASE call[t].kind = "insert"
  BY <1>1, FinishShape DEF FinishInsert
<1>2. CASE call[t].kind # "insert"
  <2>1. Retry(t) /\ UNCHANGED call
    BY <1>2 DEF FinishInsert, Retry
  <2> QED BY <2>1, KeysUnchanged, RetryShape
<1> QED BY <1>1, <1>2

\* After insertNewValue.
LEMMA FinishNewValueShape ==
  ASSUME Typed, LocalShape, NEW t \in Threads, FinishNewValue(t), KeyTyped(t), NEW r
  PROVE  ThreadShape(t, r)'
<1>1. CASE mode[t] = "insert"
  BY <1>1, FinishInsertShape DEF FinishNewValue
<1>2. CASE mode[t] # "insert"
  BY <1>2, FinishShape DEF FinishNewValue
<1> QED BY <1>1, <1>2

\* The key of a thread that is in a call.
LEMMA KeyOfCall ==
  ASSUME NEW t \in Threads, NEW r, Shape(r), pc[t] # "idle"
  PROVE  KeyTyped(t) /\ \E S : stack[t] \in Seq(S)
BY DEF Shape, ThreadShape

\* What is to be shown at the labels where a thread knows something.
LEMMA KnowsPlace ==
  ASSUME NEW h, NEW r, NEW top, NEW routine, NEW path, NEW plan, NEW key
  PROVE  /\ DescentFits(h, r, path, key, routine) => KnowsAt(h, r, top, "descend", routine, path, plan, key)
         /\ PairFits(top, plan.expected, key) => KnowsAt(h, r, top, "pair", routine, path, plan, key)
         /\ SwapFits(top, r, plan.expected, plan.ptr) => KnowsAt(h, r, top, "cas", routine, path, plan, key)
         /\ \A label \in LockingLabels :
              IsLeafPath(h, r, path, key) /\ (label = "publish" => WriteFits(h, r, plan.loc, plan.ptr))
                => KnowsAt(h, r, top, label, routine, path, plan, key)
         /\ \A label \in LeafLabels :
              LeafFits(h, r, path, key) => KnowsAt(h, r, top, label, routine, path, plan, key)
<1>1. \A label \in LockingLabels : label \notin LeafLabels /\ label # "descend" /\ label # "pair" /\ label # "cas"
  BY Zenon DEF LockingLabels, LeafLabels
<1>2. \A label \in LeafLabels : label # "publish" /\ label # "descend" /\ label # "pair" /\ label # "cas"
  BY Zenon DEF LeafLabels
<1>3. /\ "descend" \notin LockingLabels /\ "descend" \notin LeafLabels
      /\ "descend" # "pair" /\ "descend" # "cas" /\ "descend" # "publish"
  BY Zenon DEF LockingLabels, LeafLabels
<1>4. /\ "pair" \notin LockingLabels /\ "pair" \notin LeafLabels
      /\ "pair" # "descend" /\ "pair" # "cas" /\ "pair" # "publish"
  BY Zenon DEF LockingLabels, LeafLabels
<1>5. /\ "cas" \notin LockingLabels /\ "cas" \notin LeafLabels
      /\ "cas" # "descend" /\ "cas" # "pair" /\ "cas" # "publish"
  BY Zenon DEF LockingLabels, LeafLabels
<1>6. DescentFits(h, r, path, key, routine) => KnowsAt(h, r, top, "descend", routine, path, plan, key)
  BY <1>3, Zenon DEF KnowsAt
<1>7. PairFits(top, plan.expected, key) => KnowsAt(h, r, top, "pair", routine, path, plan, key)
  BY <1>4, Zenon DEF KnowsAt
<1>8. SwapFits(top, r, plan.expected, plan.ptr) => KnowsAt(h, r, top, "cas", routine, path, plan, key)
  BY <1>5, Zenon DEF KnowsAt
<1>9. \A label \in LockingLabels :
        IsLeafPath(h, r, path, key) /\ (label = "publish" => WriteFits(h, r, plan.loc, plan.ptr))
          => KnowsAt(h, r, top, label, routine, path, plan, key)
  BY <1>1, Zenon DEF KnowsAt
<1>10. \A label \in LeafLabels :
         LeafFits(h, r, path, key) => KnowsAt(h, r, top, label, routine, path, plan, key)
  BY <1>1, <1>2, Zenon DEF KnowsAt
<1> QED BY <1>6, <1>7, <1>8, <1>9, <1>10

\* The calls that are still to be made have keys and values of the index.
CallsTyped ==
  calls \in [Threads -> Seq(SUBSET [kind : {"lookup", "insert", "upsert"}, key : Keys, value : Values])]

\* Calling.
LEMMA InvokeShape ==
  ASSUME Typed, CallsTyped, LocalShape, NEW r, Shape(r), NEW t \in Threads, Invoke(t)
  PROVE  ShapeMove(t, r, r)
<1>1. PICK c \in Head(calls[t]) :
        /\ call' = [call EXCEPT ![t] = Index!NewCall(c.kind, c.key, c.value, Contents[c.key])]
        /\ mode' = [mode EXCEPT ![t] = c.kind]
  BY Zenon DEF Invoke
<1>2. calls[t] # << >> /\ Goto(t, "root") /\ UNCHANGED << root, heap, stack >>
  BY Zenon DEF Invoke
<1>3. c.key \in Keys /\ c.value \in Values
  <2> DEFINE C == [kind : {"lookup", "insert", "upsert"}, key : Keys, value : Values]
  <2>1. calls[t] \in Seq(SUBSET C)
    BY DEF CallsTyped
  <2>2. c \in C
    <3> HIDE DEF C
    <3>1. Head(calls[t]) \in SUBSET C
      BY <1>2, <2>1
    <3> QED BY <3>1
  <2> QED BY <2>2
<1> DEFINE n == Index!NewCall(c.kind, c.key, c.value, Contents[c.key])
<1>4. n.key = c.key /\ n.value = c.value
  BY DEF Index!NewCall
<1>5. call' = [call EXCEPT ![t] = n]
  BY <1>1
<1> HIDE DEF n
<1>6. KeyTyped(t)'
  BY <1>3, <1>4, <1>5 DEF LocalShape, KeyTyped, Key
<1>7. pc'[t] = "root"
  BY <1>2, GotoIs
<1>8. \E S : stack'[t] \in Seq(S)
  BY <1>2 DEF Shape, ThreadShape
<1>9. pc'[t] \in EasyLabels
  BY <1>7 DEF EasyLabels
<1>10. ThreadShape(t, r)'
  BY <1>6, <1>8, <1>9, EasyShape
<1> QED BY <1>2, <1>10, QuietMove

\* A search enters a node, in the entry that its key leads to.
LEMMA EntryIsAt ==
  ASSUME NEW r, GoodHeap(heap, r), NEW p, IsChild(r, p), IsAValidNode(p), NEW key \in Keys, NEW loc,
         NEW s, s = EntryFor(loc, p, key)
  PROVE  AtNode(r, s, key) /\ s.loc = loc /\ s.ptr = p
<1>1. s.loc = loc /\ s.ptr = p /\ s.entry = Search(heap[p.id], key)
  BY DEF EntryFor, StackEntry
<1>2. p.id \in DOMAIN r /\ p = NodePointer(p.id)
  BY ChildIs
<1>3. GoodNode(heap, r, heap[p.id], r[p.id])
  BY <1>2 DEF GoodHeap
<1>4. Represents(heap[p.id], r[p.id].reps) /\ Len(r[p.id].reps) \in 2 .. MaxEntries
  BY <1>3 DEF GoodNode
<1>5. Len(r[p.id].reps) >= 1
  BY <1>4
<1>6. key \in AllKeys
  BY KeysAssumption
<1>7. s.entry \in DOMAIN r[p.id].reps /\ \A c \in PathBits(r[p.id].reps, s.entry) : c \in key <=> c \in r[p.id].reps[s.entry]
  BY <1>1, <1>4, <1>5, <1>6, SearchFollowsPath
<1> QED BY <1>1, <1>2, <1>7 DEF AtNode

\* A path of one node.
LEMMA OneNode ==
  ASSUME NEW h, NEW r, NEW s, NEW key, AtNode(r, s, key)
  PROVE  /\ << s >> \in Seq({s}) /\ Len(<< s >>) = 1 /\ LeafEntry(<< s >>) = s
         /\ s.loc = RootLocation => IsPath(h, r, << s >>, key)
         /\ \A routine : (routine # "lookup" => s.loc = RootLocation)
                           => DescentFits(h, r, << s >>, key, routine)
<1>1. << s >> \in Seq({s}) /\ Len(<< s >>) = 1 /\ DOMAIN << s >> = 1 .. Len(<< s >>) /\ << s >>[1] = s
  OBVIOUS
<1>2. \A j \in 1 .. 1 - 1 : FALSE
  OBVIOUS
<1>3. 1 \in Nat \ {0}
  OBVIOUS
<1>4. LeafEntry(<< s >>) = s
  BY <1>1 DEF LeafEntry
<1>5. s.loc = RootLocation => IsPath(h, r, << s >>, key)
  BY <1>1, <1>2, <1>3, Zenon DEF IsPath
<1> QED BY <1>1, <1>3, <1>4, <1>5, Zenon DEF DescentFits

\* Loading a root that is a node.
LEMMA LoadRootNodeShape ==
  ASSUME Typed, LocalShape, NEW r, Shape(r), NEW t \in Threads, LoadRootNode(t)
  PROVE  ShapeMove(t, r, r)
<1>1. /\ pc[t] = "root" /\ IsAValidNode(root)
      /\ stack' = [stack EXCEPT ![t] = << EntryFor(RootLocation, root, Key(t)) >>]
      /\ Goto(t, "descend") /\ UNCHANGED << root, heap, call, mode, held, pending >>
  BY Zenon DEF LoadRootNode
<1>2. KeyTyped(t)
  <2>1. pc[t] # "idle"
    BY <1>1, Zenon
  <2> QED BY <2>1, KeyOfCall
<1> DEFINE s == EntryFor(RootLocation, root, Key(t))
<1>3. stack'[t] = << s >>
  BY <1>1 DEF LocalShape
<1>4. s = EntryFor(RootLocation, root, Key(t))
  OBVIOUS
<1> HIDE DEF s
<1>5. IsChild(r, root)
  BY <1>1 DEF Shape, RootFits, IsAValidNode, EmptyPointer
<1>6. GoodHeap(heap, r)
  BY DEF Shape, SoundHeap
<1>7. AtNode(r, s, Key(t)) /\ s.loc = RootLocation
  BY <1>1, <1>2, <1>4, <1>5, <1>6, EntryIsAt DEF KeyTyped
<1>8. DescentFits(heap, r, << s >>, Key(t), mode[t]) /\ << s >> \in Seq({s})
  BY <1>7, OneNode, Zenon
<1>9. SameKeys
  BY <1>1, KeysUnchanged
<1>10. Key(t)' = Key(t) /\ KeyTyped(t)'
  BY <1>2, <1>9, KeyStays
<1>11. pc'[t] = "descend"
  BY <1>1, GotoIs
<1>12. KnowsAt(heap, r, root, "descend", mode[t], << s >>, pending[t], Key(t))
  BY <1>8, KnowsPlace
<1>13. ThreadShape(t, r)'
  BY <1>1, <1>3, <1>8, <1>10, <1>11, <1>12, Zenon DEF ThreadShape
<1> QED BY <1>1, <1>13, QuietMove

\* A thread that goes on to swap the root, or to build what it will swap in.
LEMMA SwapShape ==
  ASSUME Typed, LocalShape, NEW r, Shape(r), NEW t \in Threads, pc[t] # "idle",
         UNCHANGED << call, mode, stack >>, NEW label, Goto(t, label),
         \/ label = "pair" /\ PairFits(root', pending'[t].expected, Key(t))
         \/ label = "cas" /\ SwapFits(root', r, pending'[t].expected, pending'[t].ptr)
  PROVE  ThreadShape(t, r)'
<1>1. KeyTyped(t) /\ \E S : stack[t] \in Seq(S)
  BY KeyOfCall
<1>2. Key(t)' = Key(t) /\ KeyTyped(t)'
  BY <1>1, KeysUnchanged, KeyStays
<1>3. pc'[t] = label
  BY GotoIs
<1>4. KnowsAt(heap', r, root', label, mode[t], stack[t], pending'[t], Key(t))
  BY KnowsPlace, Zenon
<1> QED BY <1>1, <1>2, <1>3, <1>4, Zenon DEF ThreadShape

\* Loading a root that is a leaf.
LEMMA LoadRootLeafShape ==
  ASSUME Typed, LocalShape, NEW r, Shape(r), NEW t \in Threads, LoadRootLeaf(t)
  PROVE  ShapeMove(t, r, r)
<1>1. pc[t] = "root" /\ IsLeaf(root) /\ UNCHANGED << root, heap, held >>
  BY Zenon DEF LoadRootLeaf
<1>2. pc[t] # "idle"
  BY <1>1, Zenon
<1>3. KeyTyped(t) /\ \E S : stack[t] \in Seq(S)
  BY <1>2, KeyOfCall
<1>4. {"loc", "ptr", "after", "expected"} \subseteq DOMAIN pending[t] /\ DOMAIN pending = Threads
  BY DEF LocalShape
<1>5. root \in LeafPointers /\ RootStays(root, root.key)
  <2>1. root # EmptyPointer
    BY <1>1 DEF IsLeaf, EmptyPointer
  <2>2. IsChild(r, root)
    BY <2>1 DEF Shape, RootFits
  <2> QED BY <1>1, <2>1, <2>2, ChildIs DEF RootStays
<1> SUFFICES ThreadShape(t, r)'
  BY <1>1, QuietMove
<1>6. ASSUME NEW result, Finish(t, result) \/ FinishInsert(t, result)
      PROVE  ThreadShape(t, r)'
  BY <1>3, <1>6, FinishShape, FinishInsertShape
<1>7. ASSUME root.key # Key(t), pending' = [pending EXCEPT ![t].expected = root], Goto(t, "pair"),
             UNCHANGED << call, mode, stack >>
      PROVE  ThreadShape(t, r)'
  <2>1. pending'[t].expected = root
    BY <1>4, <1>7
  <2>2. PairFits(root, root, Key(t))
    BY <1>5, <1>7 DEF PairFits
  <2>3. PairFits(root', pending'[t].expected, Key(t))
    BY <1>1, <2>1, <2>2
  <2> QED BY <1>2, <1>7, <2>3, SwapShape
<1>8. ASSUME root.key = Key(t), pending' = [pending EXCEPT ![t].expected = root, ![t].ptr = NewLeaf(t)],
             Goto(t, "cas"), UNCHANGED << call, mode, stack >>
      PROVE  ThreadShape(t, r)'
  <2> DEFINE l == NewLeaf(t)
  <2>1. IsChild(r, l) /\ l.key = Key(t)
    BY <1>3, LeafIs DEF NewLeaf, KeyTyped, Key
  <2>2. pending' = [pending EXCEPT ![t].expected = root, ![t].ptr = l]
    BY <1>8
  <2> HIDE DEF l
  <2>3. pending'[t].expected = root /\ pending'[t].ptr = l
    BY <1>4, <2>2
  <2>4. SwapFits(root, r, root, l)
    BY <1>5, <1>8, <2>1 DEF SwapFits
  <2>5. SwapFits(root', r, pending'[t].expected, pending'[t].ptr)
    BY <1>1, <2>3, <2>4
  <2> QED BY <1>2, <1>8, <2>5, SwapShape
<1>9. ASSUME mode' = [mode EXCEPT ![t] = "insert"], UNCHANGED << call, pc, stack, pending >>
      PROVE  ThreadShape(t, r)'
  <2>1. KeyTyped(t)'
    BY <1>3, <1>9, KeysUnchanged, KeyStays
  <2>2. pc'[t] \in EasyLabels
    BY <1>1, <1>9 DEF EasyLabels
  <2>3. \E S : stack'[t] \in Seq(S)
    BY <1>3, <1>9
  <2> QED BY <2>1, <2>2, <2>3, EasyShape
<1> QED BY <1>6, <1>7, <1>8, <1>9, Zenon DEF LoadRootLeaf

\* Loading an empty root.
LEMMA LoadEmptyRootShape ==
  ASSUME Typed, LocalShape, NEW r, Shape(r), NEW t \in Threads, LoadEmptyRoot(t)
  PROVE  ShapeMove(t, r, r)
<1>1. pc[t] = "root" /\ root = EmptyPointer /\ UNCHANGED << root, heap, call, mode, stack >>
  BY Zenon DEF LoadEmptyRoot
<1>2. pc[t] # "idle"
  BY <1>1, Zenon
<1>3. KeyTyped(t) /\ \E S : stack[t] \in Seq(S)
  BY <1>2, KeyOfCall
<1> SUFFICES ThreadShape(t, r)'
  BY <1>1, QuietMove
<1>4. ASSUME Goto(t, "fault") PROVE ThreadShape(t, r)'
  <2>1. pc'[t] = "fault"
    BY <1>4, GotoIs
  <2>2. KeyTyped(t)'
    BY <1>1, <1>3, KeysUnchanged, KeyStays
  <2>3. pc'[t] \in EasyLabels
    BY <2>1 DEF EasyLabels
  <2> QED BY <1>1, <1>3, <2>2, <2>3, EasyShape
<1>5. ASSUME pending' = [pending EXCEPT ![t].expected = root, ![t].ptr = NewLeaf(t)], Goto(t, "cas")
      PROVE  ThreadShape(t, r)'
  <2> DEFINE l == NewLeaf(t)
  <2>1. l \in LeafPointers
    BY <1>3, LeafIs DEF NewLeaf, KeyTyped, Key
  <2>2. pending' = [pending EXCEPT ![t].expected = root, ![t].ptr = l]
    BY <1>5
  <2> HIDE DEF l
  <2>3. pending'[t].expected = root /\ pending'[t].ptr = l
    BY <2>2 DEF LocalShape
  <2>4. SwapFits(root', r, pending'[t].expected, pending'[t].ptr)
    BY <1>1, <2>1, <2>3 DEF SwapFits
  <2> QED BY <1>1, <1>2, <1>5, <2>4, SwapShape
<1> QED BY <1>4, <1>5, Zenon DEF LoadEmptyRoot

\* A node of two entries has the contents of a node whatever it is built from.
LEMMA PairHasContent ==
  ASSUME NEW D, NEW bin, bin.bit \in Bits, bin.height \in Nat \ {0},
         bin.left \in PointersTo(D), bin.right \in PointersTo(D),
         NEW content, content = CreateTwoEntriesNode(bin)
  PROVE  HasContent(content, D)
<1>1. /\ content.height = bin.height /\ content.keys = << {}, {bin.bit} >>
      /\ content.ptrs = << bin.left, bin.right >>
  BY DEF CreateTwoEntriesNode, NodeContent
<1>2. content.keys \in Seq(SUBSET Bits) /\ content.keys[1] = {} /\ Len(content.keys) = 2
  BY <1>1
<1>3. content.ptrs \in Seq(PointersTo(D)) /\ Len(content.ptrs) = 2
  BY <1>1
<1>4. 2 \in 2 .. MaxEntries
  BY MaxEntriesAssumption
<1> QED BY <1>1, <1>2, <1>3, <1>4 DEF HasContent

\* The bit in which two keys part is one of their bits.
LEMMA PartIsABit ==
  ASSUME NEW l \in AllKeys, NEW key \in AllKeys, l # key
  PROVE  GetMismatchingBit(l, key).bit \in Bits
<1>1. l \in SUBSET Nat /\ key \in SUBSET Nat
  BY KeysAreSets
<1>2. LET b == PartAt(l, key) IN (b \in l <=> b \notin key) /\ GetMismatchingBit(l, key).bit = b
  BY <1>1, PartAtIs DEF PartAt
<1> QED BY <1>2 DEF AllKeys

\* The node of two entries that is built for a root that was a leaf.
LEMMA PairWithRootLeafShape ==
  ASSUME Typed, LocalShape, NEW r, Shape(r), NEW t \in Threads, PairWithRootLeaf(t)
  PROVE  \E more : ShapeMove(t, r, more)
<1> DEFINE bit == GetMismatchingBit(pending[t].expected.key, Key(t))
           bin == BiNodeFromExistingAndNew(heap, bit, root, NewLeaf(t))
           content == CreateTwoEntriesNode(bin)
           a == Allocate(heap, content)
           l == pending[t].expected.key
           key == Key(t)
           v == call[t].value
           new == LeafPointer(key, v)
<1>1. /\ pc[t] = "pair" /\ heap' = a.heap /\ pending' = [pending EXCEPT ![t].ptr = a.ptr]
      /\ Goto(t, "cas") /\ UNCHANGED << root, call, mode, stack >>
  BY Zenon DEF PairWithRootLeaf
<1>2. pc[t] # "idle"
  BY <1>1, Zenon
<1>3. key \in Keys /\ v \in Values /\ \E S : stack[t] \in Seq(S)
  BY <1>2, KeyOfCall DEF KeyTyped
<1>4. PairFits(root, pending[t].expected, key)
  BY <1>1, Zenon DEF Shape, ThreadShape, KnowsAt
<1>5. pending[t].expected \in LeafPointers /\ l # key /\ RootStays(root, l)
  BY <1>4 DEF PairFits
<1>6. l \in Keys /\ l \in AllKeys /\ key \in AllKeys
  <2>1. PICK k \in Keys, w \in Values : pending[t].expected = LeafPointer(k, w)
    BY <1>5 DEF LeafPointers
  <2>2. l = k
    BY <2>1 DEF LeafPointer
  <2> QED BY <1>3, <2>2, KeysAssumption
<1>7. pending'[t].expected = pending[t].expected /\ pending'[t].ptr = a.ptr
  BY <1>1 DEF LocalShape
<1>8. SoundHeap(heap, r) /\ GoodHeap(heap, r) /\ DOMAIN r \subseteq DOMAIN heap
  BY DEF Shape, SoundHeap, GoodHeap
<1>9. IsChild(r, root)
  BY <1>5 DEF Shape, RootFits, RootStays
<1>10. bin = BiNodeFromExistingAndNew(heap, GetMismatchingBit(l, key), root, new)
  BY DEF NewLeaf, Key
<1>11. a = Allocate(heap, CreateTwoEntriesNode(bin)) /\ content = CreateTwoEntriesNode(bin) /\ a = Allocate(heap, content)
  OBVIOUS
<1>12. new = LeafPointer(key, v) /\ IsChild(r, new) /\ IsLeaf(new) /\ new \in LeafPointers
  BY <1>3, LeafIs
<1> SUFFICES \E more : SoundHeap(a.heap, more) /\ Extends(heap, r, a.heap, more)
                       /\ SwapFits(root, more, pending[t].expected, a.ptr)
  <2>1. PICK more : SoundHeap(a.heap, more) /\ Extends(heap, r, a.heap, more)
                    /\ SwapFits(root, more, pending[t].expected, a.ptr)
    OBVIOUS
  <2> HIDE DEF bit, bin, content, a, l, new
  <2>2. RootFits(root, more)
    BY <1>9, <2>1, FitsInLater DEF RootFits
  <2>3. KnowsAt(a.heap, more, root, "cas", mode[t], stack[t], pending'[t], key)
    <3>1. SwapFits(root, more, pending'[t].expected, pending'[t].ptr)
      BY <1>7, <2>1
    <3> QED BY <3>1, KnowsPlace
  <2>4. SameKeys
    BY <1>1, KeysUnchanged
  <2>5. Key(t)' = key /\ KeyTyped(t)'
    BY <1>3, <2>4, KeyStays DEF KeyTyped
  <2>6. pc'[t] = "cas"
    BY <1>1, GotoIs
  <2>7. ThreadShape(t, more)'
    BY <1>1, <1>3, <2>3, <2>5, <2>6, Zenon DEF ThreadShape
  <2> QED BY <1>1, <2>1, <2>2, <2>7, Zenon DEF ShapeMove, RootMoves
<1> HIDE DEF bit, bin, content, a, key, v, l, new
<1>13. CASE IsLeaf(root)
  <2>1. root.key = l
    BY <1>5, <1>13 DEF RootStays
  <2>2. AgreeingThrough(r, root, l, PartAt(l, key))
    BY <1>13, <2>1 DEF AgreeingThrough, AgreeThrough, Samples
  <2>3. PairBuilt(heap, r, root, l, key, bin)
    BY <1>3, <1>5, <1>6, <1>8, <1>9, <1>10, <1>12, <2>2, PairIsGood
  <2>4. GoodBinode(heap, r, bin, l)
    BY <2>3 DEF PairBuilt
  <2> DEFINE X == Samples(r, bin.left) \cup Samples(r, bin.right)
  <2>5. (\A x \in Samples(r, bin.left) : x \in X) /\ (\A x \in Samples(r, bin.right) : x \in X)
    OBVIOUS
  <2> HIDE DEF X
  <2>6. NodeBuilt(heap, r, a.heap, a.ptr, bin.height, X)
    BY <1>8, <1>11, <2>4, <2>5, AllocateTwo
  <2>7. PICK more : Builds(heap, r, a.heap, more) /\ IsChild(more, a.ptr) /\ ~IsLeaf(a.ptr)
    BY <2>6 DEF NodeBuilt
  <2>8. SoundHeap(a.heap, more)
    BY <1>8, <2>7, SoundBuilt
  <2>9. SwapFits(root, more, pending[t].expected, a.ptr)
    BY <1>5, <2>7 DEF SwapFits, l
  <2> QED BY <2>7, <2>8, <2>9 DEF Builds
<1>14. CASE ~IsLeaf(root)
  <2>1. root = NodePointer(root.id) /\ root.id \in DOMAIN r
    BY <1>9, <1>14, ChildIs
  <2>2. root \in PointersTo(DOMAIN heap) /\ new \in PointersTo(DOMAIN heap)
    BY <1>8, <1>12, <2>1 DEF PointersTo
  <2>3. GetHeight(heap, root) \in Nat
    BY <1>8, <1>9, HeightIs
  <2>4. GetMismatchingBit(l, key).bit \in Bits
    BY <1>5, <1>6, PartIsABit
  <2>5. /\ bin.bit = GetMismatchingBit(l, key).bit /\ bin.height = GetHeight(heap, root) + 1
        /\ bin.left \in {root, new} /\ bin.right \in {root, new}
    BY <1>10 DEF BiNodeFromExistingAndNew, BiNode
  <2>6. HasContent(content, DOMAIN heap)
    <3>1. bin.bit \in Bits /\ bin.height \in Nat \ {0}
      BY <2>3, <2>4, <2>5
    <3>2. bin.left \in PointersTo(DOMAIN heap) /\ bin.right \in PointersTo(DOMAIN heap)
      BY <2>2, <2>5
    <3> QED BY <1>11, <3>1, <3>2, PairHasContent
  <2>7. SoundHeap(a.heap, r) /\ Extends(heap, r, a.heap, r)
    BY <1>8, <1>11, <2>6, SoundStray
  <2>8. SwapFits(root, r, pending[t].expected, a.ptr)
    BY <1>5, <1>14 DEF SwapFits, l
  <2> QED BY <2>7, <2>8
<1> QED BY <1>13, <1>14

\* The compare-and-swap of the root.
LEMMA CompareAndSwapRootShape ==
  ASSUME Typed, LocalShape, NEW r, Shape(r), NEW t \in Threads, CompareAndSwapRoot(t)
  PROVE  ShapeMove(t, r, r)
<1>1. pc[t] = "cas" /\ UNCHANGED heap
  BY Zenon DEF CompareAndSwapRoot
<1>2. pc[t] # "idle"
  BY <1>1, Zenon
<1>3. KeyTyped(t) /\ \E S : stack[t] \in Seq(S)
  BY <1>2, KeyOfCall
<1>4. CASE Retry(t) /\ UNCHANGED << root, call, mode >>
  <2>1. ThreadShape(t, r)'
    BY <1>3, <1>4, KeysUnchanged, RetryShape
  <2> QED BY <1>1, <1>4, <2>1, QuietMove
<1>5. CASE /\ root = pending[t].expected /\ root' = pending[t].ptr
           /\ call' = Index!CallsAfterWrite(t, Contents[Key(t)])
           /\ Goto(t, "swapped") /\ UNCHANGED << mode, stack, pending >>
  <2>1. SwapFits(root, r, root, root')
    BY <1>1, <1>5, Zenon DEF Shape, ThreadShape, KnowsAt
  <2>2. RootMoves(root, root') /\ RootFits(root', r)
    <3>1. CASE root = EmptyPointer /\ root' \in LeafPointers
      <4>1. IsChild(r, root')
        BY <3>1 DEF IsChild
      <4> QED BY <3>1, <4>1, ChildIs DEF RootMoves, RootFits
    <3>2. CASE root \in LeafPointers /\ (IsLeaf(root) => IsChild(r, root') /\ (IsLeaf(root') => root'.key = root.key))
      <4>1. IsLeaf(root)
        <5>1. IsChild(r, root)
          BY <3>2 DEF IsChild
        <5>2. PICK k \in Keys, w \in Values : root = LeafPointer(k, w)
          BY <3>2 DEF LeafPointers
        <5> QED BY <5>2, LeafIs
      <4> QED BY <3>2, <4>1, ChildIs DEF RootMoves, RootFits
    <3> QED BY <2>1, <3>1, <3>2, Zenon DEF SwapFits
  <2>3. pc'[t] = "swapped"
    BY <1>5, GotoIs
  <2>4. KeyTyped(t)'
    BY <1>3, <1>5, KeysAfterWrite, KeyStays
  <2>5. pc'[t] \in EasyLabels
    BY <2>3 DEF EasyLabels
  <2>6. ThreadShape(t, r)'
    BY <1>3, <1>5, <2>4, <2>5, EasyShape
  <2>7. SoundHeap(heap', r) /\ Extends(heap, r, heap', r)
    BY <1>1, ExtendsItself DEF Shape
  <2> QED BY <2>2, <2>6, <2>7 DEF ShapeMove
<1> QED BY <1>4, <1>5, Zenon DEF CompareAndSwapRoot

\* Returning after it.
LEMMA ReturnAfterSwapShape ==
  ASSUME Typed, LocalShape, NEW r, Shape(r), NEW t \in Threads, ReturnAfterSwap(t)
  PROVE  ShapeMove(t, r, r)
<1>1. pc[t] = "swapped" /\ UNCHANGED << root, heap >> /\ \E result : Finish(t, result) \/ FinishInsert(t, result)
  BY Zenon DEF ReturnAfterSwap
<1>2. pc[t] # "idle"
  BY <1>1, Zenon
<1>3. KeyTyped(t)
  BY <1>2, KeyOfCall
<1>4. ThreadShape(t, r)'
  BY <1>1, <1>3, FinishShape, FinishInsertShape
<1> QED BY <1>1, <1>4, QuietMove

-----------------------------------------------------------------------------
(* The descent                                                             *)

\* What is read from the slot that a search found fits in there.
LEMMA ReadBelow ==
  ASSUME NEW r, GoodHeap(heap, r), NEW s, NEW key, AtNode(r, s, key),
         NEW loc, loc = SlotLocation(s.ptr.id, s.entry), NEW p, p = ReadLocation(loc)
  PROVE  /\ p = heap[s.ptr.id].ptrs[s.entry]
         /\ FitsIn(heap, r, p, heap[s.ptr.id].height, r[s.ptr.id], s.entry) /\ IsChild(r, p)
<1>1. s.ptr.id \in DOMAIN r /\ s.entry \in DOMAIN r[s.ptr.id].reps /\ s.ptr.id \in DOMAIN heap
  BY DEF AtNode, GoodHeap
<1>2. PICK S : heap \in Seq(S)
  BY DEF GoodHeap, IsHeap
<1>3. s.ptr.id # 0
  BY <1>1, <1>2
<1>4. loc # RootLocation /\ loc.id = s.ptr.id /\ loc.slot = s.entry
  BY <1>3 DEF SlotLocation, RootLocation
<1>5. p = heap[s.ptr.id].ptrs[s.entry]
  BY <1>4, Zenon DEF ReadLocation
<1>6. GoodNode(heap, r, heap[s.ptr.id], r[s.ptr.id])
  BY <1>1 DEF GoodHeap
<1>7. FitsIn(heap, r, p, heap[s.ptr.id].height, r[s.ptr.id], s.entry)
  BY <1>1, <1>5, <1>6 DEF GoodNode
<1> QED BY <1>5, <1>7 DEF FitsIn

\* One more entry of a path.
LEMMA PathGrows ==
  ASSUME NEW h, NEW r, NEW path, NEW key, IsPath(h, r, path, key), NEW S, path \in Seq(S),
         AtNode(r, LeafEntry(path), key), NEW n, IsBelow(h, r, LeafEntry(path), n)
  PROVE  /\ IsPath(h, r, Append(path, n), key) /\ LeafEntry(Append(path, n)) = n
         /\ Len(Append(path, n)) = Len(path) + 1 /\ Len(path) \in Nat \ {0}
         /\ Append(path, n) \in Seq(S \cup {n})
<1> DEFINE s == Append(path, n)
<1>1. path \in Seq(S \cup {n}) /\ n \in S \cup {n}
  OBVIOUS
<1>2. /\ s \in Seq(S \cup {n}) /\ Len(s) = Len(path) + 1
      /\ \A j \in 1 .. Len(path) : s[j] = path[j]
      /\ s[Len(path) + 1] = n
  BY <1>1, AppendProperties
<1> HIDE DEF s
<1>3. /\ Len(path) \in Nat \ {0} /\ path[1].loc = RootLocation
      /\ \A j \in 1 .. Len(path) - 1 : AtNode(r, path[j], key) /\ IsBelow(h, r, path[j], path[j + 1])
  BY DEF IsPath
<1>4. Len(s) \in Nat \ {0} /\ DOMAIN s = 1 .. Len(s) /\ Len(s) - 1 = Len(path)
  BY <1>2, <1>3
<1>5. s[1].loc = RootLocation
  BY <1>2, <1>3
<1>6. ASSUME NEW j \in 1 .. Len(path) PROVE AtNode(r, s[j], key) /\ IsBelow(h, r, s[j], s[j + 1])
  <2>1. CASE j = Len(path)
    BY <1>2, <1>3, <2>1 DEF LeafEntry
  <2>2. CASE j # Len(path)
    <3>1. j \in 1 .. Len(path) - 1 /\ j + 1 \in 1 .. Len(path)
      BY <1>3, <2>2
    <3> QED BY <1>2, <1>3, <3>1
  <2> QED BY <2>1, <2>2
<1>7. IsPath(h, r, s, key)
  BY <1>4, <1>5, <1>6 DEF IsPath
<1>8. LeafEntry(s) = n
  BY <1>2 DEF LeafEntry
<1> QED BY <1>2, <1>3, <1>7, <1>8 DEF s

\* What a thread knows while it descends.
LEMMA DescentKnows ==
  ASSUME NEW r, Shape(r), NEW t \in Threads, pc[t] = "descend"
  PROVE  /\ pc[t] # "idle" /\ KeyTyped(t) /\ DescentFits(heap, r, stack[t], Key(t), mode[t])
         /\ \E S : stack[t] \in Seq(S)
         /\ GoodHeap(heap, r)
<1>1. ThreadShape(t, r)
  BY DEF Shape
<1>2. pc[t] # "idle"
  BY Zenon
<1> QED BY <1>1, <1>2, Zenon DEF ThreadShape, KnowsAt, Shape, SoundHeap

\* Descending to a node.
LEMMA DescendToNodeShape ==
  ASSUME Typed, LocalShape, NEW r, Shape(r), NEW t \in Threads, DescendToNode(t)
  PROVE  ShapeMove(t, r, r)
<1> DEFINE last == LeafEntry(stack[t])
           loc == SlotLocation(last.ptr.id, last.entry)
           p == ReadLocation(loc)
           next == EntryFor(loc, p, Key(t))
           s == IF mode[t] = "lookup" THEN << next >> ELSE Append(stack[t], next)
<1>1. /\ pc[t] = "descend" /\ IsAValidNode(next.ptr)
      /\ stack' = [stack EXCEPT ![t] = IF mode[t] = "lookup" THEN << next >> ELSE Append(@, next)]
      /\ UNCHANGED << root, heap, call, pc, mode, held, pending >>
  BY Zenon DEF DescendToNode
<1>2. /\ KeyTyped(t) /\ DescentFits(heap, r, stack[t], Key(t), mode[t])
      /\ GoodHeap(heap, r)
  BY <1>1, DescentKnows
<1>3. PICK S : stack[t] \in Seq(S)
  BY <1>1, DescentKnows
<1>4. AtNode(r, last, Key(t))
  BY <1>2 DEF DescentFits
<1>5. stack'[t] = s
  BY <1>1 DEF LocalShape
<1>6. next.ptr = p /\ loc = SlotLocation(last.ptr.id, last.entry) /\ p = ReadLocation(loc)
  BY DEF EntryFor, StackEntry
<1>7. next = EntryFor(loc, p, Key(t)) /\ last = LeafEntry(stack[t])
  OBVIOUS
<1>8. s = << next >> \/ (mode[t] # "lookup" /\ s = Append(stack[t], next))
  OBVIOUS
<1>8a. mode[t] # "lookup" => s = Append(stack[t], next)
  OBVIOUS
<1> HIDE DEF s, next, p, loc, last
<1>9. FitsIn(heap, r, p, heap[last.ptr.id].height, r[last.ptr.id], last.entry) /\ IsChild(r, p)
  BY <1>2, <1>4, <1>6, ReadBelow
<1>10. AtNode(r, next, Key(t)) /\ next.loc = loc
  BY <1>1, <1>2, <1>6, <1>7, <1>9, EntryIsAt DEF KeyTyped
<1>11. DescentFits(heap, r, s, Key(t), mode[t]) /\ \E T : s \in Seq(T)
  <2>1. CASE mode[t] # "lookup"
    <3>1. IsPath(heap, r, stack[t], Key(t))
      BY <1>2, <2>1 DEF DescentFits
    <3>2. IsBelow(heap, r, LeafEntry(stack[t]), next)
      BY <1>6, <1>7, <1>9, <1>10 DEF IsBelow
    <3>3. AtNode(r, LeafEntry(stack[t]), Key(t))
      BY <1>4, <1>7
    <3>4. /\ IsPath(heap, r, Append(stack[t], next), Key(t)) /\ LeafEntry(Append(stack[t], next)) = next
          /\ Len(Append(stack[t], next)) = Len(stack[t]) + 1 /\ Len(stack[t]) \in Nat \ {0}
          /\ Append(stack[t], next) \in Seq(S \cup {next})
      BY <1>3, <3>1, <3>2, <3>3, PathGrows
    <3>4a. s = Append(stack[t], next)
      BY <1>8a, <2>1
    <3>4b. Len(Append(stack[t], next)) \in Nat \ {0}
      BY <3>4
    <3>5. IsPath(heap, r, s, Key(t)) /\ LeafEntry(s) = next /\ Len(s) \in Nat \ {0} /\ s \in Seq(S \cup {next})
      BY <3>4, <3>4a, <3>4b, Zenon
    <3> QED BY <1>10, <3>5 DEF DescentFits
  <2>2. CASE mode[t] = "lookup"
    <3>1. s = << next >>
      BY <1>8, <2>2
    <3>2. DescentFits(heap, r, << next >>, Key(t), mode[t])
      BY <1>10, <2>2, OneNode, Zenon
    <3>3. << next >> \in Seq({next})
      OBVIOUS
    <3> QED BY <3>1, <3>2, <3>3
  <2> QED BY <2>1, <2>2
<1>12. Key(t)' = Key(t) /\ KeyTyped(t)'
  BY <1>1, <1>2, KeysUnchanged, KeyStays
<1>13. KnowsAt(heap, r, root, "descend", mode[t], s, pending[t], Key(t))
  BY <1>11, KnowsPlace
<1>14. ThreadShape(t, r)'
  BY <1>1, <1>5, <1>11, <1>12, <1>13, Zenon DEF ThreadShape
<1> QED BY <1>1, <1>14, QuietMove

\* Arriving at the leaf.
LEMMA DescendToLeafShape ==
  ASSUME Typed, LocalShape, NEW r, Shape(r), NEW t \in Threads, DescendToLeaf(t)
  PROVE  ShapeMove(t, r, r)
<1> DEFINE last == LeafEntry(stack[t])
           loc == SlotLocation(last.ptr.id, last.entry)
           leaf == ReadLocation(loc)
           n == StackEntry(loc, leaf, 0)
<1>1. pc[t] = "descend" /\ IsLeaf(leaf) /\ UNCHANGED << root, heap, held >>
  BY Zenon DEF DescendToLeaf
<1>2. /\ KeyTyped(t) /\ DescentFits(heap, r, stack[t], Key(t), mode[t])
      /\ GoodHeap(heap, r)
  BY <1>1, DescentKnows
<1>3. PICK S : stack[t] \in Seq(S)
  BY <1>1, DescentKnows
<1>4. AtNode(r, last, Key(t))
  BY <1>2 DEF DescentFits
<1>5. loc = SlotLocation(last.ptr.id, last.entry) /\ leaf = ReadLocation(loc) /\ last = LeafEntry(stack[t])
  OBVIOUS
<1>6. n.loc = loc /\ n.ptr = leaf
  BY DEF StackEntry
<1> SUFFICES ThreadShape(t, r)'
  BY <1>1, QuietMove
<1>7. ASSUME NEW result, Finish(t, result) \/ FinishInsert(t, result)
      PROVE  ThreadShape(t, r)'
  BY <1>2, <1>7, FinishShape, FinishInsertShape
<1>8. ASSUME mode[t] # "lookup", stack' = [stack EXCEPT ![t] = Append(@, n)],
             NEW label, Goto(t, label),
             \/ leaf.key = Key(t) /\ label \in LeafLabels
             \/ leaf.key # Key(t) /\ label \in LockingLabels /\ label # "publish",
             UNCHANGED << call, mode, pending >>
      PROVE  ThreadShape(t, r)'
  <2>1. stack'[t] = Append(stack[t], n)
    BY <1>8 DEF LocalShape
  <2> HIDE DEF n, leaf, loc, last
  <2>2. FitsIn(heap, r, leaf, heap[last.ptr.id].height, r[last.ptr.id], last.entry) /\ IsChild(r, leaf)
    BY <1>2, <1>4, <1>5, ReadBelow
  <2>3. leaf \in LeafPointers
    BY <1>1, <2>2, ChildIs
  <2>4. IsBelow(heap, r, last, n)
    BY <1>5, <1>6, <2>2 DEF IsBelow
  <2>5. IsPath(heap, r, stack[t], Key(t))
    BY <1>2, <1>8 DEF DescentFits
  <2> DEFINE s == Append(stack[t], n)
  <2>6. /\ IsPath(heap, r, s, Key(t)) /\ LeafEntry(s) = n
        /\ Len(s) = Len(stack[t]) + 1 /\ Len(stack[t]) \in Nat \ {0}
        /\ s \in Seq(S \cup {n})
    BY <1>3, <1>4, <1>5, <2>4, <2>5, PathGrows
  <2>7. stack'[t] = s
    BY <2>1
  <2> HIDE DEF s
  <2>8. Len(s) >= 2
    BY <2>6
  <2>9. leaf.key = Key(t) => LeafFits(heap, r, s, Key(t))
    BY <1>6, <2>3, <2>6, <2>8 DEF LeafFits
  <2>10. leaf.key # Key(t) => IsLeafPath(heap, r, s, Key(t))
    BY <1>2, <1>6, <2>3, <2>6, <2>8 DEF IsLeafPath, KeyTyped
  <2>11. KnowsAt(heap, r, root, label, mode[t], s, pending[t], Key(t))
    BY <1>8, <2>9, <2>10, KnowsPlace, Zenon
  <2>12. Key(t)' = Key(t) /\ KeyTyped(t)'
    BY <1>2, <1>8, KeysUnchanged, KeyStays
  <2>13. pc'[t] = label
    BY <1>8, GotoIs
  <2> QED BY <1>1, <1>8, <2>6, <2>7, <2>11, <2>12, <2>13, Zenon DEF ThreadShape
<1>9. \/ \E result : Finish(t, result) \/ FinishInsert(t, result)
      \/ /\ mode[t] # "lookup" /\ stack' = [stack EXCEPT ![t] = Append(@, n)]
         /\ \E label : /\ Goto(t, label)
                       /\ \/ leaf.key = Key(t) /\ label = "lock leaf"
                          \/ leaf.key # Key(t) /\ label = "lock"
         /\ UNCHANGED << call, mode, pending >>
  BY Zenon DEF DescendToLeaf
<1>10. "lock leaf" \in LeafLabels /\ "lock" \in LockingLabels /\ "lock" # "publish"
  BY Zenon DEF LeafLabels, LockingLabels
<1> QED BY <1>7, <1>8, <1>9, <1>10, Zenon

-----------------------------------------------------------------------------
(* Steps of insertNewValue                                                 *)

\* A step that writes locks and marks only.
LEMMA StateMove ==
  ASSUME NEW t, NEW r, Shape(r), SameContent(heap, heap'), UNCHANGED root, ThreadShape(t, r)'
  PROVE  ShapeMove(t, r, r)
<1>1. SoundHeap(heap', r) /\ Extends(heap, r, heap', r)
  BY SoundState DEF Shape
<1>2. RootFits(root, r) /\ RootMoves(root, root)
  BY DEF Shape, RootMoves
<1>3. root' = root
  OBVIOUS
<1> QED BY <1>1, <1>2, <1>3, Zenon DEF ShapeMove

\* What a thread that locks knows.
LEMMA LockingKnows ==
  ASSUME NEW r, Shape(r), NEW t \in Threads, pc[t] \in LockingLabels
  PROVE  /\ pc[t] # "idle" /\ KeyTyped(t) /\ (\E S : stack[t] \in Seq(S))
         /\ IsLeafPath(heap, r, stack[t], Key(t))
         /\ pc[t] = "publish" => WriteFits(heap, r, pending[t].loc, pending[t].ptr)
<1>1. pc[t] # "idle"
  BY Zenon DEF LockingLabels
<1>2. ThreadShape(t, r)
  BY DEF Shape
<1> QED BY <1>1, <1>2, Zenon DEF ThreadShape, KnowsAt

\* It still knows its path at the next label.
LEMMA LockingShape ==
  ASSUME NEW r, Shape(r), NEW t \in Threads, pc[t] \in LockingLabels, pc'[t] \in LockingLabels,
         SameKeys, stack'[t] = stack[t], NEW more, Extends(heap, r, heap', more),
         pc'[t] = "publish" => WriteFits(heap', more, pending'[t].loc, pending'[t].ptr)
  PROVE  ThreadShape(t, more)'
<1>1. KeyTyped(t) /\ (\E S : stack[t] \in Seq(S)) /\ IsLeafPath(heap, r, stack[t], Key(t))
  BY LockingKnows
<1>2. IsLeafPath(heap', more, stack[t], Key(t))
  BY <1>1, PathLater, Zenon DEF IsLeafPath
<1>3. KnowsAt(heap', more, root', pc'[t], mode'[t], stack[t], pending'[t], Key(t))
  BY <1>2, KnowsPlace, Zenon
<1>4. Key(t)' = Key(t) /\ KeyTyped(t)'
  BY <1>1, KeyStays
<1> QED BY <1>1, <1>3, <1>4, Zenon DEF ThreadShape

\* What a thread that overwrites a leaf knows.
LEMMA LeafKnows ==
  ASSUME NEW r, Shape(r), NEW t \in Threads, pc[t] \in LeafLabels
  PROVE  /\ pc[t] # "idle" /\ KeyTyped(t) /\ (\E S : stack[t] \in Seq(S))
         /\ LeafFits(heap, r, stack[t], Key(t))
<1>1. pc[t] # "idle"
  BY Zenon DEF LeafLabels
<1>2. ThreadShape(t, r)
  BY DEF Shape
<1> QED BY <1>1, <1>2, Zenon DEF ThreadShape, KnowsAt

\* It still knows its path at the next label.
LEMMA LeafShape ==
  ASSUME NEW r, Shape(r), NEW t \in Threads, pc[t] \in LeafLabels, pc'[t] \in LeafLabels,
         SameKeys, stack'[t] = stack[t], Extends(heap, r, heap', r)
  PROVE  ThreadShape(t, r)'
<1>1. KeyTyped(t) /\ (\E S : stack[t] \in Seq(S)) /\ LeafFits(heap, r, stack[t], Key(t))
  BY LeafKnows
<1>2. LeafFits(heap', r, stack[t], Key(t))
  BY <1>1, PathLater, Zenon DEF LeafFits
<1>3. KnowsAt(heap', r, root', pc'[t], mode'[t], stack[t], pending'[t], Key(t))
  BY <1>2, KnowsPlace, Zenon
<1>4. Key(t)' = Key(t) /\ KeyTyped(t)'
  BY <1>1, KeyStays
<1> QED BY <1>1, <1>3, <1>4, Zenon DEF ThreadShape

\* The invariant of a thread that locks.
LEMMA LockingInvariant ==
  ASSUME LockInvariant, NEW t \in Threads, pc[t] \in LockingLabels
  PROVE  LocalShape /\ LockInvariantInsert(t) /\ PathOn(heap, stack[t])
<1>1. LocalShape /\ LockInvariantOf(t)
  BY DEF LockInvariant
<1> QED BY <1>1, Zenon DEF LockInvariantOf, LockInvariantInsert

\* Locking the next node.
LEMMA TryLockShape ==
  ASSUME Typed, LockInvariant, NEW r, Shape(r), NEW t \in Threads, TryLock(t)
  PROVE  ShapeMove(t, r, r)
<1>1. pc[t] = "lock" /\ UNCHANGED << root, call, mode >>
  BY Zenon DEF TryLock
<1>2. pc[t] \in LockingLabels
  BY <1>1 DEF LockingLabels
<1>3. LocalShape /\ LockInvariantInsert(t) /\ PathOn(heap, stack[t])
  BY <1>2, LockingInvariant
<1>4. KeyTyped(t) /\ SameKeys
  BY <1>1, <1>2, <1>3, LockingKnows, KeysUnchanged
<1>5. Extends(heap, r, heap, r)
  BY ExtendsItself
<1>6. CASE Retry(t) /\ UNCHANGED << heap, held >>
  <2>1. ThreadShape(t, r)'
    BY <1>3, <1>4, <1>6, RetryShape
  <2> QED BY <1>1, <1>6, <2>1, QuietMove
<1>7. CASE Goto(t, "release") /\ UNCHANGED << heap, held, stack, pending >>
  <2>1. pc'[t] = "release"
    BY <1>7, GotoIs
  <2>2. pc'[t] \in LockingLabels /\ pc'[t] # "publish"
    BY <2>1, Zenon DEF LockingLabels
  <2>3. heap' = heap /\ stack'[t] = stack[t]
    BY <1>7
  <2>4. ThreadShape(t, r)'
    BY <1>2, <1>4, <1>5, <2>2, <2>3, LockingShape
  <2> QED BY <1>1, <1>7, <2>4, QuietMove
<1>8. CASE /\ LockSet(heap, heap', NextToLock(t), t)
           /\ Goto(t, "validate") \/ UNCHANGED pc
           /\ UNCHANGED << stack, pending >>
  <2>1. /\ First(t) \in 1 .. Len(stack[t]) - 1 /\ Top(t) \in 1 .. First(t) /\ Len(stack[t]) \in Nat
        /\ \A i \in 1 .. First(t) : stack[t][i].ptr.id \in DOMAIN heap
    BY <1>3, LevelsOf
  <2>2. held[t] \in 0 .. First(t) - Top(t)
    BY <1>1, <1>3, Zenon DEF LockInvariantInsert
  <2>3. First(t) - held[t] \in 1 .. First(t)
    BY <2>1, <2>2
  <2>4. NextToLock(t) \in DOMAIN heap
    BY <2>1, <2>3 DEF NextToLock, First
  <2>5. SoundHeap(heap, r) /\ t \in Threads \cup {NoThread}
    BY DEF Shape
  <2>6. SameContent(heap, heap')
    BY <1>8, <2>4, <2>5, LockIsState
  <2>7. Extends(heap, r, heap', r)
    BY <2>5, <2>6, SoundState
  <2>8. pc'[t] \in LockingLabels /\ pc'[t] # "publish"
    <3>1. pc'[t] = "validate" \/ pc'[t] = "lock"
      BY <1>1, <1>8, GotoIs
    <3> QED BY <3>1, Zenon DEF LockingLabels
  <2>9. stack'[t] = stack[t]
    BY <1>8
  <2>10. ThreadShape(t, r)'
    BY <1>2, <1>4, <2>7, <2>8, <2>9, LockingShape
  <2> QED BY <1>1, <2>6, <2>10, StateMove
<1> QED BY <1>6, <1>7, <1>8, Zenon DEF TryLock, LockSet

\* Retiring the replaced nodes.
LEMMA MarkReplacedShape ==
  ASSUME Typed, LockInvariant, NEW r, Shape(r), NEW t \in Threads, MarkReplaced(t)
  PROVE  ShapeMove(t, r, r)
<1>1. /\ pc[t] = "mark" /\ heap' = MarkObsolete(heap, pending[t].after)
      /\ Goto(t, "unlock") /\ UNCHANGED << root, call, mode, stack, held, pending >>
  BY Zenon DEF MarkReplaced
<1>2. pc[t] \in LockingLabels
  BY <1>1 DEF LockingLabels
<1>3. SameKeys
  BY <1>1, KeysUnchanged DEF LockInvariant
<1>4. SoundHeap(heap, r)
  BY DEF Shape
<1>5. SameContent(heap, heap')
  BY <1>1, <1>4, MarkIsState
<1>6. Extends(heap, r, heap', r)
  BY <1>4, <1>5, SoundState
<1>7. pc'[t] \in LockingLabels /\ pc'[t] # "publish"
  <2>1. pc'[t] = "unlock"
    BY <1>1, GotoIs
  <2> QED BY <2>1, Zenon DEF LockingLabels
<1>8. stack'[t] = stack[t]
  BY <1>1
<1>9. ThreadShape(t, r)'
  BY <1>2, <1>3, <1>6, <1>7, <1>8, LockingShape
<1> QED BY <1>1, <1>5, <1>9, StateMove

\* Giving back a lock.
LEMMA UnlockTopIsState ==
  ASSUME Typed, LockInvariant, NEW r, Shape(r), NEW t \in Threads, pc[t] \in {"unlock", "release"},
         UnlockTop(t)
  PROVE  SameContent(heap, heap') /\ Extends(heap, r, heap', r) /\ pc[t] \in LockingLabels
<1>1. pc[t] \in LockingLabels
  BY DEF LockingLabels
<1>2. LockInvariantInsert(t) /\ PathOn(heap, stack[t])
  BY <1>1, LockingInvariant
<1>3. /\ First(t) \in 1 .. Len(stack[t]) - 1 /\ Top(t) \in 1 .. First(t) /\ Len(stack[t]) \in Nat
      /\ \A i \in 1 .. First(t) : stack[t][i].ptr.id \in DOMAIN heap
  BY <1>2, LevelsOf
<1>4. held[t] \in 1 .. First(t) - Top(t) + 1
  BY <1>2, Zenon DEF LockInvariantInsert
<1>5. First(t) - held[t] + 1 \in 1 .. First(t)
  BY <1>3, <1>4
<1> DEFINE id == stack[t][First(t) - held[t] + 1].ptr.id
<1>6. id \in DOMAIN heap
  BY <1>3, <1>5
<1>7. LockSet(heap, heap', id, NoThread)
  BY Zenon DEF UnlockTop, LockSet, First
<1> HIDE DEF id
<1>8. SoundHeap(heap, r) /\ NoThread \in Threads \cup {NoThread}
  BY DEF Shape
<1>9. SameContent(heap, heap')
  BY <1>6, <1>7, <1>8, LockIsState
<1> QED BY <1>1, <1>8, <1>9, SoundState

\* Unlocking after the insert.
LEMMA UnlockInsertedShape ==
  ASSUME Typed, LockInvariant, NEW r, Shape(r), NEW t \in Threads, UnlockInserted(t)
  PROVE  ShapeMove(t, r, r)
<1>1. pc[t] = "unlock" /\ UnlockTop(t) /\ UNCHANGED root
  BY Zenon DEF UnlockInserted
<1>2. SameContent(heap, heap') /\ Extends(heap, r, heap', r) /\ pc[t] \in LockingLabels
  BY <1>1, UnlockTopIsState
<1>3. LocalShape /\ KeyTyped(t)
  BY <1>2, LockingKnows DEF LockInvariant
<1>4. CASE FinishNewValue(t)
  <2>1. ThreadShape(t, r)'
    BY <1>3, <1>4, FinishNewValueShape
  <2> QED BY <1>1, <1>2, <2>1, StateMove
<1>5. CASE UNCHANGED << call, pc, mode, stack, pending >>
  <2>1. pc'[t] \in LockingLabels /\ pc'[t] # "publish" /\ stack'[t] = stack[t]
    BY <1>1, <1>2, <1>5, Zenon
  <2>2. SameKeys
    BY <1>3, <1>5, KeysUnchanged
  <2>3. ThreadShape(t, r)'
    BY <1>2, <2>1, <2>2, LockingShape
  <2> QED BY <1>1, <1>2, <2>3, StateMove
<1> QED BY <1>4, <1>5, Zenon DEF UnlockInserted

\* Unlocking without having inserted.
LEMMA ReleaseShape ==
  ASSUME Typed, LockInvariant, NEW r, Shape(r), NEW t \in Threads, Release(t)
  PROVE  ShapeMove(t, r, r)
<1>1. pc[t] = "release" /\ UnlockTop(t) /\ UNCHANGED << root, call, mode >>
  BY Zenon DEF Release
<1>2. SameContent(heap, heap') /\ Extends(heap, r, heap', r) /\ pc[t] \in LockingLabels
  BY <1>1, UnlockTopIsState
<1>3. LocalShape /\ KeyTyped(t)
  BY <1>2, LockingKnows DEF LockInvariant
<1>4. SameKeys
  BY <1>1, <1>3, KeysUnchanged
<1>5. CASE Retry(t)
  <2>1. ThreadShape(t, r)'
    BY <1>3, <1>4, <1>5, RetryShape
  <2> QED BY <1>1, <1>2, <2>1, StateMove
<1>6. CASE UNCHANGED << pc, stack, pending >>
  <2>1. pc'[t] \in LockingLabels /\ pc'[t] # "publish" /\ stack'[t] = stack[t]
    BY <1>1, <1>2, <1>6, Zenon
  <2>2. ThreadShape(t, r)'
    BY <1>2, <1>4, <2>1, LockingShape
  <2> QED BY <1>1, <1>2, <2>2, StateMove
<1> QED BY <1>5, <1>6, Zenon DEF Release

\* The root and the slots of nodes are different places.
LEMMA SlotIsNotRoot ==
  ASSUME NEW id, id # 0, NEW slot, NEW loc, loc = SlotLocation(id, slot)
  PROVE  /\ loc # RootLocation /\ loc.id = id /\ loc.slot = slot
         /\ ReadLocation(loc) = heap[id].ptrs[slot]
         /\ \A p : RootAfter(loc, p) = root /\ \A h : HeapAfter(h, loc, p) = SetSlot(h, id, slot, p)
<1>1. loc.id = id /\ loc.slot = slot
  BY DEF SlotLocation
<1>2. RootLocation.id = 0
  BY DEF RootLocation
<1>3. loc # RootLocation
  BY <1>1, <1>2
<1> QED BY <1>1, <1>3, Zenon DEF ReadLocation, RootAfter, HeapAfter

\* Nodes are numbered from one.
LEMMA NodesCount ==
  ASSUME NEW h, IsHeap(h)
  PROVE  0 \notin DOMAIN h
<1>1. PICK S : h \in Seq(S)
  BY DEF IsHeap
<1> QED BY <1>1

\* The levels that a writer has locked and compared with its path are where it found them.
LEMMA LevelsAreCurrent ==
  ASSUME NEW r, Shape(r), NEW t, PathOn(heap, stack[t]), IsConsistent(stack[t], First(t), held[t]),
         First(t) - held[t] + 1 = Top(t)
  PROVE  Current(heap, stack[t], Top(t), First(t))
<1> DEFINE path == stack[t]
<1>1. First(t) \in 1 .. Len(path) - 1 /\ Top(t) \in 1 .. First(t) /\ Len(path) \in Nat
  BY LevelsOf
<1>2. \A j \in Top(t) .. First(t) + 1 : ReadLocation(path[j].loc) = path[j].ptr
  BY Zenon DEF IsConsistent
<1> SUFFICES ASSUME NEW i \in Top(t) .. First(t)
             PROVE  heap[path[i].ptr.id].ptrs[path[i].entry] = path[i + 1].ptr
  BY DEF Current
<1>3. i + 1 \in Top(t) .. First(t) + 1 /\ i \in 1 .. Len(path) - 1
  BY <1>1
<1>4. ReadLocation(path[i + 1].loc) = path[i + 1].ptr
  BY <1>2, <1>3
<1>5. path[i].ptr.id \in DOMAIN heap /\ path[i + 1].loc = SlotLocation(path[i].ptr.id, path[i].entry)
  BY <1>3 DEF PathOn
<1>6. path[i].ptr.id # 0
  BY <1>5, NodesCount DEF Shape, SoundHeap, GoodHeap
<1> QED BY <1>4, <1>5, <1>6, SlotIsNotRoot

\* Marking the nodes of a plan that fits.
LEMMA PlanMarked ==
  ASSUME NEW h, NEW r, SoundHeap(h, r), NEW plan, PlanFits(h, r, plan.heap, plan.ptr, plan.loc),
         NEW g, g = MarkObsolete(plan.heap, plan.before)
  PROVE  \E more : SoundHeap(g, more) /\ Extends(h, r, g, more) /\ WriteFits(g, more, plan.loc, plan.ptr)
<1>1. PICK more :
        /\ Builds(h, r, plan.heap, more) /\ IsChild(more, plan.ptr) /\ ~IsLeaf(plan.ptr)
        /\ \/ plan.loc = RootLocation
           \/ \E id \in DOMAIN r : \E slot \in DOMAIN r[id].reps :
                /\ plan.loc = SlotLocation(id, slot)
                /\ FitsIn(plan.heap, more, plan.ptr, h[id].height, r[id], slot)
  BY Zenon DEF PlanFits
<1>2. SoundHeap(plan.heap, more) /\ Extends(h, r, plan.heap, more)
  BY <1>1, SoundBuilt DEF Builds
<1>3. SameContent(plan.heap, g)
  BY <1>2, MarkIsState
<1>4. SoundHeap(g, more) /\ Extends(plan.heap, more, g, more)
  BY <1>2, <1>3, SoundState
<1>5. Extends(h, r, g, more)
  BY <1>2, <1>4, ExtendsOn
<1>6. ASSUME NEW id \in DOMAIN r, NEW slot \in DOMAIN r[id].reps,
             FitsIn(plan.heap, more, plan.ptr, h[id].height, r[id], slot)
      PROVE  /\ id \in DOMAIN more /\ slot \in DOMAIN more[id].reps
             /\ FitsIn(g, more, plan.ptr, g[id].height, more[id], slot)
  <2>1. id \in DOMAIN more /\ more[id] = r[id] /\ g[id].height = h[id].height
    BY <1>5 DEF Extends
  <2>2. FitsIn(g, more, plan.ptr, h[id].height, r[id], slot)
    BY <1>4, <1>6, FitsInLater
  <2> QED BY <2>1, <2>2
<1>7. WriteFits(g, more, plan.loc, plan.ptr)
  BY <1>1, <1>6, Zenon DEF WriteFits
<1> QED BY <1>4, <1>5, <1>7

\* Validating the path and building the copies.
LEMMA ValidateShape ==
  ASSUME Typed, LockInvariant, NEW r, Shape(r), NEW t \in Threads, Validate(t)
  PROVE  \E more : ShapeMove(t, r, more)
<1>1. pc[t] = "validate" /\ UNCHANGED << root, call, mode, stack, held >>
  BY Zenon DEF Validate
<1>2. pc[t] \in LockingLabels /\ pc[t] \in {"validate", "publish", "mark"}
  BY <1>1 DEF LockingLabels
<1>3. LocalShape /\ LockInvariantInsert(t) /\ PathOn(heap, stack[t])
  BY <1>2, LockingInvariant
<1>4. KeyTyped(t) /\ IsLeafPath(heap, r, stack[t], Key(t))
  BY <1>2, LockingKnows
<1>5. SameKeys
  BY <1>1, <1>3, KeysUnchanged
<1>6. SoundHeap(heap, r) /\ GoodHeap(heap, r) /\ RootFits(root, r)
  BY DEF Shape, SoundHeap
<1>7. stack'[t] = stack[t]
  BY <1>1
<1>8. CASE Goto(t, "release") /\ UNCHANGED << heap, pending >>
  <2>1. pc'[t] = "release"
    BY <1>8, GotoIs
  <2>2. pc'[t] \in LockingLabels /\ pc'[t] # "publish"
    BY <2>1, Zenon DEF LockingLabels
  <2>3. Extends(heap, r, heap', r)
    BY <1>8, ExtendsItself
  <2>4. ThreadShape(t, r)'
    BY <1>2, <1>5, <1>7, <2>2, <2>3, LockingShape
  <2>5. ShapeMove(t, r, r)
    BY <1>1, <1>8, <2>4, QuietMove
  <2> QED BY <2>5
<1>9. ASSUME IsConsistent(stack[t], Level(t).first, held[t]),
             NEW plan, plan = InsertForStackRange(heap, stack[t], Level(t), NewLeaf(t)),
             heap' = MarkObsolete(plan.heap, plan.before),
             pending' = [pending EXCEPT ![t].loc = plan.loc, ![t].ptr = plan.ptr,
                                        ![t].after = plan.after],
             Goto(t, "publish")
      PROVE  \E more : ShapeMove(t, r, more)
  <2>1. First(t) - held[t] + 1 = Top(t)
    BY <1>2, <1>3, AllLevelsLocked
  <2>2. Current(heap, stack[t], Top(t), First(t))
    BY <1>3, <1>9, <2>1, LevelsAreCurrent DEF First
  <2> DEFINE level == Level(t)
             low == Top(t)
  <2>3. level = InsertLevel(heap, stack[t], GetMismatchingBit(LeafEntry(stack[t]).ptr.key, Key(t)))
    BY DEF Level, MismatchingBit
  <2>4. low = TopLockLevel(heap, stack[t], level)
    BY DEF Top
  <2>5. Current(heap, stack[t], low, level.first)
    BY <2>2 DEF First
  <2>6. plan = InsertForStackRange(heap, stack[t], level, LeafPointer(Key(t), call[t].value))
    BY <1>9 DEF NewLeaf, Key
  <2>7. call[t].value \in Values
    BY <1>4 DEF KeyTyped
  <2> HIDE DEF level, low
  <2>8. PlanFits(heap, r, plan.heap, plan.ptr, plan.loc)
    BY <1>4, <1>6, <2>3, <2>4, <2>5, <2>6, <2>7, PlanIsGood
  <2>9. PICK more : /\ SoundHeap(heap', more) /\ Extends(heap, r, heap', more)
                    /\ WriteFits(heap', more, plan.loc, plan.ptr)
    BY <1>6, <1>9, <2>8, PlanMarked
  <2>10. pc'[t] = "publish"
    BY <1>9, GotoIs
  <2>11. pc'[t] \in LockingLabels
    BY <2>10, Zenon DEF LockingLabels
  <2>12. pending'[t].loc = plan.loc /\ pending'[t].ptr = plan.ptr
    <3> DEFINE p == [pending[t] EXCEPT !.loc = plan.loc, !.ptr = plan.ptr, !.after = plan.after]
    <3>1. p.loc = plan.loc /\ p.ptr = plan.ptr
      BY <1>3 DEF LocalShape
    <3>2. pending' = [pending EXCEPT ![t] = p] /\ pending'[t] = p
      BY <1>3, <1>9 DEF LocalShape
    <3> QED BY <3>1, <3>2
  <2>13. WriteFits(heap', more, pending'[t].loc, pending'[t].ptr)
    BY <2>9, <2>12
  <2>14. ThreadShape(t, more)'
    BY <1>2, <1>5, <1>7, <2>9, <2>11, <2>13, LockingShape
  <2>15. root' = root /\ RootMoves(root, root) /\ RootFits(root, more)
    BY <1>1, <1>6, <2>9, FitsInLater DEF RootMoves, RootFits
  <2>16. ShapeMove(t, r, more)
    BY <2>9, <2>14, <2>15, Zenon DEF ShapeMove
  <2> QED BY <2>16
<1> QED BY <1>8, <1>9, Zenon DEF Validate

\* Writing the pointer that makes the insert visible.
LEMMA PublishShape ==
  ASSUME Typed, LockInvariant, NEW r, Shape(r), NEW t \in Threads, Publish(t)
  PROVE  ShapeMove(t, r, r)
<1> DEFINE loc == pending[t].loc
           p == pending[t].ptr
<1>1. /\ pc[t] = "publish" /\ root' = RootAfter(loc, p) /\ heap' = HeapAfter(heap, loc, p)
      /\ call' = Index!CallsAfterWrite(t, Contents[Key(t)])
      /\ Goto(t, "mark") /\ UNCHANGED << mode, stack, held, pending >>
  BY Zenon DEF Publish
<1>2. pc[t] \in LockingLabels
  BY <1>1 DEF LockingLabels
<1>3. LocalShape
  BY DEF LockInvariant
<1>4. SameKeys
  BY <1>1, <1>3, KeysAfterWrite
<1>5. SoundHeap(heap, r) /\ GoodHeap(heap, r) /\ RootFits(root, r)
  BY DEF Shape, SoundHeap
<1>6. WriteFits(heap, r, loc, p)
  BY <1>1, <1>2, LockingKnows
<1>7. pc'[t] = "mark" /\ stack'[t] = stack[t]
  BY <1>1, GotoIs
<1>8. pc'[t] \in LockingLabels /\ pc'[t] # "publish"
  BY <1>7, Zenon DEF LockingLabels
<1> HIDE DEF loc, p
<1>9. p # EmptyPointer
  BY <1>6, ChildIs DEF WriteFits
<1>10. CASE loc = RootLocation
  <2>1. root' = p /\ heap' = heap
    BY <1>1, <1>10 DEF RootAfter, HeapAfter
  <2>2. SoundHeap(heap', r) /\ Extends(heap, r, heap', r)
    BY <1>5, <2>1, ExtendsItself
  <2>3. RootMoves(root, root') /\ RootFits(root', r)
    BY <1>6, <1>9, <2>1 DEF WriteFits, RootMoves, RootFits
  <2>4. ThreadShape(t, r)'
    BY <1>2, <1>4, <1>7, <1>8, <2>2, LockingShape
  <2> QED BY <2>2, <2>3, <2>4, Zenon DEF ShapeMove
<1>11. ASSUME NEW id \in DOMAIN r, NEW slot \in DOMAIN r[id].reps, loc = SlotLocation(id, slot),
              FitsIn(heap, r, p, heap[id].height, r[id], slot)
       PROVE  ShapeMove(t, r, r)
  <2>1. id # 0
    BY <1>5, NodesCount DEF GoodHeap
  <2>2. root' = root /\ heap' = SetSlot(heap, id, slot, p)
    BY <1>1, <1>11, <2>1, SlotIsNotRoot
  <2>3. SoundHeap(heap', r) /\ Extends(heap, r, heap', r)
    BY <1>5, <1>11, <2>2, SoundWritten
  <2>4. RootMoves(root, root') /\ RootFits(root', r)
    BY <1>5, <2>2 DEF RootMoves
  <2>5. ThreadShape(t, r)'
    BY <1>2, <1>4, <1>7, <1>8, <2>3, LockingShape
  <2> QED BY <2>3, <2>4, <2>5, Zenon DEF ShapeMove
<1> QED BY <1>6, <1>10, <1>11, Zenon DEF WriteFits

-----------------------------------------------------------------------------
(* Steps of upsert of a key that is present                                *)

\* The invariant of a thread that overwrites a leaf.
LEMMA LeafInvariant ==
  ASSUME LockInvariant, NEW t \in Threads, pc[t] \in LeafLabels
  PROVE  LocalShape /\ LockInvariantUpsert(t) /\ PathOn(heap, stack[t])
<1>1. LocalShape /\ LockInvariantOf(t)
  BY DEF LockInvariant
<1> QED BY <1>1, Zenon DEF LockInvariantOf, LockInvariantUpsert

\* Locking the node above the leaf.
LEMMA LockParentOfLeafShape ==
  ASSUME Typed, LockInvariant, NEW r, Shape(r), NEW t \in Threads, LockParentOfLeaf(t)
  PROVE  ShapeMove(t, r, r)
<1>1. pc[t] = "lock leaf" /\ UNCHANGED << root, call, mode >>
  BY Zenon DEF LockParentOfLeaf
<1>2. pc[t] \in LeafLabels
  BY <1>1, Zenon DEF LeafLabels
<1>3. LocalShape /\ PathOn(heap, stack[t])
  BY <1>2, LeafInvariant
<1>4. KeyTyped(t) /\ SameKeys
  BY <1>1, <1>2, <1>3, LeafKnows, KeysUnchanged
<1>5. CASE Retry(t) /\ UNCHANGED << heap, held >>
  <2>1. ThreadShape(t, r)'
    BY <1>3, <1>4, <1>5, RetryShape
  <2> QED BY <1>1, <1>5, <2>1, QuietMove
<1>6. CASE /\ LockSet(heap, heap', Parent(t), t) /\ Goto(t, "overwrite")
           /\ UNCHANGED << stack, pending >>
  <2>1. Parent(t) \in DOMAIN heap
    BY <1>3, ParentIs
  <2>2. SoundHeap(heap, r) /\ t \in Threads \cup {NoThread}
    BY DEF Shape
  <2>3. SameContent(heap, heap')
    BY <1>6, <2>1, <2>2, LockIsState
  <2>4. Extends(heap, r, heap', r)
    BY <2>2, <2>3, SoundState
  <2>5. pc'[t] = "overwrite" /\ stack'[t] = stack[t]
    BY <1>6, GotoIs
  <2>6. pc'[t] \in LeafLabels
    BY <2>5, Zenon DEF LeafLabels
  <2>7. ThreadShape(t, r)'
    BY <1>2, <1>4, <2>4, <2>5, <2>6, LeafShape
  <2> QED BY <1>1, <2>3, <2>7, StateMove
<1> QED BY <1>5, <1>6, Zenon DEF LockParentOfLeaf, Parent, LockSet

\* A leaf of the same key fits where a leaf was.
LEMMA SameKeyFits ==
  ASSUME NEW h, NEW r, NEW p \in LeafPointers, NEW height, NEW g, NEW e, FitsIn(h, r, p, height, g, e),
         NEW v \in Values
  PROVE  FitsIn(h, r, LeafPointer(p.key, v), height, g, e)
<1>1. IsLeaf(p) /\ p.key \in Keys
  BY LeafIs DEF LeafPointers
<1> DEFINE q == LeafPointer(p.key, v)
<1>2. IsLeaf(q) /\ IsChild(r, q) /\ q.key = p.key
  BY <1>1, LeafIs
<1> HIDE DEF q
<1>3. Samples(r, q) = Samples(r, p) /\ GetHeight(h, q) = GetHeight(h, p)
  BY <1>1, <1>2 DEF Samples, GetHeight
<1>4. FitsIn(h, r, q, height, g, e)
  BY <1>2, <1>3 DEF FitsIn
<1> QED BY <1>4 DEF q

\* The place of the leaf at the end of a path.
LEMMA LeafPlace ==
  ASSUME NEW h, NEW r, NEW path, NEW key, LeafFits(h, r, path, key)
  PROVE  \E id \in DOMAIN r : \E slot \in DOMAIN r[id].reps :
           /\ LeafEntry(path).loc = SlotLocation(id, slot)
           /\ FitsIn(h, r, LeafEntry(path).ptr, h[id].height, r[id], slot)
<1> DEFINE j == Len(path) - 1
           s == path[j]
<1>1. IsPath(h, r, path, key) /\ Len(path) >= 2
  BY DEF LeafFits
<1>2. Len(path) \in Nat /\ j \in 1 .. Len(path) - 1 /\ j + 1 = Len(path)
  BY <1>1 DEF IsPath
<1>3. AtNode(r, path[j], key) /\ IsBelow(h, r, path[j], path[j + 1])
  BY <1>1, <1>2 DEF IsPath
<1>4. path[j + 1] = LeafEntry(path)
  BY <1>2 DEF LeafEntry
<1>5. s.ptr.id \in DOMAIN r /\ s.entry \in DOMAIN r[s.ptr.id].reps
  BY <1>3 DEF AtNode
<1>6. /\ LeafEntry(path).loc = SlotLocation(s.ptr.id, s.entry)
      /\ FitsIn(h, r, LeafEntry(path).ptr, h[s.ptr.id].height, r[s.ptr.id], s.entry)
  BY <1>3, <1>4 DEF IsBelow
<1> QED BY <1>5, <1>6

\* Overwriting the leaf in its slot.
LEMMA OverwriteLeafShape ==
  ASSUME Typed, LockInvariant, NEW r, Shape(r), NEW t \in Threads, OverwriteLeaf(t)
  PROVE  ShapeMove(t, r, r)
<1> DEFINE leaf == LeafEntry(stack[t])
<1>1. /\ pc[t] = "overwrite" /\ heap' = SetSlot(heap, leaf.loc.id, leaf.loc.slot, NewLeaf(t))
      /\ call' = Index!CallsAfterWrite(t, Contents[Key(t)])
      /\ Goto(t, "unlock leaf") /\ UNCHANGED << root, mode, stack, held, pending >>
  BY Zenon DEF OverwriteLeaf
<1>2. pc[t] \in LeafLabels
  BY <1>1, Zenon DEF LeafLabels
<1>3. LocalShape
  BY DEF LockInvariant
<1>4. SameKeys
  BY <1>1, <1>3, KeysAfterWrite
<1>5. SoundHeap(heap, r) /\ RootFits(root, r)
  BY DEF Shape
<1>6. KeyTyped(t) /\ LeafFits(heap, r, stack[t], Key(t))
  BY <1>2, LeafKnows
<1>7. leaf.ptr \in LeafPointers /\ leaf.ptr.key = Key(t) /\ call[t].value \in Values
  BY <1>6 DEF LeafFits, KeyTyped
<1>8. NewLeaf(t) = LeafPointer(leaf.ptr.key, call[t].value)
  BY <1>7 DEF NewLeaf, Key
<1>9. PICK id \in DOMAIN r : \E slot \in DOMAIN r[id].reps :
        leaf.loc = SlotLocation(id, slot) /\ FitsIn(heap, r, leaf.ptr, heap[id].height, r[id], slot)
  BY <1>6, LeafPlace
<1>10. PICK slot \in DOMAIN r[id].reps :
         leaf.loc = SlotLocation(id, slot) /\ FitsIn(heap, r, leaf.ptr, heap[id].height, r[id], slot)
  BY <1>9
<1>11. leaf.loc.id = id /\ leaf.loc.slot = slot
  BY <1>10 DEF SlotLocation
<1> HIDE DEF leaf
<1>12. FitsIn(heap, r, NewLeaf(t), heap[id].height, r[id], slot)
  BY <1>7, <1>8, <1>10, SameKeyFits
<1> DEFINE p == NewLeaf(t)
<1>13. heap' = SetSlot(heap, id, slot, p) /\ FitsIn(heap, r, p, heap[id].height, r[id], slot)
  BY <1>1, <1>11, <1>12
<1> HIDE DEF p
<1>14. SoundHeap(heap', r) /\ Extends(heap, r, heap', r)
  BY <1>5, <1>13, SoundWritten
<1>15. RootMoves(root, root') /\ RootFits(root', r)
  BY <1>1, <1>5 DEF RootMoves
<1>16. pc'[t] = "unlock leaf" /\ stack'[t] = stack[t]
  <2> DEFINE next == "unlock leaf"
  <2>1. Goto(t, next) /\ stack'[t] = stack[t]
    BY <1>1
  <2> HIDE DEF next
  <2>2. pc'[t] = next
    BY <2>1, GotoIs
  <2> QED BY <2>1, <2>2, Zenon DEF next
<1>17. pc'[t] \in LeafLabels
  BY <1>16, Zenon DEF LeafLabels
<1>18. stack'[t] = stack[t]
  BY <1>16, Zenon
<1>19. ThreadShape(t, r)'
  BY <1>2, <1>4, <1>14, <1>17, <1>18, LeafShape
<1> QED BY <1>14, <1>15, <1>19, Zenon DEF ShapeMove

\* Unlocking the node above it.
LEMMA UnlockParentOfLeafShape ==
  ASSUME Typed, LockInvariant, NEW r, Shape(r), NEW t \in Threads, UnlockParentOfLeaf(t)
  PROVE  ShapeMove(t, r, r)
<1> DEFINE result == LeafEntry(stack[t]).ptr.value
<1>1. /\ pc[t] = "unlock leaf" /\ LockSet(heap, heap', Parent(t), NoThread) /\ Finish(t, result)
      /\ UNCHANGED root
  BY Zenon DEF UnlockParentOfLeaf, Parent, LockSet
<1>2. pc[t] \in LeafLabels
  BY <1>1, Zenon DEF LeafLabels
<1>3. LocalShape /\ PathOn(heap, stack[t])
  BY <1>2, LeafInvariant
<1> HIDE DEF result
<1>4. Finish(t, result) /\ LockSet(heap, heap', Parent(t), NoThread) /\ UNCHANGED root
  BY <1>1, Zenon
<1>5. ThreadShape(t, r)'
  BY <1>3, <1>4, FinishShape
<1>6. Parent(t) \in DOMAIN heap /\ SoundHeap(heap, r) /\ NoThread \in Threads \cup {NoThread}
  BY <1>3, ParentIs DEF Shape
<1>7. SameContent(heap, heap')
  BY <1>4, <1>6, LockIsState
<1> QED BY <1>4, <1>5, <1>7, StateMove

-----------------------------------------------------------------------------
(* Every step                                                              *)

\* Every step of a thread leaves a shape that it knows.
LEMMA StepShape ==
  ASSUME Typed, CallsTyped, LockInvariant, NEW r, Shape(r), NEW t \in Threads, Invoke(t) \/ Step(t)
  PROVE  \E more : ShapeMove(t, r, more)
<1>1. LocalShape
  BY DEF LockInvariant
<1>2. Invoke(t) => ShapeMove(t, r, r)
  BY <1>1, InvokeShape
<1>3. LoadRootNode(t) \/ LoadRootLeaf(t) \/ LoadEmptyRoot(t) => ShapeMove(t, r, r)
  BY <1>1, LoadRootNodeShape, LoadRootLeafShape, LoadEmptyRootShape
<1>4. PairWithRootLeaf(t) => \E more : ShapeMove(t, r, more)
  BY <1>1, PairWithRootLeafShape
<1>5. CompareAndSwapRoot(t) \/ ReturnAfterSwap(t) => ShapeMove(t, r, r)
  BY <1>1, CompareAndSwapRootShape, ReturnAfterSwapShape
<1>6. DescendToNode(t) \/ DescendToLeaf(t) => ShapeMove(t, r, r)
  BY <1>1, DescendToNodeShape, DescendToLeafShape
<1>7. TryLock(t) \/ MarkReplaced(t) \/ UnlockInserted(t) \/ Release(t) => ShapeMove(t, r, r)
  BY TryLockShape, MarkReplacedShape, UnlockInsertedShape, ReleaseShape
<1>8. Validate(t) => \E more : ShapeMove(t, r, more)
  BY ValidateShape
<1>9. Publish(t) => ShapeMove(t, r, r)
  BY PublishShape
<1>10. LockParentOfLeaf(t) \/ OverwriteLeaf(t) \/ UnlockParentOfLeaf(t) => ShapeMove(t, r, r)
  BY LockParentOfLeafShape, OverwriteLeafShape, UnlockParentOfLeafShape
<1> QED BY <1>2, <1>3, <1>4, <1>5, <1>6, <1>7, <1>8, <1>9, <1>10, Zenon DEF Step

-----------------------------------------------------------------------------
(* Labels, routines and calls                                              *)

Routines == {"lookup", "insert", "upsert"}

LabelMove(t) == UNCHANGED pc \/ \E label \in Labels : Goto(t, label)
RoutineMove(t) == UNCHANGED mode \/ \E routine \in Routines : mode' = [mode EXCEPT ![t] = routine]
ControlMove(t) == LabelMove(t) /\ RoutineMove(t)

\* The places in the calls.
LEMMA LabelsAre ==
  /\ "idle" \in Labels /\ "root" \in Labels /\ "pair" \in Labels /\ "cas" \in Labels
  /\ "swapped" \in Labels /\ "descend" \in Labels /\ "lock" \in Labels /\ "validate" \in Labels
  /\ "publish" \in Labels /\ "mark" \in Labels /\ "unlock" \in Labels /\ "release" \in Labels
  /\ "lock leaf" \in Labels /\ "overwrite" \in Labels /\ "unlock leaf" \in Labels
  /\ "fault" \in Labels
BY Zenon DEF Labels

\* Going to a place without changing the routine.
LEMMA GoesTo ==
  ASSUME NEW t, NEW label \in Labels, UNCHANGED pc \/ Goto(t, label), UNCHANGED mode
  PROVE  ControlMove(t)
BY Zenon DEF ControlMove, LabelMove, RoutineMove

\* The places after a call, an insert, and before another round.
LEMMA ReturnsTo ==
  ASSUME NEW t,
         \/ \E result : Finish(t, result) \/ FinishInsert(t, result)
         \/ FinishNewValue(t)
         \/ Retry(t) /\ UNCHANGED mode
  PROVE  ControlMove(t)
<1>1. ASSUME NEW result, Finish(t, result) PROVE ControlMove(t)
  <2>1. Goto(t, "idle") /\ UNCHANGED mode
    BY <1>1, Zenon DEF Finish
  <2> QED BY <2>1, LabelsAre, GoesTo, Zenon
<1>2. ASSUME NEW result, FinishInsert(t, result) PROVE ControlMove(t)
  <2>1. CASE call[t].kind = "insert"
    BY <1>1, <1>2, <2>1, Zenon DEF FinishInsert
  <2>2. CASE call[t].kind # "insert"
    <3>1. mode' = [mode EXCEPT ![t] = "upsert"] /\ Goto(t, "root")
      BY <1>2, <2>2, Zenon DEF FinishInsert
    <3>2. "upsert" \in Routines
      BY Zenon DEF Routines
    <3> QED BY <3>1, <3>2, LabelsAre, Zenon DEF ControlMove, LabelMove, RoutineMove
  <2> QED BY <2>1, <2>2, Zenon
<1>3. ASSUME FinishNewValue(t) PROVE ControlMove(t)
  BY <1>1, <1>2, <1>3, Zenon DEF FinishNewValue
<1>4. ASSUME Retry(t), UNCHANGED mode PROVE ControlMove(t)
  <2>1. Goto(t, "root")
    BY <1>4, Zenon DEF Retry
  <2> QED BY <1>4, <2>1, LabelsAre, GoesTo, Zenon
<1> QED BY <1>1, <1>2, <1>3, <1>4, Zenon

\* Every step goes to a place that there is.
LEMMA StepsMoveControl ==
  ASSUME Typed, NEW t \in Threads, Step(t)
  PROVE  ControlMove(t)
<1>1. LoadRootNode(t) => ControlMove(t)
  BY LabelsAre, GoesTo, Zenon DEF LoadRootNode
<1>2. LoadRootLeaf(t) => ControlMove(t)
  <2> HAVE LoadRootLeaf(t)
  <2>1. \/ \E result : Finish(t, result) \/ FinishInsert(t, result)
        \/ UNCHANGED mode /\ (Goto(t, "pair") \/ Goto(t, "cas"))
        \/ UNCHANGED pc /\ mode' = [mode EXCEPT ![t] = "insert"]
    BY Zenon DEF LoadRootLeaf
  <2>2. CASE UNCHANGED pc /\ mode' = [mode EXCEPT ![t] = "insert"]
    <3>1. "insert" \in Routines
      BY Zenon DEF Routines
    <3> QED BY <2>2, <3>1, Zenon DEF ControlMove, LabelMove, RoutineMove
  <2>3. CASE UNCHANGED mode /\ (Goto(t, "pair") \/ Goto(t, "cas"))
    BY <2>3, LabelsAre, GoesTo, Zenon
  <2> QED BY <2>1, <2>2, <2>3, ReturnsTo, Zenon
<1>3. LoadEmptyRoot(t) => ControlMove(t)
  <2> HAVE LoadEmptyRoot(t)
  <2>1. UNCHANGED mode /\ (Goto(t, "fault") \/ Goto(t, "cas"))
    BY Zenon DEF LoadEmptyRoot
  <2> QED BY <2>1, LabelsAre, GoesTo, Zenon
<1>4. PairWithRootLeaf(t) => ControlMove(t)
  BY LabelsAre, GoesTo, Zenon DEF PairWithRootLeaf
<1>5. CompareAndSwapRoot(t) => ControlMove(t)
  <2> HAVE CompareAndSwapRoot(t)
  <2>1. UNCHANGED mode /\ (Retry(t) \/ Goto(t, "swapped"))
    BY Zenon DEF CompareAndSwapRoot
  <2> QED BY <2>1, ReturnsTo, LabelsAre, GoesTo, Zenon
<1>6. ReturnAfterSwap(t) => ControlMove(t)
  BY ReturnsTo, Zenon DEF ReturnAfterSwap
<1>7. DescendToNode(t) => ControlMove(t)
  BY LabelsAre, GoesTo, Zenon DEF DescendToNode
<1>8. DescendToLeaf(t) => ControlMove(t)
  <2> HAVE DescendToLeaf(t)
  <2>1. \/ \E result : Finish(t, result) \/ FinishInsert(t, result)
        \/ UNCHANGED mode /\ (Goto(t, "lock leaf") \/ Goto(t, "lock"))
    BY Zenon DEF DescendToLeaf
  <2> QED BY <2>1, ReturnsTo, LabelsAre, GoesTo, Zenon
<1>9. TryLock(t) => ControlMove(t)
  <2> HAVE TryLock(t)
  <2>1. UNCHANGED mode /\ (Retry(t) \/ Goto(t, "release") \/ Goto(t, "validate") \/ UNCHANGED pc)
    BY Zenon DEF TryLock
  <2> QED BY <2>1, ReturnsTo, LabelsAre, GoesTo, Zenon
<1>10. Validate(t) => ControlMove(t)
  <2> HAVE Validate(t)
  <2>1. UNCHANGED mode /\ (Goto(t, "publish") \/ Goto(t, "release"))
    BY Zenon DEF Validate
  <2> QED BY <2>1, LabelsAre, GoesTo, Zenon
<1>11. Publish(t) \/ MarkReplaced(t) => ControlMove(t)
  BY LabelsAre, GoesTo, Zenon DEF Publish, MarkReplaced
<1>12. UnlockInserted(t) => ControlMove(t)
  <2> HAVE UnlockInserted(t)
  <2>1. FinishNewValue(t) \/ UNCHANGED << pc, mode >>
    BY Zenon DEF UnlockInserted
  <2> QED BY <2>1, ReturnsTo, LabelsAre, GoesTo, Zenon
<1>13. Release(t) => ControlMove(t)
  <2> HAVE Release(t)
  <2>1. UNCHANGED mode /\ (Retry(t) \/ UNCHANGED pc)
    BY Zenon DEF Release
  <2> QED BY <2>1, ReturnsTo, LabelsAre, GoesTo, Zenon
<1>14. LockParentOfLeaf(t) => ControlMove(t)
  <2> HAVE LockParentOfLeaf(t)
  <2>1. UNCHANGED mode /\ (Retry(t) \/ Goto(t, "overwrite"))
    BY Zenon DEF LockParentOfLeaf
  <2> QED BY <2>1, ReturnsTo, LabelsAre, GoesTo, Zenon
<1>15. OverwriteLeaf(t) => ControlMove(t)
  BY LabelsAre, GoesTo, Zenon DEF OverwriteLeaf
<1>16. UnlockParentOfLeaf(t) => ControlMove(t)
  BY ReturnsTo, Zenon DEF UnlockParentOfLeaf
<1> QED BY <1>1, <1>2, <1>3, <1>4, <1>5, <1>6, <1>7, <1>8, <1>9, <1>10, <1>11, <1>12, <1>13,
           <1>14, <1>15, <1>16, Zenon DEF Step

\* So does a call.
LEMMA InvokeMovesControl ==
  ASSUME Typed, CallsTyped, NEW t \in Threads, Invoke(t)
  PROVE  ControlMove(t) /\ CallsTyped'
<1> DEFINE C == [kind : Routines, key : Keys, value : Values]
<1>1. PICK c \in Head(calls[t]) : mode' = [mode EXCEPT ![t] = c.kind]
  BY Zenon DEF Invoke
<1>2. calls[t] # << >> /\ Goto(t, "root") /\ calls' = [calls EXCEPT ![t] = Tail(@)]
  BY Zenon DEF Invoke
<1>3. calls \in [Threads -> Seq(SUBSET C)]
  BY DEF CallsTyped, Routines
<1>4. c \in C
  <2> HIDE DEF C
  <2>1. Head(calls[t]) \in SUBSET C
    BY <1>2, <1>3
  <2> QED BY <2>1
<1>5. c.kind \in Routines
  BY <1>4
<1>6. ControlMove(t)
  BY <1>1, <1>2, <1>5, LabelsAre, Zenon DEF ControlMove, LabelMove, RoutineMove
<1>7. calls' \in [Threads -> Seq(SUBSET C)]
  <2> HIDE DEF C
  <2>1. Tail(calls[t]) \in Seq(SUBSET C)
    BY <1>2, <1>3
  <2> QED BY <1>2, <1>3, <2>1
<1> QED BY <1>6, <1>7 DEF CallsTyped, Routines

\* A step leaves the calls alone that are still to be made.
LEMMA StepsKeepCalls ==
  ASSUME NEW t \in Threads, Step(t)
  PROVE  UNCHANGED calls
BY Zenon DEF Step, LoadRootNode, LoadRootLeaf, LoadEmptyRoot, PairWithRootLeaf, CompareAndSwapRoot,
     ReturnAfterSwap, DescendToNode, DescendToLeaf, TryLock, Validate, Publish, MarkReplaced,
     UnlockInserted, Release, LockParentOfLeaf, OverwriteLeaf, UnlockParentOfLeaf

\* Labels and routines have their types after a step.
LEMMA ControlIsTyped ==
  ASSUME Typed, CallsTyped, NEW t \in Threads, Invoke(t) \/ Step(t)
  PROVE  /\ pc' \in [Threads -> Labels] /\ mode' \in [Threads -> {"lookup", "insert", "upsert"}]
         /\ CallsTyped'
<1>1. pc \in [Threads -> Labels] /\ mode \in [Threads -> Routines]
  BY DEF Typed, Routines
<1>2. ControlMove(t) /\ CallsTyped'
  <2>1. CASE Step(t)
    <3>1. UNCHANGED calls
      BY <2>1, StepsKeepCalls
    <3> QED BY <2>1, <3>1, StepsMoveControl DEF CallsTyped
  <2> QED BY <2>1, InvokeMovesControl
<1>3. pc' \in [Threads -> Labels]
  BY <1>1, <1>2, Zenon DEF ControlMove, LabelMove, Goto
<1>4. mode' \in [Threads -> Routines]
  BY <1>1, <1>2, Zenon DEF ControlMove, RoutineMove
<1> QED BY <1>2, <1>3, <1>4 DEF Routines

\* The pointers of the type invariant.
AllPointers(D) ==
  {EmptyPointer} \cup {LeafPointer(k, v) : k \in Keys, v \in Values} \cup {NodePointer(i) : i \in D}

\* Those of the nodes are the ones that are not null.
LEMMA PointersAre ==
  ASSUME NEW D
  PROVE  AllPointers(D) \ {EmptyPointer} = PointersTo(D)
<1>1. ASSUME NEW p \in PointersTo(D) PROVE p # EmptyPointer
  <2> DEFINE r == [i \in D |-> 0]
  <2>1. IsChild(r, p)
    BY DEF IsChild, PointersTo
  <2> QED BY <2>1, ChildIs
<1>2. AllPointers(D) \ {EmptyPointer} = PointersTo(D) \ {EmptyPointer}
  BY DEF PointersTo, LeafPointers, AllPointers
<1> QED BY <1>1, <1>2

\* The root has its type.
LEMMA RootIsTyped ==
  ASSUME NEW D, NEW r, DOMAIN r \subseteq D, NEW p, RootFits(p, r)
  PROVE  p \in AllPointers(D)
BY DEF RootFits, IsChild, LeafPointers, AllPointers

\* A heap that has its shape and threads that are somewhere have their types.
LEMMA ShapeIsTyped ==
  ASSUME NEW r, SoundHeap(heap', r), RootFits(root', r), pc' \in [Threads -> Labels],
         mode' \in [Threads -> {"lookup", "insert", "upsert"}], CallsTyped'
  PROVE  Typed'
<1> DEFINE P == Pointers'
<1>1. P = AllPointers(DOMAIN heap')
  BY DEF Pointers, AllPointers
<1>2. DOMAIN r \subseteq DOMAIN heap'
  BY DEF SoundHeap, GoodHeap
<1> HIDE DEF P
<1>3. P \ {EmptyPointer} = PointersTo(DOMAIN heap') /\ root' \in P
  BY <1>1, <1>2, PointersAre, RootIsTyped
<1> DEFINE R == [height : Nat \ {0}, keys : Seq(SUBSET Bits), ptrs : Seq(P \ {EmptyPointer}),
                 lock : Threads \cup {NoThread}, obsolete : BOOLEAN, scheduled : Nat]
<1>4. /\ heap' \in Seq(R)
      /\ \A i \in DOMAIN heap' :
           /\ Len(heap'[i].keys) = Len(heap'[i].ptrs) /\ Len(heap'[i].ptrs) \in 2 .. MaxEntries
           /\ heap'[i].keys[1] = {}
  BY <1>3, SoundIsTyped, Zenon
<1>5. R = NodeRecords'
  BY DEF NodeRecords, P
<1> HIDE DEF R
<1>6. DOMAIN calls' = Threads
  BY DEF CallsTyped
<1> QED BY <1>3, <1>4, <1>5, <1>6, Zenon DEF Typed, P

\* The same of the initial states.
LEMMA ShapeIsTypedFirst ==
  ASSUME NEW r, SoundHeap(heap, r), RootFits(root, r), pc \in [Threads -> Labels],
         mode \in [Threads -> {"lookup", "insert", "upsert"}], CallsTyped
  PROVE  Typed
<1> DEFINE P == Pointers
<1>1. P = AllPointers(DOMAIN heap)
  BY DEF Pointers, AllPointers
<1>2. DOMAIN r \subseteq DOMAIN heap
  BY DEF SoundHeap, GoodHeap
<1> HIDE DEF P
<1>3. P \ {EmptyPointer} = PointersTo(DOMAIN heap) /\ root \in P
  BY <1>1, <1>2, PointersAre, RootIsTyped
<1> DEFINE R == [height : Nat \ {0}, keys : Seq(SUBSET Bits), ptrs : Seq(P \ {EmptyPointer}),
                 lock : Threads \cup {NoThread}, obsolete : BOOLEAN, scheduled : Nat]
<1>4. /\ heap \in Seq(R)
      /\ \A i \in DOMAIN heap :
           /\ Len(heap[i].keys) = Len(heap[i].ptrs) /\ Len(heap[i].ptrs) \in 2 .. MaxEntries
           /\ heap[i].keys[1] = {}
  BY <1>3, SoundIsTyped, Zenon
<1>5. R = NodeRecords
  BY DEF NodeRecords, P
<1> HIDE DEF R
<1>6. DOMAIN calls = Threads
  BY DEF CallsTyped
<1> QED BY <1>3, <1>4, <1>5, <1>6, Zenon DEF Typed, P

-----------------------------------------------------------------------------
(* The inductive invariant                                                 *)

IInv == Typed /\ CallsTyped /\ LockInvariant /\ \E r : Shape(r)

\* What the other threads know is true after the step as well.
LEMMA OthersKnow ==
  ASSUME NEW r, Shape(r), NEW t, NEW more, ShapeMove(t, r, more), LocalMove(t), NEW u \in Threads, u # t
  PROVE  ThreadShape(u, more)'
<1>1. /\ pc'[u] = pc[u] /\ mode'[u] = mode[u] /\ stack'[u] = stack[u]
      /\ pending'[u] = pending[u]
      /\ call'[u].key = call[u].key /\ call'[u].value = call[u].value
  BY DEF LocalMove
<1>2. Key(u)' = Key(u) /\ (KeyTyped(u) => KeyTyped(u)')
  BY <1>1 DEF Key, KeyTyped
<1>3. /\ \E S : stack[u] \in Seq(S)
      /\ pc[u] # "idle" => KeyTyped(u)
      /\ KnowsAt(heap, r, root, pc[u], mode[u], stack[u], pending[u], Key(u))
  BY Zenon DEF Shape, ThreadShape
<1>4. Extends(heap, r, heap', more) /\ RootMoves(root, root')
  BY DEF ShapeMove
<1>5. KnowsAt(heap', more, root', pc[u], mode[u], stack[u], pending[u], Key(u))
  BY <1>3, <1>4, KnowsLater
<1> QED BY <1>1, <1>2, <1>3, <1>5, Zenon DEF ThreadShape

\* Every step of a thread keeps the invariant, and is careful with what others have locked.
LEMMA StepKeepsIInv ==
  ASSUME IInv, NEW t \in Threads, Invoke(t) \/ Step(t)
  PROVE  IInv' /\ Careful(t)
<1>1. Typed /\ CallsTyped /\ LockInvariant
  BY DEF IInv
<1>2. PICK r : Shape(r)
  BY DEF IInv
<1>3. PICK more : ShapeMove(t, r, more)
  BY <1>1, <1>2, StepShape
<1>4. /\ pc' \in [Threads -> Labels] /\ mode' \in [Threads -> {"lookup", "insert", "upsert"}]
      /\ CallsTyped'
  BY <1>1, ControlIsTyped
<1>5. SoundHeap(heap', more) /\ RootFits(root', more) /\ ThreadShape(t, more)'
  BY <1>3, Zenon DEF ShapeMove
<1>6. Typed'
  BY <1>4, <1>5, ShapeIsTyped
<1>7. Careful(t)
  BY <1>1, <1>6, StepsAreCareful
<1>8. LockInvariant'
  BY <1>1, <1>7, CarefulKeepsInvariant
<1>9. LocalMove(t)
  BY <1>7 DEF Careful
<1>10. ASSUME NEW u \in Threads PROVE ThreadShape(u, more)'
  <2>1. CASE u # t
    BY <1>2, <1>3, <1>9, <2>1, OthersKnow
  <2> QED BY <1>5, <2>1
<1>11. Shape(more)'
  BY <1>5, <1>10, Zenon DEF Shape
<1> QED BY <1>4, <1>6, <1>7, <1>8, <1>11, Zenon DEF IInv

\* So does every step of the specification.
LEMMA NextKeepsIInv == IInv /\ [Next]_vars => IInv'
<1> SUFFICES ASSUME IInv, [Next]_vars PROVE IInv'
  OBVIOUS
<1>1. ASSUME UNCHANGED vars PROVE IInv'
  <2>1. UNCHANGED << root, heap, call, pc, mode, stack, held, pending, calls >>
    BY <1>1 DEF vars
  <2>2. Typed' /\ CallsTyped'
    BY <2>1 DEF IInv, Typed, CallsTyped, Pointers, NodeRecords
  <2>3. LockInvariant'
    BY <2>2, LockInvariantStep DEF IInv
  <2>4. PICK r : Shape(r)
    BY DEF IInv
  <2>5. Shape(r)'
    BY <2>1, <2>4, Zenon DEF Shape, ThreadShape, KeyTyped, Key
  <2> QED BY <2>2, <2>3, <2>5, Zenon DEF IInv
<1>2. CASE \E t \in Threads : Invoke(t) \/ Step(t)
  BY <1>2, StepKeepsIInv
<1> QED BY <1>1, <1>2, Zenon DEF Next, Terminated

-----------------------------------------------------------------------------
(* The path of a search that runs alone                                    *)

\* What PathBy does: an entry that was found, and one more of them on a path.
EntryBy(found, loc, p) == StackEntry(loc, p, IF IsAValidNode(p) THEN found[p.id] ELSE 0)
WalkOn(nodes, found, above) ==
  IF ~IsAValidNode(above[Len(above)].ptr) THEN above
  ELSE Append(above, EntryBy(found, SlotLocation(above[Len(above)].ptr.id, above[Len(above)].entry),
                             NodeOf(nodes, above[Len(above)]).ptrs[above[Len(above)].entry]))
WalkWith(above, w) == WalkOn(w.nodes, w.found, above)
Walking == INSTANCE FoldTheorems WITH Op <- WalkWith

\* The recursion of PathBy.
Walks(path, nodes, start, found) ==
  path = [n \in 0 .. Len(nodes) |->
            IF n = 0 THEN << EntryBy(found, RootLocation, start) >>
            ELSE WalkOn(nodes, found, path[n - 1])]

\* The paths that lead to the one of PathBy.
WalksTo(path, nodes, start, found) ==
  /\ path[0] = << EntryBy(found, RootLocation, start) >>
  /\ \A n \in 1 .. Len(nodes) : path[n] = WalkOn(nodes, found, path[n - 1])
  /\ PathBy(nodes, start, found) = path[Len(nodes)]

\* The recursion has a solution, and PathBy is the end of one.
LEMMA PathByWalks ==
  ASSUME NEW nodes, NEW start, NEW found, Len(nodes) \in Nat
  PROVE  \E path : WalksTo(path, nodes, start, found)
<1> DEFINE size == Len(nodes)
           w == [nodes |-> nodes, found |-> found]
           seq == [i \in 1 .. size |-> w]
           base == << EntryBy(found, RootLocation, start) >>
<1>1. PathBy(nodes, start, found) = (CHOOSE path : Walks(path, nodes, start, found))[size]
  BY DEF PathBy, Walks, WalkOn, EntryBy
<1>2. \E path : Walks(path, nodes, start, found)
  <2>1. PICK g : Walking!Rises(g, base, seq, size)
    BY Walking!RiseExists
  <2>2. g = [i \in 0 .. size |-> IF i = 0 THEN base ELSE WalkWith(g[i - 1], seq[i])]
    BY <2>1 DEF Walking!Rises
  <2>3. \A i \in 0 .. size : i # 0 => seq[i] = w
    OBVIOUS
  <2>4. w.nodes = nodes /\ w.found = found
    OBVIOUS
  <2> HIDE DEF w, seq, base
  <2>5. \A i \in 0 .. size : i # 0 => WalkWith(g[i - 1], seq[i]) = WalkOn(nodes, found, g[i - 1])
    BY <2>3, <2>4 DEF WalkWith
  <2>6. g = [i \in 0 .. size |-> IF i = 0 THEN base ELSE WalkOn(nodes, found, g[i - 1])]
    BY <2>2, <2>5
  <2> QED BY <2>6 DEF Walks, base
<1>3. PICK path : Walks(path, nodes, start, found) /\ PathBy(nodes, start, found) = path[size]
  BY <1>1, <1>2
<1>4. path = [n \in 0 .. size |-> IF n = 0 THEN base ELSE WalkOn(nodes, found, path[n - 1])]
  BY <1>3 DEF Walks
<1> HIDE DEF base, size
<1>5. size \in Nat
  BY DEF size
<1>6. path[0] = base /\ \A n \in 1 .. size : path[n] = WalkOn(nodes, found, path[n - 1])
  BY <1>4, <1>5
<1> QED BY <1>3, <1>6 DEF WalksTo, base, size

\* How far a search from a node has come: to a leaf, or down as many levels as it went.
Reads(h, path) == \A i \in 1 .. Len(path) - 1 : h[path[i].ptr.id].ptrs[path[i].entry] = path[i + 1].ptr
WalkFits(h, r, start, key, path, n) ==
  /\ \E S : path \in Seq(S)
  /\ IsPath(h, r, path, key) /\ path[1].ptr = start /\ Reads(h, path)
  /\ IsChild(r, LeafEntry(path).ptr)
  /\ IsAValidNode(LeafEntry(path).ptr) =>
       AtNode(r, LeafEntry(path), key) /\ GetHeight(h, LeafEntry(path).ptr) + n <= GetHeight(h, start)

\* What a search finds in the nodes.
Finds(h, key) == [id \in DOMAIN h |-> Search(h[id], key)]

\* An entry that is found.
LEMMA FoundIsAt ==
  ASSUME NEW h, NEW r, GoodHeap(h, r), NEW p, IsChild(r, p), IsAValidNode(p), NEW key \in Keys, NEW loc,
         NEW s, s = EntryBy(Finds(h, key), loc, p)
  PROVE  AtNode(r, s, key)
<1>1. p.id \in DOMAIN r /\ p = NodePointer(p.id)
  BY ChildIs
<1>2. p.id \in DOMAIN h
  BY <1>1 DEF GoodHeap
<1>3. s.loc = loc /\ s.ptr = p /\ s.entry = Search(h[p.id], key)
  BY <1>2 DEF EntryBy, StackEntry, Finds
<1>4. GoodNode(h, r, h[p.id], r[p.id])
  BY <1>1 DEF GoodHeap
<1>5. Represents(h[p.id], r[p.id].reps) /\ Len(r[p.id].reps) \in 2 .. MaxEntries
  BY <1>4 DEF GoodNode
<1>6. Len(r[p.id].reps) >= 1
  BY <1>5
<1>7. key \in AllKeys
  BY KeysAssumption
<1>8. s.entry \in DOMAIN r[p.id].reps /\ \A c \in PathBits(r[p.id].reps, s.entry) : c \in key <=> c \in r[p.id].reps[s.entry]
  BY <1>3, <1>5, <1>6, <1>7, SearchFollowsPath
<1> QED BY <1>1, <1>3, <1>8 DEF AtNode

\* The search starts at the node.
LEMMA WalkStarts ==
  ASSUME NEW h, NEW r, GoodHeap(h, r), NEW start, IsChild(r, start), IsAValidNode(start), NEW key \in Keys,
         NEW s, s = EntryBy(Finds(h, key), RootLocation, start)
  PROVE  WalkFits(h, r, start, key, << s >>, 0)
<1>1. AtNode(r, s, key)
  BY FoundIsAt
<1>2. s.loc = RootLocation /\ s.ptr = start
  BY DEF EntryBy, StackEntry
<1>3. << s >> \in Seq({s}) /\ Len(<< s >>) = 1 /\ LeafEntry(<< s >>) = s /\ IsPath(h, r, << s >>, key)
  BY <1>1, <1>2, OneNode
<1>4. << s >>[1] = s
  OBVIOUS
<1>5. Reads(h, << s >>)
  BY <1>3 DEF Reads
<1>6. GetHeight(h, start) \in Nat
  BY HeightIs
<1>7. GetHeight(h, start) + 0 <= GetHeight(h, start)
  BY <1>6
<1> DEFINE path == << s >>
<1>8. /\ path \in Seq({s}) /\ IsPath(h, r, path, key) /\ path[1].ptr = start /\ Reads(h, path)
      /\ LeafEntry(path) = s
  BY <1>2, <1>3, <1>4, <1>5
<1> HIDE DEF path
<1> SUFFICES WalkFits(h, r, start, key, path, 0)
  BY DEF path
<1> QED BY <1>1, <1>2, <1>7, <1>8, Zenon DEF WalkFits

\* One level.
LEMMA WalkGoesOn ==
  ASSUME NEW h, NEW r, GoodHeap(h, r), NEW start, IsChild(r, start), NEW key \in Keys,
         NEW path, NEW n \in Nat, WalkFits(h, r, start, key, path, n),
         NEW next, next = WalkOn(h, Finds(h, key), path)
  PROVE  WalkFits(h, r, start, key, next, n + 1)
<1> DEFINE s == LeafEntry(path)
<1>1. PICK S : path \in Seq(S)
  BY DEF WalkFits
<1>2. /\ IsPath(h, r, path, key) /\ path[1].ptr = start /\ Reads(h, path) /\ IsChild(r, s.ptr)
      /\ IsAValidNode(s.ptr) => AtNode(r, s, key) /\ GetHeight(h, s.ptr) + n <= GetHeight(h, start)
  BY DEF WalkFits
<1>3. CASE ~IsAValidNode(s.ptr)
  <2>1. next = path
    BY <1>3 DEF WalkOn, LeafEntry
  <2> QED BY <1>1, <1>2, <1>3, <2>1, Zenon DEF WalkFits
<1>4. CASE IsAValidNode(s.ptr)
  <2> DEFINE p == h[s.ptr.id].ptrs[s.entry]
             loc == SlotLocation(s.ptr.id, s.entry)
             e == EntryBy(Finds(h, key), loc, p)
  <2>1. next = Append(path, e)
    BY <1>4 DEF WalkOn, LeafEntry, NodeOf
  <2>2. AtNode(r, s, key) /\ GetHeight(h, s.ptr) + n <= GetHeight(h, start)
    BY <1>2, <1>4
  <2>3. s.ptr.id \in DOMAIN r /\ s.entry \in DOMAIN r[s.ptr.id].reps
    BY <2>2 DEF AtNode
  <2>4. GoodNode(h, r, h[s.ptr.id], r[s.ptr.id])
    BY <2>3 DEF GoodHeap
  <2>5. FitsIn(h, r, p, h[s.ptr.id].height, r[s.ptr.id], s.entry)
    BY <2>3, <2>4 DEF GoodNode
  <2>6. e.loc = loc /\ e.ptr = p
    BY DEF EntryBy, StackEntry
  <2>7. e = EntryBy(Finds(h, key), loc, p) /\ p = h[s.ptr.id].ptrs[s.entry] /\ loc = SlotLocation(s.ptr.id, s.entry)
    OBVIOUS
  <2> HIDE DEF e, p, loc
  <2>8. IsChild(r, p) /\ GetHeight(h, p) < h[s.ptr.id].height
    BY <2>5 DEF FitsIn
  <2>9. IsBelow(h, r, s, e)
    BY <2>5, <2>6, <2>7 DEF IsBelow
  <2>10. IsAValidNode(p) => AtNode(r, e, key)
    BY <2>7, <2>8, FoundIsAt
  <2>11. /\ IsPath(h, r, Append(path, e), key) /\ LeafEntry(Append(path, e)) = e
         /\ Len(Append(path, e)) = Len(path) + 1 /\ Len(path) \in Nat \ {0}
         /\ Append(path, e) \in Seq(S \cup {e})
    BY <1>1, <1>2, <2>2, <2>9, PathGrows
  <2>12. /\ \A j \in 1 .. Len(path) : next[j] = path[j]
         /\ next[Len(path) + 1] = e
    <3>1. path \in Seq(S \cup {e}) /\ e \in S \cup {e}
      BY <1>1
    <3> QED BY <2>1, <3>1, AppendProperties
  <2>13. Reads(h, next)
    <3> SUFFICES ASSUME NEW i \in 1 .. Len(next) - 1
                 PROVE  h[next[i].ptr.id].ptrs[next[i].entry] = next[i + 1].ptr
      BY DEF Reads
    <3>1. i \in 1 .. Len(path) /\ Len(path) \in Nat
      BY <2>1, <2>11
    <3>2. next[i] = path[i]
      BY <2>12, <3>1
    <3>3. CASE i = Len(path)
      <4>1. path[i] = s /\ next[i + 1] = e
        BY <2>12, <3>3 DEF LeafEntry
      <4> QED BY <2>6, <2>7, <3>2, <4>1
    <3>4. CASE i # Len(path)
      <4>1. i \in 1 .. Len(path) - 1 /\ i + 1 \in 1 .. Len(path)
        BY <3>1, <3>4
      <4>2. h[path[i].ptr.id].ptrs[path[i].entry] = path[i + 1].ptr
        BY <1>2, <4>1 DEF Reads
      <4> QED BY <2>12, <3>2, <4>1, <4>2
    <3> QED BY <3>3, <3>4
  <2>14. next[1].ptr = start
    BY <1>2, <2>11, <2>12
  <2>15. GetHeight(h, p) + (n + 1) <= GetHeight(h, start)
    <3>1. GetHeight(h, s.ptr) = h[s.ptr.id].height
      <4>1. ~IsLeaf(s.ptr)
        BY <1>2, <1>4, ChildIs
      <4> QED BY <4>1 DEF GetHeight
    <3>2. GetHeight(h, p) \in Nat /\ GetHeight(h, start) \in Nat /\ GetHeight(h, s.ptr) \in Nat
      BY <1>2, <2>8, HeightIs
    <3> QED BY <2>2, <2>8, <3>1, <3>2
  <2>16. LeafEntry(next) = e /\ IsPath(h, r, next, key) /\ next \in Seq(S \cup {e})
    BY <2>1, <2>11
  <2> QED BY <2>6, <2>8, <2>10, <2>13, <2>14, <2>15, <2>16, Zenon DEF WalkFits
<1> QED BY <1>3, <1>4

\* A good node has a child that is one level lower.
LEMMA TallestChild ==
  ASSUME NEW h, NEW r, NEW node, NEW g, GoodNode(h, r, node, g)
  PROVE  \E i \in DOMAIN node.ptrs :
           IsChild(r, node.ptrs[i]) /\ GetHeight(h, node.ptrs[i]) + 1 = node.height
<1>1. /\ Ascending(g.reps) /\ Len(g.reps) \in 2 .. MaxEntries
      /\ DOMAIN node.ptrs = 1 .. Len(g.reps) /\ Dense(g.reps, g.exact)
      /\ \A i \in DOMAIN g.reps : FitsIn(h, r, node.ptrs[i], node.height, g, i)
  BY DEF GoodNode, Represents
<1>2. DOMAIN g.reps = 1 .. Len(g.reps) /\ Len(g.reps) \in Nat /\ Len(g.reps) >= 2
  BY <1>1, EntriesAre
<1>3. 1 \in DOMAIN g.reps /\ 2 \in DOMAIN g.reps
  BY <1>2
<1>4. PICK i \in g.exact \cap DOMAIN g.reps : TRUE
  BY <1>1, <1>3 DEF Dense
<1>5. FitsIn(h, r, node.ptrs[i], node.height, g, i)
  BY <1>1, <1>4
<1> QED BY <1>1, <1>2, <1>4, <1>5 DEF FitsIn

\* Below a node there are nodes of every height less than its own.
LEMMA EveryHeightIsThere ==
  ASSUME NEW h, NEW r, GoodHeap(h, r), NEW i \in DOMAIN r, NEW k \in 1 .. h[i].height
  PROVE  \E j \in DOMAIN r : h[j].height = k
<1> DEFINE Some == { m \in Nat : m >= k /\ \E j \in DOMAIN r : h[j].height = m }
<1>1. \A j \in DOMAIN r : GoodNode(h, r, h[j], r[j]) /\ h[j].height \in Nat \ {0}
  BY DEF GoodHeap, GoodNode
<1>2. h[i].height \in Some /\ k \in Nat \ {0}
  BY <1>1
<1>3. Some \subseteq Nat /\ Some # {}
  BY <1>2
<1> HIDE DEF Some
<1>4. PICK m \in Some : \A n \in Some : m <= n
  BY <1>3, LeastNatural
<1> USE DEF Some
<1>5. PICK j \in DOMAIN r : h[j].height = m
  BY <1>4
<1>6. SUFFICES ASSUME m # k PROVE FALSE
  BY <1>5
<1>7. m \in Nat /\ m - 1 \in Nat /\ m - 1 >= k /\ ~(m <= m - 1)
  BY <1>2, <1>4, <1>6
<1>8. PICK e \in DOMAIN h[j].ptrs : IsChild(r, h[j].ptrs[e]) /\ GetHeight(h, h[j].ptrs[e]) + 1 = m
  BY <1>1, <1>5, TallestChild
<1> DEFINE p == h[j].ptrs[e]
<1>9. IsChild(r, p) /\ GetHeight(h, p) + 1 = m
  BY <1>8
<1> HIDE DEF p
<1>10. GetHeight(h, p) \in Nat /\ (IsLeaf(p) <=> GetHeight(h, p) = 0)
  BY <1>9, HeightIs
<1>11. GetHeight(h, p) = m - 1 /\ ~IsLeaf(p)
  BY <1>2, <1>7, <1>9, <1>10
<1>12. p.id \in DOMAIN r
  BY <1>9, <1>11, ChildIs
<1>13. h[p.id].height = m - 1
  BY <1>11 DEF GetHeight
<1>14. m - 1 \in Some
  BY <1>7, <1>12, <1>13
<1> QED BY <1>4, <1>7, <1>14

\* No node is higher than there are nodes.
LEMMA HeightWithinHeap ==
  ASSUME NEW h, NEW r, GoodHeap(h, r), NEW i \in DOMAIN r
  PROVE  Len(h) \in Nat /\ h[i].height <= Len(h)
<1> DEFINE n == h[i].height
           D == { j \in DOMAIN h : h[j].height \in 1 .. n }
           f == [j \in D |-> h[j].height]
<1>1. DOMAIN r \subseteq DOMAIN h /\ Len(h) \in Nat /\ DOMAIN h = 1 .. Len(h)
  <2>1. PICK S : h \in Seq(S)
    BY DEF GoodHeap, IsHeap
  <2> QED BY <2>1 DEF GoodHeap
<1>2. n \in Nat \ {0}
  BY DEF GoodHeap, GoodNode
<1>3. ASSUME NEW k \in 1 .. n PROVE \E j \in D : f[j] = k
  <2>1. PICK j \in DOMAIN r : h[j].height = k
    BY EveryHeightIsThere
  <2>2. j \in D
    BY <1>1, <2>1
  <2> QED BY <2>1, <2>2
<1>4. f \in Surjection(D, 1 .. n)
  BY <1>3 DEF Surjection
<1>5. IsFiniteSet(1 .. Len(h)) /\ Cardinality(1 .. Len(h)) = Len(h) /\ Cardinality(1 .. n) = n
  <2>1. ASSUME NEW m \in Nat PROVE IsFiniteSet(1 .. m) /\ Cardinality(1 .. m) = m
    <3>1. 1 \in Int /\ m \in Int
      OBVIOUS
    <3>2. IsFiniteSet(1 .. m) /\ Cardinality(1 .. m) = IF 1 > m THEN 0 ELSE m - 1 + 1
      BY <3>1, FS_Interval, Zenon
    <3>3. (IF 1 > m THEN 0 ELSE m - 1 + 1) = m
      OBVIOUS
    <3> QED BY <3>2, <3>3
  <2> QED BY <1>1, <1>2, <2>1
<1>6. D \in SUBSET (1 .. Len(h))
  BY <1>1
<1> HIDE DEF n, D, f
<1>7. IsFiniteSet(D) /\ Cardinality(D) <= Len(h)
  BY <1>5, <1>6, FS_Subset
<1>8. Cardinality(1 .. n) <= Cardinality(D)
  BY <1>4, <1>7, FS_Surjection
<1>9. Cardinality(D) \in Nat
  BY <1>7, FS_CardinalityType
<1> QED BY <1>1, <1>2, <1>5, <1>7, <1>8, <1>9 DEF n

\* The search ends at a leaf.
LEMMA WalkEnds ==
  ASSUME NEW h, NEW r, GoodHeap(h, r), NEW start, IsChild(r, start), IsAValidNode(start),
         NEW key, NEW path, WalkFits(h, r, start, key, path, Len(h))
  PROVE  Len(path) \in Nat /\ Len(path) >= 2 /\ LeafEntry(path).ptr \in LeafPointers
<1>1. IsChild(r, LeafEntry(path).ptr) /\ path[1].ptr = start /\ Len(path) \in Nat \ {0}
  BY DEF WalkFits, IsPath
<1>2. GetHeight(h, start) \in Nat /\ GetHeight(h, LeafEntry(path).ptr) \in Nat
      /\ (IsLeaf(LeafEntry(path).ptr) <=> GetHeight(h, LeafEntry(path).ptr) = 0)
  BY <1>1, HeightIs
<1>3. ~IsAValidNode(LeafEntry(path).ptr)
  <2> SUFFICES ASSUME IsAValidNode(LeafEntry(path).ptr) PROVE FALSE
    OBVIOUS
  <2>1. GetHeight(h, LeafEntry(path).ptr) + Len(h) <= GetHeight(h, start)
    BY DEF WalkFits
  <2>2. Len(h) \in Nat /\ GetHeight(h, start) <= Len(h)
    <3>1. start.id \in DOMAIN r /\ ~IsLeaf(start)
      BY ChildIs
    <3>2. GetHeight(h, start) = h[start.id].height
      BY <3>1 DEF GetHeight
    <3> QED BY <3>1, <3>2, HeightWithinHeap
  <2>3. IsLeaf(LeafEntry(path).ptr)
    BY <1>2, <2>1, <2>2
  <2> QED BY <1>1, <2>3, ChildIs
<1>4. LeafEntry(path).ptr \in LeafPointers
  BY <1>1, <1>3, ChildIs
<1>5. Len(path) # 1
  BY <1>1, <1>3 DEF LeafEntry
<1>6. \A n \in Nat \ {0} : n # 1 => n \in Nat /\ n >= 2
  OBVIOUS
<1> QED BY <1>1, <1>4, <1>5, <1>6, Zenon

\* The path of a search that nobody disturbs: it was read from the nodes, and it ends at a leaf.
LEMMA PathToIs ==
  ASSUME NEW h, NEW r, GoodHeap(h, r), NEW start, IsChild(r, start), IsAValidNode(start), NEW key \in Keys,
         NEW path, path = PathTo(h, start, key)
  PROVE  /\ \E S : path \in Seq(S)
         /\ IsPath(h, r, path, key) /\ path[1].ptr = start /\ Reads(h, path)
         /\ Len(path) >= 2 /\ LeafEntry(path).ptr \in LeafPointers
<1> DEFINE size == Len(h)
           found == Finds(h, key)
<1>1. size \in Nat
  BY DEF GoodHeap, IsHeap
<1>2. path = PathBy(h, start, found)
  BY DEF PathTo, Finds
<1>2a. PICK g : WalksTo(g, h, start, found)
  BY <1>1, PathByWalks, Zenon
<1>3. /\ g[0] = << EntryBy(found, RootLocation, start) >>
      /\ \A n \in 1 .. size : g[n] = WalkOn(h, found, g[n - 1])
      /\ PathBy(h, start, found) = g[size]
  BY <1>2a DEF WalksTo
<1> DEFINE Fits(n) == WalkFits(h, r, start, key, g[n], n)
           Bad == { n \in 0 .. size : ~Fits(n) }
<1>4. Fits(0)
  BY <1>3, WalkStarts
<1>5. ASSUME NEW n \in Nat, Fits(n), n + 1 <= size PROVE Fits(n + 1)
  <2>1. n + 1 \in 1 .. size /\ (n + 1) - 1 = n
    BY <1>1, <1>5
  <2>2. g[n + 1] = WalkOn(h, found, g[n])
    BY <1>3, <2>1
  <2>3. WalkFits(h, r, start, key, g[n + 1], n + 1)
    BY <1>5, <2>2, WalkGoesOn
  <2> QED BY <2>3
<1> HIDE DEF Fits, size
<1>6. Fits(size)
  <2>1. CASE Bad = {}
    BY <1>1, <2>1
  <2>2. CASE Bad # {}
    <3>1. Bad \subseteq Nat
      OBVIOUS
    <3> HIDE DEF Bad
    <3>2. PICK n \in Bad : \A m \in Bad : n <= m
      BY <2>2, <3>1, LeastNatural
    <3> USE DEF Bad
    <3>3. n \in 0 .. size /\ ~Fits(n)
      BY <3>2
    <3>4. n # 0
      BY <1>4, <3>3
    <3>5. n - 1 \in 0 .. size /\ n - 1 \in Nat /\ (n - 1) + 1 = n /\ ~(n <= n - 1)
      BY <1>1, <3>3, <3>4
    <3>6. Fits(n - 1)
      BY <3>2, <3>5
    <3>7. Fits((n - 1) + 1)
      BY <1>5, <3>3, <3>5, <3>6
    <3> QED BY <3>3, <3>5, <3>7
  <2> QED BY <2>1, <2>2
<1>7. WalkFits(h, r, start, key, path, Len(h))
  BY <1>2, <1>3, <1>6 DEF Fits, size
<1>8. Len(path) >= 2 /\ LeafEntry(path).ptr \in LeafPointers
  BY <1>7, WalkEnds
<1> QED BY <1>7, <1>8, Zenon DEF WalkFits

-----------------------------------------------------------------------------
(* The trie that the keys were inserted into before the threads start      *)

\* The nodes of such a path are there.
LEMMA ReadPathIsOn ==
  ASSUME NEW h, NEW r, GoodHeap(h, r), NEW path, NEW key, IsPath(h, r, path, key),
         \E S : path \in Seq(S), Len(path) >= 2
  PROVE  PathOn(h, path)
<1>1. \A j \in 1 .. Len(path) - 1 : AtNode(r, path[j], key) /\ IsBelow(h, r, path[j], path[j + 1])
  BY DEF IsPath
<1>2. ASSUME NEW j \in 1 .. Len(path) - 1
      PROVE  /\ IsAValidNode(path[j].ptr) /\ path[j].ptr.id \in DOMAIN h
             /\ path[j + 1].loc = SlotLocation(path[j].ptr.id, path[j].entry)
  <2>1. path[j].ptr = NodePointer(path[j].ptr.id) /\ path[j].ptr.id \in DOMAIN r
    BY <1>1 DEF AtNode
  <2>2. IsAValidNode(path[j].ptr)
    BY <2>1, NodeIs
  <2> QED BY <1>1, <2>1, <2>2 DEF IsBelow, GoodHeap
<1>3. path[1].loc = RootLocation
  BY DEF IsPath
<1> QED BY <1>2, <1>3 DEF PathOn

\* The plan of an insert on a path that is where it was read.
LEMMA PlanAlone ==
  ASSUME NEW h, NEW r, GoodHeap(h, r), NEW path, NEW key \in Keys, IsLeafPath(h, r, path, key),
         \E S : path \in Seq(S), Reads(h, path), NEW v \in Values,
         NEW level, level = InsertLevel(h, path, GetMismatchingBit(LeafEntry(path).ptr.key, key)),
         NEW plan, plan = InsertForStackRange(h, path, level, LeafPointer(key, v))
  PROVE  PlanFits(h, r, plan.heap, plan.ptr, plan.loc)
<1>1. IsPath(h, r, path, key) /\ Len(path) >= 2 /\ Len(path) \in Nat
  BY DEF IsLeafPath, IsPath
<1>2. PathOn(h, path)
  BY <1>1, ReadPathIsOn
<1>3. level.first \in 1 .. Len(path) - 1 /\ level.pushdown \in BOOLEAN
  BY <1>2, InsertLevelIs
<1>4. level.first \in Nat \ {0}
  BY <1>1, <1>3
<1> DEFINE low == TopLockLevel(h, path, level)
<1>5. low = TopLockLevel(h, path, level)
  OBVIOUS
<1> HIDE DEF low
<1>6. low \in 1 .. level.first
  BY <1>3, <1>4, <1>5, TopLockLevelIs
<1>7. \A i \in low .. level.first : i \in 1 .. Len(path) - 1
  BY <1>1, <1>3, <1>6
<1>8. Current(h, path, low, level.first)
  BY <1>7 DEF Current, Reads
<1> QED BY <1>5, <1>8, PlanIsGood

\* A trie of good nodes.
IsTrie(trie) ==
  /\ DOMAIN trie = {"root", "heap"}
  /\ \E r : SoundHeap(trie.heap, r) /\ RootFits(trie.root, r)

\* Carrying a plan out.
LEMMA InstalledIsTrie ==
  ASSUME NEW trie, NEW r, SoundHeap(trie.heap, r), RootFits(trie.root, r),
         NEW plan, PlanFits(trie.heap, r, plan.heap, plan.ptr, plan.loc)
  PROVE  IsTrie(Installed(trie, plan))
<1> DEFINE h == trie.heap
           g == HeapAfter(plan.heap, plan.loc, plan.ptr)
           next == Installed(trie, plan)
<1>1. PICK more :
        /\ Builds(h, r, plan.heap, more) /\ IsChild(more, plan.ptr) /\ ~IsLeaf(plan.ptr)
        /\ \/ plan.loc = RootLocation
           \/ \E id \in DOMAIN r : \E slot \in DOMAIN r[id].reps :
                /\ plan.loc = SlotLocation(id, slot)
                /\ FitsIn(plan.heap, more, plan.ptr, h[id].height, r[id], slot)
  BY Zenon DEF PlanFits
<1>2. SoundHeap(plan.heap, more) /\ Extends(h, r, plan.heap, more)
  BY <1>1, SoundBuilt DEF Builds
<1>3. /\ DOMAIN next = {"root", "heap"} /\ next.heap = MarkObsolete(g, plan.before \cup plan.after)
      /\ next.root = IF plan.loc = RootLocation THEN plan.ptr ELSE trie.root
  BY DEF Installed
<1> HIDE DEF next
<1>4. SoundHeap(g, more) /\ RootFits(next.root, more)
  <2>1. CASE plan.loc = RootLocation
    BY <1>1, <1>2, <1>3, <2>1 DEF HeapAfter, RootFits
  <2>2. ASSUME NEW id \in DOMAIN r, NEW slot \in DOMAIN r[id].reps, plan.loc = SlotLocation(id, slot),
               FitsIn(plan.heap, more, plan.ptr, h[id].height, r[id], slot)
        PROVE  SoundHeap(g, more) /\ RootFits(next.root, more)
    <3>1. id \in DOMAIN more /\ more[id] = r[id] /\ plan.heap[id].height = h[id].height
      BY <1>2 DEF Extends
    <3>2. id # 0
      BY NodesCount DEF SoundHeap, GoodHeap
    <3>3. g = SetSlot(plan.heap, id, slot, plan.ptr) /\ plan.loc # RootLocation
      <4>1. plan.loc # RootLocation /\ plan.loc.id = id /\ plan.loc.slot = slot
        BY <2>2, <3>2, SlotIsNotRoot
      <4> QED BY <4>1 DEF HeapAfter
    <3>4. SoundHeap(g, more)
      BY <1>2, <2>2, <3>1, <3>3, SoundWritten
    <3>5. next.root = trie.root
      BY <1>3, <3>3
    <3>6. RootFits(next.root, more)
      BY <1>2, <3>5, FitsInLater DEF RootFits
    <3> QED BY <3>4, <3>6
  <2> QED BY <1>1, <2>1, <2>2
<1> HIDE DEF g
<1>5. SoundHeap(next.heap, more)
  BY <1>3, <1>4, MarkIsState, SoundState
<1> QED BY <1>3, <1>4, <1>5 DEF IsTrie, next

\* A node of two entries for a root that is a leaf of another key.
LEMMA TwoIsTrie ==
  ASSUME NEW h, NEW r, SoundHeap(h, r), NEW leaf \in LeafPointers, NEW key \in Keys, NEW v \in Values,
         leaf.key # key,
         NEW two, two = Allocate(h, CreateTwoEntriesNode(BiNodeFromExistingAndNew(
                          h, GetMismatchingBit(leaf.key, key), leaf, LeafPointer(key, v))))
  PROVE  IsTrie([root |-> two.ptr, heap |-> two.heap])
<1> DEFINE l == leaf.key
           bin == BiNodeFromExistingAndNew(h, GetMismatchingBit(l, key), leaf, LeafPointer(key, v))
<1>1. bin = BiNodeFromExistingAndNew(h, GetMismatchingBit(l, key), leaf, LeafPointer(key, v))
  OBVIOUS
<1>2. two = Allocate(h, CreateTwoEntriesNode(bin))
  OBVIOUS
<1> HIDE DEF bin
<1>3. GoodHeap(h, r) /\ IsChild(r, leaf)
  BY DEF SoundHeap, IsChild
<1>4. l \in AllKeys /\ IsLeaf(leaf) /\ Samples(r, leaf) = {l}
  <2>1. PICK k \in Keys, w \in Values : leaf = LeafPointer(k, w)
    BY DEF LeafPointers
  <2>2. l = k
    BY <2>1 DEF LeafPointer
  <2> QED BY <2>1, <2>2, LeafIs
<1>5. AgreeingThrough(r, leaf, l, PartAt(l, key))
  BY <1>4 DEF AgreeingThrough, AgreeThrough
<1> HIDE DEF l
<1>6. l # key
  BY DEF l
<1>7. PairBuilt(h, r, leaf, l, key, bin)
  BY <1>1, <1>3, <1>4, <1>5, <1>6, PairIsGood
<1>8. GoodBinode(h, r, bin, l)
  BY <1>7 DEF PairBuilt
<1> DEFINE X == Samples(r, bin.left) \cup Samples(r, bin.right)
<1>9. (\A x \in Samples(r, bin.left) : x \in X) /\ (\A x \in Samples(r, bin.right) : x \in X)
  OBVIOUS
<1> HIDE DEF X
<1>10. NodeBuilt(h, r, two.heap, two.ptr, bin.height, X)
  BY <1>2, <1>3, <1>8, <1>9, AllocateTwo
<1>11. PICK more : Builds(h, r, two.heap, more) /\ IsChild(more, two.ptr)
  BY <1>10 DEF NodeBuilt
<1>12. SoundHeap(two.heap, more) /\ RootFits(two.ptr, more)
  BY <1>11, SoundBuilt DEF RootFits
<1> QED BY <1>12 DEF IsTrie

\* Inserting a key into such a trie, by one thread alone.
LEMMA InsertAloneIsTrie ==
  ASSUME NEW trie, IsTrie(trie), NEW key \in Keys, NEW v \in Values
  PROVE  IsTrie(InsertAlone(trie, LeafPointer(key, v)))
<1> DEFINE new == LeafPointer(key, v)
           path == PathTo(trie.heap, trie.root, key)
<1>1. PICK r : SoundHeap(trie.heap, r) /\ RootFits(trie.root, r)
  BY DEF IsTrie
<1>2. new.key = key /\ IsChild(r, new)
  BY LeafIs
<1>3. GoodHeap(trie.heap, r)
  BY <1>1 DEF SoundHeap
<1>4. CASE trie.root = EmptyPointer
  <2>1. InsertAlone(trie, new) = [trie EXCEPT !.root = new]
    <3>1. ~IsLeaf(trie.root) /\ ~IsAValidNode(trie.root)
      BY <1>4 DEF IsLeaf, IsAValidNode, EmptyPointer
    <3> HIDE DEF new
    <3> QED BY <1>4, <3>1, Zenon DEF InsertAlone
  <2>2. /\ DOMAIN InsertAlone(trie, new) = {"root", "heap"}
        /\ InsertAlone(trie, new).heap = trie.heap /\ InsertAlone(trie, new).root = new
    BY <2>1 DEF IsTrie
  <2> QED BY <1>1, <1>2, <2>2 DEF IsTrie, RootFits
<1>5. CASE trie.root # EmptyPointer
  <2>1. IsChild(r, trie.root)
    BY <1>1, <1>5 DEF RootFits
  <2>2. \/ IsLeaf(trie.root) /\ ~IsAValidNode(trie.root) /\ trie.root \in LeafPointers
        \/ IsAValidNode(trie.root) /\ ~IsLeaf(trie.root)
    BY <2>1, ChildIs
  <2>3. CASE IsLeaf(trie.root) /\ ~IsAValidNode(trie.root) /\ trie.root \in LeafPointers
    <3> DEFINE two == Allocate(trie.heap, CreateTwoEntriesNode(BiNodeFromExistingAndNew(
                        trie.heap, GetMismatchingBit(trie.root.key, key), trie.root, new)))
    <3>1. InsertAlone(trie, new) = IF trie.root.key = key THEN trie ELSE [root |-> two.ptr, heap |-> two.heap]
      <4> HIDE DEF new
      <4> QED BY <1>2, <1>5, <2>3, Zenon DEF InsertAlone
    <3>2. CASE trie.root.key = key
      BY <3>1, <3>2
    <3>3. CASE trie.root.key # key
      <4>1. IsTrie([root |-> two.ptr, heap |-> two.heap])
        BY <1>1, <2>3, <3>3, TwoIsTrie
      <4> QED BY <3>1, <3>3, <4>1
    <3> QED BY <3>2, <3>3
  <2>4. CASE IsAValidNode(trie.root) /\ ~IsLeaf(trie.root)
    <3> DEFINE bit == GetMismatchingBit(LeafEntry(path).ptr.key, key)
               level == InsertLevel(trie.heap, path, bit)
               plan == InsertForStackRange(trie.heap, path, level, new)
    <3>1. InsertAlone(trie, new) = IF LeafEntry(path).ptr.key = key THEN trie ELSE Installed(trie, plan)
      <4> HIDE DEF new
      <4> QED BY <1>2, <1>5, <2>4, Zenon DEF InsertAlone
    <3>2. path = PathTo(trie.heap, trie.root, key) /\ level = InsertLevel(trie.heap, path, GetMismatchingBit(LeafEntry(path).ptr.key, key))
          /\ plan = InsertForStackRange(trie.heap, path, level, LeafPointer(key, v))
      OBVIOUS
    <3> HIDE DEF path, plan, level, bit
    <3>3. /\ \E S : path \in Seq(S)
          /\ IsPath(trie.heap, r, path, key) /\ Reads(trie.heap, path)
          /\ Len(path) >= 2 /\ LeafEntry(path).ptr \in LeafPointers
      BY <1>3, <2>1, <2>4, <3>2, PathToIs
    <3>4. CASE LeafEntry(path).ptr.key = key
      BY <3>1, <3>4
    <3>5. CASE LeafEntry(path).ptr.key # key
      <4>1. IsLeafPath(trie.heap, r, path, key)
        BY <3>3, <3>5 DEF IsLeafPath
      <4>2. PlanFits(trie.heap, r, plan.heap, plan.ptr, plan.loc)
        BY <1>3, <3>2, <3>3, <4>1, PlanAlone
      <4>3. IsTrie(Installed(trie, plan))
        BY <1>1, <4>2, InstalledIsTrie
      <4> QED BY <3>1, <3>5, <4>3
    <3> QED BY <3>4, <3>5
  <2> QED BY <2>2, <2>3, <2>4
<1> QED BY <1>4, <1>5

Loading == INSTANCE FoldTheorems WITH Op <- InsertAlone

NoTrie == [root |-> EmptyPointer, heap |-> << >>]

\* The recursion of Preloaded.
Loads(trie, keys, value) ==
  trie = [n \in 0 .. Len(keys) |->
            IF n = 0 THEN NoTrie ELSE InsertAlone(trie[n - 1], LeafPointer(keys[n], value))]

\* The empty trie.
LEMMA NoTrieIsTrie == IsTrie(NoTrie)
<1>1. DOMAIN NoTrie = {"root", "heap"} /\ NoTrie.heap = << >> /\ NoTrie.root = EmptyPointer
  BY DEF NoTrie
<1>2. << >> \in Seq({}) /\ DOMAIN << >> = {}
  OBVIOUS
<1>3. IsHeap(<< >>)
  BY <1>2 DEF IsHeap
<1>4. SoundHeap(<< >>, << >>)
  BY <1>2, <1>3, Zenon DEF SoundHeap, GoodHeap
<1> QED BY <1>1, <1>4 DEF IsTrie, RootFits

\* What is preloaded is a trie of good nodes.
LEMMA PreloadedIsTrie ==
  ASSUME NEW keys \in Seq(Keys), NEW value \in Values
  PROVE  IsTrie(Preloaded(keys, value))
<1> DEFINE count == Len(keys)
           seq == [i \in 1 .. count |-> LeafPointer(keys[i], value)]
<1>1. count \in Nat /\ \A i \in 1 .. count : keys[i] \in Keys
  OBVIOUS
<1>2. Preloaded(keys, value) = (CHOOSE trie : Loads(trie, keys, value))[count]
  BY DEF Preloaded, Loads, NoTrie
<1>3. \E trie : Loads(trie, keys, value)
  <2>1. PICK g : Loading!Rises(g, NoTrie, seq, count)
    BY <1>1, Loading!RiseExists
  <2>2. g = [i \in 0 .. count |-> IF i = 0 THEN NoTrie ELSE InsertAlone(g[i - 1], seq[i])]
    BY <2>1 DEF Loading!Rises
  <2>3. \A i \in 0 .. count : i # 0 => seq[i] = LeafPointer(keys[i], value)
    BY <1>1
  <2> HIDE DEF seq
  <2>4. g = [i \in 0 .. count |-> IF i = 0 THEN NoTrie ELSE InsertAlone(g[i - 1], LeafPointer(keys[i], value))]
    BY <2>2, <2>3
  <2> QED BY <2>4 DEF Loads
<1>4. PICK trie : Loads(trie, keys, value) /\ Preloaded(keys, value) = trie[count]
  BY <1>2, <1>3
<1>5. trie = [n \in 0 .. count |->
                IF n = 0 THEN NoTrie ELSE InsertAlone(trie[n - 1], LeafPointer(keys[n], value))]
  BY <1>4 DEF Loads
<1> HIDE DEF count
<1>6. trie[0] = NoTrie /\ \A n \in 1 .. count : trie[n] = InsertAlone(trie[n - 1], LeafPointer(keys[n], value))
  BY <1>1, <1>5
<1> DEFINE Bad == { n \in 0 .. count : ~IsTrie(trie[n]) }
<1>7. IsTrie(trie[count])
  <2>1. CASE Bad = {}
    BY <1>1, <2>1
  <2>2. CASE Bad # {}
    <3>1. Bad \subseteq Nat
      OBVIOUS
    <3> HIDE DEF Bad
    <3>2. PICK n \in Bad : \A m \in Bad : n <= m
      BY <2>2, <3>1, LeastNatural
    <3> USE DEF Bad
    <3>3. n \in 0 .. count /\ ~IsTrie(trie[n])
      BY <3>2
    <3>4. n # 0
      BY <1>6, <3>3, NoTrieIsTrie
    <3>5. n - 1 \in 0 .. count /\ n \in 1 .. count /\ ~(n <= n - 1)
      BY <1>1, <3>3, <3>4
    <3>6. IsTrie(trie[n - 1])
      BY <3>2, <3>5
    <3>7. IsTrie(trie[n])
      BY <1>1, <1>6, <3>5, <3>6, InsertAloneIsTrie
    <3> QED BY <3>3, <3>7
  <2> QED BY <2>1, <2>2
<1> QED BY <1>4, <1>7

\* The invariant holds before the first call.
LEMMA InitHasIInv == Init => IInv
<1> SUFFICES ASSUME Init PROVE IInv
  OBVIOUS
<1> DEFINE Begins(work, trie) ==
             /\ root = trie.root /\ heap = trie.heap
             /\ pc = [t \in Threads |-> "idle"] /\ mode = [t \in Threads |-> "lookup"]
             /\ stack = [t \in Threads |-> << >>] /\ calls = work.calls
<1>0. PICK work \in Workloads : \E trie \in {Preloaded(work.keys, work.value)} : Begins(work, trie)
  BY Zenon DEF Init
<1>1. PICK trie \in {Preloaded(work.keys, work.value)} : Begins(work, trie)
  BY <1>0
<1>2. IsTrie(trie)
  <2>1. work.keys \in Seq(Keys) /\ work.value \in Values
    BY WorkloadsAssumption
  <2> QED BY <1>1, <2>1, PreloadedIsTrie
<1>3. PICK r : SoundHeap(heap, r) /\ RootFits(root, r)
  BY <1>1, <1>2 DEF IsTrie
<1>4. CallsTyped
  BY <1>1, WorkloadsAssumption DEF CallsTyped
<1>5. pc \in [Threads -> Labels] /\ mode \in [Threads -> {"lookup", "insert", "upsert"}]
  <2>1. "idle" \in Labels
    BY Zenon DEF Labels
  <2> QED BY <1>1, <2>1
<1>6. Typed
  BY <1>3, <1>4, <1>5, ShapeIsTypedFirst
<1>7. LockInvariant
  BY LockInvariantStarts
<1>8. ASSUME NEW t \in Threads PROVE ThreadShape(t, r)
  <2>1. pc[t] = "idle" /\ stack[t] = << >>
    BY <1>1
  <2>2. KnowsAt(heap, r, root, pc[t], mode[t], stack[t], pending[t], Key(t))
    BY <2>1, NothingKnown DEF EasyLabels
  <2>3. stack[t] \in Seq({})
    BY <2>1
  <2> QED BY <2>1, <2>2, <2>3, Zenon DEF ThreadShape
<1>9. Shape(r)
  BY <1>3, <1>8, Zenon DEF Shape
<1> QED BY <1>4, <1>6, <1>7, <1>9, Zenon DEF IInv

-----------------------------------------------------------------------------
(* What the inductive invariant says                                       *)

\* The types, and how many levels a thread has locked.
LEMMA IInvIsTyped == IInv => TypeOK
<1> SUFFICES ASSUME IInv PROVE TypeOK
  OBVIOUS
<1>1. Typed /\ LockInvariant
  BY DEF IInv
<1>2. PICK r : Shape(r)
  BY DEF IInv
<1>3. ASSUME NEW t \in Threads PROVE held[t] \in 0 .. Len(stack[t])
  <2>1. PICK S : stack[t] \in Seq(S)
    BY <1>2 DEF Shape, ThreadShape
  <2>2. Len(stack[t]) \in Nat
    BY <2>1
  <2>3. CASE pc[t] \in LockingLabels
    <3>1. LockInvariantInsert(t) /\ PathOn(heap, stack[t])
      BY <1>1, <2>3, LockingInvariant
    <3>2. held[t] \in 0 .. First(t) - Top(t) + 1
      BY <2>3, <3>1, HeldLevels
    <3>3. First(t) \in 1 .. Len(stack[t]) - 1 /\ Top(t) \in 1 .. First(t)
      BY <3>1, LevelsOf
    <3> QED BY <2>2, <3>2, <3>3
  <2>4. CASE pc[t] = "overwrite" \/ pc[t] = "unlock leaf"
    <3>1. pc[t] \in LeafLabels /\ pc[t] # "lock leaf"
      BY <2>4, Zenon DEF LeafLabels
    <3>2. LockInvariantUpsert(t) /\ PathOn(heap, stack[t])
      BY <1>1, <3>1, LeafInvariant
    <3>3. held[t] = 1 /\ Len(stack[t]) >= 2
      BY <3>1, <3>2, Zenon DEF LockInvariantUpsert, PathOn
    <3> QED BY <2>2, <3>3
  <2>5. CASE pc[t] \notin LockingLabels /\ ~(pc[t] = "overwrite" \/ pc[t] = "unlock leaf")
    <3>1. LockInvariantOf(t)
      BY <1>1 DEF LockInvariant
    <3>2. pc[t] \notin LockingLabels \cup {"overwrite", "unlock leaf"}
      BY <2>5, Zenon
    <3>3. held[t] = 0
      BY <3>1, <3>2, Zenon DEF LockInvariantOf
    <3> QED BY <2>2, <3>3
  <2> QED BY <2>3, <2>4, <2>5
<1> QED BY <1>1, <1>3, Zenon DEF Typed, TypeOK

-----------------------------------------------------------------------------
(* Who writes child pointers                                               *)

\* No slot of a node that is there differs.
KeepsSlots(h, g) == \A i \in DOMAIN h : g[i].ptrs = h[i].ptrs

\* Slots differ in nodes only that the thread holds.
WritesHeld(t) ==
  \A id \in DOMAIN heap : heap'[id].ptrs # heap[id].ptrs => heap[id].lock = t /\ ~heap[id].obsolete

\* Setting a lock.
LEMMA LockKeepsSlots ==
  ASSUME NEW h, IsHeap(h), NEW id, NEW l, NEW g, g = [h EXCEPT ![id].lock = l]
  PROVE  KeepsSlots(h, g)
<1> SUFFICES ASSUME NEW i \in DOMAIN h PROVE g[i].ptrs = h[i].ptrs
  BY DEF KeepsSlots
<1>1. DOMAIN h[i] = NodeFields
  BY DEF IsHeap
<1>2. CASE i # id
  BY <1>2
<1>3. CASE i = id
  <2>1. g[i] = [h[i] EXCEPT !.lock = l]
    BY <1>3
  <2>2. "ptrs" \in DOMAIN h[i] /\ "ptrs" # "lock"
    BY <1>1 DEF NodeFields
  <2> QED BY <2>1, <2>2
<1> QED BY <1>2, <1>3

\* Marking nodes.
LEMMA MarkKeepsSlots ==
  ASSUME NEW h, NEW r, SoundHeap(h, r), NEW ids, NEW g, g = MarkObsolete(h, ids)
  PROVE  KeepsSlots(h, g)
<1>1. SameContent(h, g)
  BY MarkIsState
<1> QED BY <1>1 DEF SameContent, KeepsSlots

\* Writing one slot.
LEMMA SetSlotKeepsOthers ==
  ASSUME NEW h, IsHeap(h), NEW id \in DOMAIN h, NEW slot, NEW p, NEW g, g = SetSlot(h, id, slot, p)
  PROVE  \A i \in DOMAIN h : i # id => g[i].ptrs = h[i].ptrs
<1>1. Sets(h, id, slot, p, g)
  BY SetSlotIs
<1> QED BY <1>1 DEF Sets

\* Steps that only set a lock, or leave the nodes alone.
LEMMA LocksKeepSlots ==
  ASSUME IsHeap(heap), NEW t,
         UNCHANGED heap \/ \E id, l : heap' = [heap EXCEPT ![id].lock = l]
  PROVE  KeepsSlots(heap, heap')
<1>1. CASE UNCHANGED heap
  BY <1>1 DEF KeepsSlots
<1>2. ASSUME NEW id, NEW l, heap' = [heap EXCEPT ![id].lock = l] PROVE KeepsSlots(heap, heap')
  BY <1>2, LockKeepsSlots
<1> QED BY <1>1, <1>2

\* The nodes that a writer builds are new ones, whether it links them or not.
LEMMA BuildingKeepsSlots ==
  ASSUME IInv, NEW t \in Threads, PairWithRootLeaf(t) \/ Validate(t)
  PROVE  KeepsSlots(heap, heap')
<1>1. Typed /\ LockInvariant
  BY DEF IInv
<1>2. PICK r : Shape(r)
  BY DEF IInv
<1>3. SoundHeap(heap, r) /\ GoodHeap(heap, r) /\ IsHeap(heap)
  BY <1>2 DEF Shape, SoundHeap, GoodHeap
<1>4. CASE PairWithRootLeaf(t)
  <2>1. PICK content : heap' = Allocate(heap, content).heap
    BY <1>4, Zenon DEF PairWithRootLeaf
  <2>2. Adds(heap, content, Allocate(heap, content), Len(heap) + 1)
    BY <1>3, AllocateIs
  <2> QED BY <2>1, <2>2 DEF Adds, KeepsSlots
<1>5. CASE Validate(t)
  <2>1. pc[t] = "validate"
    BY <1>5, Zenon DEF Validate
  <2>2. pc[t] \in LockingLabels /\ pc[t] \in {"validate", "publish", "mark"}
    BY <2>1 DEF LockingLabels
  <2>3. LockInvariantInsert(t) /\ PathOn(heap, stack[t])
    BY <1>1, <2>2, LockingInvariant
  <2>4. KeyTyped(t) /\ IsLeafPath(heap, r, stack[t], Key(t))
    BY <1>2, <2>2, LockingKnows
  <2>5. CASE UNCHANGED heap
    BY <2>5 DEF KeepsSlots
  <2>6. ASSUME IsConsistent(stack[t], Level(t).first, held[t]),
               NEW plan, plan = InsertForStackRange(heap, stack[t], Level(t), NewLeaf(t)),
               heap' = MarkObsolete(plan.heap, plan.before)
        PROVE  KeepsSlots(heap, heap')
    <3>1. First(t) - held[t] + 1 = Top(t)
      BY <2>2, <2>3, AllLevelsLocked
    <3>2. Current(heap, stack[t], Top(t), First(t))
      BY <1>2, <2>3, <2>6, <3>1, LevelsAreCurrent DEF First
    <3> DEFINE level == Level(t)
               low == Top(t)
    <3>3. level = InsertLevel(heap, stack[t], GetMismatchingBit(LeafEntry(stack[t]).ptr.key, Key(t)))
      BY DEF Level, MismatchingBit
    <3>4. low = TopLockLevel(heap, stack[t], level)
      BY DEF Top
    <3>5. Current(heap, stack[t], low, level.first)
      BY <3>2 DEF First
    <3>6. plan = InsertForStackRange(heap, stack[t], level, LeafPointer(Key(t), call[t].value))
      BY <2>6 DEF NewLeaf, Key
    <3>7. call[t].value \in Values
      BY <2>4 DEF KeyTyped
    <3> HIDE DEF level, low
    <3>8. PlanFits(heap, r, plan.heap, plan.ptr, plan.loc)
      BY <1>3, <2>4, <3>3, <3>4, <3>5, <3>6, <3>7, PlanIsGood
    <3>9. PICK more : Builds(heap, r, plan.heap, more)
      BY <3>8 DEF PlanFits
    <3>10. SoundHeap(plan.heap, more) /\ DOMAIN heap \subseteq DOMAIN plan.heap
           /\ \A i \in DOMAIN heap : plan.heap[i] = heap[i]
      BY <1>3, <3>9, SoundBuilt DEF Builds, Extends
    <3>11. KeepsSlots(plan.heap, heap')
      BY <2>6, <3>10, MarkKeepsSlots
    <3> QED BY <3>10, <3>11 DEF KeepsSlots
  <2> QED BY <1>5, <2>5, <2>6, Zenon DEF Validate
<1> QED BY <1>4, <1>5

\* The two writes go to nodes that the thread has locked.
LEMMA WritesGoToHeld ==
  ASSUME IInv, NEW t \in Threads, Publish(t) \/ OverwriteLeaf(t)
  PROVE  WritesHeld(t)
<1>1. Typed /\ LockInvariant
  BY DEF IInv
<1>2. PICK r : Shape(r)
  BY DEF IInv
<1>3. IsHeap(heap)
  BY <1>2 DEF Shape, SoundHeap, GoodHeap
<1>4. WritersHoldTheirNodes
  BY <1>1, LocksCoverWrites
<1>5. ASSUME NEW id, id \in DOMAIN heap, heap[id].lock = t /\ ~heap[id].obsolete,
             \E slot, p : heap' = SetSlot(heap, id, slot, p)
      PROVE  WritesHeld(t)
  BY <1>3, <1>5, SetSlotKeepsOthers DEF WritesHeld
<1>6. CASE Publish(t)
  <2> DEFINE loc == pending[t].loc
  <2>1. pc[t] = "publish" /\ heap' = HeapAfter(heap, loc, pending[t].ptr)
    BY <1>6, Zenon DEF Publish
  <2>2. pc[t] \in LockingLabels
    BY <2>1 DEF LockingLabels
  <2>3. LockInvariantInsert(t)
    BY <1>1, <2>2, LockingInvariant
  <2>4. loc = RootLocation \/ Holds(heap, t, loc.id)
    BY <2>1, <2>3, Zenon DEF LockInvariantInsert
  <2>5. CASE loc = RootLocation
    BY <2>1, <2>5 DEF HeapAfter, WritesHeld
  <2>6. CASE loc # RootLocation
    <3>1. heap' = SetSlot(heap, loc.id, loc.slot, pending[t].ptr)
      BY <2>1, <2>6 DEF HeapAfter
    <3>2. loc.id \in DOMAIN heap /\ heap[loc.id].lock = t /\ ~heap[loc.id].obsolete
      BY <2>4, <2>6, Zenon DEF Holds
    <3> QED BY <1>5, <3>1, <3>2
  <2> QED BY <2>5, <2>6
<1>7. CASE OverwriteLeaf(t)
  <2> DEFINE id == LeafEntry(stack[t]).loc.id
  <2>1. pc[t] = "overwrite" /\ \E slot, p : heap' = SetSlot(heap, id, slot, p)
    BY <1>7, Zenon DEF OverwriteLeaf
  <2>2. pc[t] \in LeafLabels /\ pc[t] # "lock leaf"
    BY <2>1, Zenon DEF LeafLabels
  <2>3. LockInvariantUpsert(t) /\ PathOn(heap, stack[t])
    BY <1>1, <2>2, LeafInvariant
  <2>4. heap[Parent(t)].lock = t /\ ~heap[Parent(t)].obsolete
    BY <2>1, <2>2, <2>3, Zenon DEF LockInvariantUpsert, Parent
  <2>5. Parent(t) \in DOMAIN heap /\ id = Parent(t)
    BY <2>3, ParentIs
  <2> QED BY <1>5, <2>1, <2>4, <2>5
<1> QED BY <1>6, <1>7

\* Every step writes slots of nodes only that its thread holds.
LEMMA StepsWriteHeld ==
  ASSUME IInv, NEW t \in Threads, Invoke(t) \/ Step(t)
  PROVE  WritesHeld(t)
<1>1. IsHeap(heap)
  BY DEF IInv, Shape, SoundHeap, GoodHeap
<1>2. ASSUME KeepsSlots(heap, heap') PROVE WritesHeld(t)
  BY <1>2 DEF KeepsSlots, WritesHeld
<1>3. ASSUME UNCHANGED heap \/ \E id, l : heap' = [heap EXCEPT ![id].lock = l] PROVE WritesHeld(t)
  BY <1>1, <1>2, <1>3, LocksKeepSlots
<1>4. CASE \/ Invoke(t) \/ LoadRootNode(t) \/ LoadRootLeaf(t) \/ LoadEmptyRoot(t)
           \/ CompareAndSwapRoot(t) \/ ReturnAfterSwap(t) \/ DescendToNode(t) \/ DescendToLeaf(t)
  <2>1. UNCHANGED heap
    BY <1>4, Zenon DEF Invoke, LoadRootNode, LoadRootLeaf, LoadEmptyRoot, CompareAndSwapRoot,
       ReturnAfterSwap, DescendToNode, DescendToLeaf
  <2> QED BY <1>3, <2>1
<1>5. CASE TryLock(t) \/ LockParentOfLeaf(t)
  <2>1. UNCHANGED heap \/ \E id, l : heap' = [heap EXCEPT ![id].lock = l]
    BY <1>5, Zenon DEF TryLock, LockParentOfLeaf
  <2> QED BY <1>3, <2>1
<1>6. CASE UnlockInserted(t) \/ Release(t) \/ UnlockParentOfLeaf(t)
  <2>1. \E id, l : heap' = [heap EXCEPT ![id].lock = l]
    BY <1>6, Zenon DEF UnlockInserted, Release, UnlockParentOfLeaf, UnlockTop
  <2> QED BY <1>3, <2>1
<1>7. CASE PairWithRootLeaf(t) \/ Validate(t)
  BY <1>2, <1>7, BuildingKeepsSlots
<1>8. CASE MarkReplaced(t)
  <2>1. heap' = MarkObsolete(heap, pending[t].after)
    BY <1>8, Zenon DEF MarkReplaced
  <2>2. PICK r : SoundHeap(heap, r)
    BY DEF IInv, Shape
  <2> QED BY <1>2, <2>1, <2>2, MarkKeepsSlots
<1>9. CASE Publish(t) \/ OverwriteLeaf(t)
  BY <1>9, WritesGoToHeld
<1> QED BY <1>4, <1>5, <1>6, <1>7, <1>8, <1>9, Zenon DEF Step

\* What a step of the specification does to slots and to retired nodes.
LEMMA NextIsCareful ==
  IInv /\ [Next]_vars =>
    /\ \A id \in DOMAIN heap : heap'[id].ptrs # heap[id].ptrs => heap[id].lock # NoThread /\ ~heap[id].obsolete
    /\ \A id \in DOMAIN heap : heap[id].obsolete =>
         heap'[id].obsolete /\ heap'[id].scheduled = heap[id].scheduled
<1> SUFFICES ASSUME IInv, [Next]_vars
             PROVE  /\ \A id \in DOMAIN heap : heap'[id].ptrs # heap[id].ptrs =>
                         heap[id].lock # NoThread /\ ~heap[id].obsolete
                    /\ \A id \in DOMAIN heap : heap[id].obsolete =>
                         heap'[id].obsolete /\ heap'[id].scheduled = heap[id].scheduled
  OBVIOUS
<1>1. CASE UNCHANGED vars
  BY <1>1 DEF vars
<1>2. ASSUME NEW t \in Threads, Invoke(t) \/ Step(t)
      PROVE  /\ \A id \in DOMAIN heap : heap'[id].ptrs # heap[id].ptrs =>
                  heap[id].lock # NoThread /\ ~heap[id].obsolete
             /\ \A id \in DOMAIN heap : heap[id].obsolete =>
                  heap'[id].obsolete /\ heap'[id].scheduled = heap[id].scheduled
  <2>1. WritesHeld(t)
    BY <1>2, StepsWriteHeld
  <2>2. Careful(t)
    BY <1>2, StepKeepsIInv
  <2>3. t # NoThread
    BY NoThreadAssumption
  <2>4. \A id \in DOMAIN heap : heap'[id].ptrs # heap[id].ptrs => heap[id].lock # NoThread /\ ~heap[id].obsolete
    BY <2>1, <2>3 DEF WritesHeld
  <2>5. \A id \in DOMAIN heap : heap[id].obsolete =>
          heap'[id].obsolete /\ heap'[id].scheduled = heap[id].scheduled
    BY <2>2, Zenon DEF Careful, RespectsLocks
  <2> QED BY <2>4, <2>5
<1> QED BY <1>1, <1>2 DEF Next, Terminated

-----------------------------------------------------------------------------
(* What is below a pointer                                                 *)

\* The pointers, and those in the nodes that they lead to.
Spread(above, h) ==
  above \cup UNION {{h[p.id].ptrs[i] : i \in DOMAIN h[p.id].ptrs} : p \in {q \in above : IsAValidNode(q)}}
Spreading == INSTANCE FoldTheorems WITH Op <- Spread

HeightFrom(h, p) == IF IsAValidNode(p) THEN h[p.id].height ELSE 0

\* The recursion of PointersFrom.
Spreads(within, h, p) ==
  within = [n \in 0 .. HeightFrom(h, p) |-> IF n = 0 THEN {p} ELSE Spread(within[n - 1], h)]

\* It has a solution, and PointersFrom is the end of one.
LEMMA PointersFromSpreads ==
  ASSUME NEW p, HeightFrom(heap, p) \in Nat
  PROVE  \E within : /\ within[0] = {p}
                     /\ \A n \in 1 .. HeightFrom(heap, p) : within[n] = Spread(within[n - 1], heap)
                     /\ PointersFrom(p) = within[HeightFrom(heap, p)]
<1> DEFINE height == HeightFrom(heap, p)
           seq == [i \in 1 .. height |-> heap]
           base == {p}
<1>1. PointersFrom(p) = (CHOOSE within : Spreads(within, heap, p))[height]
  BY DEF PointersFrom, Spreads, Spread, HeightFrom
<1>2. \E within : Spreads(within, heap, p)
  <2>1. PICK g : Spreading!Rises(g, base, seq, height)
    BY Spreading!RiseExists
  <2>2. g = [i \in 0 .. height |-> IF i = 0 THEN base ELSE Spread(g[i - 1], seq[i])]
    BY <2>1 DEF Spreading!Rises
  <2> HIDE DEF base
  <2>3. \A i \in 0 .. height : i # 0 => seq[i] = heap
    OBVIOUS
  <2> HIDE DEF seq
  <2>4. g = [i \in 0 .. height |-> IF i = 0 THEN base ELSE Spread(g[i - 1], heap)]
    BY <2>2, <2>3
  <2> QED BY <2>4 DEF Spreads, base
<1>3. PICK within : Spreads(within, heap, p) /\ PointersFrom(p) = within[height]
  BY <1>1, <1>2
<1>4. within = [n \in 0 .. height |-> IF n = 0 THEN base ELSE Spread(within[n - 1], heap)]
  BY <1>3 DEF Spreads
<1> HIDE DEF base, height
<1>5. height \in Nat
  BY DEF height
<1>6. within[0] = base /\ \A n \in 1 .. height : within[n] = Spread(within[n - 1], heap)
  BY <1>4, <1>5
<1> QED BY <1>3, <1>6 DEF base, height

\* A set that the pointers in its nodes do not leave holds all that is below its pointers.
LEMMA PointersFromStay ==
  ASSUME NEW p, HeightFrom(heap, p) \in Nat, NEW T, p \in T,
         \A q \in T : IsAValidNode(q) => \A i \in DOMAIN heap[q.id].ptrs : heap[q.id].ptrs[i] \in T
  PROVE  PointersFrom(p) \subseteq T
<1> DEFINE height == HeightFrom(heap, p)
<1>1. PICK within : /\ within[0] = {p}
                    /\ \A n \in 1 .. height : within[n] = Spread(within[n - 1], heap)
                    /\ PointersFrom(p) = within[height]
  BY PointersFromSpreads
<1>2. height \in Nat
  OBVIOUS
<1> HIDE DEF height
<1> DEFINE Bad == { n \in 0 .. height : ~(within[n] \subseteq T) }
<1>3. within[height] \subseteq T
  <2>1. CASE Bad = {}
    BY <1>2, <2>1
  <2>2. CASE Bad # {}
    <3>1. Bad \subseteq Nat
      OBVIOUS
    <3> HIDE DEF Bad
    <3>2. PICK n \in Bad : \A m \in Bad : n <= m
      BY <2>2, <3>1, LeastNatural
    <3> USE DEF Bad
    <3>3. n \in 0 .. height /\ ~(within[n] \subseteq T)
      BY <3>2
    <3>4. n # 0
      BY <1>1, <3>3
    <3>5. n - 1 \in 0 .. height /\ n \in 1 .. height /\ ~(n <= n - 1)
      BY <1>2, <3>3, <3>4
    <3>6. within[n - 1] \subseteq T
      BY <3>2, <3>5
    <3>7. within[n] = Spread(within[n - 1], heap)
      BY <1>1, <3>5
    <3>8. within[n] \subseteq T
      BY <3>6, <3>7 DEF Spread
    <3> QED BY <3>3, <3>8
  <2> QED BY <2>1, <2>2
<1> QED BY <1>1, <1>3

\* The height of what a pointer leads to.
LEMMA HeightFromIs ==
  ASSUME NEW h, NEW r, GoodHeap(h, r), NEW p, IsChild(r, p)
  PROVE  HeightFrom(h, p) \in Nat
<1>1. CASE IsAValidNode(p)
  <2>1. p.id \in DOMAIN r
    BY <1>1, ChildIs
  <2>2. GoodNode(h, r, h[p.id], r[p.id])
    BY <2>1 DEF GoodHeap
  <2> QED BY <1>1, <2>2 DEF GoodNode, HeightFrom
<1>2. CASE ~IsAValidNode(p)
  BY <1>2 DEF HeightFrom
<1> QED BY <1>1, <1>2

\* An entry of a node that a pointer leads to.
LEMMA NodeBelowIs ==
  ASSUME NEW h, NEW r, GoodHeap(h, r), NEW q, IsChild(r, q), IsAValidNode(q), NEW i \in DOMAIN h[q.id].ptrs
  PROVE  /\ q.id \in DOMAIN r /\ i \in DOMAIN r[q.id].reps
         /\ Ascending(r[q.id].reps) /\ Len(r[q.id].reps) >= 2
         /\ FitsIn(h, r, h[q.id].ptrs[i], h[q.id].height, r[q.id], i) /\ IsChild(r, h[q.id].ptrs[i])
         /\ \A j \in DOMAIN r[q.id].reps : r[q.id].reps[j] \in Samples(r, q)
<1>1. q.id \in DOMAIN r /\ ~IsLeaf(q)
  BY ChildIs
<1>2. GoodNode(h, r, h[q.id], r[q.id])
  BY <1>1 DEF GoodHeap
<1>3. /\ Ascending(r[q.id].reps) /\ Len(r[q.id].reps) \in 2 .. MaxEntries
      /\ DOMAIN h[q.id].ptrs = 1 .. Len(r[q.id].reps)
  BY <1>2 DEF GoodNode, Represents
<1>4. DOMAIN r[q.id].reps = 1 .. Len(r[q.id].reps) /\ Len(r[q.id].reps) >= 2
  BY <1>3, EntriesAre
<1>5. FitsIn(h, r, h[q.id].ptrs[i], h[q.id].height, r[q.id], i)
  BY <1>2, <1>3, <1>4 DEF GoodNode
<1>6. \A j \in DOMAIN r[q.id].reps : r[q.id].reps[j] \in Samples(r, q)
  BY <1>1 DEF Samples
<1> QED BY <1>1, <1>3, <1>4, <1>5, <1>6 DEF FitsIn

\* The pointers below one lead to leaves and to good nodes.
LEMMA ChildrenBelow ==
  ASSUME NEW r, GoodHeap(heap, r), NEW p, IsChild(r, p), NEW q \in PointersFrom(p)
  PROVE  IsChild(r, q)
<1> DEFINE T == LeafPointers \cup { NodePointer(i) : i \in DOMAIN r }
<1>1. \A x : IsChild(r, x) <=> x \in T
  BY DEF IsChild
<1> HIDE DEF T
<1>2. HeightFrom(heap, p) \in Nat
  BY HeightFromIs
<1>3. ASSUME NEW x \in T, IsAValidNode(x), NEW i \in DOMAIN heap[x.id].ptrs PROVE heap[x.id].ptrs[i] \in T
  BY <1>1, <1>3, NodeBelowIs
<1>4. PointersFrom(p) \subseteq T
  BY <1>1, <1>2, <1>3, PointersFromStay
<1> QED BY <1>1, <1>4

\* The keys of the leaves below an entry follow the path to the entry.
LEMMA KeysBelowFollow ==
  ASSUME NEW r, GoodHeap(heap, r), NEW p, NEW height, NEW g, NEW e, FitsIn(heap, r, p, height, g, e),
         Ascending(g.reps), e \in DOMAIN g.reps, NEW k \in LeafKeysBelow(p)
  PROVE  Follows(k, g.reps, e) /\ k \in AllKeys
<1> DEFINE T == { q \in LeafPointers \cup { NodePointer(i) : i \in DOMAIN r } :
                    \A x \in Samples(r, q) : Follows(x, g.reps, e) }
<1>1. \A q : q \in T <=> IsChild(r, q) /\ \A x \in Samples(r, q) : Follows(x, g.reps, e)
  BY DEF IsChild
<1> HIDE DEF T
<1>2. p \in T /\ IsChild(r, p)
  BY <1>1 DEF FitsIn
<1>3. HeightFrom(heap, p) \in Nat
  BY <1>2, HeightFromIs
<1>4. ASSUME NEW q \in T, IsAValidNode(q), NEW i \in DOMAIN heap[q.id].ptrs PROVE heap[q.id].ptrs[i] \in T
  <2> DEFINE c == heap[q.id].ptrs[i]
             reps == r[q.id].reps
  <2>1. IsChild(r, q) /\ \A x \in Samples(r, q) : Follows(x, g.reps, e)
    BY <1>1
  <2>2. /\ IsChild(r, c) /\ i \in DOMAIN reps /\ Ascending(reps) /\ Len(reps) >= 2
        /\ \A x \in Samples(r, c) : Follows(x, reps, i)
        /\ \A j \in DOMAIN reps : reps[j] \in Samples(r, q)
    BY <1>4, <2>1, NodeBelowIs DEF FitsIn
  <2>3. \A x \in Samples(r, c) : Follows(x, g.reps, e)
    BY <2>1, <2>2, FollowsAbove
  <2> QED BY <1>1, <2>2, <2>3
<1>5. PointersFrom(p) \subseteq T
  BY <1>2, <1>3, <1>4, PointersFromStay
<1>6. PICK q \in PointersFrom(p) : IsLeaf(q) /\ k = q.key
  BY DEF LeafKeysBelow
<1>7. q \in T /\ IsChild(r, q)
  BY <1>1, <1>5
<1>8. k \in Samples(r, q)
  BY <1>6 DEF Samples
<1> QED BY <1>1, <1>6, <1>7, <1>8, ChildIs

\* A key that follows the path to an entry has the bits that the path takes.
LEMMA FollowerAgrees ==
  ASSUME NEW reps, Ascending(reps), NEW e \in DOMAIN reps, NEW x \in AllKeys, Follows(x, reps, e)
  PROVE  \A c \in PathBits(reps, e) : c \in x <=> c \in reps[e]
<1> SUFFICES ASSUME NEW f \in DOMAIN reps \ {e}
             PROVE  Turn(reps, e, f) \in x <=> Turn(reps, e, f) \in reps[e]
  BY DEF PathBits, Turn
<1> QED BY FollowerParts

\* A good node is one level higher than its highest child.
LEMMA HeightIsExact ==
  ASSUME NEW h, NEW r, GoodHeap(h, r), NEW node, NEW g, GoodNode(h, r, node, g)
  PROVE  node.height = 1 + Max({GetHeight(h, node.ptrs[i]) : i \in DOMAIN node.ptrs})
<1> DEFINE H == {GetHeight(h, node.ptrs[i]) : i \in DOMAIN node.ptrs}
           e(i) == GetHeight(h, node.ptrs[i])
<1>1. /\ node.height \in Nat \ {0} /\ Ascending(g.reps) /\ Len(g.reps) \in 2 .. MaxEntries
      /\ DOMAIN node.ptrs = 1 .. Len(g.reps) /\ Dense(g.reps, g.exact)
      /\ \A i \in DOMAIN g.reps : FitsIn(h, r, node.ptrs[i], node.height, g, i)
  BY DEF GoodNode, Represents
<1>2. DOMAIN g.reps = 1 .. Len(g.reps) /\ Len(g.reps) \in Nat /\ Len(g.reps) >= 2
  BY <1>1, EntriesAre
<1>3. \A i \in DOMAIN node.ptrs :
        e(i) \in Nat /\ e(i) < node.height /\ (i \in g.exact => e(i) + 1 = node.height)
  BY <1>1, <1>2, HeightIs DEF FitsIn
<1>4. PICK i \in DOMAIN node.ptrs : e(i) + 1 = node.height
  BY TallestChild
<1>5. H \subseteq Nat /\ H # {} /\ \A x \in H : x + 1 <= node.height
  BY <1>1, <1>3, <1>4
<1>6. e(i) \in H /\ e(i) + 1 = node.height /\ e(i) \in Nat
  BY <1>3, <1>4
<1> HIDE DEF H, e
<1>7. \A x \in H : x <= e(i)
  BY <1>1, <1>5, <1>6
<1> DEFINE m == Max(H)
<1>8. m \in H /\ \A y \in H : y <= m
  BY <1>5, <1>6, <1>7, MaxIsGreatest
<1> HIDE DEF m
<1>9. m = e(i)
  <2>1. m \in Nat /\ m <= e(i) /\ e(i) <= m
    BY <1>5, <1>6, <1>7, <1>8
  <2> QED BY <1>6, <2>1
<1>10. node.height = 1 + m
  BY <1>1, <1>6, <1>9
<1> QED BY <1>10 DEF H, m

\* Every node that can be reached is a good one.
LEMMA ReachableIsGood ==
  ASSUME NEW r, Shape(r), NEW id \in Reachable
  PROVE  id \in DOMAIN r /\ GoodHeap(heap, r) /\ GoodNode(heap, r, heap[id], r[id])
<1>1. GoodHeap(heap, r) /\ RootFits(root, r)
  BY DEF Shape, SoundHeap
<1>2. PICK q \in PointersFrom(root) : IsAValidNode(q) /\ id = q.id
  BY DEF Reachable
<1>3. IsChild(r, root)
  <2> SUFFICES ASSUME root = EmptyPointer PROVE FALSE
    BY <1>1 DEF RootFits
  <2>1. ~IsAValidNode(root)
    BY DEF EmptyPointer, IsAValidNode
  <2>2. HeightFrom(heap, root) \in Nat
    BY <2>1 DEF HeightFrom
  <2>3. PointersFrom(root) \subseteq {root}
    BY <2>1, <2>2, PointersFromStay
  <2> QED BY <1>2, <2>1, <2>3
<1>4. IsChild(r, q)
  BY <1>1, <1>3, ChildrenBelow
<1>5. id \in DOMAIN r
  BY <1>2, <1>4, ChildIs
<1> QED BY <1>1, <1>5 DEF GoodHeap

\* So the trie is partitioned as it should be.
LEMMA IInvIsTrie == IInv => TrieInvariant
<1> SUFFICES ASSUME IInv, NEW id \in Reachable
             PROVE  /\ heap[id].keys[1] = {}
                    /\ heap[id].height = 1 + Max({GetHeight(heap, heap[id].ptrs[i]) : i \in DOMAIN heap[id].ptrs})
                    /\ \A i \in DOMAIN heap[id].ptrs :
                         /\ \A k \in LeafKeysBelow(heap[id].ptrs[i]) : Search(heap[id], k) = i
                         /\ \A j \in i + 1 .. Len(heap[id].ptrs) :
                              \A a \in LeafKeysBelow(heap[id].ptrs[i]), b \in LeafKeysBelow(heap[id].ptrs[j]) :
                                KeyLess(a, b)
  BY Zenon DEF TrieInvariant
<1>1. PICK r : Shape(r)
  BY DEF IInv
<1>2. id \in DOMAIN r /\ GoodHeap(heap, r) /\ GoodNode(heap, r, heap[id], r[id])
  BY <1>1, ReachableIsGood
<1> DEFINE node == heap[id]
           g == r[id]
<1>3. node.keys[1] = {}
  BY <1>2, GoodContent DEF HasContent
<1>4. node.height = 1 + Max({GetHeight(heap, node.ptrs[i]) : i \in DOMAIN node.ptrs})
  BY <1>2, HeightIsExact
<1>5. /\ Represents(node, g.reps) /\ Ascending(g.reps) /\ DOMAIN node.ptrs = 1 .. Len(g.reps)
      /\ Len(node.ptrs) = Len(g.reps)
      /\ \A i \in DOMAIN g.reps : FitsIn(heap, r, node.ptrs[i], node.height, g, i)
  BY <1>2 DEF GoodNode, Represents
<1>6. DOMAIN g.reps = 1 .. Len(g.reps) /\ Len(g.reps) \in Nat
  BY <1>5, EntriesAre
<1> HIDE DEF node, g
<1>7. ASSUME NEW i \in DOMAIN g.reps, NEW k \in LeafKeysBelow(node.ptrs[i])
      PROVE  Follows(k, g.reps, i) /\ k \in AllKeys
  BY <1>2, <1>5, KeysBelowFollow
<1>8. ASSUME NEW i \in DOMAIN node.ptrs, NEW k \in LeafKeysBelow(node.ptrs[i]) PROVE Search(node, k) = i
  <2>1. i \in DOMAIN g.reps /\ Follows(k, g.reps, i) /\ k \in AllKeys
    BY <1>5, <1>6, <1>7
  <2>2. \A c \in PathBits(g.reps, i) : c \in k <=> c \in g.reps[i]
    BY <1>5, <2>1, FollowerAgrees
  <2> QED BY <1>5, <2>1, <2>2, SearchFindsEntry
<1>9. ASSUME NEW i \in DOMAIN node.ptrs, NEW j \in i + 1 .. Len(node.ptrs),
             NEW a \in LeafKeysBelow(node.ptrs[i]), NEW b \in LeafKeysBelow(node.ptrs[j])
      PROVE  KeyLess(a, b)
  <2>1. i \in DOMAIN g.reps /\ j \in DOMAIN g.reps /\ i < j
    BY <1>5, <1>6
  <2>2. Follows(a, g.reps, i) /\ a \in AllKeys /\ Follows(b, g.reps, j) /\ b \in AllKeys
    BY <1>7, <2>1
  <2> QED BY <1>5, <2>1, <2>2, FollowersInOrder
<1> QED BY <1>3, <1>4, <1>8, <1>9 DEF node

-----------------------------------------------------------------------------
(* The theorems                                                            *)

\* The invariant of the concurrent trie holds in every state, whatever the number of
\* threads, what they call and which trie they start with: the locks protect what they
\* should, and every node of the memory represents the keys it leads to (Shape).
THEOREM InvariantHolds == Spec => []IInv
<1>1. Init => IInv
  BY InitHasIInv
<1>2. IInv /\ [Next]_vars => IInv'
  BY NextKeepsIInv
<1> QED BY <1>1, <1>2, PTL DEF Spec

\* The memory of the concurrent trie and the thread-local state of its calls keep their
\* types: a node has between two and MaxEntries entries, as many partial keys, and the
\* first of them is empty (HOTRowexNode, insertForStackRange).
THEOREM TypesAreKept == Spec => []TypeOK
<1>1. IInv => TypeOK
  BY IInvIsTyped
<1> QED BY <1>1, InvariantHolds, PTL

\* The lock invariant holds in every state of the concurrent trie, whatever the number
\* of threads and what they call (tryLock, insertNewValue and the upsert of HOTRowex).
THEOREM LockInvariantHolds == Spec => []LockInvariant
<1>1. IInv => LockInvariant
  BY DEF IInv
<1> QED BY <1>1, InvariantHolds, PTL

\* The locks that a writer has taken bottom-up cover the slot that it writes and the
\* nodes that it retires, on every path and however far a split goes up
\* (insertForStackRange, and the slot that upsert overwrites).
THEOREM LocksCoverTheWrites == Spec => []WritersHoldTheirNodes
<1>1. LockInvariant => WritersHoldTheirNodes
  BY LocksCoverWrites
<1> QED BY <1>1, LockInvariantHolds, PTL

\* A node is retired at most once, by one writer: once obsolete it stays so and is not
\* scheduled for deletion again (markAsObsolete in insertForStackRange).
THEOREM NodesAreRetiredOnce == Spec => ObsoleteIsFinal
<1>1. ASSUME IInv, [Next]_vars
      PROVE  [\A id \in DOMAIN heap : heap[id].obsolete =>
                heap'[id].obsolete /\ heap'[id].scheduled = heap[id].scheduled]_vars
  BY <1>1, NextIsCareful
<1> QED BY <1>1, InvariantHolds, PTL DEF Spec, ObsoleteIsFinal

\* A slot of a node changes only while the node is locked and is not yet replaced: no
\* writer's entry is lost in a copy that another writer makes (ROWEX).
THEOREM WritesExcludeEachOther == Spec => WritesAreExclusive
<1>1. ASSUME IInv, [Next]_vars
      PROVE  [\A id \in DOMAIN heap : heap'[id].ptrs # heap[id].ptrs =>
                heap[id].lock # NoThread /\ ~heap[id].obsolete]_vars
  BY <1>1, NextIsCareful
<1> QED BY <1>1, InvariantHolds, PTL DEF Spec, WritesAreExclusive

\* What a reader can reach is a height optimized trie in every state, whatever splits,
\* pull-ups and copies the writers make: the nodes are as high as they say, their partial
\* keys lead every key below an entry to that entry, and the keys are in order
\* (isPartitionCorrect).
THEOREM TrieStaysPartitioned == Spec => []TrieInvariant
<1>1. IInv => TrieInvariant
  BY IInvIsTrie
<1> QED BY <1>1, InvariantHolds, PTL
=============================================================================
