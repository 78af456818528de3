------------------------------- MODULE HotRowex -------------------------------
(***************************************************************************)
(* The concurrent height optimized trie (HOTRowex): lock-free readers,     *)
(* writers that search without locks, lock the nodes they will replace     *)
(* bottom-up, re-check the path they searched, build copies, publish them  *)
(* with one pointer write, mark the replaced nodes obsolete and unlock.    *)
(*                                                                         *)
(* One action is one access to shared memory: a read of a child pointer,   *)
(* the acquisition of a node's lock, a pointer write, a compare-and-swap,  *)
(* an unlock.  Work on immutable node contents and on thread-local data is *)
(* part of the access it follows.  Every thread is inside a memory guard   *)
(* for the whole call (EpochReclamation), so nodes are never freed here.   *)
(***************************************************************************)
EXTENDS HotPath

CONSTANTS Threads, Keys, Values, None,
          Workloads   \* what is done with the index, and the bound on it: the keys
                      \* that are inserted before the threads start, their value,
                      \* and for every thread a sequence of sets of calls
                      \* [kind, key, value], one of each to be made

ASSUME KeysAssumption == Keys \subseteq AllKeys
ASSUME NoneAssumption == None \notin Values
ASSUME NoThreadAssumption == NoThread \notin Threads
ASSUME WorkloadsAssumption ==
  \A work \in Workloads :
    /\ work.keys \in Seq(Keys) /\ work.value \in Values
    /\ work.calls \in [Threads -> Seq(SUBSET [kind : {"lookup", "insert", "upsert"},
                                              key : Keys, value : Values])]

VARIABLES root,     \* mRoot
          heap,     \* all nodes ever allocated, with lock and obsolete flag
          call,     \* history: the call of every thread (see ConcurrentIndex)
          pc,       \* where a thread is in its call
          mode,     \* the routine it executes: an upsert may run an insert
          stack,    \* its insert stack: the path it has read so far
          held,     \* how many nodes of the stack it has locked
          pending,  \* the pointer write it is about to do
          calls     \* the calls it has still to make

vars == << root, heap, call, pc, mode, stack, held, pending, calls >>

-----------------------------------------------------------------------------
(* Locations of child pointers: the root pointer or a slot of a node.      *)

ReadLocation(location) ==
  IF location = RootLocation THEN root ELSE heap[location.id].ptrs[location.slot]

\* The root pointer after the pointer at the location was written.
RootAfter(location, pointer) == IF location = RootLocation THEN pointer ELSE root

\* Reads the pointer at a location and searches the node it leads to.
EntryFor(location, pointer, key) ==
  StackEntry(location, pointer,
             IF IsAValidNode(pointer) THEN Search(heap[pointer.id], key) ELSE 0)

-----------------------------------------------------------------------------
(* The insert level: which node of the stack receives the new entry.       *)

InsertLevel(nodes, path, newBit) ==
  LET leaf     == Len(path)
      possible == InsertDepth(nodes, path, newBit)
      next     == possible + 1
      node     == NodeOf(nodes, path[possible])
      info     == GetInsertInformation(node, path[possible].entry, newBit)
      single   == info.number = 1
      boundary == single /\ next # leaf
      child    == NodeOf(nodes, path[next])
  IN  IF boundary
      THEN [first |-> next, pushdown |-> FALSE,
            info |-> [prefix |-> {}, first |-> 1, number |-> Len(child.ptrs), key |-> newBit]]
      ELSE [first |-> possible, info |-> info,
            pushdown |-> single /\ next = leaf /\ node.height > 1]

\* Mutant: only the node that receives the entry is locked.
TopLockLevelWithoutParent(nodes, path, level) == level.first

\* The stack level of the topmost node to lock: the node below the insert
\* level's parent chain that neither is full nor touches its parent's height.
TopLockLevel(nodes, path, level) ==
  IF level.pushdown \/ level.first = 1 THEN level.first
  ELSE Min({i \in 1 .. level.first - 1 :
              \A j \in i + 1 .. level.first - 1 :
                /\ IsFull(NodeOf(nodes, path[j + 1]))
                /\ NodeOf(nodes, path[j + 1]).height + 1 = NodeOf(nodes, path[j]).height})

\* Mutant: the slot below the insert level is not compared.
IsConsistentAbove(path, first, numberLocked) ==
  \A j \in first - numberLocked + 1 .. first : ReadLocation(path[j].loc) = path[j].ptr

\* The entry below the insert level and all locked entries still are where
\* the search found them.
IsConsistent(path, first, numberLocked) ==
  \A j \in first - numberLocked + 1 .. first + 1 : ReadLocation(path[j].loc) = path[j].ptr

-----------------------------------------------------------------------------
(* Building the replacement of the nodes of an insert.  A plan holds the   *)
(* heap with the new nodes, the one pointer write that publishes them, and *)
(* the nodes that are marked obsolete before and after that write.         *)

InsertPlan(nodes, location, pointer, before, after) ==
  [heap |-> nodes, loc |-> location, ptr |-> pointer, before |-> before, after |-> after]

\* Mutant: marks the node whose slot is written as replaced.
LeafNodePushDownMarkingNode(nodes, path, level, new) ==
  LET leaf == LeafEntry(path)
      two  == Allocate(nodes, CreateTwoEntriesNode(
                BiNodeFromExistingAndNew(nodes, level.info.key, leaf.ptr, new)))
  IN  InsertPlan(two.heap, leaf.loc, two.ptr, {}, {path[level.first].ptr.id})

LeafNodePushDown(nodes, path, level, new) ==
  LET leaf == LeafEntry(path)
      two  == Allocate(nodes, CreateTwoEntriesNode(
                BiNodeFromExistingAndNew(nodes, level.info.key, leaf.ptr, new)))
  IN  InsertPlan(two.heap, leaf.loc, two.ptr, {}, {})

NormalInsert(nodes, path, level, new) ==
  LET entry == path[level.first]
      copy  == Allocate(nodes, AddEntry(NodeOf(nodes, entry), level.info, new))
  IN  InsertPlan(copy.heap, entry.loc, copy.ptr, {}, {entry.ptr.id})

\* Mutant: the parent is marked with the nodes that were split and once more.
FinalParentPullUpMarkingTwice(nodes, entry, binode, before) ==
  LET copy == IntegrateIntoCopy(nodes, entry, binode)
  IN  InsertPlan(copy.heap, entry.loc, copy.ptr, before \cup {entry.ptr.id}, {entry.ptr.id})

\* The halves replace the child in a parent that has room.
FinalParentPullUp(nodes, entry, binode, before) ==
  LET copy == IntegrateIntoCopy(nodes, entry, binode)
  IN  InsertPlan(copy.heap, entry.loc, copy.ptr, before, {entry.ptr.id})

\* A new node of two entries takes the place of the topmost node that was split.
IntermediateNode(halves, location, before) ==
  LET between == Allocate(halves.heap, CreateTwoEntriesNode(halves.binode))
  IN  InsertPlan(between.heap, location, between.ptr, before, {})

\* The halves of the topmost split are pulled up into a parent of their height,
\* or a new node of two entries is put in between.
PlaceHalves(halves, path, top, before) ==
  IF top > 1 /\ NodeOf(halves.heap, path[top - 1]).height = halves.binode.height
  THEN FinalParentPullUp(halves.heap, path[top - 1], halves.binode, before)
  ELSE IntermediateNode(halves, path[top].loc, before)

\* Insert into a full node: split it, and its ancestors as long as they are
\* full and exactly one level higher.
SplitUpwards(nodes, path, level, new) ==
  LET first    == level.first
      node     == NodeOf(nodes, path[first])
      isSplit  == level.info.key.bit > MostSignificantBit(node)
      top      == Min({i \in 1 .. first : \A j \in i .. first - 1 :
                         /\ IsFull(NodeOf(nodes, path[j]))
                         /\ NodeOf(nodes, path[j]).height
                               = NodeOf(nodes, path[j + 1]).height + 1})
      before   == {path[i].ptr.id : i \in IF isSplit THEN top .. first ELSE top .. first - 1}
      integrate(below, entry) == IntegrateAndSplit(below.heap, entry, below.binode)
      splitAt[i \in top .. first] ==
        IF i < first THEN integrate(splitAt[i + 1], path[i])
        ELSE IF isSplit THEN Split(nodes, node, level.info, new)
        ELSE [heap |-> nodes, binode |->
                BiNodeFromExistingAndNew(nodes, level.info.key, path[first].ptr, new)]
  IN  PlaceHalves(splitAt[top], path, top, before)

InsertForStackRange(nodes, path, level, new) ==
  IF level.pushdown THEN LeafNodePushDown(nodes, path, level, new)
  ELSE IF ~IsFull(NodeOf(nodes, path[level.first])) THEN NormalInsert(nodes, path, level, new)
  ELSE SplitUpwards(nodes, path, level, new)

-----------------------------------------------------------------------------
(* The dictionary a reader that runs alone would find.                     *)

ValueAt(nodes, start, key) ==
  LET leaf == FindLeaf(nodes, start, key)
  IN  IF IsLeaf(leaf) /\ leaf.key = key THEN leaf.value ELSE None

Contents == [key \in Keys |-> ValueAt(heap, root, key)]

Index == INSTANCE ConcurrentIndex WITH map <- Contents

-----------------------------------------------------------------------------
(* Initial states: the trie after one thread alone inserted a sequence of  *)
(* keys, each with the same value.                                         *)

MarkObsolete(nodes, ids) ==
  [i \in DOMAIN nodes |->
     IF i \in ids THEN [nodes[i] EXCEPT !.obsolete = TRUE, !.scheduled = @ + 1]
     ELSE nodes[i]]

\* The trie after the plan was carried out without interruption.
Installed(trie, plan) ==
  [root |-> IF plan.loc = RootLocation THEN plan.ptr ELSE trie.root,
   heap |-> MarkObsolete(HeapAfter(plan.heap, plan.loc, plan.ptr), plan.before \cup plan.after)]

\* A key that is there already is not inserted again.
InsertAlone(trie, new) ==
  LET inNode(path, bit) ==
        Installed(trie, InsertForStackRange(trie.heap, path,
                                            InsertLevel(trie.heap, path, bit), new))
      onPath(path) ==
        IF LeafEntry(path).ptr.key = new.key THEN trie
        ELSE inNode(path, GetMismatchingBit(LeafEntry(path).ptr.key, new.key))
      two  == Allocate(trie.heap, CreateTwoEntriesNode(BiNodeFromExistingAndNew(
                trie.heap, GetMismatchingBit(trie.root.key, new.key), trie.root, new)))
  IN  CASE trie.root = EmptyPointer -> [trie EXCEPT !.root = new]
        [] IsLeaf(trie.root) -> IF trie.root.key = new.key THEN trie
                                ELSE [root |-> two.ptr, heap |-> two.heap]
        [] IsAValidNode(trie.root) -> onPath(PathTo(trie.heap, trie.root, new.key))

Preloaded(keys, value) ==
  LET trie[n \in 0 .. Len(keys)] ==
        IF n = 0 THEN [root |-> EmptyPointer, heap |-> << >>]
        ELSE InsertAlone(trie[n - 1], LeafPointer(keys[n], value))
  IN  trie[Len(keys)]

NoWrite == [loc |-> RootLocation, ptr |-> EmptyPointer, after |-> {},
            expected |-> EmptyPointer]

Init ==
  \E work \in Workloads : \E trie \in {Preloaded(work.keys, work.value)} :
    /\ root = trie.root
    /\ heap = trie.heap
    /\ call = [t \in Threads |-> [pending |-> FALSE, kind |-> "lookup",
                 key |-> CHOOSE k \in Keys : TRUE, value |-> work.value, seen |-> {},
                 wrote |-> FALSE, old |-> None, result |-> None]]
    /\ pc = [t \in Threads |-> "idle"]
    /\ mode = [t \in Threads |-> "lookup"]
    /\ stack = [t \in Threads |-> << >>]
    /\ held = [t \in Threads |-> 0]
    /\ pending = [t \in Threads |-> NoWrite]
    /\ calls = work.calls

-----------------------------------------------------------------------------
(* Steps of a call.                                                        *)

Key(t) == call[t].key
NewLeaf(t) == LeafPointer(call[t].key, call[t].value)

Goto(t, label) == pc' = [pc EXCEPT ![t] = label]

\* The call returns; its thread-local data is gone.
Finish(t, result) ==
  /\ call' = Index!CallReturned(t, result)
  /\ Goto(t, "idle")
  /\ stack' = [stack EXCEPT ![t] = << >>]
  /\ pending' = [pending EXCEPT ![t] = NoWrite]
  /\ UNCHANGED mode

\* insertGuarded is done: the insert returns, an upsert that ran it loops.
FinishInsert(t, result) ==
  IF call[t].kind = "insert" THEN Finish(t, result)
  ELSE /\ mode' = [mode EXCEPT ![t] = "upsert"]
       /\ Goto(t, "root")
       /\ stack' = [stack EXCEPT ![t] = << >>]
       /\ pending' = [pending EXCEPT ![t] = NoWrite]
       /\ UNCHANGED call

\* insertNewValue is done, called by an insert or directly by an upsert.
FinishNewValue(t) ==
  IF mode[t] = "insert" THEN FinishInsert(t, "inserted") ELSE Finish(t, None)

\* Another round of the retry loop.
Retry(t) ==
  /\ Goto(t, "root")
  /\ stack' = [stack EXCEPT ![t] = << >>]
  /\ pending' = [pending EXCEPT ![t] = NoWrite]

\* A thread calls lookup, insert or upsert.
Invoke(t) ==
  /\ pc[t] = "idle"
  /\ calls[t] # << >>
  /\ \E c \in Head(calls[t]) :
       /\ call' = [call EXCEPT ![t] = Index!NewCall(c.kind, c.key, c.value, Contents[c.key])]
       /\ mode' = [mode EXCEPT ![t] = c.kind]
  /\ calls' = [calls EXCEPT ![t] = Tail(@)]
  /\ Goto(t, "root")
  /\ UNCHANGED << root, heap, stack, held, pending >>

\* The root pointer is read and leads to a node: the descent starts.
LoadRootNode(t) ==
  /\ pc[t] = "root"
  /\ IsAValidNode(root)
  /\ stack' = [stack EXCEPT ![t] = << EntryFor(RootLocation, root, Key(t)) >>]
  /\ Goto(t, "descend")
  /\ UNCHANGED << root, heap, call, mode, held, pending, calls >>

\* The root pointer is read and is a leaf.
LoadRootLeaf(t) ==
  /\ pc[t] = "root"
  /\ IsLeaf(root)
  /\ \/ /\ mode[t] = "lookup"
        /\ Finish(t, IF root.key = Key(t) THEN root.value ELSE None)
     \/ /\ mode[t] = "insert" /\ root.key = Key(t)
        /\ FinishInsert(t, "exists")
     \/ /\ mode[t] = "insert" /\ root.key # Key(t)
        /\ pending' = [pending EXCEPT ![t].expected = root]
        /\ Goto(t, "pair")
        /\ UNCHANGED << call, mode, stack >>
     \/ /\ mode[t] = "upsert" /\ root.key = Key(t)
        /\ pending' = [pending EXCEPT ![t].expected = root, ![t].ptr = NewLeaf(t)]
        /\ Goto(t, "cas")
        /\ UNCHANGED << call, mode, stack >>
     \/ /\ mode[t] = "upsert" /\ root.key # Key(t)
        /\ mode' = [mode EXCEPT ![t] = "insert"]
        /\ UNCHANGED << call, pc, stack, pending >>
  /\ UNCHANGED << root, heap, held, calls >>

\* The root pointer is read and is empty.  A lookup does not test for this: it
\* dereferences the null pointer.
LoadEmptyRoot(t) ==
  /\ pc[t] = "root"
  /\ root = EmptyPointer
  /\ IF mode[t] = "lookup" THEN Goto(t, "fault") /\ UNCHANGED pending
     ELSE /\ pending' = [pending EXCEPT ![t].expected = root, ![t].ptr = NewLeaf(t)]
          /\ Goto(t, "cas")
  /\ UNCHANGED << root, heap, call, mode, stack, held, calls >>

\* The node of two entries for a root leaf is built from the root pointer read
\* again; only the discriminative bit comes from the first read.
PairWithRootLeaf(t) ==
  /\ pc[t] = "pair"
  /\ LET bit == GetMismatchingBit(pending[t].expected.key, Key(t))
         two == Allocate(heap, CreateTwoEntriesNode(
                  BiNodeFromExistingAndNew(heap, bit, root, NewLeaf(t))))
     IN  /\ heap' = two.heap
         /\ pending' = [pending EXCEPT ![t].ptr = two.ptr]
  /\ Goto(t, "cas")
  /\ UNCHANGED << root, call, mode, stack, held, calls >>

\* Compare-and-swap of the root pointer; on failure the loop starts again.
CompareAndSwapRoot(t) ==
  /\ pc[t] = "cas"
  /\ \/ /\ root # pending[t].expected
        /\ Retry(t)
        /\ UNCHANGED << root, call, mode >>
     \/ /\ root = pending[t].expected
        /\ root' = pending[t].ptr
        /\ call' = Index!CallsAfterWrite(t, Contents[Key(t)])
        /\ Goto(t, "swapped")
        /\ UNCHANGED << mode, stack, pending >>
  /\ UNCHANGED << heap, held, calls >>

\* After a successful compare-and-swap the routine returns.
ReturnAfterSwap(t) ==
  /\ pc[t] = "swapped"
  /\ IF mode[t] = "insert" THEN FinishInsert(t, "inserted")
     ELSE Finish(t, IF IsLeaf(pending[t].expected) THEN pending[t].expected.value ELSE None)
  /\ UNCHANGED << root, heap, held, calls >>

\* One level of the descent: the slot the search found is read.  A lookup
\* keeps only the last pointer.
DescendToNode(t) ==
  /\ pc[t] = "descend"
  /\ LET last == LeafEntry(stack[t])
         loc  == SlotLocation(last.ptr.id, last.entry)
         next == EntryFor(loc, ReadLocation(loc), Key(t))
     IN  /\ IsAValidNode(next.ptr)
         /\ stack' = [stack EXCEPT ![t] = IF mode[t] = "lookup" THEN << next >>
                                          ELSE Append(@, next)]
  /\ UNCHANGED << root, heap, call, pc, mode, held, pending, calls >>

\* The descent reaches a leaf.  If it holds the key, the lookup and the insert
\* are done and the upsert goes on to replace it; otherwise a writer goes on
\* to lock.
DescendToLeaf(t) ==
  /\ pc[t] = "descend"
  /\ LET last == LeafEntry(stack[t])
         loc  == SlotLocation(last.ptr.id, last.entry)
         leaf == ReadLocation(loc)
     IN  /\ IsLeaf(leaf)
         /\ \/ /\ mode[t] = "lookup"
               /\ Finish(t, IF leaf.key = Key(t) THEN leaf.value ELSE None)
            \/ /\ mode[t] = "insert" /\ leaf.key = Key(t)
               /\ FinishInsert(t, "exists")
            \/ /\ mode[t] # "lookup"
               /\ mode[t] = "insert" => leaf.key # Key(t)
               /\ stack' = [stack EXCEPT ![t] = Append(@, StackEntry(loc, leaf, 0))]
               /\ Goto(t, IF leaf.key = Key(t) THEN "lock leaf" ELSE "lock")
               /\ UNCHANGED << call, mode, pending >>
  /\ UNCHANGED << root, heap, held, calls >>

-----------------------------------------------------------------------------
(* insertNewValue: lock, validate, build, publish, mark, unlock.           *)

MismatchingBit(t) == GetMismatchingBit(LeafEntry(stack[t]).ptr.key, Key(t))
Level(t) == InsertLevel(heap, stack[t], MismatchingBit(t))

\* The node of the stack to lock next, from the insert level upwards.
NextToLock(t) == stack[t][Level(t).first - held[t]].ptr.id

\* Spins on the lock and fails if the node is obsolete.  The flag is set only
\* by the holder of the lock, so testing it before and after the acquisition
\* is one step.
TryLock(t) ==
  /\ pc[t] = "lock"
  /\ \/ /\ heap[NextToLock(t)].obsolete
        /\ IF held[t] = 0 THEN Retry(t)
           ELSE Goto(t, "release") /\ UNCHANGED << stack, pending >>
        /\ UNCHANGED << heap, held >>
     \/ /\ ~heap[NextToLock(t)].obsolete
        /\ heap[NextToLock(t)].lock = NoThread
        /\ heap' = [heap EXCEPT ![NextToLock(t)].lock = t]
        /\ held' = [held EXCEPT ![t] = @ + 1]
        /\ IF Level(t).first - held[t] = TopLockLevel(heap, stack[t], Level(t))
           THEN Goto(t, "validate") ELSE UNCHANGED pc
        /\ UNCHANGED << stack, pending >>
  /\ UNCHANGED << root, call, mode, calls >>

\* With all locks held the path is compared with the memory.  If it still is
\* there, the copies are built and the nodes that are split are marked
\* obsolete.  The locked nodes cannot change, so this is one step.
Validate(t) ==
  /\ pc[t] = "validate"
  /\ IF IsConsistent(stack[t], Level(t).first, held[t])
     THEN \E plan \in {InsertForStackRange(heap, stack[t], Level(t), NewLeaf(t))} :
              /\ heap' = MarkObsolete(plan.heap, plan.before)
              /\ pending' = [pending EXCEPT ![t].loc = plan.loc, ![t].ptr = plan.ptr,
                                           ![t].after = plan.after]
              /\ Goto(t, "publish")
     ELSE Goto(t, "release") /\ UNCHANGED << heap, pending >>
  /\ UNCHANGED << root, call, mode, stack, held, calls >>

\* The one pointer write that makes the insert visible.
Publish(t) ==
  /\ pc[t] = "publish"
  /\ root' = RootAfter(pending[t].loc, pending[t].ptr)
  /\ heap' = HeapAfter(heap, pending[t].loc, pending[t].ptr)
  /\ call' = Index!CallsAfterWrite(t, Contents[Key(t)])
  /\ Goto(t, "mark")
  /\ UNCHANGED << mode, stack, held, pending, calls >>

\* Mutant: the replaced node is forgotten.
MarkNothing(t) ==
  /\ pc[t] = "mark"
  /\ Goto(t, "unlock")
  /\ UNCHANGED << root, heap, call, mode, stack, held, pending, calls >>

\* The node that was replaced as a whole is marked and scheduled for deletion.
MarkReplaced(t) ==
  /\ pc[t] = "mark"
  /\ heap' = MarkObsolete(heap, pending[t].after)
  /\ Goto(t, "unlock")
  /\ UNCHANGED << root, call, mode, stack, held, pending, calls >>

\* Locks are released one by one, the topmost first.
UnlockTop(t) ==
  LET top == stack[t][Level(t).first - held[t] + 1].ptr.id
  IN  /\ heap' = [heap EXCEPT ![top].lock = NoThread]
      /\ held' = [held EXCEPT ![t] = @ - 1]

UnlockInserted(t) ==
  /\ pc[t] = "unlock"
  /\ UnlockTop(t)
  /\ IF held[t] = 1 THEN FinishNewValue(t) ELSE UNCHANGED << call, pc, mode, stack, pending >>
  /\ UNCHANGED << root, calls >>

Release(t) ==
  /\ pc[t] = "release"
  /\ UnlockTop(t)
  /\ IF held[t] = 1 THEN Retry(t) ELSE UNCHANGED << pc, stack, pending >>
  /\ UNCHANGED << root, call, mode, calls >>

-----------------------------------------------------------------------------
(* Upsert of a key that is present: lock the node, overwrite the slot.     *)

\* Mutant: the obsolete flag is not looked at.
LockParentIgnoringObsolete(t) ==
  /\ pc[t] = "lock leaf"
  /\ LET parent == stack[t][Len(stack[t]) - 1].ptr.id
     IN  /\ heap[parent].lock = NoThread
         /\ heap' = [heap EXCEPT ![parent].lock = t]
         /\ held' = [held EXCEPT ![t] = 1]
         /\ Goto(t, "overwrite")
  /\ UNCHANGED << root, call, mode, stack, pending, calls >>

LockParentOfLeaf(t) ==
  /\ pc[t] = "lock leaf"
  /\ LET parent == stack[t][Len(stack[t]) - 1].ptr.id
     IN  \/ /\ heap[parent].obsolete
            /\ Retry(t)
            /\ UNCHANGED << heap, held >>
         \/ /\ ~heap[parent].obsolete
            /\ heap[parent].lock = NoThread
            /\ heap' = [heap EXCEPT ![parent].lock = t]
            /\ held' = [held EXCEPT ![t] = 1]
            /\ Goto(t, "overwrite")
            /\ UNCHANGED << stack, pending >>
  /\ UNCHANGED << root, call, mode, calls >>

\* The slot is not compared with the leaf that was read.
OverwriteLeaf(t) ==
  /\ pc[t] = "overwrite"
  /\ LET loc == LeafEntry(stack[t]).loc
     IN  heap' = SetSlot(heap, loc.id, loc.slot, NewLeaf(t))
  /\ call' = Index!CallsAfterWrite(t, Contents[Key(t)])
  /\ Goto(t, "unlock leaf")
  /\ UNCHANGED << root, mode, stack, held, pending, calls >>

UnlockParentOfLeaf(t) ==
  /\ pc[t] = "unlock leaf"
  /\ heap' = [heap EXCEPT ![stack[t][Len(stack[t]) - 1].ptr.id].lock = NoThread]
  /\ held' = [held EXCEPT ![t] = 0]
  /\ Finish(t, LeafEntry(stack[t]).ptr.value)
  /\ UNCHANGED << root, calls >>

-----------------------------------------------------------------------------
Step(t) ==
  \/ LoadRootNode(t) \/ LoadRootLeaf(t) \/ LoadEmptyRoot(t)
  \/ PairWithRootLeaf(t) \/ CompareAndSwapRoot(t) \/ ReturnAfterSwap(t)
  \/ DescendToNode(t) \/ DescendToLeaf(t)
  \/ TryLock(t) \/ Validate(t) \/ Publish(t) \/ MarkReplaced(t)
  \/ UnlockInserted(t) \/ Release(t)
  \/ LockParentOfLeaf(t) \/ OverwriteLeaf(t) \/ UnlockParentOfLeaf(t)

\* All calls have returned.
Terminated ==
  /\ \A t \in Threads : pc[t] = "idle" /\ calls[t] = << >>
  /\ UNCHANGED vars

Next == \/ \E t \in Threads : Invoke(t) \/ Step(t)
        \/ Terminated

\* A call of the thread can go on: it does not wait for a lock.
CanStep(t) ==
  CASE pc[t] \in {"idle", "fault"} -> FALSE
    [] pc[t] = "lock" -> heap[NextToLock(t)].obsolete \/ heap[NextToLock(t)].lock = NoThread
    [] pc[t] = "lock leaf" ->
         LET parent == heap[stack[t][Len(stack[t]) - 1].ptr.id]
         IN  parent.obsolete \/ parent.lock = NoThread
    [] OTHER -> TRUE

Progress(t) == << pc[t], mode[t], stack[t], held[t] >>' # << pc[t], mode[t], stack[t], held[t] >>

\* A thread that can go on is eventually scheduled; whether it makes another
\* call is its own affair.  This is WF_vars(Step(t)) with its enabling
\* condition (CanStep) and its effect on the thread (Progress) written out,
\* which is how TLC can evaluate it.
Fairness == \A t \in Threads : <>[]CanStep(t) => []<><<Progress(t)>>_vars

Spec == Init /\ [][Next]_vars /\ Fairness

-----------------------------------------------------------------------------
(* Properties.                                                             *)

PointersFrom(pointer) ==
  LET height == IF IsAValidNode(pointer) THEN heap[pointer.id].height ELSE 0
      within[n \in 0 .. height] ==
        IF n = 0 THEN {pointer}
        ELSE LET above == within[n - 1]
             IN  above \cup UNION {{heap[p.id].ptrs[i] : i \in DOMAIN heap[p.id].ptrs} :
                                   p \in {q \in above : IsAValidNode(q)}}
  IN  within[height]

Reachable == {p.id : p \in {q \in PointersFrom(root) : IsAValidNode(q)}}
LeafKeysBelow(pointer) == {p.key : p \in {q \in PointersFrom(pointer) : IsLeaf(q)}}

Labels == {"idle", "root", "pair", "cas", "swapped", "descend", "lock", "validate",
           "publish", "mark", "unlock", "release", "lock leaf", "overwrite",
           "unlock leaf", "fault"}

Pointers == {EmptyPointer} \cup {LeafPointer(k, v) : k \in Keys, v \in Values}
              \cup {NodePointer(i) : i \in DOMAIN heap}

NodeRecords ==
  [height : Nat \ {0}, keys : Seq(SUBSET Bits), ptrs : Seq(Pointers \ {EmptyPointer}),
   lock : Threads \cup {NoThread}, obsolete : BOOLEAN, scheduled : Nat]

\* Type invariant: the memory of HOTRowex and of its nodes, whose first partial key is
\* zero, and the thread-local state of insertGuarded and upsert.
TypeOK ==
  /\ root \in Pointers
  /\ heap \in Seq(NodeRecords)
  /\ \A i \in DOMAIN heap :
       /\ Len(heap[i].keys) = Len(heap[i].ptrs) /\ Len(heap[i].ptrs) \in 2 .. MaxEntries
       /\ heap[i].keys[1] = {}
  /\ pc \in [Threads -> Labels]
  /\ mode \in [Threads -> {"lookup", "insert", "upsert"}]
  /\ \A t \in Threads : held[t] \in 0 .. Len(stack[t])
  /\ DOMAIN calls = Threads

\* The trie implements the concurrent dictionary: an insert or upsert that
\* returns took effect exactly once and returns what it replaced, nothing
\* that was inserted is ever lost by another writer's copy of a node, and a
\* lookup that runs through replaced nodes returns a value the key had while
\* it ran (HOTRowex::lookup, insert, upsert).
ImplementsIndex == Index!Spec

\* What isPartitionCorrect checks, of every node a reader can reach: it is one
\* level higher than its highest child, keeps the leaves in key order, and its
\* partial keys lead every key below an entry to that entry.  Splits, pull-ups
\* and copies made from a stale path would break it.
TrieInvariant ==
  \A id \in Reachable :
    LET node == heap[id] IN
    /\ node.keys[1] = {}
    /\ node.height = 1 + Max({GetHeight(heap, node.ptrs[i]) : i \in DOMAIN node.ptrs})
    /\ \A i \in DOMAIN node.ptrs :
         /\ \A k \in LeafKeysBelow(node.ptrs[i]) : Search(node, k) = i
         /\ \A j \in i + 1 .. Len(node.ptrs) :
              \A a \in LeafKeysBelow(node.ptrs[i]), b \in LeafKeysBelow(node.ptrs[j]) :
                KeyLess(a, b)

\* Nothing is ever removed from a HOTRowex: a key whose insert has taken effect
\* stays in the index, whatever other threads write.
NoKeyIsLost ==
  [][\A key \in Keys : Contents[key] # None => Contents'[key] # None]_vars

\* What epoch based reclamation relies on: a node is scheduled for deletion at
\* most once, only when it is obsolete, and once its lock is released no
\* pointer of the trie leads to it any more (markAsObsolete is called before
\* the node is unlinked when it is split, after it when it is replaced).
RetiredNodesAreUnlinked ==
  \A id \in DOMAIN heap :
    /\ heap[id].scheduled = IF heap[id].obsolete THEN 1 ELSE 0
    /\ heap[id].obsolete /\ heap[id].lock = NoThread => id \notin Reachable

\* No node leaks: a node that is not linked into the trie and not locked is
\* either scheduled for deletion or still being built by the thread that will
\* publish it (every markAsObsolete of insertForStackRange).
UnlinkedNodesAreScheduled ==
  \A id \in DOMAIN heap \ Reachable :
    \/ heap[id].obsolete
    \/ heap[id].lock # NoThread
    \/ \E t \in Threads : NodePointer(id) \in PointersFrom(pending[t].ptr)

\* Slots are written only in nodes that are locked and current, and never in a
\* node another thread has already replaced: a write to an obsolete copy
\* would be lost (ROWEX: writers exclude each other per node).
WritesAreExclusive ==
  [][\A id \in DOMAIN heap :
       heap'[id].ptrs # heap[id].ptrs
         => heap[id].lock # NoThread /\ ~heap[id].obsolete]_vars

\* The locks cover the writes: the nodes that tryLock has locked on the way up hold the
\* slot that insertForStackRange is going to write and the node it is going to retire,
\* however far the split went, and so it is for the slot that upsert overwrites.
WritersHoldTheirNodes ==
  \A t \in Threads :
    LET Holds(id) == heap[id].lock = t /\ ~heap[id].obsolete
    IN  /\ pc[t] = "publish" => pending[t].loc = RootLocation \/ Holds(pending[t].loc.id)
        /\ pc[t] \in {"publish", "mark"} => \A id \in pending[t].after : Holds(id)
        /\ pc[t] = "overwrite" => Holds(LeafEntry(stack[t]).loc.id)

\* A node is retired once: when it is obsolete it stays so and is not scheduled again,
\* by whichever of the writers that met it on their paths.
ObsoleteIsFinal ==
  [][\A id \in DOMAIN heap : heap[id].obsolete =>
       heap'[id].obsolete /\ heap'[id].scheduled = heap[id].scheduled]_vars

\* No call waits forever: the locks are taken in the order of the heights, and
\* a writer that lost a race restarts (tryLock, insertGuarded).
CallsReturn == \A t \in Threads : pc[t] # "idle" ~> pc[t] = "idle"

=============================================================================
