# Verification of SIMD-Matcher / libmatch

TLA+ models of the matching structures of this repository, the TLC runs that check
them on small instances, and TLAPS proofs of the properties that matter most.

## 1. The system

The repository matches 64-bit keys against rules of 0, 1 and `*` (a value and a mask).
It holds three kinds of index and the programs that compare them:

| part | code | state | operations |
|---|---|---|---|
| linear table | `libmatch/linear_arbitrary.*` | vector of rules | insert, delete, first match |
| binary trie | `libmatch/basic_trie.*` | nodes with a priority, counters | insert word / rule / prefix rule, expand, delete, three searches |
| GenMatcher | `test/prefix_kmeans.cpp` | groups of rules, one trie and one bit permutation each | build one trie, cluster, build tries, regroup, search |
| HOT trie, concurrent (ROWEX) | `hot/rowex` | root pointer, nodes with lock and obsolete flag | lookup, insert, upsert, scan |
| epoch based reclamation | `hot/rowex` (`EpochBased...`, `ThreadSpecific...`, `MemoryGuard`) | global epoch, local epochs, three free lists per thread | enter, leave, schedule |
| HOT trie, single-threaded | `hot/single-threaded` | root pointer, nodes, memory pool | insert, upsert, remove, find, bounds, iteration |
| the same with wildcard rules | `hot/single-threaded`, `DiscriminativeBit.hpp` | a mask and a list of further rules per leaf | insert with a mask, lookup |
| HOT node internals | `hot/commons` | bit masks, sparse partial keys | extract, insert, split, merge, SIMD search |
| hybrid matcher | `test/hot_tree.cpp`, `libmatch/basic_hot_tree.*` | one HOT trie for each value of the first bit, globals that say whether the branch is new | insert, remove, search |
| benchmark helpers, vendored libraries | `idx`, `tbb`, `boost-hana` | - | - |

How they interact. Every operation of the concurrent trie runs inside a critical
section of the reclamation scheme; a node it replaces is marked obsolete and scheduled,
and freed two epochs later. Threads share the root pointer, the entries of the nodes,
the lock and obsolete flag of a node, the global epoch and the local epochs; everything
else is local. GenMatcher owns one binary trie per group and asks all of them for a key.
The linear table is the reference: it is filled from the same file. The hybrid matcher
owns a single-threaded HOT trie per branch; the two share the code and, through globals
(`T_left`, `T_right`, `flag_mask`, `extract_mask`), some of its state. Both HOT tries
store their nodes in the layout of `hot/commons`.

What is hard. In ROWEX: searching without locks and validating afterwards, splits that
go up several levels while others insert, in-place updates, restarts, lock order, root
compare-and-swaps. In the reclamation: the gap between loading the epoch and publishing
it, three lists used round robin. In the single-threaded trie: removals that merge, pull
in and collapse nodes over several levels, heights that are no longer exact afterwards,
memory freed by hand on every path, partial keys whose bits are not in key order, rules
copied into the lists of leaves that later insertions move. In libmatch: rules dropped because a better one hides
them although rules do not arrive by priority, the node threshold, deletion with pruning,
wildcards everywhere (overflow), permuted bits, and a recursive regrouping. Every such
place is a hazard in `PROJECT.json`, at its line.

## 2. Modules

| module | models | proved about |
|---|---|---|
| `HotNode` | node and child pointer of both HOT tries: a node as the binary trie it encodes | `HotNodeProofs` |
| `HotPath` | what both tries do along a path: descend, find the insert depth, integrate and split | `HotNodeProofs`, `HotRowexProofs` |
| `ConcurrentIndex` | what a concurrent dictionary promises (atomic steps between call and return) | |
| `HotRowex` | the concurrent trie; instantiates `ConcurrentIndex` | `HotRowexProofs` |
| `HotTrie` | the single-threaded trie as operators: insert, remove, iterator | |
| `PartialKeys` | the layout of a node: mask and partial keys, and every recoding of them | |
| `Dictionary` | what the single-threaded index promises | |
| `HotSingleThreaded` | the single-threaded index for keys; instantiates `Dictionary` | |
| `HybridMatcher` | the hybrid matcher: two tries of wildcard rules | |
| `EpochReclamation` | the reclamation scheme | `EpochReclamationProofs` |
| `MatchRules` | words, rules, the comparison of a key with a rule | |
| `BinaryTrie` | class `Trie` as operators on a trie | `BinaryTrieProofs` |
| `TrieClient` | the ways a trie is used, as specifications | `TrieClientProofs` |
| `LinearTable` | class `linearTable` as operators on a table | `BinaryTrieProofs` |
| `GenMatcher` | `prefix_kmeans`: composes `BinaryTrie` and `LinearTable` | `GenMatcherProofs` |
| `OrderTheorems`, `FoldTheorems` | facts about orders and folds that the proofs share | |
| `MC...` | instances for TLC | |

### HotNode and HotRowex

A key is the set of its one bits. A node is its height and, for every entry, a child
pointer and a sparse partial key, kept as a set of absolute bit positions instead of
packed into lanes; the discriminative bits, the entry a search takes and the entries an
insert affects are computed from them by the definitions the SIMD code implements.
`MaxEntries` stands for the 32 entries of a node and is 2 or 3, so that
splits happen; heights, pull-ups, intermediate nodes and leaf push-downs follow the code.

`heap` maps node names to contents with the lock and the obsolete flag, `root` is
`mRoot`. One action is one access to shared memory together with the thread-local work
up to the next: invoking, loading the root or an entry, taking one spin lock (and
testing obsolete), validating the locked path, writing the pointer (`Publish`), marking
the replaced node, releasing one lock. `insertForStackRange` is computed by
`InsertForStackRange` when the path is validated, as the code does it with all locks
held; its only shared write is the pointer in the top node. Locks are taken from the
insert level upwards, that is by increasing height, and released from the top. The trie
has no remove. A node built for a root compare-and-swap that fails is never freed by the
code; this leak is listed and has no effect on the index.

Memory accesses are sequentially consistent in the model. The code uses release stores
and acquire loads for pointers, obsolete flags and local epochs, and full
compare-and-swaps for the root and the global epoch. What weaker orders add, as a local
epoch that becomes visible only after the first reads of the critical section, is not
modelled.

### HotTrie and HotSingleThreaded

A trie is a record of the root pointer and a heap; `HotTrie` has one operator for each
function of `HOTSingleThreaded` that changes it, from `insertNewValueIntoNode` and
`integrateBiNodeIntoTree` to `removeRecurseUp`, `mergeNodesAndRemoveEntryIfPossible` and
the pull-down of a neighbour, and counts every free (`FreeNodes`). `Collected` renames
the nodes after a call in the order of a walk, so that equal tries are equal states; it
keeps what is unreachable or was freed and is still linked, which `MemoryIsBalanced`
excludes. The iterator is the stack of the code.

`HotSingleThreaded` makes a call one step, as the index is sequential, and keeps the
flag of the wrapper (`branch`). Its `Careful` client stays away from two traps that are
listed below. Reading is part of the properties: `IterationIsOrdered` walks with `Begin`,
`Find`, `LowerOrUpperBound` and `Increment`.

### PartialKeys

A node stores one mask that picks its discriminative bits out of the key, loaded as a
little-endian word, and a partial key per entry. `PartialKeys` has the layout and each
constructor of `HOTSingleThreadedNode` that recodes one: adding an entry, compressing a
range with and without an addition, removing, removing and adding, merging; with the
insert information, the deletion information and the searches computed from bits, as the
code does it with `pext`, `pdep` and comparisons of numbers. `LayoutOf` maps a node of
`HotNode` to the layout that represents it. `LayoutsAreFaithful` says of every node a
history of calls leaves that each operation the next call can apply to it commutes with
`LayoutOf`; a new node of two entries has its layout by definition, so by induction over
the calls the layouts of the code represent the nodes of `HotTrie` throughout. The
property also covers the search with a suffix of wildcards.

### HybridMatcher

`tries` holds the trie of each branch. A leaf carries the mask of its rule and the list
of further rules. `ExecuteForDiffingKeys` compares byte by byte (`ByteWidth` replaces 8)
and takes the first byte that differs outside the wildcards or has one;
`InsertNewWildcardRuleIntoNode` appends to the lists of the affected leaves. The loop of
the benchmark that resets `flag_mask` before each insert (`Benchmark.hpp:312`) is part of
`Insert`, so that no property speaks of a caller that forgets it.

### EpochReclamation

`enterCriticalSection` is split at each access to shared memory: load the epoch, free
the list of that epoch (thread-local), store the local epoch, look at the threads one
by one, compare-and-swap the epoch. A writer locks the nodes it replaces (`LockNode`,
which fails on an obsolete node as `tryLock` does), unlinks them and marks and schedules
them, in either order, and unlocks them. `ScheduleForDeletion` itself tests nothing: that
a node is scheduled by the thread that has it locked, once per lock, is what `HotRowex`
shows of the callers, and that it is scheduled once at all follows here from the locks
and the obsolete flags. Nodes that are locked and not replaced, as parents, are left
out. `mayHold` records which nodes a thread may have a pointer to: all that are linked
while it is inside. `clock`, `loadedAt`, `enteredAt` and `stamp` are history.

`TimelySpec` adds the assumption the scheme needs and the code does not enforce
(`StoresInTime`): `mCurrentEpoch` does not advance between a thread's load of it and the
moment its store of `mLocalEpoch` takes effect. It constrains that one step. Nothing is
assumed of the time after the store; that the epoch then waits for the thread is the
work of `canAdvance`, and `EpochWaits` says so: with a `canAdvance` that waits for nobody
(`HoldsBackNobody`) or for the wrong threads the run fails. One advance inside the window
is already too much: the scan for the next advance may have passed the thread before it
registered. `Spec` has no such assumption, and the run `epoch_late_registration` shows
what then happens.

### MatchRules, BinaryTrie, TrieClient

A word is the set of the positions of its one bits, so `&`, `~`, `|` are set
operations; `Width` replaces 64. A trie node is named by its depth and the bits on its
way, so a trie is a function from nodes to priorities and a walk is a set of nodes. The
loops of the code become closed forms: `InsertPrefixRulePriority` creates the missing
nodes of the way, all of them or as many as the threshold admits; `RemoveWord` gives up
the nodes below the deepest one that must stay. Overflow is modelled: `mask + 1` of all
ones, `1 << 64`, and shifts of an `int` (`IntWidth` replaces 32; where the shift is
undefined both outcomes a compiler can produce are tried). The loop of `insert_rule`
counts up to `1 << num`, an `int` too: `Counters` has no element for `IntWidth - 1`
wildcards, where the bound is negative and the code stores no word. Left out: actions, which are
carried and not read, the number of search steps, and the `debug` counter.

`TrieClient` has a specification for each use: `PrefixSpec` (prefix rules with
priorities, other rules expanded) and `ExactSpec` (words and wildcard rules inserted,
words deleted, in a trie and in a linear table of the same words).
`insert_prefix_rule` and `LPM_search_rule`, prefix rules without priorities, are called
by no program and left out.

### LinearTable, GenMatcher

`GenMatcher` follows `main` of `prefix_kmeans`: read the file, sort by mask (rules of
one mask in any order), build one trie; if a rule needs too many expansions, cluster by
masks, one round per action, and build a trie per cluster, one rule per action; a rule
that needs too many expansions is moved to a group of its own and everything is built
again. `ExpandLimit` and `BlowupLimit` replace 5 and 15. `MatchVector` permutes the key for each
trie and asks all of them, as `generate_keyTable` and `search_result_2` do; `main` counts
the keys with an answer (`IsMatched`). `table` is the linear table of the same file.
The functions that `main` does not call (memory estimates, and `kmeans_search_result`,
which took the smallest answer) are left out; that minimum is kept in the property, as
`Decision`, since it is what priorities are stored for.

## 3. Runs

Concurrent trie (`MCHotRowex`). What the threads do is a workload: the keys inserted
before they start, and for every thread a sequence of sets of calls to choose from.
`rowex_split`: nodes of two entries, three threads, tall initial tries (splits over
several levels against inserts and lookups) and the empty trie (from empty through leaf
to node); `rowex_copy`: three entries, wide tries: copies of neighbouring nodes,
push-downs, upserts of keys that do not share a leaf, and the fate of replaced nodes. `ImplementsIndex` is refinement of `ConcurrentIndex`: every
call takes effect at one moment between its call and its return. `TrieInvariant`: every
node a reader can reach is one higher than its highest child, keeps its leaves in key
order, and its partial keys lead every key below an entry to that entry. `RetiredNodesAreUnlinked`, `UnlinkedNodesAreScheduled`: a node
is scheduled once and only when it is out, and none is forgotten. `WritesAreExclusive`:
a slot of a node is written only while the node is locked and not obsolete.
`WritersHoldTheirNodes`: whoever is about to store a pointer or to retire a node holds its
lock. `ObsoleteIsFinal`: an obsolete node stays obsolete and is not scheduled again.
`CallsReturn`: no deadlock, no endless restart.

Single-threaded trie (`MCHotSingleThreaded`). `hot_dictionary` (nodes of up to four
entries, keys of five bits in bytes of two): seven keys are inserted, upserted and
removed in every order, from an empty trie and from one of eight keys and three levels.
`ImplementsDictionary` is refinement of `Dictionary`, answers included.
`PartitionsAreCorrect` is what `isPartitionCorrect` asserts of a node and that a child
discriminates only behind the path to it. `MemoryIsBalanced`: no node is leaked, freed
twice or linked twice. `IterationIsOrdered`: from begin, from a key and from any bound
the iteration visits the keys from there on, in order. `LayoutsAreFaithful`: see above.

Hybrid matcher (`MCHybridMatcher`). `hybrid_rules` (four bits, bytes of two, nodes of
three entries): prefixes of every length in the left branch and one in the right, in
every order that `Careful` admits. `RulesAreFound`: a key that matches an inserted rule
is found. `MatchesAreRules`: a key that is found matches a rule that was accepted.

Reclamation (`MCEpochReclamation`). `epoch_safety` (two threads, four nodes, an epoch
asked for at every scheduled node, `TimelySpec`): the epoch is never more than one ahead
of a registered thread, and no node a thread may hold is freed. `epoch_progress`
(`Spec`, no assumption on timing): no node is freed twice, and a wish to advance is
granted or withdrawn. Three threads give no finite instance, as stale wishes of threads in
three epochs keep the clock running; `EpochReclamationProofs` covers them.

libmatch. `trie_prefix` (`Width` 3, any three rules with priorities 1 to 3 in any
order, a threshold of seven nodes, one expanded wildcard at most): some rule sets fit
and are searched exactly, others are cut off in the middle of a way or of an expansion.
`trie_exact` (`Width` 3, `IntWidth` 4, words and rules of up to two wildcards, insertions
up to four words and the rule that exceeds them, any deletions): trie and linear
table agree, deletions prune exactly the useless nodes, and the loop of `delete_rule`,
which skips the entry behind one it erases, takes one entry at most. `gen_match` (files of up to
three rules, `Width` 5, four masks): one trie with expansions, clusters, and clusters in
which a rule does not fit, so that regrouping happens; the finished matcher matches the
keys of the linear table and has its answer as the best of its own, no rule is lost, and the build ends.

Each property of a passing run has a mutant of the code that violates it.

Three runs show a disagreement of the code with what it says of itself:

| run | what happens |
|---|---|
| `rowex_lost_key` | `upsert` of a present key overwrites a slot it read before locking; a key that another thread pushed down there is lost |
| `epoch_late_registration` | a thread delayed between loading and publishing the epoch may use freed memory |
| `hot_lost_key` | after removals a node of two entries that pulled in a neighbour is no higher than it; a later split compares heights (`HOTSingleThreaded.hpp:1776`), takes the pulled-up child for a copied half and overwrites another key |

Smaller disagreements, which the models contain and the passing runs steer around:

* `HOTRowex::upsert` of a new key into a trie of one leaf inserts it, loops, and returns
  the value just inserted as the previous one; no workload upserts into such a trie a
  key that it does not hold and looks at the result.
* The node of two entries that `HOTRowex::insert` builds for a root compare-and-swap that
  fails is not freed (`HOTRowex.hpp:117`).
* `HOTRowex::lookup` in an empty trie dereferences null (label `fault`); no workload
  looks up there.
* `Trie::insert_rule` expands wildcards from bit 31 on with shifts of an `int`
  (`ShiftedOne`), and a rule with 31 wildcards into nothing (`Counters`); `trie_exact`
  keeps below both.
* `Trie::remove` does not decrease `node_count`, and `expand_count` grows by the size of
  the table of expanded rules at each of them, not by one; no property of `ExactSpec`
  is about `node_count`, and none about `expand_count`.
* `Trie::LPM_search_rule` reports a hit where the next node exists and ends no rule.
* A rule of wildcards only is not a prefix rule for `prefix_kmeans` (`1 << 64`), has too
  many wildcards to be expanded and is dropped; no file of `gen_match` has one, and
  `DecidesAsLinearTable` excepts matchers that have dropped a rule.

* Single-threaded: after the last key of a branch was removed an insert answers true and
  stores nothing; an upsert right after the first insert overwrites the root leaf; on a
  trie of one leaf `find` answers end and the bounds do not follow the interface's
  comment; the wrapper's `remove` does not clear the first bit and works on the branch
  of the last call; a leaf stored without a mask leaves `mMask` and `listSize`
  uninitialised, and `lookup` reads them. `Careful` and the root test of
  `IterationIsOrdered` keep away from the first three; one branch and keys below it from
  the fourth; the dictionary is read as `find` reads it.
* Hybrid matcher: overlapping rules can be lost, where `HOTSingleThreaded.hpp:254` sets
  out to match them all. The second rule of a branch goes beside the first whatever the
  mask of the first covers (`00**`, then `000*`); a rule that affects a child node does
  not reach the leaves below it; a specific rule that goes beside a leaf whose list has
  a general rule starts with an empty list; masks that are not suffixes compare by their
  first bytes only. `Careful` of `HybridMatcher` states which rules are safe. A list has
  room for eight rules and no test of it.

Bounds. Three threads are enough for every race of the code to have a third party: a
writer, a writer of a neighbouring node, a reader. Two or three entries make a node
full at once; initial tries of two and three levels make splits pass through a parent.
Three threads share symmetric identities and symmetry is used where no liveness is
checked. `CallsReturn` is checked in `rowex_split`, where the calls are dealt to the three alike threads in one order instead.
For removals four entries are the least with which two nodes can merge and still leave
one that cannot, three levels the least for a merge that is a removal above, and the
eight loaded keys were chosen so that a neighbour is merged with and pulled in on both
sides; sixteen keys and four levels are what the lost key takes. Five bits in bytes of
two make the order of bits in the word differ from that in the key, in a node that spans
three bytes. Four bits and nodes of three entries give a rule leaves of its own, lists of
several leaves and nodes that split with lists in them.
Two reclaiming threads suffice for a reader and a reclaimer; the proof covers
any number. Three rules are the least in which one hides, one is hidden and one is
apart; `Width` 3 has ways of three nodes, so that a rule ends above, on and below
another, and `Width` 5 is the least for two overlapping masks, one of which does not fit
the trie of the other, and a third apart. `CHECK_DEADLOCK FALSE` is used where the bound on calls or insertions ends a
behaviour.

Fairness. ROWEX threads: a thread that can take a step takes one
(`<>[]CanStep(t) => []<><<Progress(t)>>_vars`, weak fairness with the enabling condition
written out); spin locks are not fair, so a thread waiting for a lock is only promised a
step if the lock stays free. With bounded calls that suffices. Reclamation: weak fairness
of every thread; the threads keep calling operations of the index, and every call runs
to its end (a thread that stops for good while registered does hold the epoch back).
GenMatcher is sequential: it keeps running.

## 4. Proofs

`EpochReclamationProofs`, for any sets of threads and nodes. In every behaviour of `Spec`,
whatever the timing, `ListsInvariant` holds: `TypeOK`, `EpochsFollowClock` (the epoch is
`clock % 3`, and a registered thread's that of its load), `LocksProtectNodes` (a node has
one owner, and an obsolete node is locked only by the thread that marked it) and
`ListsAreDisjoint`. It gives `TypeCorrect` and `NothingIsFreedTwice`.

`NoUseAfterFree` needs `TimelySpec`, and more to be inductive: `ReclamationInvariant` adds

* `ScansAreSound`: while the epoch is the one a scanning thread has seen, the threads it
  has looked at are in that epoch or in none. `StoresInTime` is used where
  a thread registers, and nowhere else: one that was passed over while it was entering
  registers in the current epoch;
* `EpochWaits`: the clock is at most one ahead of a registered thread. It follows at the
  compare-and-swap of `mCurrentEpoch` from `ScansAreSound`, since the scan is then over and
  the epoch still the one that was seen;
* `ListsAreOrdered`: a node is on the list of the epoch of its stamp, and no linked node
  has been freed;
* `GracePeriod`: whoever may hold a scheduled node entered at most one epoch after its
  stamp.

A list that is freed holds stamps of three epochs back, since its thread comes from
another epoch; whoever could hold such a node would be two epochs behind the clock,
which `EpochWaits` excludes. The theorems are `ReclamationInvariantHolds`,
`EpochWaitsForReaders` and `ReclamationIsSafe`.

`BinaryTrieProofs` says what the operators of `BinaryTrie` and `LinearTable` do,
for any width, threshold and limit, and holds no specification. `TrieHolds(t, accepted)`
is what a trie with priorities keeps:

* `Tree`: every node has its parent, and the fields have their types;
* `Counted`: `node_count` is the number of nodes and within the threshold;
* `Answers`: the priority of a node is that of an accepted rule that ends there, and on
  the way of every accepted rule there is a mark at least as good.

`InsertOutcomes` reduces an insertion to its three outcomes. A shadowed rule is covered
by what shadows it; a refused one adds unmarked nodes only, each below a node of the
trie; an accepted one marks its end, and a mark it replaces was no better, or the rule
would have been shadowed. `ExpandHolds` adds `expand_rule`: the rules it stores match only
what the expanded rule matches, and together all of it unless the expansion was given up.
`WordTrie(t)` is what a trie of exact words keeps through `insert_word`, `insert_rule` and
`remove`: nodes of full depth are the marked ones, all others but the root lead to one.

`TrieClientProofs` proves the two uses of a trie for any set of rules in any order.
`PrefixSpec`, prefix and expanded rules: `TrieTypeCorrect`, `AnswersComeFromRules`,
`NoAcceptedRuleIsMissed`, `NodeCountStaysExact` and, while nothing was refused,
`SearchIsExact`. None of these is inductive: what a search finds says nothing of the
marks that a later insertion reaches. `PrefixInvariant` is: `TrieHolds` of the accepted
rules, of which each is a part of an offered rule, and which cover the offered ones while
nothing was refused. `WayOfMatch` (a key matches a prefix rule exactly when the rule ends
on the key's way) turns it into the statements about the search.
`ExactSpec`, words in a trie and a linear table: `DeletingLeavesNoNodes`,
`DeletionTakesOneEntry` and `TrieAgreesWithTable`, from `ExactInvariant` (the trie is a
`WordTrie`, the table holds different words) and, for the last, that both have the same
words. `TrieAgreesWithTable` has the hypothesis `NarrowMasks`: `insert_rule` shifts an
`int` to every wildcard and to their number. Wildcards from the sign bit on are lost or
invented, and of a rule with `IntWidth - 1` wildcards (31) no word is stored; trie and
table then disagree. `trie_exact` takes its rules from the same masks.

`GenMatcherProofs`, for every set of files of different rules sorted by priority. The
inductive invariant `GenInvariant` says that the groups and the points not clustered yet
partition the rules of the file (`Kept`), and that the trie of each group holds the rules
of the group up to the place that the build has reached, with their bits permuted
(`Built`). Clustering, and taking a rule out of a group while a loop runs over a copy of
the group, keep the partition; a permutation of the bits is one to one, so that a permuted
key matches a permuted rule exactly when the key matches the rule. Theorems:
`MatcherTypeCorrect`, `NoRuleIsLost`, `MatcherDecides`, `RegroupingStaysBounded`.
`MatcherDecides` (`DecidesAsLinearTable`) assumes `Ample`, a
threshold of at least as many nodes as there can be: `prefix_kmeans`
ignores what an insertion returns, and a matcher that met a refusal may answer
differently. `RegroupingStaysBounded` assumes
`NoAllWildcards`: a rule of wildcards only is never taken by any trie, leaves an empty
group behind when it is moved, and nothing bounds the moves. Both are properties of the
constants that the instance of `gen_match` satisfies.

`HotNodeProofs` says what a node of the HOT trie stands for, for any number of key bits
and any fan-out. A node *represents* an ascending sequence of keys, one for each entry:
the partial key of an entry is the set of the bits at which its key parts from the other
keys, as far as the key has them (`Represents`). Everything else follows from the order
of the keys: `Search` finds the entry whose key agrees with the search key at these bits
(`SearchFindsEntry`); the affected entries of an insert are the keys that agree with the
new one in front of the mismatching bit; and a copy with a new entry, with two entries for
one, or of one side of a split represents the sequence that it should. The second half
adds the nodes below: `GoodNode` also says that every key below an entry *follows* the
path to the entry and that the child is lower than the node, by exactly one where the
height of the node comes from (`FitsIn`, `Dense`).

`HotRowexProofs`, for any threads, keys, fan-out and workload, proves five properties of
the concurrent trie. None of them is inductive. The invariant is

    IInv == Typed /\ CallsTyped /\ LockInvariant /\ \E r : Shape(r)

* `Typed` and `CallsTyped` are the types of the thread-local state and of the calls; the
  types of the nodes come from `Shape`.
* `LockInvariant` relates the local state of every thread to the heap. From the descent
  on the stack is a path: each entry was read from a slot of the node above it. At each
  label of `tryLock` and `insertForStackRange`, `held` levels from the insert level
  upwards are different nodes that carry the lock of the thread, and up to validation none
  is obsolete. The number of levels to lock is `TopLockLevel`, which is computed again at
  every step from height, keys and number of entries of the nodes on the stack; these
  never change (`SameTopLockLevel`), so that the level a thread stops at is the level it
  started for. The plan of its stores (`pending`) names locked nodes only.
* `Shape(r)`: `r` gives the nodes that are, were or may be linked the keys that they
  were built from, and each is good for them (`SoundHeap`), whether it is linked, replaced
  or not published yet. The root leads to a good node, and what a thread remembers of its
  descent still holds where it will use it (`ThreadShape`): the keys that the stack's
  entries were chosen for still lead there, the pointer that it is about to write fits the
  slot, and a root it expects to be a leaf has not become a leaf of another key.

`r` is quantified in the invariant and extended at each allocation. It never changes for
an old node, because a node keeps its partial keys and a pointer is only ever replaced by
one that fits the same entry (`Extends`): that is why a reader, or a writer that has read
a path without locks, is not misled by what others write. This is the argument of the
data structure, and it needs the heights: a split is pulled up only into a node that is
exactly one higher, so that the pulled-up entries stay below it.

For the locks, one lemma per action shows that the action is careful: it changes lock
and flag only of nodes that its thread has or that are free, and no part of a node that
another thread's levels depend on. The heart is `PlanIsOwned`: the node that
`InsertForStackRange` writes and those it retires, over however many levels it splits, are
among the levels `TopLockLevel` has chosen. The climb is a fold over the stack
(`ClimbIsChain`). For the shape, one lemma per action shows a `ShapeMove`. The start is
proved too: the trie that one thread alone loads from the workload is a fold of
`InsertAlone`, and each of its insertions keeps the heap sound (`InitHasIInv`).

The theorems, all of them `Spec => ...` with no further hypothesis: `InvariantHolds`;
`TypesAreKept`; `TrieStaysPartitioned`, which is `TrieInvariant` of what a reader reaches
at any moment, between any two stores of any writers; `LocksCoverTheWrites`;
`NodesAreRetiredOnce`; `WritesExcludeEachOther`.

Assumptions. The constants are as the code has them: a width, threshold and number of
entries in range, `IntWidth` positive, `BlowupLimit` less than `Width - 1` (15 and 63: a
rule of wildcards only is never expanded), rules whose value has no bit under the mask
(`RulesAssumption`; rule files write `*` there), files of different
rules by ascending priority (`FilesAssumption`), a lock word for "nobody" that is no
thread (`NoThreadAssumption`), a null result that is no value, and workloads that are
sequences of calls with keys and values of the instance (`WorkloadsAssumption`). TLC
evaluates all of them.

Folds and orders. Rules are stored in a loop over a sequence of words or of rules that is
put in order first. `OrderTheorems` shows that sorting by rank lists every element once;
`FoldTheorems` that `FoldLeft`, and the climb over a stack, is the last of a chain of
states each of which follows from the one before. Induction is by a least
counterexample, as the induction theorems of the library take an operator.

Left to TLC:

* Liveness: `CallsReturn`, `AdvanceIsNotStarved`, `BuildEnds`.
* The refinements. `ImplementsIndex` does not hold for every workload, as
  `rowex_lost_key` shows, and `ImplementsDictionary` not for every history
  (`hot_lost_key`); they hold in the runs, whose clients stay away from these cases.
* `RetiredNodesAreUnlinked` and `UnlinkedNodesAreScheduled`. The first would need an
  invariant about which nodes are linked from where, beside the one about what they lead
  to. The second is false in general: the pair of a failed root compare-and-swap is
  never scheduled, nor is the part of the trie that a lost key takes with it.
* The single-threaded trie and the hybrid matcher, whose operators recurse over paths and
  nodes. Their nodes are those of `HotNode`, and the lemmas of `HotNodeProofs` about
  inserting and splitting apply to them as far as the tries only grow; removals pull in
  and merge nodes whose heights are no longer exact, and there the lost key of
  `hot_lost_key` is what a proof would run into.

## 5. Not modelled, and the plan

* ROWEX iterators and scans. They take no locks and read each node when they get there,
  so beside writers they promise no snapshot; their stepping is that of the
  single-threaded iterator, which is modelled, and that they are safe inside a critical
  section is a matter of the reclamation.
* The memory pool recycles nodes by size. That no node is freed twice or lost is shown
  for its users; the pool itself has no further effect on the index.
* The partial key mapping with several masks, for keys longer than the eight bytes this
  program uses; the width of the lanes that hold partial keys, and allocation sizes.
* Statistics, size reports and `scan` of the single-threaded trie; memory estimates of
  `prefix_kmeans` that `main` does not call.
* Benchmark and content helpers are I/O, timing and reports. Of the benchmark loop only
  the resets of globals matter and are in `HybridMatcher`.
* `tbb` and `boost-hana` are vendored third-party libraries. They are almost all the
  lines of the repository; the models are about its own code, some 20,000 lines with
  headers of interfaces, benchmarks and tests.

What remains, in this order: an invariant of the links of the concurrent trie (each node
has one place in it) towards `RetiredNodesAreUnlinked`; lemmas on `Pext` and `Pdep` (each
undoes the other on the bits of its mask) towards `LayoutsAreFaithful` for any width; the
copies with an entry less, which only the single-threaded trie makes; refinement of
`ConcurrentIndex` for workloads without the upserts that lose a key.
