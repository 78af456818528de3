--------------------------- MODULE EpochReclamation ---------------------------
(***************************************************************************)
(* Epoch based memory reclamation of the concurrent trie.  Every operation *)
(* of HOTRowex runs inside a critical section (MemoryGuard).  Nodes that   *)
(* were replaced are put on a free list of the thread that replaced them,  *)
(* one list for each of three epochs; a list is freed when its thread      *)
(* enters that epoch again, coming from another one.                       *)
(*                                                                         *)
(* One action is one access to an atomic variable, together with the       *)
(* thread-local work around it.  Accesses are sequentially consistent.     *)
(***************************************************************************)
EXTENDS Integers, FiniteSets

CONSTANTS Threads, Nodes,
          AdvanceEvery   \* list length at which a new epoch is asked for, 64 in the code

ASSUME AdvanceEveryAssumption == AdvanceEvery \in Nat \ {0}

VARIABLES epoch,      \* mCurrentEpoch
          local,      \* mLocalEpoch of every thread
          prev,       \* mPreviouslyAccessedEpoch
          wants,      \* mThreadWantsToAdvance
          lists,      \* mFreeLists
          pc,         \* where a thread is in enterCriticalSection
          seen,       \* the epoch it has loaded there
          unscanned,  \* the threads canAdvance has still to look at
          linked,     \* nodes the trie leads to
          locked,     \* nodes a thread has locked
          marked,     \* those of them it has marked as obsolete and scheduled
          obsolete,   \* the obsolete flags of the nodes
          freed,      \* nodes whose memory was given back
          mayHold,    \* history: nodes a thread may have a pointer to
          clock,      \* history: number of epochs that have passed
          loadedAt,   \* history: clock when the thread loaded the epoch
          enteredAt,  \* history: loadedAt of the thread's last registration
          stamp       \* history: loadedAt of the thread that scheduled a node

codeVars == << epoch, local, prev, wants, lists, pc, seen, unscanned >>
nodeVars == << linked, locked, marked, obsolete, freed, mayHold >>
vars == << codeVars, nodeVars, clock, loadedAt, enteredAt, stamp >>

Epochs == 0 .. 2
NotInEpoch == 3

\* Mutant: the epochs do not wrap around.
NextEpochWithoutWrap(e) == e + 1
NextEpoch(e) == (e + 1) % 3
PreviousEpoch(e) == (e + 2) % 3

Registered(t) == local[t] # NotInEpoch
Scheduled(n) == \E t \in Threads, e \in Epochs : n \in lists[t][e]

Init ==
  /\ epoch = 0
  /\ local = [t \in Threads |-> NotInEpoch]
  /\ prev = [t \in Threads |-> NotInEpoch]
  /\ wants = [t \in Threads |-> FALSE]
  /\ lists = [t \in Threads |-> [e \in Epochs |-> {}]]
  /\ pc = [t \in Threads |-> "idle"]
  /\ seen = [t \in Threads |-> 0]
  /\ unscanned = [t \in Threads |-> {}]
  /\ linked = Nodes
  /\ locked = [t \in Threads |-> {}]
  /\ marked = [t \in Threads |-> {}]
  /\ obsolete = {}
  /\ freed = {}
  /\ mayHold = [t \in Threads |-> {}]
  /\ clock = 0
  /\ loadedAt = [t \in Threads |-> 0]
  /\ enteredAt = [t \in Threads |-> 0]
  /\ stamp = [n \in Nodes |-> 0]

-----------------------------------------------------------------------------
(* enterCriticalSection                                                    *)

Goto(t, label) == pc' = [pc EXCEPT ![t] = label]

\* The thread has entered: it may read any node that is linked from now on.
StartReading(t) ==
  /\ Goto(t, "inside")
  /\ mayHold' = [mayHold EXCEPT ![t] = linked]

LoadEpoch(t) ==
  /\ pc[t] = "idle"
  /\ seen' = [seen EXCEPT ![t] = epoch]
  /\ loadedAt' = [loadedAt EXCEPT ![t] = clock]
  /\ Goto(t, "loaded")
  /\ UNCHANGED << epoch, local, prev, wants, lists, unscanned, nodeVars, clock,
                  enteredAt, stamp >>

\* Mutant: the list is freed and keeps its nodes.
FreeWithoutClearing(t) ==
  /\ pc[t] = "loaded"
  /\ IF prev[t] # seen[t]
     THEN /\ freed' = freed \cup lists[t][seen[t]]
          /\ wants' = [wants EXCEPT ![t] = FALSE]
          /\ prev' = [prev EXCEPT ![t] = seen[t]]
     ELSE UNCHANGED << freed, wants, prev >>
  /\ enteredAt' = [enteredAt EXCEPT ![t] = loadedAt[t]]
  /\ Goto(t, "entering")
  /\ UNCHANGED << epoch, local, lists, seen, unscanned, linked, locked, marked, obsolete,
                  mayHold, clock, loadedAt, stamp >>

\* enter, first half: coming from another epoch, the thread frees the list it
\* filled when it was last in this one.
FreeForEpoch(t) ==
  /\ pc[t] = "loaded"
  /\ IF prev[t] # seen[t]
     THEN /\ freed' = freed \cup lists[t][seen[t]]
          /\ lists' = [lists EXCEPT ![t][seen[t]] = {}]
          /\ wants' = [wants EXCEPT ![t] = FALSE]
          /\ prev' = [prev EXCEPT ![t] = seen[t]]
     ELSE UNCHANGED << freed, lists, wants, prev >>
  /\ enteredAt' = [enteredAt EXCEPT ![t] = loadedAt[t]]
  /\ Goto(t, "entering")
  /\ UNCHANGED << epoch, local, seen, unscanned, linked, locked, marked, obsolete,
                  mayHold, clock, loadedAt, stamp >>

\* enter, second half: the thread publishes its epoch.
StoreLocalEpoch(t) ==
  /\ pc[t] = "entering"
  /\ local' = [local EXCEPT ![t] = seen[t]]
  /\ IF wants[t]
     THEN /\ unscanned' = [unscanned EXCEPT ![t] = Threads]
          /\ Goto(t, "scan")
          /\ UNCHANGED mayHold
     ELSE StartReading(t) /\ UNCHANGED unscanned
  /\ UNCHANGED << epoch, prev, wants, lists, seen, linked, locked, marked, obsolete, freed,
                  clock, loadedAt, enteredAt, stamp >>

\* Mutants: waits for nobody, for the threads of its own epoch, or of the next one.
HoldsBackNobody(t, u) == FALSE
HoldsBackSameEpoch(t, u) == local[u] = seen[t]
HoldsBackNextEpoch(t, u) == local[u] = NextEpoch(seen[t])
\* A thread in the epoch before the one that is to end.
HoldsBack(t, u) == local[u] = PreviousEpoch(seen[t])

\* canAdvance: the local epochs of all threads are read one after the other;
\* one thread in the previous epoch forbids the advance.
CanAdvance(t) ==
  /\ pc[t] = "scan"
  /\ \E u \in unscanned[t] :
       \/ /\ HoldsBack(t, u)
          /\ StartReading(t)
          /\ UNCHANGED unscanned
       \/ /\ ~HoldsBack(t, u)
          /\ unscanned' = [unscanned EXCEPT ![t] = @ \ {u}]
          /\ IF unscanned[t] = {u} THEN Goto(t, "advance") ELSE UNCHANGED pc
          /\ UNCHANGED mayHold
  /\ UNCHANGED << epoch, local, prev, wants, lists, seen, linked, locked, marked, obsolete, freed,
                  clock, loadedAt, enteredAt, stamp >>

\* The compare-and-swap of mCurrentEpoch.
AdvanceEpoch(t) ==
  /\ pc[t] = "advance"
  /\ IF epoch = seen[t]
     THEN epoch' = NextEpoch(epoch) /\ clock' = clock + 1
     ELSE UNCHANGED << epoch, clock >>
  /\ StartReading(t)
  /\ UNCHANGED << local, prev, wants, lists, seen, unscanned, linked, locked, marked, obsolete,
                  freed, loadedAt, enteredAt, stamp >>

-----------------------------------------------------------------------------
(* Inside the critical section                                             *)

\* A writer locks a node that it is going to replace; tryLock fails on a node
\* that is obsolete.
LockNode(t, n) ==
  /\ pc[t] = "inside"
  /\ n \in mayHold[t]
  /\ \A u \in Threads : n \notin locked[u]
  /\ n \notin obsolete
  /\ locked' = [locked EXCEPT ![t] = @ \cup {n}]
  /\ UNCHANGED << codeVars, linked, marked, obsolete, freed, mayHold, clock, loadedAt,
                  enteredAt, stamp >>

\* The pointer write that takes a locked node out of the trie.  It comes before
\* or after the node is marked.
UnlinkNode(t, n) ==
  /\ pc[t] = "inside"
  /\ n \in locked[t] \cap linked
  /\ linked' = linked \ {n}
  /\ UNCHANGED << codeVars, locked, marked, obsolete, freed, mayHold, clock, loadedAt,
                  enteredAt, stamp >>

\* scheduleForDeletion, called by markAsObsolete once for each node that the
\* writer has locked and replaces.
ScheduleForDeletion(t, n) ==
  /\ pc[t] = "inside"
  /\ n \in locked[t] \ marked[t]
  /\ obsolete' = obsolete \cup {n}
  /\ marked' = [marked EXCEPT ![t] = @ \cup {n}]
  /\ lists' = [lists EXCEPT ![t][local[t]] = @ \cup {n}]
  /\ wants' = [wants EXCEPT ![t] = Cardinality(lists'[t][local[t]]) % AdvanceEvery = 0]
  /\ stamp' = [stamp EXCEPT ![n] = loadedAt[t]]
  /\ UNCHANGED << epoch, local, prev, pc, seen, unscanned, linked, locked, freed, mayHold,
                  clock, loadedAt, enteredAt >>

\* A node that is marked and out of the trie is unlocked.
UnlockNode(t, n) ==
  /\ pc[t] = "inside"
  /\ n \in marked[t] \ linked
  /\ locked' = [locked EXCEPT ![t] = @ \ {n}]
  /\ marked' = [marked EXCEPT ![t] = @ \ {n}]
  /\ UNCHANGED << codeVars, linked, obsolete, freed, mayHold, clock, loadedAt, enteredAt,
                  stamp >>

LeaveCriticalSection(t) ==
  /\ pc[t] = "inside"
  /\ locked[t] = {}
  /\ local' = [local EXCEPT ![t] = NotInEpoch]
  /\ mayHold' = [mayHold EXCEPT ![t] = {}]
  /\ Goto(t, "idle")
  /\ UNCHANGED << epoch, prev, wants, lists, seen, unscanned, linked, locked, marked,
                  obsolete, freed, clock, loadedAt, enteredAt, stamp >>

-----------------------------------------------------------------------------
Step(t) ==
  \/ LoadEpoch(t) \/ FreeForEpoch(t) \/ StoreLocalEpoch(t)
  \/ CanAdvance(t) \/ AdvanceEpoch(t)
  \/ \E n \in Nodes : \/ LockNode(t, n) \/ UnlinkNode(t, n)
                       \/ ScheduleForDeletion(t, n) \/ UnlockNode(t, n)
  \/ LeaveCriticalSection(t)

Next == \E t \in Threads : Step(t)

\* The threads keep calling operations of the index, and every call runs to
\* its end.
Spec == Init /\ [][Next]_vars /\ \A t \in Threads : WF_vars(Step(t))

\* The timing assumption under which the scheme is safe: when a thread's store
\* to mLocalEpoch takes effect, mCurrentEpoch has not advanced since the thread
\* loaded it.  Nothing is assumed of what happens before the load or after the
\* store: that the epoch waits for a registered thread is up to canAdvance.
StoresInTime == \A t \in Threads :
  local'[t] \notin {local[t], NotInEpoch} => clock = loadedAt[t]

TimelySpec == Init /\ [][Next /\ StoresInTime]_vars

-----------------------------------------------------------------------------
(* Properties                                                              *)

Labels == {"idle", "loaded", "entering", "scan", "advance", "inside"}

\* Type invariant: the shared epoch, the thread specific reclamation
\* information, the nodes and the history.
TypeOK ==
  /\ epoch \in Epochs
  /\ local \in [Threads -> Epochs \cup {NotInEpoch}]
  /\ prev \in [Threads -> Epochs \cup {NotInEpoch}]
  /\ wants \in [Threads -> BOOLEAN]
  /\ lists \in [Threads -> [Epochs -> SUBSET Nodes]]
  /\ pc \in [Threads -> Labels]
  /\ seen \in [Threads -> Epochs]
  /\ unscanned \in [Threads -> SUBSET Threads]
  /\ linked \in SUBSET Nodes
  /\ locked \in [Threads -> SUBSET Nodes]
  /\ marked \in [Threads -> SUBSET Nodes]
  /\ obsolete \in SUBSET Nodes
  /\ freed \in SUBSET Nodes
  /\ mayHold \in [Threads -> SUBSET Nodes]
  /\ clock \in Nat
  /\ loadedAt \in [Threads -> Nat]
  /\ enteredAt \in [Threads -> Nat]
  /\ stamp \in [Nodes -> Nat]

\* A node is garbage collected only when no thread can hold a pointer to it:
\* no thread in a critical section was there before the node was unlinked
\* (freeForEpoch against every concurrent lookup, insert, upsert).
NoUseAfterFree == \A t \in Threads : mayHold[t] \cap freed = {}

\* What canAdvance is for: a registered thread holds the epoch back, which is at
\* most one ahead of the thread's own, although the scan reads the local epochs one
\* after the other and the compare-and-swap comes later.
EpochWaits == \A t \in Threads : Registered(t) => clock <= loadedAt[t] + 1

\* A node is on at most one free list of one thread, and on none once it was
\* freed: no double free.
NoDoubleFree ==
  \A n \in Nodes :
    Cardinality({p \in Threads \X Epochs : n \in lists[p[1]][p[2]]})
      <= IF n \in freed THEN 0 ELSE 1

\* A thread that asks for a new epoch is not starved: the epoch advances, or
\* its request is dropped when it schedules again.
AdvanceIsNotStarved == \A t \in Threads : wants[t] ~> ~wants[t]
-----------------------------------------------------------------------------
(* The inductive invariants of Spec and of TimelySpec.                     *)

InEnter(t) == pc[t] \in {"entering", "scan", "advance", "inside"}

\* How the epochs of the code, counted modulo three, follow the clock.
EpochsFollowClock ==
  /\ epoch = clock % 3
  /\ \A t \in Threads :
       /\ seen[t] = loadedAt[t] % 3
       /\ enteredAt[t] <= loadedAt[t] /\ loadedAt[t] <= clock
       /\ local[t] = IF pc[t] \in {"scan", "advance", "inside"} THEN seen[t] ELSE NotInEpoch
       /\ InEnter(t) => enteredAt[t] = loadedAt[t] /\ prev[t] = seen[t]
       /\ prev[t] # NotInEpoch => prev[t] = enteredAt[t] % 3
       /\ mayHold[t] # {} \/ locked[t] # {} => pc[t] = "inside"

\* Why a scan can be trusted by the compare-and-swap that follows it: while the
\* epoch is the one the scanning thread has seen, the threads it has looked at
\* are in that epoch or in none.
ScansAreSound == \A t \in Threads :
  /\ pc[t] = "advance" => unscanned[t] = {}
  /\ pc[t] \in {"scan", "advance"} /\ loadedAt[t] = clock =>
       \A u \in Threads \ unscanned[t] : Registered(u) => loadedAt[u] = clock

\* The locks exclude each other, and the obsolete flag keeps a node from being
\* locked, and so from being scheduled, again.
LocksProtectNodes ==
  /\ \A t, u \in Threads : t # u => locked[t] \cap locked[u] = {}
  /\ \A t \in Threads : locked[t] \cap obsolete \subseteq marked[t]
  /\ freed \subseteq obsolete
  /\ \A n \in Nodes : Scheduled(n) => n \in obsolete

\* A node is on one list, and on none once it was freed.
ListsAreDisjoint ==
  \A t \in Threads, e \in Epochs : \A n \in lists[t][e] :
    /\ n \notin freed
    /\ \A u \in Threads, f \in Epochs : n \in lists[u][f] => u = t /\ f = e

\* The nodes on the free lists: each on the list of the epoch it was scheduled in;
\* still linked only while the thread that scheduled it has it locked.
ListsAreOrdered ==
  /\ linked \cap freed = {}
  /\ \A t \in Threads, e \in Epochs : \A n \in lists[t][e] :
       /\ stamp[n] % 3 = e /\ stamp[n] <= enteredAt[t]
       /\ prev[t] # NotInEpoch
       /\ n \in linked => n \in locked[t] /\ stamp[n] = loadedAt[t]

\* Grace period: a thread that may hold a scheduled node entered at most one
\* epoch after the one it was scheduled in.
GracePeriod ==
  \A r \in Threads : \A n \in mayHold[r] :
    Scheduled(n) => loadedAt[r] <= stamp[n] + 1

\* The part that holds in every behaviour, whatever the timing.
ListsInvariant == TypeOK /\ EpochsFollowClock /\ LocksProtectNodes /\ ListsAreDisjoint

ReclamationInvariant ==
  /\ ListsInvariant /\ EpochWaits /\ ScansAreSound
  /\ ListsAreOrdered /\ GracePeriod /\ NoUseAfterFree

=============================================================================
