------------------------ MODULE EpochReclamationProofs ------------------------
(***************************************************************************)
(* Proofs about EpochReclamation: type correctness of every behaviour, and *)
(* the safety of the reclamation for every number of threads and nodes     *)
(* under the timing assumption of TimelySpec.                              *)
(***************************************************************************)
EXTENDS EpochReclamation, FiniteSetTheorems, TLAPS

-----------------------------------------------------------------------------
(* Epochs are counted modulo three.                                        *)

\* The epoch after the one of clock value x is the one of clock value x + 1.
LEMMA ModuloNext == \A x \in Nat : NextEpoch(x % 3) = (x + 1) % 3
  BY DEF NextEpoch

\* Clock values of the same epoch are three apart.
LEMMA ModuloGap == \A x, y \in Nat : x % 3 = y % 3 /\ x < y => x + 3 <= y
  OBVIOUS

\* The epoch of a clock value is an epoch, and not NotInEpoch.
LEMMA ModuloRange == \A x \in Nat : x % 3 \in Epochs /\ x % 3 # NotInEpoch
  BY DEF Epochs, NotInEpoch

-----------------------------------------------------------------------------
(* Type correctness                                                        *)

\* Every step of enterCriticalSection, scheduleForDeletion and
\* leaveCriticalSection keeps the variables in their types.
LEMMA TypeStep == TypeOK /\ [Next]_vars => TypeOK'
<1> SUFFICES ASSUME TypeOK, [Next]_vars PROVE TypeOK'
  OBVIOUS
<1> USE DEF TypeOK, Labels, Epochs, NotInEpoch, Goto, StartReading, codeVars, nodeVars
<1>1. ASSUME NEW t \in Threads, LoadEpoch(t) PROVE TypeOK'
  BY <1>1 DEF LoadEpoch
<1>2. ASSUME NEW t \in Threads, FreeForEpoch(t) PROVE TypeOK'
  <2> DEFINE cleared == [lists[t] EXCEPT ![seen[t]] = {}]
  <2>1. /\ seen[t] \in Epochs
        /\ lists[t] \in [Epochs -> SUBSET Nodes]
        /\ lists[t][seen[t]] \in SUBSET Nodes
        /\ cleared \in [Epochs -> SUBSET Nodes]
    OBVIOUS
  <2>2. CASE prev[t] # seen[t]
    <3> HIDE DEF cleared
    <3>1. /\ lists' = [lists EXCEPT ![t] = cleared]
          /\ freed' = freed \cup lists[t][seen[t]]
          /\ wants' = [wants EXCEPT ![t] = FALSE]
          /\ prev' = [prev EXCEPT ![t] = seen[t]]
          /\ enteredAt' = [enteredAt EXCEPT ![t] = loadedAt[t]]
          /\ pc' = [pc EXCEPT ![t] = "entering"]
      BY <1>2, <2>2 DEF FreeForEpoch, cleared
    <3>2. lists' \in [Threads -> [Epochs -> SUBSET Nodes]]
      BY <2>1, <3>1
    <3>3. freed' \in SUBSET Nodes
      BY <2>1, <3>1
    <3>4. wants' \in [Threads -> BOOLEAN]
      BY <3>1
    <3>5. prev' \in [Threads -> Epochs \cup {NotInEpoch}] /\ enteredAt' \in [Threads -> Nat]
      BY <2>1, <3>1
    <3>6. pc' \in [Threads -> Labels]
      BY <3>1
    <3> QED
      BY <1>2, <3>2, <3>3, <3>4, <3>5, <3>6 DEF FreeForEpoch
  <2>3. CASE prev[t] = seen[t]
    BY <1>2, <2>3 DEF FreeForEpoch
  <2> QED
    BY <2>2, <2>3
<1>3. ASSUME NEW t \in Threads, StoreLocalEpoch(t) PROVE TypeOK'
  BY <1>3 DEF StoreLocalEpoch
<1>4. ASSUME NEW t \in Threads, CanAdvance(t) PROVE TypeOK'
  <2>1. PICK u \in unscanned[t] :
          \/ StartReading(t) /\ UNCHANGED unscanned
          \/ /\ unscanned' = [unscanned EXCEPT ![t] = @ \ {u}]
             /\ IF unscanned[t] = {u} THEN Goto(t, "advance") ELSE UNCHANGED pc
             /\ UNCHANGED mayHold
    BY <1>4 DEF CanAdvance
  <2>2. unscanned' \in [Threads -> SUBSET Threads]
    BY <2>1
  <2>3. pc' \in [Threads -> Labels] /\ mayHold' \in [Threads -> SUBSET Nodes]
    BY <2>1
  <2> QED
    BY <1>4, <2>2, <2>3 DEF CanAdvance
<1>5. ASSUME NEW t \in Threads, AdvanceEpoch(t) PROVE TypeOK'
  <2>1. epoch' \in Epochs /\ clock' \in Nat
    <3>1. epoch + 1 \in Nat
      OBVIOUS
    <3>2. NextEpoch(epoch) \in Epochs
      BY <3>1, ModuloRange DEF NextEpoch
    <3> QED
      BY <1>5, <3>2 DEF AdvanceEpoch
  <2>2. pc' \in [Threads -> Labels] /\ mayHold' \in [Threads -> SUBSET Nodes]
    BY <1>5 DEF AdvanceEpoch
  <2> QED
    BY <1>5, <2>1, <2>2 DEF AdvanceEpoch
<1>6. ASSUME NEW t \in Threads, NEW n \in Nodes, UnlinkNode(t, n) PROVE TypeOK'
  BY <1>6 DEF UnlinkNode
<1>10. ASSUME NEW t \in Threads, NEW n \in Nodes, LockNode(t, n) PROVE TypeOK'
  BY <1>10 DEF LockNode
<1>11. ASSUME NEW t \in Threads, NEW n \in Nodes, UnlockNode(t, n) PROVE TypeOK'
  BY <1>11 DEF UnlockNode
<1>7. ASSUME NEW t \in Threads, NEW n \in Nodes, ScheduleForDeletion(t, n) PROVE TypeOK'
  <2> DEFINE longer == [lists[t] EXCEPT ![local[t]] = @ \cup {n}]
  <2>1. lists[t] \in [Epochs -> SUBSET Nodes]
    OBVIOUS
  <2>2. lists' \in [Threads -> [Epochs -> SUBSET Nodes]]
    <3>1. longer \in [Epochs -> SUBSET Nodes]
      BY <2>1
    <3>2. lists' = [lists EXCEPT ![t] = longer]
      BY <1>7 DEF ScheduleForDeletion
    <3> HIDE DEF longer
    <3> QED
      BY <3>1, <3>2
  <2>3. wants' \in [Threads -> BOOLEAN]
    BY <1>7 DEF ScheduleForDeletion
  <2>4. /\ marked' \in [Threads -> SUBSET Nodes] /\ obsolete' \in SUBSET Nodes
        /\ stamp' \in [Nodes -> Nat]
    BY <1>7 DEF ScheduleForDeletion
  <2> QED
    BY <1>7, <2>2, <2>3, <2>4 DEF ScheduleForDeletion
<1>8. ASSUME NEW t \in Threads, LeaveCriticalSection(t) PROVE TypeOK'
  BY <1>8 DEF LeaveCriticalSection
<1>9. CASE UNCHANGED vars
  BY <1>9 DEF vars
<1> QED
  BY <1>1, <1>2, <1>3, <1>4, <1>5, <1>6, <1>7, <1>8, <1>9, <1>10, <1>11 DEF Next, Step

\* The constructors of the reclamation strategy and of the thread information
\* establish the types.
LEMMA TypeInit == Init => TypeOK
  BY DEF Init, TypeOK, Labels, Epochs, NotInEpoch

\* The type invariant of the reclamation scheme holds in every behaviour.
THEOREM TypeCorrect == Spec => []TypeOK
  BY TypeInit, TypeStep, PTL DEF Spec

-----------------------------------------------------------------------------
(* What holds in every behaviour, whatever the timing                      *)

\* The epochs of the code keep following the clock.
LEMMA EpochsStep == ListsInvariant /\ Next => EpochsFollowClock'
<1> SUFFICES ASSUME ListsInvariant, NEW t \in Threads, Step(t) PROVE EpochsFollowClock'
  BY DEF Next
<1> USE DEF EpochsFollowClock, InEnter, Goto, StartReading, codeVars, nodeVars
<1>0. TypeOK /\ EpochsFollowClock
  BY DEF ListsInvariant
<1>1. CASE LoadEpoch(t)
  BY <1>0, <1>1 DEF LoadEpoch, TypeOK
<1>2. CASE FreeForEpoch(t)
  <2>1. prev'[t] = seen[t] /\ enteredAt'[t] = loadedAt[t]
    BY <1>0, <1>2 DEF FreeForEpoch, TypeOK
  <2> QED
    BY <1>0, <1>2, <2>1 DEF FreeForEpoch, TypeOK
<1>3. CASE StoreLocalEpoch(t)
  BY <1>0, <1>3 DEF StoreLocalEpoch, TypeOK
<1>4. CASE CanAdvance(t)
  <2>1. \/ pc' = [pc EXCEPT ![t] = "inside"] /\ mayHold' = [mayHold EXCEPT ![t] = linked]
        \/ pc' = [pc EXCEPT ![t] = "advance"] /\ mayHold' = mayHold
        \/ pc' = pc /\ mayHold' = mayHold
    BY <1>4 DEF CanAdvance
  <2> QED
    BY <1>0, <1>4, <2>1 DEF CanAdvance, TypeOK
<1>5. CASE AdvanceEpoch(t)
  <2>1. epoch' = clock' % 3 /\ clock <= clock' /\ clock' \in Nat
    BY <1>0, <1>5, ModuloNext DEF AdvanceEpoch, TypeOK
  <2>2. /\ UNCHANGED << local, prev, seen, locked, loadedAt, enteredAt >>
        /\ pc[t] = "advance"
        /\ pc' = [pc EXCEPT ![t] = "inside"] /\ mayHold' = [mayHold EXCEPT ![t] = linked]
    BY <1>5 DEF AdvanceEpoch
  <2>3. ASSUME NEW u \in Threads PROVE loadedAt'[u] <= clock'
    <3>1. loadedAt[u] <= clock
      BY <1>0
    <3>2. loadedAt[u] \in Nat /\ clock \in Nat
      BY <1>0 DEF TypeOK
    <3> QED
      BY <2>1, <2>2, <3>1, <3>2
  <2>4. \A u \in Threads :
          /\ local[u] = IF pc'[u] \in {"scan", "advance", "inside"} THEN seen[u] ELSE NotInEpoch
          /\ InEnter(u)' <=> InEnter(u)
          /\ mayHold'[u] # {} \/ locked[u] # {} => pc'[u] = "inside"
    BY <1>0, <2>2 DEF TypeOK
  <2> QED
    BY <1>0, <2>1, <2>2, <2>3, <2>4
<1>6. ASSUME NEW n \in Nodes, LockNode(t, n) \/ UnlinkNode(t, n) \/ UnlockNode(t, n)
      PROVE  EpochsFollowClock'
  <2>1. /\ UNCHANGED << codeVars, mayHold, clock, loadedAt, enteredAt >>
        /\ pc[t] = "inside"
        /\ \A u \in Threads \ {t} : locked'[u] = locked[u]
    BY <1>0, <1>6 DEF LockNode, UnlinkNode, UnlockNode, TypeOK
  <2> QED
    BY <1>0, <2>1
<1>7. CASE \E n \in Nodes : ScheduleForDeletion(t, n)
  BY <1>0, <1>7 DEF ScheduleForDeletion, TypeOK
<1>8. CASE LeaveCriticalSection(t)
  BY <1>0, <1>8 DEF LeaveCriticalSection, TypeOK
<1> QED
  BY <1>1, <1>2, <1>3, <1>4, <1>5, <1>6, <1>7, <1>8 DEF Step


\* A node is locked by one thread at a time, and the obsolete flag, which
\* outlives the lock, keeps it from being scheduled again.
LEMMA LocksStep == ListsInvariant /\ Next => LocksProtectNodes'
<1> SUFFICES ASSUME ListsInvariant, NEW t \in Threads, Step(t) PROVE LocksProtectNodes'
  BY DEF Next
<1>0. TypeOK /\ EpochsFollowClock /\ LocksProtectNodes
  BY DEF ListsInvariant
<1>1. ASSUME UNCHANGED << locked, marked, obsolete, freed, lists >> PROVE LocksProtectNodes'
  BY <1>0, <1>1 DEF LocksProtectNodes, Scheduled
<1>2. CASE FreeForEpoch(t)
  <2>1. CASE prev[t] = seen[t]
    BY <1>1, <1>2, <2>1 DEF FreeForEpoch
  <2>2. CASE prev[t] # seen[t]
    <3>1. /\ UNCHANGED << locked, marked, obsolete >>
          /\ freed' = freed \cup lists[t][seen[t]]
          /\ lists' = [lists EXCEPT ![t][seen[t]] = {}]
          /\ seen[t] \in Epochs
      BY <1>0, <1>2, <2>2 DEF FreeForEpoch, TypeOK
    <3>2. \A u \in Threads, e \in Epochs : lists'[u][e] \subseteq lists[u][e]
      BY <1>0, <3>1 DEF TypeOK
    <3>3. lists[t][seen[t]] \subseteq obsolete
      BY <1>0, <3>1 DEF LocksProtectNodes, Scheduled, TypeOK
    <3> QED
      BY <1>0, <3>1, <3>2, <3>3 DEF LocksProtectNodes, Scheduled
  <2> QED
    BY <2>1, <2>2
<1>3. ASSUME NEW m \in Nodes, LockNode(t, m) PROVE LocksProtectNodes'
  <2>1. /\ UNCHANGED << marked, obsolete, freed, lists >>
        /\ m \notin obsolete /\ \A u \in Threads : m \notin locked[u]
        /\ \A u \in Threads : locked'[u] = IF u = t THEN locked[u] \cup {m} ELSE locked[u]
    BY <1>0, <1>3 DEF LockNode, codeVars, TypeOK
  <2>2. \A u, v \in Threads : u # v => locked'[u] \cap locked'[v] = {}
    BY <1>0, <2>1 DEF LocksProtectNodes
  <2>3. \A u \in Threads : locked'[u] \cap obsolete \subseteq marked[u]
    BY <1>0, <2>1 DEF LocksProtectNodes
  <2> QED
    BY <1>0, <2>1, <2>2, <2>3 DEF LocksProtectNodes, Scheduled
<1>4. ASSUME NEW m \in Nodes, UnlinkNode(t, m) PROVE LocksProtectNodes'
  BY <1>1, <1>4 DEF UnlinkNode, codeVars
<1>5. ASSUME NEW m \in Nodes, ScheduleForDeletion(t, m) PROVE LocksProtectNodes'
  <2>1. /\ UNCHANGED << locked, freed >> /\ m \in locked[t] /\ pc[t] = "inside"
        /\ obsolete' = obsolete \cup {m}
        /\ \A u \in Threads : marked'[u] = IF u = t THEN marked[u] \cup {m} ELSE marked[u]
        /\ lists' = [lists EXCEPT ![t][local[t]] = @ \cup {m}]
    BY <1>0, <1>5 DEF ScheduleForDeletion, TypeOK
  <2>2. \A u \in Threads, e \in Epochs : lists'[u][e] \subseteq lists[u][e] \cup {m}
    <3>1. local[t] \in Epochs
      BY <1>0, <2>1 DEF EpochsFollowClock, TypeOK
    <3> QED
      BY <1>0, <2>1, <3>1 DEF TypeOK
  <2>3. \A n \in Nodes : Scheduled(n)' => n \in obsolete'
    BY <1>0, <2>1, <2>2 DEF LocksProtectNodes, Scheduled
  <2> QED
    BY <1>0, <2>1, <2>3 DEF LocksProtectNodes
<1>6. ASSUME NEW m \in Nodes, UnlockNode(t, m) PROVE LocksProtectNodes'
  <2>1. /\ UNCHANGED << obsolete, freed, lists >>
        /\ \A u \in Threads : locked'[u] = IF u = t THEN locked[u] \ {m} ELSE locked[u]
        /\ \A u \in Threads : marked'[u] = IF u = t THEN marked[u] \ {m} ELSE marked[u]
    BY <1>0, <1>6 DEF UnlockNode, codeVars, TypeOK
  <2> QED
    BY <1>0, <2>1 DEF LocksProtectNodes, Scheduled
<1>7. CASE LoadEpoch(t) \/ StoreLocalEpoch(t) \/ CanAdvance(t) \/ AdvanceEpoch(t)
           \/ LeaveCriticalSection(t)
  BY <1>1, <1>7 DEF LoadEpoch, StoreLocalEpoch, CanAdvance, AdvanceEpoch,
                    LeaveCriticalSection, nodeVars
<1> QED
  BY <1>2, <1>3, <1>4, <1>5, <1>6, <1>7 DEF Step

\* freeForEpoch empties a list; scheduleForDeletion adds a node that is on none.
LEMMA DisjointStep == ListsInvariant /\ Next => ListsAreDisjoint'
<1> SUFFICES ASSUME ListsInvariant, NEW t \in Threads, Step(t) PROVE ListsAreDisjoint'
  BY DEF Next
<1>0. TypeOK /\ EpochsFollowClock /\ LocksProtectNodes /\ ListsAreDisjoint
  BY DEF ListsInvariant
<1>1. ASSUME UNCHANGED << lists, freed >> PROVE ListsAreDisjoint'
  BY <1>0, <1>1 DEF ListsAreDisjoint
<1>2. CASE FreeForEpoch(t)
  <2>1. CASE prev[t] = seen[t]
    BY <1>1, <1>2, <2>1 DEF FreeForEpoch
  <2>2. CASE prev[t] # seen[t]
    <3>1. /\ freed' = freed \cup lists[t][seen[t]]
          /\ lists' = [lists EXCEPT ![t][seen[t]] = {}]
          /\ seen[t] \in Epochs
      BY <1>0, <1>2, <2>2 DEF FreeForEpoch, TypeOK
    <3>2. \A u \in Threads, e \in Epochs :
            lists'[u][e] = IF u = t /\ e = seen[t] THEN {} ELSE lists[u][e]
      BY <1>0, <3>1 DEF TypeOK
    <3> QED
      BY <1>0, <3>1, <3>2 DEF ListsAreDisjoint
  <2> QED
    BY <2>1, <2>2
<1>3. ASSUME NEW m \in Nodes, ScheduleForDeletion(t, m) PROVE ListsAreDisjoint'
  <2>1. /\ freed' = freed /\ m \in locked[t] \ marked[t] /\ pc[t] = "inside"
        /\ lists' = [lists EXCEPT ![t][local[t]] = @ \cup {m}]
    BY <1>3 DEF ScheduleForDeletion
  <2>2. local[t] \in Epochs
    BY <1>0, <2>1 DEF EpochsFollowClock, TypeOK
  <2>3. \A u \in Threads, e \in Epochs :
          lists'[u][e] = IF u = t /\ e = local[t] THEN lists[u][e] \cup {m} ELSE lists[u][e]
    BY <1>0, <2>1, <2>2 DEF TypeOK
  <2>4. m \notin freed /\ \A u \in Threads, e \in Epochs : m \notin lists[u][e]
    BY <1>0, <2>1 DEF LocksProtectNodes, Scheduled
  <2> QED
    BY <1>0, <2>1, <2>2, <2>3, <2>4 DEF ListsAreDisjoint
<1>4. CASE \/ LoadEpoch(t) \/ StoreLocalEpoch(t) \/ CanAdvance(t) \/ AdvanceEpoch(t)
           \/ LeaveCriticalSection(t)
  BY <1>1, <1>4 DEF LoadEpoch, StoreLocalEpoch, CanAdvance, AdvanceEpoch,
                    LeaveCriticalSection, nodeVars
<1>5. ASSUME NEW m \in Nodes, LockNode(t, m) \/ UnlinkNode(t, m) \/ UnlockNode(t, m)
      PROVE  ListsAreDisjoint'
  BY <1>1, <1>5 DEF LockNode, UnlinkNode, UnlockNode, codeVars
<1> QED
  BY <1>2, <1>3, <1>4, <1>5 DEF Step

\* The locks and the free lists of every step, in time or late.
LEMMA ListsInvariantStep == ListsInvariant /\ [Next]_vars => ListsInvariant'
<1> SUFFICES ASSUME ListsInvariant, [Next]_vars PROVE ListsInvariant'
  OBVIOUS
<1>1. CASE Next
  <2>1. TypeOK'
    BY <1>1, TypeStep DEF ListsInvariant
  <2> QED
    BY <1>1, <2>1, EpochsStep, LocksStep, DisjointStep DEF ListsInvariant
<1>2. CASE UNCHANGED vars
  BY <1>2 DEF vars, codeVars, nodeVars, ListsInvariant, TypeOK, EpochsFollowClock, InEnter,
              LocksProtectNodes, ListsAreDisjoint, Scheduled
<1> QED
  BY <1>1, <1>2

\* Before the first thread enters, nothing is locked, scheduled or freed.
LEMMA ListsInvariantInit == Init => ListsInvariant
<1> SUFFICES ASSUME Init PROVE ListsInvariant
  OBVIOUS
<1>1. TypeOK
  BY TypeInit
<1>2. EpochsFollowClock
  BY DEF Init, EpochsFollowClock, InEnter
<1>3. LocksProtectNodes /\ ListsAreDisjoint
  BY DEF Init, LocksProtectNodes, ListsAreDisjoint, Scheduled
<1> QED
  BY <1>1, <1>2, <1>3 DEF ListsInvariant

\* A node on one list is on no other, so the number of its places is one.
LEMMA OnePlace == ListsInvariant => NoDoubleFree
<1> SUFFICES ASSUME ListsInvariant, NEW n \in Nodes
             PROVE  Cardinality({p \in Threads \X Epochs : n \in lists[p[1]][p[2]]})
                      <= IF n \in freed THEN 0 ELSE 1
  BY DEF NoDoubleFree
<1> DEFINE places == {p \in Threads \X Epochs : n \in lists[p[1]][p[2]]}
<1>0. ListsAreDisjoint
  BY DEF ListsInvariant
<1>1. CASE places = {}
  BY <1>1, FS_EmptySet
<1>2. CASE places # {}
  <2>1. PICK p \in places : TRUE
    BY <1>2
  <2>2. p[1] \in Threads /\ p[2] \in Epochs /\ n \in lists[p[1]][p[2]] /\ p = << p[1], p[2] >>
    BY <2>1
  <2>3. n \notin freed
    BY <1>0, <2>2 DEF ListsAreDisjoint
  <2>4. ASSUME NEW q \in places PROVE q = p
    <3>1. q[1] \in Threads /\ q[2] \in Epochs /\ n \in lists[q[1]][q[2]] /\ q = << q[1], q[2] >>
      BY <2>4
    <3>2. q[1] = p[1] /\ q[2] = p[2]
      BY <1>0, <2>2, <3>1 DEF ListsAreDisjoint
    <3> QED
      BY <2>2, <3>1, <3>2
  <2>5. places = {p}
    BY <2>1, <2>4
  <2>6. Cardinality(places) = 1
    BY <2>5, FS_Singleton
  <2> QED
    BY <2>3, <2>6
<1> QED
  BY <1>1, <1>2

\* No node is ever on two free lists, nor on one after it was freed, so that nothing
\* is freed twice, however late the threads store their epochs: nodes are scheduled
\* under their lock, and the obsolete flag outlives the lock.
THEOREM NothingIsFreedTwice == Spec => []NoDoubleFree
<1>1. Spec => []ListsInvariant
  BY ListsInvariantInit, ListsInvariantStep, PTL DEF Spec
<1> QED
  BY <1>1, OnePlace, PTL

-----------------------------------------------------------------------------
(* Safety of the reclamation under the timing assumption                   *)

\* Before the first thread enters, nothing is scheduled.
LEMMA ReclamationInit == Init => ReclamationInvariant
<1> SUFFICES ASSUME Init PROVE ReclamationInvariant
  OBVIOUS
<1>1. ListsInvariant
  BY ListsInvariantInit
<1>2. EpochWaits /\ ScansAreSound /\ NoUseAfterFree
  BY DEF Init, EpochWaits, ScansAreSound, Registered, NoUseAfterFree
<1>3. ListsAreOrdered /\ GracePeriod
  BY DEF Init, ListsAreOrdered, GracePeriod, Scheduled
<1> QED
  BY <1>1, <1>2, <1>3 DEF ReclamationInvariant, ListsInvariant

\* A thread that starts to read: no linked node was freed, and a linked node
\* that is already scheduled is locked by a thread that entered at most one epoch
\* ago.
LEMMA StartReadingIsSafe ==
  ASSUME ReclamationInvariant, NEW t \in Threads
  PROVE  /\ linked \cap freed = {}
         /\ \A n \in linked : Scheduled(n) => loadedAt[t] <= stamp[n] + 1
<1> USE DEF ReclamationInvariant, ListsInvariant
<1>1. linked \cap freed = {}
  BY DEF ListsAreOrdered
<1>2. ASSUME NEW n \in linked, Scheduled(n) PROVE loadedAt[t] <= stamp[n] + 1
  <2>1. PICK u \in Threads, e \in Epochs : n \in lists[u][e]
    BY <1>2 DEF Scheduled
  <2>2. n \in locked[u] /\ stamp[n] = loadedAt[u]
    BY <2>1 DEF ListsAreOrdered
  <2>3. pc[u] = "inside"
    BY <2>2 DEF EpochsFollowClock
  <2>4. local[u] = seen[u] /\ seen[u] \in Epochs
    BY <2>3 DEF EpochsFollowClock, TypeOK
  <2>5. clock <= loadedAt[u] + 1
    BY <2>4 DEF EpochWaits, Registered, Epochs, NotInEpoch
  <2>6. loadedAt[t] <= clock /\ loadedAt[t] \in Nat /\ loadedAt[u] \in Nat /\ clock \in Nat
    BY DEF EpochsFollowClock, TypeOK
  <2> QED
    BY <2>2, <2>5, <2>6
<1> QED
  BY <1>1, <1>2

\* The list a thread frees: no thread may hold one of its nodes any more, since
\* the epoch has moved on by three since they were scheduled.
LEMMA FreedNodesAreNotHeld ==
  ASSUME ReclamationInvariant, NEW t \in Threads, pc[t] = "loaded", prev[t] # seen[t],
         NEW n \in lists[t][seen[t]]
  PROVE  n \notin linked /\ \A r \in Threads : n \notin mayHold[r]
<1> USE DEF ReclamationInvariant, ListsInvariant
<1>1. seen[t] \in Epochs /\ n \in Nodes
  BY DEF TypeOK
<1>2. n \notin linked
  <2>1. SUFFICES ASSUME n \in linked PROVE FALSE
    OBVIOUS
  <2>2. n \in locked[t]
    BY <1>1, <2>1 DEF ListsAreOrdered
  <2> QED
    BY <2>2 DEF EpochsFollowClock
<1>3. /\ stamp[n] \in Nat /\ enteredAt[t] \in Nat /\ loadedAt[t] \in Nat /\ clock \in Nat
      /\ stamp[n] % 3 = seen[t] /\ stamp[n] <= enteredAt[t]
      /\ seen[t] = loadedAt[t] % 3
      /\ enteredAt[t] <= loadedAt[t] /\ loadedAt[t] <= clock
      /\ prev[t] = enteredAt[t] % 3
  <2>1. stamp[n] % 3 = seen[t] /\ stamp[n] <= enteredAt[t] /\ prev[t] # NotInEpoch
    BY <1>1 DEF ListsAreOrdered
  <2> QED
    BY <1>1, <2>1 DEF EpochsFollowClock, TypeOK
<1>4. stamp[n] + 3 <= clock
  <2>1. stamp[n] # enteredAt[t]
    BY <1>3
  <2>2. stamp[n] < loadedAt[t]
    BY <1>3, <2>1
  <2>3. stamp[n] + 3 <= loadedAt[t]
    BY <1>3, <2>2, ModuloGap
  <2> QED
    BY <1>3, <2>3
<1>5. ASSUME NEW r \in Threads, n \in mayHold[r] PROVE FALSE
  <2>1. Scheduled(n)
    BY <1>1 DEF Scheduled
  <2>2. loadedAt[r] <= stamp[n] + 1
    BY <1>5, <2>1 DEF GracePeriod
  <2>3. pc[r] = "inside"
    BY <1>5 DEF EpochsFollowClock
  <2>4. local[r] = seen[r] /\ seen[r] \in Epochs /\ loadedAt[r] \in Nat
    BY <2>3 DEF EpochsFollowClock, TypeOK
  <2>5. clock <= loadedAt[r] + 1
    BY <2>4 DEF EpochWaits, Registered, Epochs, NotInEpoch
  <2> QED
    BY <1>3, <1>4, <2>2, <2>4, <2>5
<1> QED
  BY <1>2, <1>5


\* freeForEpoch empties one list; what was on it is on no other list and not
\* linked any more.
LEMMA FreeKeepsLists ==
  ASSUME ReclamationInvariant, NEW t \in Threads, FreeForEpoch(t)
  PROVE  ListsAreOrdered'
<1> USE DEF ReclamationInvariant, ListsInvariant
<1>0. TypeOK /\ EpochsFollowClock /\ ListsAreOrdered
  OBVIOUS
<1>1. UNCHANGED << linked, locked, stamp, loadedAt >> /\ pc[t] = "loaded"
  BY DEF FreeForEpoch
<1>2. /\ enteredAt' = [enteredAt EXCEPT ![t] = loadedAt[t]]
      /\ \A u \in Threads : enteredAt[u] <= enteredAt'[u]
      /\ \A u \in Threads : prev[u] # NotInEpoch => prev'[u] # NotInEpoch
  <2>1. enteredAt' = [enteredAt EXCEPT ![t] = loadedAt[t]]
    BY DEF FreeForEpoch
  <2>2. enteredAt[t] <= loadedAt[t] /\ seen[t] # NotInEpoch
    BY <1>0 DEF EpochsFollowClock, TypeOK, Epochs, NotInEpoch
  <2>3. \A u \in Threads : enteredAt[u] \in Nat
    BY <1>0 DEF TypeOK
  <2>4. \A u \in Threads : enteredAt[u] <= enteredAt'[u]
    BY <1>0, <2>1, <2>2, <2>3 DEF TypeOK
  <2>5. \A u \in Threads : prev[u] # NotInEpoch => prev'[u] # NotInEpoch
    BY <1>0, <2>2 DEF FreeForEpoch, TypeOK
  <2> QED
    BY <2>1, <2>4, <2>5
<1>3. CASE prev[t] = seen[t]
  <2>1. UNCHANGED << lists, freed, prev >>
    BY <1>3 DEF FreeForEpoch
  <2>2. ASSUME NEW u \in Threads, NEW e \in Epochs, NEW n \in lists[u][e]
        PROVE  stamp[n] <= enteredAt'[u]
    <3>1. stamp[n] <= enteredAt[u]
      BY <1>0 DEF ListsAreOrdered
    <3>2. stamp[n] \in Nat /\ enteredAt[u] \in Nat /\ enteredAt'[u] \in Nat
      BY <1>0, <1>2 DEF TypeOK
    <3> QED
      BY <1>2, <3>1, <3>2
  <2> QED
    BY <1>0, <1>1, <1>2, <2>1, <2>2 DEF ListsAreOrdered, Scheduled
<1>4. CASE prev[t] # seen[t]
  <2>1. /\ freed' = freed \cup lists[t][seen[t]]
        /\ lists' = [lists EXCEPT ![t][seen[t]] = {}]
        /\ seen[t] \in Epochs
    BY <1>0, <1>4 DEF FreeForEpoch, TypeOK
  <2>2. \A n \in lists[t][seen[t]] : n \notin linked
    BY <1>1, <1>4, FreedNodesAreNotHeld
  <2>3. \A u \in Threads, e \in Epochs :
          lists'[u][e] = IF u = t /\ e = seen[t] THEN {} ELSE lists[u][e]
    BY <1>0, <2>1 DEF TypeOK
  <2>4. linked' \cap freed' = {}
    BY <1>0, <1>1, <2>1, <2>2 DEF ListsAreOrdered
  <2>5. ASSUME NEW u \in Threads, NEW e \in Epochs, NEW n \in lists'[u][e]
        PROVE  /\ stamp'[n] % 3 = e /\ stamp'[n] <= enteredAt'[u]
               /\ prev'[u] # NotInEpoch
               /\ n \in linked' => n \in locked'[u] /\ stamp'[n] = loadedAt'[u]
    <3>1. n \in lists[u][e] /\ ~(u = t /\ e = seen[t])
      BY <2>3, <2>5
    <3>4. stamp[n] % 3 = e /\ stamp[n] <= enteredAt[u] /\ prev[u] # NotInEpoch
      BY <1>0, <3>1 DEF ListsAreOrdered
    <3>5. stamp[n] <= enteredAt'[u]
      <4>1. stamp[n] \in Nat /\ enteredAt[u] \in Nat /\ enteredAt'[u] \in Nat
        BY <1>0, <1>2, <3>1 DEF TypeOK
      <4> QED
        BY <1>2, <3>4, <4>1
    <3>6. n \in linked => n \in locked[u] /\ stamp[n] = loadedAt[u]
      BY <1>0, <3>1 DEF ListsAreOrdered
    <3> QED
      BY <1>1, <1>2, <3>1, <3>4, <3>5, <3>6
  <2> QED
    BY <2>4, <2>5 DEF ListsAreOrdered
<1> QED
  BY <1>3, <1>4


\* scheduleForDeletion puts a node on the list of the thread's own epoch.
LEMMA ScheduleKeepsLists ==
  ASSUME ReclamationInvariant, NEW t \in Threads, NEW m \in Nodes, ScheduleForDeletion(t, m)
  PROVE  ListsAreOrdered'
<1> USE DEF ReclamationInvariant, ListsInvariant
<1>0. TypeOK /\ EpochsFollowClock /\ ListsAreOrdered
  OBVIOUS
<1>1. /\ UNCHANGED << linked, locked, freed, loadedAt, enteredAt, prev, local >>
      /\ pc[t] = "inside" /\ m \in locked[t] \ marked[t]
      /\ lists' = [lists EXCEPT ![t][local[t]] = @ \cup {m}]
      /\ stamp' = [stamp EXCEPT ![m] = loadedAt[t]]
  BY DEF ScheduleForDeletion
<1>2. /\ local[t] = seen[t] /\ seen[t] \in Epochs /\ seen[t] = loadedAt[t] % 3
      /\ enteredAt[t] = loadedAt[t] /\ loadedAt[t] \in Nat
      /\ prev[t] = seen[t] /\ seen[t] # NotInEpoch
  BY <1>0, <1>1 DEF EpochsFollowClock, InEnter, TypeOK, Epochs, NotInEpoch
<1>3. \A u \in Threads, e \in Epochs :
        lists'[u][e] = IF u = t /\ e = seen[t] THEN lists[u][e] \cup {m} ELSE lists[u][e]
  BY <1>0, <1>1, <1>2 DEF TypeOK
<1>4. \A u \in Threads, e \in Epochs : m \notin lists[u][e]
  BY <1>1 DEF LocksProtectNodes, Scheduled
<1>6. /\ \A n \in Nodes \ {m} : stamp'[n] = stamp[n]
      /\ stamp'[m] = loadedAt[t]
  BY <1>0, <1>1 DEF TypeOK
<1>7. ASSUME NEW u \in Threads, NEW e \in Epochs, NEW n \in lists'[u][e]
      PROVE  /\ stamp'[n] % 3 = e /\ stamp'[n] <= enteredAt'[u]
             /\ prev'[u] # NotInEpoch
             /\ n \in linked' => n \in locked'[u] /\ stamp'[n] = loadedAt'[u]
  <2>1. CASE n = m
    <3>1. u = t /\ e = seen[t]
      BY <1>3, <1>4, <1>7, <2>1
    <3> QED
      BY <1>1, <1>2, <1>6, <2>1, <3>1
  <2>2. CASE n # m
    <3>1. n \in lists[u][e] /\ n \in Nodes
      <4>1. lists'[u][e] \subseteq lists[u][e] \cup {m}
        BY <1>3
      <4>2. lists[u][e] \in SUBSET Nodes
        BY <1>0 DEF TypeOK
      <4> QED
        BY <1>7, <2>2, <4>1, <4>2
    <3>3. /\ stamp[n] % 3 = e /\ stamp[n] <= enteredAt[u]
          /\ prev[u] # NotInEpoch
          /\ n \in linked => n \in locked[u] /\ stamp[n] = loadedAt[u]
      BY <1>0, <3>1 DEF ListsAreOrdered
    <3>4. stamp'[n] = stamp[n]
      BY <1>6, <2>2, <3>1
    <3> QED
      BY <1>1, <3>3, <3>4
  <2> QED
    BY <2>1, <2>2
<1>9. linked' \cap freed' = {}
  BY <1>0, <1>1 DEF ListsAreOrdered
<1> QED
  BY <1>7, <1>9 DEF ListsAreOrdered

\* The free lists stay in order.
LEMMA ListsStep == ReclamationInvariant /\ Next => ListsAreOrdered'
<1> SUFFICES ASSUME ReclamationInvariant, NEW t \in Threads, Step(t) PROVE ListsAreOrdered'
  BY DEF Next
<1>0. TypeOK /\ EpochsFollowClock /\ ListsAreOrdered
  BY DEF ReclamationInvariant, ListsInvariant
<1>1. ASSUME UNCHANGED << lists, freed, prev, enteredAt, linked, locked, stamp, loadedAt >>
      PROVE  ListsAreOrdered'
  BY <1>0, <1>1 DEF ListsAreOrdered, Scheduled
<1>2. CASE LoadEpoch(t)
  <2>1. locked[t] = {} /\ UNCHANGED << lists, freed, prev, enteredAt, linked, locked, stamp >>
    BY <1>0, <1>2 DEF LoadEpoch, EpochsFollowClock, nodeVars
  <2>2. \A u \in Threads \ {t} : loadedAt'[u] = loadedAt[u]
    BY <1>0, <1>2 DEF LoadEpoch, TypeOK
  <2> QED
    BY <1>0, <2>1, <2>2 DEF ListsAreOrdered, Scheduled
<1>3. CASE FreeForEpoch(t)
  BY <1>3, FreeKeepsLists
<1>4. CASE StoreLocalEpoch(t) \/ CanAdvance(t) \/ AdvanceEpoch(t) \/ LeaveCriticalSection(t)
  BY <1>1, <1>4 DEF StoreLocalEpoch, CanAdvance, AdvanceEpoch, LeaveCriticalSection
<1>5. ASSUME NEW m \in Nodes, LockNode(t, m) \/ UnlinkNode(t, m) \/ UnlockNode(t, m)
      PROVE  ListsAreOrdered'
  <2>1. /\ UNCHANGED << lists, freed, prev, enteredAt, stamp, loadedAt >>
        /\ linked' \subseteq linked
        /\ \A u \in Threads, n \in linked' : n \in locked[u] => n \in locked'[u]
    <3>1. CASE LockNode(t, m)
      BY <1>0, <3>1 DEF LockNode, codeVars, TypeOK
    <3>2. CASE UnlinkNode(t, m)
      BY <1>0, <3>2 DEF UnlinkNode, codeVars
    <3>3. CASE UnlockNode(t, m)
      <4>1. /\ UNCHANGED << lists, freed, prev, enteredAt, stamp, loadedAt, linked >>
            /\ m \notin linked
        BY <1>0, <3>3 DEF UnlockNode, codeVars, TypeOK
      <4>2. \A u \in Threads : locked'[u] = IF u = t THEN locked[u] \ {m} ELSE locked[u]
        BY <1>0, <3>3 DEF UnlockNode, TypeOK
      <4> QED
        BY <4>1, <4>2
    <3> QED
      BY <1>5, <3>1, <3>2, <3>3
  <2> QED
    BY <1>0, <2>1 DEF ListsAreOrdered, Scheduled, TypeOK
<1>6. ASSUME NEW m \in Nodes, ScheduleForDeletion(t, m) PROVE ListsAreOrdered'
  BY <1>6, ScheduleKeepsLists
<1> QED
  BY <1>2, <1>3, <1>4, <1>5, <1>6 DEF Step


\* Whoever may hold a scheduled node entered no later than one epoch after it
\* was scheduled, and nobody may hold a freed node.
LEMMA GraceStep ==
  ASSUME ReclamationInvariant, Next
  PROVE  GracePeriod' /\ NoUseAfterFree'
<1> SUFFICES ASSUME NEW t \in Threads, Step(t) PROVE GracePeriod' /\ NoUseAfterFree'
  BY DEF Next
<1>0. /\ TypeOK /\ EpochsFollowClock /\ ListsAreOrdered
      /\ GracePeriod /\ NoUseAfterFree /\ EpochWaits
  BY DEF ReclamationInvariant, ListsInvariant
<1>1. ASSUME UNCHANGED << lists, stamp, freed, loadedAt >>,
             \A r \in Threads : mayHold'[r] \subseteq mayHold[r]
      PROVE  GracePeriod' /\ NoUseAfterFree'
  BY <1>0, <1>1 DEF GracePeriod, NoUseAfterFree, Scheduled
<1>2. ASSUME UNCHANGED << lists, stamp, freed, loadedAt >>,
             mayHold' = [mayHold EXCEPT ![t] = linked]
      PROVE  GracePeriod' /\ NoUseAfterFree'
  <2>1. /\ linked \cap freed = {}
        /\ \A n \in linked : Scheduled(n) => loadedAt[t] <= stamp[n] + 1
    BY StartReadingIsSafe
  <2>2. \A r \in Threads : mayHold'[r] = IF r = t THEN linked ELSE mayHold[r]
    BY <1>0, <1>2 DEF TypeOK
  <2> QED
    BY <1>0, <1>2, <2>1, <2>2 DEF GracePeriod, NoUseAfterFree, Scheduled
<1>3. CASE LoadEpoch(t)
  <2>1. mayHold[t] = {} /\ UNCHANGED << lists, stamp, freed, mayHold >>
    BY <1>0, <1>3 DEF LoadEpoch, EpochsFollowClock, nodeVars
  <2>2. \A u \in Threads \ {t} : loadedAt'[u] = loadedAt[u]
    BY <1>0, <1>3 DEF LoadEpoch, TypeOK
  <2> QED
    BY <1>0, <2>1, <2>2 DEF GracePeriod, NoUseAfterFree, Scheduled
<1>4. CASE FreeForEpoch(t)
  <2>1. CASE prev[t] = seen[t]
    BY <1>1, <1>4, <2>1 DEF FreeForEpoch
  <2>2. CASE prev[t] # seen[t]
    <3>1. /\ UNCHANGED << stamp, loadedAt, mayHold >>
          /\ freed' = freed \cup lists[t][seen[t]]
          /\ lists' = [lists EXCEPT ![t][seen[t]] = {}]
          /\ pc[t] = "loaded" /\ seen[t] \in Epochs
      BY <1>0, <1>4, <2>2 DEF FreeForEpoch, TypeOK
    <3>2. \A n \in lists[t][seen[t]] : \A r \in Threads : n \notin mayHold[r]
      BY <2>2, <3>1, FreedNodesAreNotHeld
    <3>3. \A u \in Threads, e \in Epochs : lists'[u][e] \subseteq lists[u][e]
      BY <1>0, <3>1 DEF TypeOK
    <3>4. \A n : Scheduled(n)' => Scheduled(n)
      BY <3>3 DEF Scheduled
    <3> QED
      BY <1>0, <3>1, <3>2, <3>4 DEF GracePeriod, NoUseAfterFree
  <2> QED
    BY <2>1, <2>2
<1>5. CASE StoreLocalEpoch(t)
  BY <1>1, <1>2, <1>5 DEF StoreLocalEpoch, StartReading
<1>6. CASE CanAdvance(t)
  BY <1>1, <1>2, <1>6 DEF CanAdvance, StartReading
<1>7. CASE AdvanceEpoch(t)
  BY <1>2, <1>7 DEF AdvanceEpoch, StartReading
<1>8. ASSUME NEW m \in Nodes, LockNode(t, m) \/ UnlinkNode(t, m) \/ UnlockNode(t, m)
      PROVE  GracePeriod' /\ NoUseAfterFree'
  BY <1>1, <1>8 DEF LockNode, UnlinkNode, UnlockNode, codeVars
<1>9. ASSUME NEW m \in Nodes, ScheduleForDeletion(t, m) PROVE GracePeriod' /\ NoUseAfterFree'
  <2>1. /\ UNCHANGED << loadedAt, mayHold, freed >>
        /\ pc[t] = "inside"
        /\ lists' = [lists EXCEPT ![t][local[t]] = @ \cup {m}]
        /\ stamp' = [stamp EXCEPT ![m] = loadedAt[t]]
    BY <1>9 DEF ScheduleForDeletion
  <2>2. local[t] = seen[t] /\ seen[t] \in Epochs
    BY <1>0, <2>1 DEF EpochsFollowClock, TypeOK
  <2>3. clock <= loadedAt[t] + 1
    BY <1>0, <2>2 DEF EpochWaits, Registered, Epochs, NotInEpoch
  <2>4. ASSUME NEW r \in Threads PROVE loadedAt[r] <= loadedAt[t] + 1
    <3>1. loadedAt[r] <= clock
      BY <1>0 DEF EpochsFollowClock
    <3>2. loadedAt[r] \in Nat /\ loadedAt[t] \in Nat /\ clock \in Nat
      BY <1>0 DEF TypeOK
    <3> QED
      BY <2>3, <3>1, <3>2
  <2>5. \A n \in Nodes : n # m /\ Scheduled(n)' => Scheduled(n) /\ stamp'[n] = stamp[n]
    <3>1. \A u \in Threads, e \in Epochs : lists'[u][e] \subseteq lists[u][e] \cup {m}
      BY <1>0, <2>1, <2>2 DEF TypeOK
    <3> QED
      BY <1>0, <2>1, <3>1 DEF Scheduled, TypeOK
  <2>6. stamp'[m] = loadedAt[t] /\ \A r \in Threads : mayHold[r] \subseteq Nodes
    BY <1>0, <2>1 DEF TypeOK
  <2> QED
    BY <1>0, <2>1, <2>4, <2>5, <2>6 DEF GracePeriod, NoUseAfterFree
<1>10. CASE LeaveCriticalSection(t)
  <2>1. \A r \in Threads : mayHold'[r] \subseteq mayHold[r]
    BY <1>0, <1>10 DEF LeaveCriticalSection, TypeOK
  <2> QED
    BY <1>1, <1>10, <2>1 DEF LeaveCriticalSection
<1> QED
  BY <1>3, <1>4, <1>5, <1>6, <1>7, <1>8, <1>9, <1>10 DEF Step

\* The compare-and-swap advances the epoch only if it is still the one that the
\* thread has seen, and then every registered thread is in that epoch.
LEMMA AdvanceIsAwaited ==
  ASSUME ReclamationInvariant, NEW t \in Threads, pc[t] = "advance", epoch = seen[t]
  PROVE  loadedAt[t] = clock /\ \A u \in Threads : Registered(u) => loadedAt[u] = clock
<1>0. TypeOK /\ EpochsFollowClock /\ EpochWaits /\ ScansAreSound
  BY DEF ReclamationInvariant, ListsInvariant
<1>1. loadedAt[t] \in Nat /\ clock \in Nat /\ loadedAt[t] <= clock
  BY <1>0 DEF TypeOK, EpochsFollowClock
<1>2. Registered(t)
  BY <1>0 DEF EpochsFollowClock, TypeOK, Registered, Epochs, NotInEpoch
<1>3. clock <= loadedAt[t] + 1
  BY <1>0, <1>2 DEF EpochWaits
<1>4. clock % 3 = loadedAt[t] % 3
  BY <1>0 DEF EpochsFollowClock
<1>5. loadedAt[t] = clock
  BY <1>1, <1>3, <1>4, ModuloGap
<1> QED
  BY <1>0, <1>5 DEF ScansAreSound

\* A thread that canAdvance passes over while the epoch is the one that the
\* scanning thread has seen is not in the epoch before.
LEMMA PassedIsCurrent ==
  ASSUME ReclamationInvariant, NEW t \in Threads, NEW u \in Threads, loadedAt[t] = clock,
         Registered(u), ~HoldsBack(t, u)
  PROVE  loadedAt[u] = clock
<1>0. TypeOK /\ EpochsFollowClock /\ EpochWaits
  BY DEF ReclamationInvariant, ListsInvariant
<1>1. loadedAt[u] \in Nat /\ clock \in Nat /\ loadedAt[u] <= clock /\ clock <= loadedAt[u] + 1
  BY <1>0 DEF TypeOK, EpochsFollowClock, EpochWaits
<1>2. local[u] = loadedAt[u] % 3 /\ seen[t] = clock % 3
  BY <1>0 DEF EpochsFollowClock, Registered
<1>3. local[u] # PreviousEpoch(seen[t])
  BY DEF HoldsBack
<1>4. PreviousEpoch((loadedAt[u] + 1) % 3) = loadedAt[u] % 3
  BY <1>1 DEF PreviousEpoch
<1> QED
  BY <1>1, <1>2, <1>3, <1>4

\* The epoch waits for every registered thread, because canAdvance does: all
\* that the timing assumption adds is that a thread that was passed over while it
\* was entering registers in the current epoch.
LEMMA EpochWaitsStep ==
  ASSUME ReclamationInvariant, Next, StoresInTime
  PROVE  EpochWaits' /\ ScansAreSound'
<1> SUFFICES ASSUME NEW t \in Threads, Step(t) PROVE EpochWaits' /\ ScansAreSound'
  BY DEF Next
<1>0. TypeOK /\ EpochsFollowClock /\ EpochWaits /\ ScansAreSound
  BY DEF ReclamationInvariant, ListsInvariant
<1> USE DEF EpochWaits, ScansAreSound, Registered, Goto
<1>1. ASSUME UNCHANGED << clock, loadedAt, unscanned >>,
             \A u \in Threads : local'[u] \in {local[u], NotInEpoch},
             \A u \in Threads : pc'[u] \in {"scan", "advance"} => pc'[u] = pc[u]
      PROVE  EpochWaits' /\ ScansAreSound'
  BY <1>0, <1>1
<1>2. CASE LoadEpoch(t)
  <2>1. /\ UNCHANGED << clock, local, unscanned >>
        /\ pc' = [pc EXCEPT ![t] = "loaded"]
        /\ \A u \in Threads \ {t} : loadedAt'[u] = loadedAt[u]
        /\ ~Registered(t)
    BY <1>0, <1>2 DEF LoadEpoch, TypeOK, EpochsFollowClock
  <2>2. EpochWaits'
    BY <1>0, <2>1
  <2>3. \A u \in Threads : pc'[u] \in {"scan", "advance"} => u # t /\ pc'[u] = pc[u]
    BY <1>0, <2>1 DEF TypeOK
  <2>4. ScansAreSound'
    BY <1>0, <2>1, <2>3
  <2> QED
    BY <2>2, <2>4
<1>3. CASE FreeForEpoch(t)
  <2>1. \A u \in Threads : pc'[u] \in {"scan", "advance"} => pc'[u] = pc[u]
    BY <1>0, <1>3 DEF FreeForEpoch, TypeOK
  <2> QED
    BY <1>1, <1>3, <2>1 DEF FreeForEpoch
<1>4. CASE StoreLocalEpoch(t)
  <2>1. /\ UNCHANGED << clock, loadedAt >>
        /\ local' = [local EXCEPT ![t] = seen[t]]
        /\ \A u \in Threads \ {t} : pc'[u] = pc[u] /\ unscanned'[u] = unscanned[u]
        /\ pc'[t] = "inside" \/ (pc'[t] = "scan" /\ unscanned'[t] = Threads)
    BY <1>0, <1>4 DEF StoreLocalEpoch, StartReading, TypeOK
  <2>2. loadedAt[t] = clock
    <3>1. local[t] = NotInEpoch /\ seen[t] # NotInEpoch
      BY <1>0, <1>4 DEF StoreLocalEpoch, EpochsFollowClock, TypeOK, Epochs, NotInEpoch
    <3> QED
      BY <1>0, <2>1, <3>1 DEF StoresInTime, TypeOK
  <2>3. clock \in Nat
    BY <1>0 DEF TypeOK
  <2>4. \A u \in Threads \ {t} : local'[u] = local[u]
    BY <1>0, <2>1 DEF TypeOK
  <2> QED
    BY <1>0, <2>1, <2>2, <2>3, <2>4
<1>5. CASE CanAdvance(t)
  <2>1. UNCHANGED << clock, loadedAt, local >> /\ pc[t] = "scan"
    BY <1>5 DEF CanAdvance
  <2>2. PICK u \in unscanned[t] :
          \/ pc' = [pc EXCEPT ![t] = "inside"] /\ UNCHANGED unscanned
          \/ /\ ~HoldsBack(t, u)
             /\ unscanned' = [unscanned EXCEPT ![t] = @ \ {u}]
             /\ IF unscanned[t] = {u} THEN pc' = [pc EXCEPT ![t] = "advance"] ELSE UNCHANGED pc
    BY <1>5 DEF CanAdvance, StartReading
  <2>3. CASE pc' = [pc EXCEPT ![t] = "inside"] /\ UNCHANGED unscanned
    BY <1>0, <2>1, <2>3 DEF TypeOK
  <2>4. CASE /\ ~HoldsBack(t, u)
             /\ unscanned' = [unscanned EXCEPT ![t] = @ \ {u}]
             /\ IF unscanned[t] = {u} THEN pc' = [pc EXCEPT ![t] = "advance"] ELSE UNCHANGED pc
    <3>1. u \in Threads /\ unscanned'[t] = unscanned[t] \ {u}
      BY <1>0, <2>4 DEF TypeOK
    <3>2. pc'[t] \in {"scan", "advance"} /\ (pc'[t] = "advance" => unscanned'[t] = {})
      BY <1>0, <2>1, <2>4, <3>1 DEF TypeOK
    <3>3. \A v \in Threads \ {t} : pc'[v] = pc[v] /\ unscanned'[v] = unscanned[v]
      BY <1>0, <2>4 DEF TypeOK
    <3>4. loadedAt[t] = clock /\ Registered(u) => loadedAt[u] = clock
      BY <2>4, <3>1, PassedIsCurrent
    <3>5. loadedAt[t] = clock =>
            \A v \in Threads \ unscanned'[t] : Registered(v) => loadedAt[v] = clock
      BY <1>0, <2>1, <3>1, <3>4
    <3> QED
      BY <1>0, <2>1, <3>2, <3>3, <3>5
  <2> QED
    BY <2>2, <2>3, <2>4
<1>6. CASE AdvanceEpoch(t)
  <2>1. /\ UNCHANGED << loadedAt, local, unscanned >> /\ pc[t] = "advance"
        /\ pc' = [pc EXCEPT ![t] = "inside"]
    BY <1>6 DEF AdvanceEpoch, StartReading
  <2>2. CASE epoch = seen[t]
    <3>1. clock' = clock + 1 /\ clock \in Nat /\ \A u \in Threads : loadedAt[u] \in Nat
      BY <1>0, <1>6, <2>2 DEF AdvanceEpoch, TypeOK
    <3>2. \A u \in Threads : Registered(u) => loadedAt[u] = clock
      BY <2>1, <2>2, AdvanceIsAwaited
    <3>3. \A u \in Threads : loadedAt[u] # clock'
      <4>1. \A u \in Threads : loadedAt[u] <= clock
        BY <1>0 DEF EpochsFollowClock
      <4> QED
        BY <3>1, <4>1
    <3>4. EpochWaits'
      BY <2>1, <3>1, <3>2
    <3>5. ScansAreSound'
      BY <1>0, <2>1, <3>3 DEF TypeOK
    <3> QED
      BY <3>4, <3>5
  <2>3. CASE epoch # seen[t]
    <3>1. UNCHANGED clock
      BY <1>6, <2>3 DEF AdvanceEpoch
    <3> QED
      BY <1>0, <2>1, <3>1 DEF TypeOK
  <2> QED
    BY <2>2, <2>3
<1>7. ASSUME NEW n \in Nodes, LockNode(t, n) \/ UnlinkNode(t, n) \/ UnlockNode(t, n)
      PROVE  EpochWaits' /\ ScansAreSound'
  BY <1>1, <1>7 DEF LockNode, UnlinkNode, UnlockNode, codeVars
<1>8. ASSUME NEW n \in Nodes, ScheduleForDeletion(t, n) PROVE EpochWaits' /\ ScansAreSound'
  BY <1>1, <1>8 DEF ScheduleForDeletion
<1>9. CASE LeaveCriticalSection(t)
  <2>1. /\ \A u \in Threads : local'[u] \in {local[u], NotInEpoch}
        /\ \A u \in Threads : pc'[u] \in {"scan", "advance"} => pc'[u] = pc[u]
    BY <1>0, <1>9 DEF LeaveCriticalSection, TypeOK
  <2> QED
    BY <1>1, <1>9, <2>1 DEF LeaveCriticalSection
<1> QED
  BY <1>2, <1>3, <1>4, <1>5, <1>6, <1>7, <1>8, <1>9 DEF Step

\* The invariant is preserved by every step that respects the timing
\* assumption.
LEMMA ReclamationStep ==
  ReclamationInvariant /\ [Next /\ StoresInTime]_vars => ReclamationInvariant'
<1> SUFFICES ASSUME ReclamationInvariant, [Next /\ StoresInTime]_vars
             PROVE  ReclamationInvariant'
  OBVIOUS
<1>1. CASE Next /\ StoresInTime
  <2>1. ListsInvariant'
    BY <1>1, ListsInvariantStep DEF ReclamationInvariant, ListsInvariant
  <2> QED
    BY <1>1, <2>1, EpochWaitsStep, ListsStep, GraceStep DEF ReclamationInvariant, ListsInvariant
<1>2. CASE UNCHANGED vars
  <2>1. ListsInvariant'
    BY <1>2, ListsInvariantStep DEF ReclamationInvariant, ListsInvariant
  <2> QED
    BY <1>2, <2>1 DEF vars, codeVars, nodeVars, ReclamationInvariant, EpochWaits, ScansAreSound,
                      Registered, ListsAreOrdered, Scheduled, GracePeriod, NoUseAfterFree
<1> QED
  BY <1>1, <1>2

\* The inductive invariant of the reclamation scheme (enterCriticalSection,
\* scheduleForDeletion, leaveCriticalSection) holds in every behaviour in which a
\* thread's store of its local epoch takes effect before the epoch it has loaded
\* is over.
THEOREM ReclamationInvariantHolds == TimelySpec => []ReclamationInvariant
  BY ReclamationInit, ReclamationStep, PTL DEF TimelySpec

\* What canAdvance establishes: the epoch is never more than one ahead of a
\* registered thread, although the scan reads the local epochs one after the other
\* while threads enter and leave, and the compare-and-swap comes later.
THEOREM EpochWaitsForReaders == TimelySpec => []EpochWaits
<1>1. ReclamationInvariant => EpochWaits
  BY DEF ReclamationInvariant
<1> QED
  BY <1>1, ReclamationInvariantHolds, PTL

\* No thread can hold a pointer to a node that was freed, whatever the number
\* of threads and nodes, as long as the epoch that a thread stores is the current
\* one when the store takes effect; the rest of its stay is guarded by the scan of
\* canAdvance.
THEOREM ReclamationIsSafe == TimelySpec => []NoUseAfterFree
<1>1. ReclamationInvariant => NoUseAfterFree
  BY DEF ReclamationInvariant
<1> QED
  BY <1>1, ReclamationInvariantHolds, PTL

=============================================================================
