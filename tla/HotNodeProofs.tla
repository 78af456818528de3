---------------------------- MODULE HotNodeProofs ----------------------------
(***************************************************************************)
(* What the nodes of the height optimized trie stand for: a node           *)
(* represents an ascending sequence of keys, one for each entry, and its   *)
(* sparse partial keys are the bits at which these keys part, as far as    *)
(* they are set.  Searching a node finds the entry whose key agrees with   *)
(* the search key at these bits, and the copies that inserts and splits    *)
(* make represent the sequence with the new key, or one side of it.        *)
(*                                                                         *)
(* The second half is about what the nodes of the concurrent trie          *)
(* (HotRowex) have to do with each other.  Every node is given a sequence  *)
(* of keys that it represents, and everything below an entry follows the   *)
(* path to the entry and is lower than the node.  The lemmas show that the *)
(* nodes that inserts, splits and pull-ups build fit to the nodes they are *)
(* made from.                                                              *)
(***************************************************************************)
EXTENDS HotRowex, OrderTheorems, SequenceTheorems

-----------------------------------------------------------------------------
(* The bit at which two keys part                                          *)

PartAt(x, y) == GetMismatchingBit(x, y).bit

\* The keys agree in front of the bit.
AgreeBelow(x, y, b) == \A c \in Nat : c < b => (c \in x <=> c \in y)

\* Keys are sets of naturals.
LEMMA KeysAreSets == Bits \subseteq Nat /\ AllKeys \subseteq SUBSET Nat
BY KeyBitsAssumption DEF Bits, AllKeys

\* Different keys part at the first bit that is in one of them only.
LEMMA PartAtIs ==
  ASSUME NEW x \in SUBSET Nat, NEW y \in SUBSET Nat, x # y
  PROVE  /\ PartAt(x, y) \in Nat
         /\ PartAt(x, y) \in x <=> PartAt(x, y) \notin y
         /\ AgreeBelow(x, y, PartAt(x, y))
         /\ GetMismatchingBit(x, y).value = (PartAt(x, y) \in y)
<1> DEFINE differing == (x \ y) \cup (y \ x)
<1>1. differing \subseteq Nat /\ differing # {}
  OBVIOUS
<1>2. PartAt(x, y) = Min(differing) /\ GetMismatchingBit(x, y).value = (Min(differing) \in y)
  BY DEF PartAt, GetMismatchingBit
<1>3. Min(differing) \in differing /\ \A c \in differing : Min(differing) <= c
  BY <1>1, MinIsLeast
<1>4. AgreeBelow(x, y, Min(differing))
  <2> SUFFICES ASSUME NEW c \in Nat, c < Min(differing) PROVE c \in x <=> c \in y
    BY DEF AgreeBelow
  <2> HIDE DEF differing
  <2>1. Min(differing) \in Nat
    BY <1>1, <1>3
  <2>2. c \notin differing
    BY <1>3, <2>1
  <2> QED BY <2>2 DEF differing
<1> HIDE DEF differing
<1>5. Min(differing) \in Nat
  BY <1>1, <1>3
<1>6. Min(differing) \in x <=> Min(differing) \notin y
  BY <1>3 DEF differing
<1> QED BY <1>2, <1>4, <1>5, <1>6

\* That bit is the only one with this property.
LEMMA PartAtIsUnique ==
  ASSUME NEW x \in SUBSET Nat, NEW y \in SUBSET Nat, NEW b \in Nat,
         b \in x <=> b \notin y, AgreeBelow(x, y, b)
  PROVE  x # y /\ PartAt(x, y) = b
<1>1. x # y
  OBVIOUS
<1>2. /\ PartAt(x, y) \in Nat
      /\ PartAt(x, y) \in x <=> PartAt(x, y) \notin y
      /\ AgreeBelow(x, y, PartAt(x, y))
  BY <1>1, PartAtIs
<1>3. ~(b < PartAt(x, y)) /\ ~(PartAt(x, y) < b)
  BY <1>2 DEF AgreeBelow
<1> QED BY <1>1, <1>2, <1>3

\* It does not matter which of the two comes first.
LEMMA PartAtSymmetric ==
  ASSUME NEW x \in SUBSET Nat, NEW y \in SUBSET Nat, x # y
  PROVE  PartAt(x, y) = PartAt(y, x)
<1>1. /\ PartAt(x, y) \in Nat
      /\ PartAt(x, y) \in y <=> PartAt(x, y) \notin x
      /\ AgreeBelow(y, x, PartAt(x, y))
  BY PartAtIs DEF AgreeBelow
<1> QED BY <1>1, PartAtIsUnique

\* Of three keys, two that part later than from the third part from it at the same bit.
LEMMA ThreeKeys ==
  ASSUME NEW x \in SUBSET Nat, NEW y \in SUBSET Nat, NEW z \in SUBSET Nat, x # y, y # z
  PROVE  /\ PartAt(x, y) < PartAt(y, z) => x # z /\ PartAt(x, z) = PartAt(x, y)
         /\ PartAt(y, z) < PartAt(x, y) => x # z /\ PartAt(x, z) = PartAt(y, z)
         /\ PartAt(x, y) = PartAt(y, z) /\ x # z => PartAt(x, z) > PartAt(x, y)
<1> DEFINE a == PartAt(x, y)
           b == PartAt(y, z)
<1>1. a \in Nat /\ (a \in x <=> a \notin y) /\ AgreeBelow(x, y, a)
  BY PartAtIs
<1>2. b \in Nat /\ (b \in y <=> b \notin z) /\ AgreeBelow(y, z, b)
  BY PartAtIs
<1> HIDE DEF a, b
<1>3. a < b => x # z /\ PartAt(x, z) = a
  <2> SUFFICES ASSUME a < b PROVE x # z /\ PartAt(x, z) = a
    OBVIOUS
  <2>1. (a \in x <=> a \notin z) /\ AgreeBelow(x, z, a)
    BY <1>1, <1>2 DEF AgreeBelow
  <2> QED BY <1>1, <2>1, PartAtIsUnique
<1>4. b < a => x # z /\ PartAt(x, z) = b
  <2> SUFFICES ASSUME b < a PROVE x # z /\ PartAt(x, z) = b
    OBVIOUS
  <2>1. (b \in x <=> b \notin z) /\ AgreeBelow(x, z, b)
    BY <1>1, <1>2 DEF AgreeBelow
  <2> QED BY <1>2, <2>1, PartAtIsUnique
<1>5. a = b /\ x # z => PartAt(x, z) > a
  <2> SUFFICES ASSUME a = b, x # z PROVE PartAt(x, z) > a
    OBVIOUS
  <2>1. /\ PartAt(x, z) \in Nat
        /\ PartAt(x, z) \in x <=> PartAt(x, z) \notin z
    BY PartAtIs
  <2>2. (a \in x <=> a \in z) /\ \A c \in Nat : c < a => (c \in x <=> c \in z)
    BY <1>1, <1>2 DEF AgreeBelow
  <2> QED BY <1>1, <2>1, <2>2
<1> QED BY <1>3, <1>4, <1>5 DEF a, b

\* The order of the keys is decided at the bit at which they part.
LEMMA KeyLessIs ==
  ASSUME NEW x \in SUBSET Nat, NEW y \in SUBSET Nat
  PROVE  KeyLess(x, y) <=> x # y /\ PartAt(x, y) \in y
BY PartAtIs DEF KeyLess

\* Keys in ascending order part from their neighbours at different bits.
LEMMA KeyLessIsTransitive ==
  ASSUME NEW x \in SUBSET Nat, NEW y \in SUBSET Nat, NEW z \in SUBSET Nat,
         KeyLess(x, y), KeyLess(y, z)
  PROVE  /\ KeyLess(x, z)
         /\ PartAt(x, y) # PartAt(y, z)
         /\ PartAt(x, z) = IF PartAt(x, y) < PartAt(y, z) THEN PartAt(x, y) ELSE PartAt(y, z)
<1> DEFINE a == PartAt(x, y)
           b == PartAt(y, z)
<1>1. x # y /\ y # z /\ a \in y /\ b \in z
  BY KeyLessIs
<1>2. a \in Nat /\ a \notin x /\ b \in Nat /\ b \notin y /\ AgreeBelow(x, y, a) /\ AgreeBelow(y, z, b)
  BY <1>1, PartAtIs
<1>3. a < b => x # z /\ PartAt(x, z) = a
  BY <1>1, ThreeKeys
<1>4. b < a => x # z /\ PartAt(x, z) = b
  BY <1>1, ThreeKeys
<1> HIDE DEF a, b
<1>5. a # b
  BY <1>1, <1>2
<1>6. a < b => a \in z
  BY <1>1, <1>2 DEF AgreeBelow
<1>7. x # z /\ PartAt(x, z) \in z
  BY <1>1, <1>2, <1>3, <1>4, <1>5, <1>6
<1>8. KeyLess(x, z)
  BY <1>7, KeyLessIs
<1>9. PartAt(x, z) = IF a < b THEN a ELSE b
  BY <1>2, <1>3, <1>4, <1>5
<1> QED BY <1>5, <1>8, <1>9 DEF a, b

-----------------------------------------------------------------------------
(* The keys a node represents                                              *)

\* Keys in the order of the trie.
Ascending(reps) ==
  /\ reps \in Seq(AllKeys)
  /\ \A i, j \in DOMAIN reps : i < j => KeyLess(reps[i], reps[j])

\* The bits at which the path to an entry turns, and those at which it turns right.
PathBits(reps, e) == { PartAt(reps[e], reps[f]) : f \in DOMAIN reps \ {e} }
PartialKey(reps, e) == PathBits(reps, e) \cap reps[e]

\* A function and nothing else, for the sequences and records below.
IsFunction(s) == s = [i \in DOMAIN s |-> s[i]]

\* One key for every entry, and the partial keys that lead to the entries.
Represents(node, reps) ==
  /\ Ascending(reps)
  /\ node.keys = [e \in 1 .. Len(reps) |-> PartialKey(reps, e)]
  /\ DOMAIN node.ptrs = 1 .. Len(reps) /\ Len(node.ptrs) = Len(reps) /\ IsFunction(node.ptrs)

\* The bit at which two entries part.
Turn(reps, e, f) == PartAt(reps[e], reps[f])

\* The entries are counted from one, and their keys are keys.
LEMMA EntriesAre ==
  ASSUME NEW reps, Ascending(reps)
  PROVE  /\ Len(reps) \in Nat /\ DOMAIN reps = 1 .. Len(reps)
         /\ \A e \in DOMAIN reps : e \in Nat /\ reps[e] \in AllKeys /\ reps[e] \in SUBSET Nat
<1>1. Len(reps) \in Nat /\ DOMAIN reps = 1 .. Len(reps)
  BY DEF Ascending
<1>2. ASSUME NEW e \in DOMAIN reps PROVE e \in Nat /\ reps[e] \in AllKeys
  BY DEF Ascending
<1> QED BY <1>1, <1>2, KeysAreSets

\* Two entries part at one bit.
LEMMA TurnIs ==
  ASSUME NEW reps, Ascending(reps), NEW e \in DOMAIN reps, NEW f \in DOMAIN reps, e # f
  PROVE  /\ reps[e] \in SUBSET Nat /\ reps[f] \in SUBSET Nat /\ reps[e] # reps[f]
         /\ Turn(reps, e, f) \in Nat /\ Turn(reps, e, f) = Turn(reps, f, e)
         /\ Turn(reps, e, f) \in reps[e] <=> Turn(reps, e, f) \notin reps[f]
         /\ AgreeBelow(reps[e], reps[f], Turn(reps, e, f))
         /\ e < f <=> Turn(reps, e, f) \in reps[f]
<1>1. e \in Nat /\ f \in Nat /\ reps[e] \in SUBSET Nat /\ reps[f] \in SUBSET Nat
  BY EntriesAre
<1>2. e < f \/ f < e
  BY <1>1
<1>3. e < f => KeyLess(reps[e], reps[f])
  BY DEF Ascending
<1>4. f < e => KeyLess(reps[f], reps[e])
  BY DEF Ascending
<1>5. e < f => reps[e] # reps[f] /\ Turn(reps, e, f) \in reps[f]
  BY <1>1, <1>3, KeyLessIs DEF Turn
<1>6. f < e => reps[e] # reps[f] /\ Turn(reps, f, e) \in reps[e]
  BY <1>1, <1>4, KeyLessIs DEF Turn
<1>7. reps[e] # reps[f]
  BY <1>2, <1>5, <1>6
<1>8. Turn(reps, e, f) = Turn(reps, f, e)
  BY <1>1, <1>7, PartAtSymmetric DEF Turn
<1>9. /\ Turn(reps, e, f) \in Nat
      /\ Turn(reps, e, f) \in reps[e] <=> Turn(reps, e, f) \notin reps[f]
      /\ AgreeBelow(reps[e], reps[f], Turn(reps, e, f))
  BY <1>1, <1>7, PartAtIs DEF Turn
<1>10. e < f <=> Turn(reps, e, f) \in reps[f]
  BY <1>1, <1>2, <1>5, <1>6, <1>8, <1>9
<1> QED BY <1>1, <1>7, <1>8, <1>9, <1>10

\* Three entries part pairwise like three keys.
LEMMA ThreeEntries ==
  ASSUME NEW reps, Ascending(reps), NEW e \in DOMAIN reps, NEW f \in DOMAIN reps,
         NEW g \in DOMAIN reps, e # f, f # g, e # g
  PROVE  /\ Turn(reps, e, f) < Turn(reps, f, g) => Turn(reps, e, g) = Turn(reps, e, f)
         /\ Turn(reps, f, g) < Turn(reps, e, f) => Turn(reps, e, g) = Turn(reps, f, g)
         /\ Turn(reps, e, f) = Turn(reps, f, g) => Turn(reps, e, g) > Turn(reps, e, f)
BY TurnIs, ThreeKeys DEF Turn

\* In order, the outer two of three entries part where one of them parts from the middle.
LEMMA InBetween ==
  ASSUME NEW reps, Ascending(reps), NEW e \in DOMAIN reps, NEW f \in DOMAIN reps,
         NEW g \in DOMAIN reps, e < f, f < g
  PROVE  /\ Turn(reps, e, f) # Turn(reps, f, g)
         /\ Turn(reps, e, g) <= Turn(reps, e, f) /\ Turn(reps, e, g) <= Turn(reps, f, g)
         /\ Turn(reps, e, g) \in {Turn(reps, e, f), Turn(reps, f, g)}
<1>1. KeyLess(reps[e], reps[f]) /\ KeyLess(reps[f], reps[g])
  BY DEF Ascending
<1>2. /\ e \in Nat /\ f \in Nat /\ g \in Nat
      /\ reps[e] \in SUBSET Nat /\ reps[f] \in SUBSET Nat /\ reps[g] \in SUBSET Nat
  BY EntriesAre
<1>3. Turn(reps, e, f) \in Nat /\ Turn(reps, f, g) \in Nat
  BY <1>2, TurnIs
<1> QED BY <1>1, <1>2, <1>3, KeyLessIsTransitive DEF Turn

\* The bits of a path are bits of keys, and the first entry turns left at all of them.
LEMMA PathBitsAre ==
  ASSUME NEW reps, Ascending(reps), NEW e \in DOMAIN reps
  PROVE  /\ PathBits(reps, e) \subseteq Bits
         /\ PartialKey(reps, e) \subseteq Bits
         /\ e = 1 => PartialKey(reps, e) = {}
<1>1. \A f \in DOMAIN reps : reps[f] \in AllKeys
  BY DEF Ascending
<1>2. ASSUME NEW f \in DOMAIN reps \ {e} PROVE PartAt(reps[e], reps[f]) \in Bits
  <2>1. PartAt(reps[e], reps[f]) \in reps[e] \/ PartAt(reps[e], reps[f]) \in reps[f]
    BY TurnIs DEF Turn
  <2> QED BY <1>1, <2>1 DEF AllKeys
<1>3. ASSUME e = 1, NEW f \in DOMAIN reps \ {e} PROVE PartAt(reps[e], reps[f]) \notin reps[e]
  <2>1. e < f
    BY <1>3 DEF Ascending
  <2> QED BY <2>1, TurnIs DEF Turn
<1> QED BY <1>2, <1>3 DEF PathBits, PartialKey

-----------------------------------------------------------------------------
(* Searching a node                                                        *)

\* The complying entries, and the last of them.
LEMMA SearchIs ==
  ASSUME NEW node, NEW reps, Represents(node, reps), Len(reps) >= 1, NEW key \in AllKeys
  PROVE  /\ Search(node, key) \in DOMAIN reps /\ PartialKey(reps, Search(node, key)) \subseteq key
         /\ \A f \in DOMAIN reps : PartialKey(reps, f) \subseteq key => f <= Search(node, key)
<1> DEFINE S == { i \in DOMAIN reps : PartialKey(reps, i) \subseteq key }
<1>1. Ascending(reps) /\ Len(reps) \in Nat /\ DOMAIN reps = 1 .. Len(reps)
  BY EntriesAre DEF Represents
<1>2. DOMAIN node.keys = DOMAIN reps /\ \A i \in DOMAIN reps : node.keys[i] = PartialKey(reps, i)
  BY <1>1 DEF Represents
<1>3. {i \in DOMAIN node.keys : node.keys[i] \subseteq key} = S
  BY <1>2
<1>4. Search(node, key) = Max(S)
  BY <1>3 DEF Search
<1>5. 1 \in S
  BY <1>1, PathBitsAre
<1>6. S \subseteq Nat /\ \A i \in S : i <= Len(reps)
  BY <1>1
<1>7. Max(S) \in S /\ \A i \in S : i <= Max(S)
  BY <1>1, <1>5, <1>6, MaxIsGreatest
<1> QED BY <1>4, <1>7

\* A search follows the path to the entry it finds.
LEMMA SearchFollowsPath ==
  ASSUME NEW node, NEW reps, Represents(node, reps), Len(reps) >= 1, NEW key \in AllKeys,
         NEW e, e = Search(node, key)
  PROVE  e \in DOMAIN reps /\ \A c \in PathBits(reps, e) : c \in key <=> c \in reps[e]
<1>1. /\ e \in DOMAIN reps /\ PartialKey(reps, e) \subseteq key
      /\ \A f \in DOMAIN reps : PartialKey(reps, f) \subseteq key => f <= e
  BY SearchIs
<1>2. Ascending(reps)
  BY DEF Represents
<1>3. \A f \in DOMAIN reps : f \in Nat
  BY <1>2, EntriesAre
<1>4. ASSUME NEW c \in PathBits(reps, e), c \in key, c \notin reps[e] PROVE FALSE
  <2> DEFINE F == { f \in DOMAIN reps \ {e} : Turn(reps, e, f) = c }
  <2>1. F # {} /\ F \subseteq Nat
    BY <1>3, <1>4 DEF PathBits, Turn
  <2>2. PICK f \in F : \A g \in F : f <= g
    BY <2>1, LeastNatural
  <2>3. f \in DOMAIN reps /\ f # e /\ Turn(reps, e, f) = c
    BY <2>2
  <2>4. /\ c \in Nat /\ c \in reps[f] /\ AgreeBelow(reps[e], reps[f], c) /\ e < f
    BY <1>1, <1>2, <1>4, <2>3, TurnIs
  <2>5. ASSUME NEW d \in PartialKey(reps, f) PROVE d \in key
    <3>1. PICK g \in DOMAIN reps \ {f} : d = Turn(reps, f, g)
      BY DEF PartialKey, PathBits, Turn
    <3>2. d \in reps[f] /\ d \in Nat
      BY <1>2, <2>3, <3>1, TurnIs DEF PartialKey
    <3>3. CASE d < c
      <4>1. g # e
        BY <1>1, <1>2, <2>3, <3>1, <3>3, TurnIs
      <4>2. Turn(reps, e, g) = d
        BY <1>1, <1>2, <2>3, <3>1, <3>3, <4>1, ThreeEntries
      <4>3. d \in PathBits(reps, e)
        BY <3>1, <4>1, <4>2 DEF PathBits, Turn
      <4>4. d \in reps[e]
        BY <2>4, <3>2, <3>3 DEF AgreeBelow
      <4> QED BY <1>1, <4>3, <4>4 DEF PartialKey
    <3>4. CASE d = c
      BY <1>4, <3>4
    <3>5. CASE d > c
      <4>1. g # e
        BY <1>1, <1>2, <2>3, <2>4, <3>1, <3>5, TurnIs
      <4>2. Turn(reps, e, g) = c
        BY <1>1, <1>2, <2>3, <3>1, <3>5, <4>1, ThreeEntries
      <4>3. f <= g
        BY <2>2, <3>1, <4>1, <4>2
      <4>4. f < g
        BY <1>3, <2>3, <3>1, <4>3
      <4> QED BY <1>2, <2>3, <3>1, <3>2, <4>4, TurnIs
    <3> QED BY <2>4, <3>2, <3>3, <3>4, <3>5
  <2>6. f <= e
    BY <1>1, <2>3, <2>5
  <2> QED BY <1>1, <1>3, <2>3, <2>4, <2>6
<1>5. ASSUME NEW c \in PathBits(reps, e), c \in reps[e] PROVE c \in key
  BY <1>1, <1>5 DEF PartialKey
<1> QED BY <1>1, <1>4, <1>5

\* A key that agrees with the key of an entry where the path to it turns is led to it.
LEMMA SearchFindsEntry ==
  ASSUME NEW node, NEW reps, Represents(node, reps), NEW key \in AllKeys,
         NEW e \in DOMAIN reps, \A c \in PathBits(reps, e) : c \in key <=> c \in reps[e]
  PROVE  Search(node, key) = e
<1> DEFINE f == Search(node, key)
<1>1. Ascending(reps) /\ Len(reps) \in Nat /\ DOMAIN reps = 1 .. Len(reps) /\ \A g \in DOMAIN reps : g \in Nat
  BY EntriesAre DEF Represents
<1>2. Len(reps) >= 1
  BY <1>1
<1>3. /\ f \in DOMAIN reps /\ PartialKey(reps, f) \subseteq key
      /\ \A g \in DOMAIN reps : PartialKey(reps, g) \subseteq key => g <= f
  BY <1>2, SearchIs
<1> HIDE DEF f
<1>4. e <= f
  BY <1>3 DEF PartialKey
<1>5. ASSUME e < f PROVE FALSE
  <2> DEFINE c == Turn(reps, e, f)
  <2>1. c \in reps[f] /\ c \notin reps[e]
    BY <1>1, <1>3, <1>5, TurnIs
  <2>2. c \in PathBits(reps, e) /\ c \in PathBits(reps, f)
    <3>1. Turn(reps, e, f) = Turn(reps, f, e)
      BY <1>1, <1>3, <1>5, TurnIs
    <3> QED BY <1>1, <1>3, <1>5, <3>1 DEF PathBits, Turn
  <2>3. c \in key
    BY <1>3, <2>1, <2>2 DEF PartialKey
  <2> QED BY <2>1, <2>2, <2>3
<1>6. f \in Nat /\ e \in Nat
  BY <1>1, <1>3
<1> QED BY <1>4, <1>5, <1>6 DEF f

-----------------------------------------------------------------------------
(* The keys below an entry                                                 *)

\* The key agrees with the key of the entry through the last turn of the path to it,
\* as every key below the entry does.
Follows(x, reps, e) ==
  \A f \in DOMAIN reps \ {e} : \A c \in Nat : c <= Turn(reps, e, f) => (c \in x <=> c \in reps[e])

\* A key that follows the path to an entry parts from the others where the entry does.
LEMMA FollowerParts ==
  ASSUME NEW reps, Ascending(reps), NEW e \in DOMAIN reps, NEW x \in AllKeys, Follows(x, reps, e),
         NEW f \in DOMAIN reps \ {e}
  PROVE  /\ x # reps[f] /\ PartAt(x, reps[f]) = Turn(reps, e, f)
         /\ Turn(reps, e, f) \in x <=> Turn(reps, e, f) \in reps[e]
<1> DEFINE c == Turn(reps, e, f)
<1>1. x \in SUBSET Nat /\ reps[f] \in SUBSET Nat
  BY KeysAreSets, EntriesAre
<1>2. c \in Nat /\ (c \in reps[e] <=> c \notin reps[f]) /\ AgreeBelow(reps[e], reps[f], c)
  BY TurnIs
<1>3. \A d \in Nat : d <= c => (d \in x <=> d \in reps[e])
  BY DEF Follows
<1> HIDE DEF c
<1>4. (c \in x <=> c \notin reps[f]) /\ AgreeBelow(x, reps[f], c)
  BY <1>2, <1>3 DEF AgreeBelow
<1>5. x # reps[f] /\ PartAt(x, reps[f]) = c
  BY <1>1, <1>2, <1>4, PartAtIsUnique
<1> QED BY <1>2, <1>3, <1>5 DEF c

\* The followers of two entries are in the order of the entries.
LEMMA FollowersInOrder ==
  ASSUME NEW reps, Ascending(reps), NEW e \in DOMAIN reps, NEW f \in DOMAIN reps, e < f,
         NEW x \in AllKeys, Follows(x, reps, e), NEW y \in AllKeys, Follows(y, reps, f)
  PROVE  KeyLess(x, y)
<1> DEFINE c == Turn(reps, e, f)
<1>1. e # f /\ x \in SUBSET Nat /\ y \in SUBSET Nat
  BY KeysAreSets, EntriesAre
<1>2. /\ c \in Nat /\ c = Turn(reps, f, e) /\ c \in reps[f] /\ c \notin reps[e]
      /\ AgreeBelow(reps[e], reps[f], c)
  BY <1>1, TurnIs
<1>3. \A d \in Nat : d <= c => (d \in x <=> d \in reps[e])
  BY <1>1 DEF Follows
<1>4. \A d \in Nat : d <= c => (d \in y <=> d \in reps[f])
  BY <1>1, <1>2 DEF Follows
<1> HIDE DEF c
<1>5. (c \in x <=> c \notin y) /\ c \in y /\ AgreeBelow(x, y, c)
  BY <1>2, <1>3, <1>4 DEF AgreeBelow
<1>6. x # y /\ PartAt(x, y) = c
  BY <1>1, <1>2, <1>5, PartAtIsUnique
<1> QED BY <1>1, <1>5, <1>6, KeyLessIs

\* The key of an entry may be replaced by any other that follows the path to it.
LEMMA ReplaceKey ==
  ASSUME NEW reps, Ascending(reps), NEW e \in DOMAIN reps, NEW x \in AllKeys, Follows(x, reps, e),
         NEW other, other = [reps EXCEPT ![e] = x]
  PROVE  /\ Ascending(other) /\ DOMAIN other = DOMAIN reps /\ Len(other) = Len(reps) /\ other[e] = x
         /\ \A f, g \in DOMAIN reps : f # g => Turn(other, f, g) = Turn(reps, f, g)
         /\ \A f \in DOMAIN reps : PathBits(other, f) = PathBits(reps, f)
         /\ \A f \in DOMAIN reps : PartialKey(other, f) = PartialKey(reps, f)
         /\ \A f \in DOMAIN reps : \A y : Follows(y, reps, f) => Follows(y, other, f)
<1>1. /\ other \in Seq(AllKeys) /\ DOMAIN other = DOMAIN reps /\ Len(other) = Len(reps)
      /\ other[e] = x /\ \A f \in DOMAIN reps \ {e} : other[f] = reps[f]
  BY DEF Ascending
<1>2. \A f \in DOMAIN reps : /\ f \in Nat /\ other[f] \in SUBSET Nat
                             /\ reps[f] \in SUBSET Nat /\ x \in SUBSET Nat
  BY <1>1, EntriesAre, KeysAreSets
<1> HIDE DEF Ascending
<1>3. ASSUME NEW f \in DOMAIN reps, NEW g \in DOMAIN reps, f # g
      PROVE  /\ other[f] # other[g] /\ Turn(other, f, g) = Turn(reps, f, g)
             /\ Turn(reps, f, g) \in other[g] <=> Turn(reps, f, g) \in reps[g]
  <2>1. CASE f = e
    <3>1. other[f] # other[g] /\ Turn(other, f, g) = Turn(reps, f, g) /\ other[g] = reps[g]
      BY <1>1, <1>3, <2>1, FollowerParts DEF Turn
    <3> QED BY <3>1
  <2>2. CASE g = e
    <3>1. /\ x # reps[f] /\ PartAt(x, reps[f]) = Turn(reps, g, f)
          /\ Turn(reps, g, f) \in x <=> Turn(reps, g, f) \in reps[g]
      BY <1>3, <2>2, FollowerParts
    <3>2. Turn(reps, g, f) = Turn(reps, f, g) /\ PartAt(x, reps[f]) = PartAt(reps[f], x)
      BY <1>2, <1>3, <3>1, TurnIs, PartAtSymmetric
    <3> QED BY <1>1, <1>3, <2>2, <3>1, <3>2 DEF Turn
  <2>3. CASE f # e /\ g # e
    BY <1>1, <1>3, <2>3, TurnIs DEF Turn
  <2> QED BY <2>1, <2>2, <2>3
<1>4. \A f, g \in DOMAIN reps : f < g => KeyLess(other[f], other[g])
  <2> SUFFICES ASSUME NEW f \in DOMAIN reps, NEW g \in DOMAIN reps, f < g
               PROVE  KeyLess(other[f], other[g])
    OBVIOUS
  <2>1. f # g
    BY <1>2
  <2>2. Turn(reps, f, g) \in reps[g]
    BY <2>1, TurnIs
  <2>3. other[f] # other[g] /\ PartAt(other[f], other[g]) \in other[g]
    BY <1>3, <2>1, <2>2 DEF Turn
  <2> QED BY <1>2, <2>3, KeyLessIs
<1>5. Ascending(other)
  BY <1>1, <1>4 DEF Ascending
<1>6. \A f \in DOMAIN reps : PathBits(other, f) = PathBits(reps, f)
  BY <1>1, <1>3 DEF PathBits, Turn
<1>7. ASSUME NEW f \in DOMAIN reps PROVE PartialKey(other, f) = PartialKey(reps, f)
  <2>1. ASSUME NEW c \in PathBits(reps, f) PROVE c \in other[f] <=> c \in reps[f]
    <3>1. PICK g \in DOMAIN reps \ {f} : c = Turn(reps, f, g)
      BY DEF PathBits, Turn
    <3>2. Turn(reps, g, f) = Turn(reps, f, g)
      BY <3>1, TurnIs
    <3> QED BY <1>3, <3>1, <3>2
  <2> QED BY <1>6, <2>1 DEF PartialKey
<1>8. ASSUME NEW f \in DOMAIN reps, NEW y, Follows(y, reps, f) PROVE Follows(y, other, f)
  <2> SUFFICES ASSUME NEW g \in DOMAIN reps \ {f}, NEW c \in Nat, c <= Turn(reps, f, g)
               PROVE  c \in y <=> c \in other[f]
    BY <1>1, <1>3 DEF Follows
  <2>1. c \in y <=> c \in reps[f]
    BY <1>8 DEF Follows
  <2>2. c \in other[f] <=> c \in reps[f]
    <3>1. CASE f = e
      BY <1>1, <3>1 DEF Follows
    <3>2. CASE f # e
      BY <1>1, <3>2
    <3> QED BY <3>1, <3>2
  <2> QED BY <2>1, <2>2
<1> QED BY <1>1, <1>3, <1>5, <1>6, <1>7, <1>8

-----------------------------------------------------------------------------
(* Where a new key belongs                                                 *)

\* The entries that part from the entry behind the bit only.
Side(reps, e, b) == { f \in DOMAIN reps : f = e \/ Turn(reps, e, f) > b }

\* Of the path in front of a bit, the right turns.
PathInFront(reps, e, b) == { c \in PartialKey(reps, e) : c < b }

\* The entries of a side part from each other behind the bit, the others in front of it.
LEMMA SideIs ==
  ASSUME NEW reps, Ascending(reps), NEW e \in DOMAIN reps, NEW b \in Nat, b \notin PathBits(reps, e)
  PROVE  /\ \A f, g \in Side(reps, e, b) : f # g => Turn(reps, f, g) > b
         /\ \A f \in Side(reps, e, b), g \in DOMAIN reps \ Side(reps, e, b) :
              Turn(reps, f, g) = Turn(reps, e, g) /\ Turn(reps, f, g) < b
<1>1. ASSUME NEW f \in Side(reps, e, b), NEW g \in Side(reps, e, b), f # g
      PROVE  Turn(reps, f, g) > b
  <2>1. /\ f \in DOMAIN reps /\ g \in DOMAIN reps
        /\ f = e \/ Turn(reps, e, f) > b
        /\ g = e \/ Turn(reps, e, g) > b
    BY DEF Side
  <2>2. CASE f = e \/ g = e
    BY <1>1, <2>1, <2>2, TurnIs
  <2>3. CASE f # e /\ g # e
    <3>1. Turn(reps, f, e) > b /\ Turn(reps, e, g) > b /\ Turn(reps, f, e) \in Nat /\ Turn(reps, e, g) \in Nat
      BY <2>1, <2>3, TurnIs
    <3>2. /\ Turn(reps, f, e) < Turn(reps, e, g) => Turn(reps, f, g) = Turn(reps, f, e)
          /\ Turn(reps, e, g) < Turn(reps, f, e) => Turn(reps, f, g) = Turn(reps, e, g)
          /\ Turn(reps, f, e) = Turn(reps, e, g) => Turn(reps, f, g) > Turn(reps, f, e)
      BY <1>1, <2>1, <2>3, ThreeEntries
    <3>3. Turn(reps, f, g) \in Nat
      BY <1>1, <2>1, TurnIs
    <3> QED BY <3>1, <3>2, <3>3
  <2> QED BY <2>2, <2>3
<1>2. ASSUME NEW f \in Side(reps, e, b), NEW g \in DOMAIN reps \ Side(reps, e, b)
      PROVE  Turn(reps, f, g) = Turn(reps, e, g) /\ Turn(reps, f, g) < b
  <2>1. f \in DOMAIN reps /\ (f = e \/ Turn(reps, e, f) > b) /\ g # e /\ ~(Turn(reps, e, g) > b) /\ f # g
    BY DEF Side
  <2>2. Turn(reps, e, g) # b
    BY <2>1 DEF PathBits, Turn
  <2>3. Turn(reps, e, g) \in Nat /\ Turn(reps, e, g) < b
    BY <2>1, <2>2, TurnIs
  <2>4. CASE f = e
    BY <2>3, <2>4
  <2>5. CASE f # e
    <3>1. Turn(reps, f, e) > b /\ Turn(reps, f, e) \in Nat
      BY <2>1, <2>5, TurnIs
    <3>2. Turn(reps, e, g) < Turn(reps, f, e)
      BY <2>3, <3>1
    <3>3. Turn(reps, f, g) = Turn(reps, e, g)
      BY <2>1, <2>5, <3>2, ThreeEntries
    <3> QED BY <2>3, <3>3
  <2> QED BY <2>4, <2>5
<1> QED BY <1>1, <1>2

\* The entries of a side follow each other.
LEMMA SideIsConvex ==
  ASSUME NEW reps, Ascending(reps), NEW e \in DOMAIN reps, NEW b \in Nat, b \notin PathBits(reps, e),
         NEW f \in Side(reps, e, b), NEW g \in Side(reps, e, b),
         NEW m \in DOMAIN reps, f <= m, m <= g
  PROVE  m \in Side(reps, e, b)
<1>1. f \in DOMAIN reps /\ g \in DOMAIN reps /\ f \in Nat /\ g \in Nat /\ m \in Nat
  BY EntriesAre DEF Side
<1>2. CASE m = f \/ m = g
  BY <1>2
<1>3. CASE m # f /\ m # g
  <2>1. f < m /\ m < g /\ f # g
    BY <1>1, <1>3
  <2>2. Turn(reps, f, g) <= Turn(reps, f, m) /\ Turn(reps, f, g) > b
    BY <1>1, <2>1, InBetween, SideIs
  <2>3. Turn(reps, f, m) \in Nat /\ Turn(reps, f, g) \in Nat
    BY <1>1, <1>3, <2>1, TurnIs
  <2>4. ~(Turn(reps, f, m) < b)
    BY <2>2, <2>3
  <2> QED BY <2>4, SideIs
<1> QED BY <1>2, <1>3

\* The entries of a side are those with the same path in front of the bit.
LEMMA SameFront ==
  ASSUME NEW reps, Ascending(reps), NEW e \in DOMAIN reps, NEW b \in Nat, b \notin PathBits(reps, e),
         NEW f \in DOMAIN reps
  PROVE  PathInFront(reps, f, b) = PathInFront(reps, e, b) <=> f \in Side(reps, e, b)
<1>1. ASSUME NEW g \in DOMAIN reps, NEW h \in DOMAIN reps, g # h, Turn(reps, g, h) > b,
             NEW c \in PathInFront(reps, g, b)
      PROVE  c \in PathInFront(reps, h, b)
  <2>1. c < b /\ c \in reps[g]
    BY DEF PathInFront, PartialKey
  <2>2. PICK m \in DOMAIN reps \ {g} : c = Turn(reps, g, m)
    BY DEF PathInFront, PartialKey, PathBits, Turn
  <2>3. c \in Nat /\ Turn(reps, g, h) \in Nat /\ AgreeBelow(reps[g], reps[h], Turn(reps, g, h))
    BY <1>1, <2>2, TurnIs
  <2>4. m # h /\ c < Turn(reps, g, h)
    BY <1>1, <2>1, <2>2, <2>3
  <2>5. Turn(reps, h, g) = Turn(reps, g, h)
    BY <1>1, TurnIs
  <2>6. Turn(reps, h, m) = c
    BY <1>1, <2>2, <2>4, <2>5, ThreeEntries
  <2>7. c \in reps[h]
    BY <2>1, <2>3, <2>4 DEF AgreeBelow
  <2> QED BY <2>1, <2>4, <2>6, <2>7 DEF PathInFront, PartialKey, PathBits, Turn
<1>2. ASSUME f \in Side(reps, e, b), f # e PROVE PathInFront(reps, f, b) = PathInFront(reps, e, b)
  <2>1. Turn(reps, e, f) > b /\ Turn(reps, f, e) > b
    BY <1>2, TurnIs DEF Side
  <2> QED BY <1>1, <1>2, <2>1
<1>3. ASSUME f \notin Side(reps, e, b) PROVE PathInFront(reps, f, b) # PathInFront(reps, e, b)
  <2> DEFINE c == Turn(reps, e, f)
  <2>1. f # e /\ ~(c > b)
    BY <1>3 DEF Side
  <2>2. /\ c \in Nat /\ (c \in reps[e] <=> c \notin reps[f])
        /\ c = Turn(reps, f, e)
    BY <2>1, TurnIs
  <2>3. c \in PathBits(reps, e) /\ c \in PathBits(reps, f)
    BY <2>1, <2>2 DEF PathBits, Turn
  <2> HIDE DEF c
  <2>4. c < b
    BY <2>1, <2>2, <2>3
  <2>5. c \in PathInFront(reps, e, b) <=> c \in reps[e]
    BY <2>3, <2>4 DEF PathInFront, PartialKey
  <2>6. c \in PathInFront(reps, f, b) <=> c \in reps[f]
    BY <2>3, <2>4 DEF PathInFront, PartialKey
  <2> QED BY <2>2, <2>5, <2>6
<1> QED BY <1>2, <1>3

\* What is known of the place of a new entry that parts from an entry at a bit.
Describes(info, reps, e, newBit) ==
  /\ info.key = newBit
  /\ info.prefix = PathInFront(reps, e, newBit.bit)
  /\ info.first \in DOMAIN reps /\ info.number \in Nat \ {0}
  /\ Side(reps, e, newBit.bit) = info.first .. info.first + info.number - 1

\* The insert information is the side of the entry and the path in front of the new bit.
LEMMA InsertInformationIs ==
  ASSUME NEW node, NEW reps, Represents(node, reps), NEW e \in DOMAIN reps,
         NEW newBit, newBit.bit \in Nat, newBit.bit \notin PathBits(reps, e)
  PROVE  Describes(GetInsertInformation(node, e, newBit), reps, e, newBit)
<1> DEFINE b == newBit.bit
           prefixBits == {c \in DiscriminativeBits(node) : c < b}
           prefix == node.keys[e] \cap prefixBits
           affected == {i \in DOMAIN node.keys : node.keys[i] \cap prefixBits = prefix}
           S == Side(reps, e, b)
<1>1. Ascending(reps) /\ Len(reps) \in Nat /\ DOMAIN reps = 1 .. Len(reps)
  BY EntriesAre DEF Represents
<1>2. DOMAIN node.keys = DOMAIN reps /\ \A i \in DOMAIN reps : node.keys[i] = PartialKey(reps, i)
  BY <1>1 DEF Represents
<1>3. ASSUME NEW i \in DOMAIN reps PROVE node.keys[i] \cap prefixBits = PathInFront(reps, i, b)
  <2>1. node.keys[i] \subseteq DiscriminativeBits(node)
    BY <1>2 DEF DiscriminativeBits
  <2> QED BY <1>2, <2>1 DEF PathInFront
<1>4. prefix = PathInFront(reps, e, b)
  BY <1>3
<1>5. affected = S
  <2>1. affected = {i \in DOMAIN reps : PathInFront(reps, i, b) = PathInFront(reps, e, b)}
    BY <1>2, <1>3
  <2> HIDE DEF affected
  <2>2. \A i \in DOMAIN reps : i \in affected <=> i \in S
    BY <1>1, <2>1, SameFront
  <2>3. affected \subseteq DOMAIN reps /\ S \subseteq DOMAIN reps
    BY <2>1 DEF Side
  <2> HIDE DEF S
  <2> QED BY <2>2, <2>3
<1>6. GetInsertInformation(node, e, newBit)
        = [prefix |-> prefix, first |-> Min(affected), number |-> Cardinality(affected), key |-> newBit]
  BY DEF GetInsertInformation
<1> HIDE DEF prefix, affected
<1>7. e \in S /\ S \subseteq DOMAIN reps
  BY DEF Side
<1> HIDE DEF S
<1>8. S \subseteq Nat /\ S # {} /\ \A i \in S : i <= Len(reps)
  BY <1>1, <1>7
<1>9. Min(S) \in S /\ \A i \in S : Min(S) <= i
  BY <1>8, MinIsLeast
<1>10. PICK last \in S : \A i \in S : i <= last
  BY <1>1, <1>8, GreatestNatural
<1>11. Min(S) \in Nat /\ last \in Nat /\ Min(S) <= last /\ Min(S) \in DOMAIN reps /\ last \in DOMAIN reps
  BY <1>7, <1>8, <1>9, <1>10
<1>12. S = Min(S) .. last
  <2>1. ASSUME NEW i \in Min(S) .. last PROVE i \in S
    <3>1. i \in DOMAIN reps /\ Min(S) <= i /\ i <= last
      BY <1>1, <1>11
    <3> QED BY <1>1, <1>9, <1>10, <3>1, SideIsConvex DEF S
  <2>2. \A i \in S : i \in Min(S) .. last
    BY <1>8, <1>9, <1>10, <1>11
  <2> HIDE DEF S
  <2> QED BY <2>1, <2>2
<1>13. Cardinality(S) = last - Min(S) + 1
  BY <1>11, <1>12, FS_Interval
<1>14. Cardinality(S) \in Nat \ {0} /\ Min(S) + Cardinality(S) - 1 = last
  BY <1>11, <1>13
<1> QED BY <1>4, <1>5, <1>6, <1>11, <1>12, <1>14 DEF Describes, S

-----------------------------------------------------------------------------
(* Copying some entries that follow each other                             *)

\* The keys of the entries.
Part(reps, first, number) == [t \in 1 .. number |-> reps[first + t - 1]]

\* The entries part from each other behind the bits at which they part from the rest.
Whole(reps, first, number) ==
  \A i, j \in first .. first + number - 1 : \A g \in DOMAIN reps \ (first .. first + number - 1) :
    i # j => Turn(reps, i, g) < Turn(reps, i, j)

\* The turns among the entries.
TurnsWithin(reps, e, first, number) ==
  { Turn(reps, e, f) : f \in (first .. first + number - 1) \ {e} }

\* The bits that a copy keeps are those of the turns among its entries.
Keeps(node, reps, first, number, relevant) ==
  \A i \in first .. first + number - 1 :
    node.keys[i] \cap relevant = TurnsWithin(reps, i, first, number) \cap reps[i]

\* A copy of all entries keeps all bits.
LEMMA AllBitsAreKept ==
  ASSUME NEW node, NEW reps, Represents(node, reps)
  PROVE  Keeps(node, reps, 1, Len(reps), DiscriminativeBits(node))
<1>1. Ascending(reps) /\ Len(reps) \in Nat /\ DOMAIN reps = 1 .. Len(reps)
  BY EntriesAre DEF Represents
<1>2. DOMAIN node.keys = DOMAIN reps /\ \A i \in DOMAIN reps : node.keys[i] = PartialKey(reps, i)
  BY <1>1 DEF Represents
<1>3. 1 .. 1 + Len(reps) - 1 = DOMAIN reps
  BY <1>1
<1>4. \A i \in DOMAIN reps : node.keys[i] \cap DiscriminativeBits(node) = PartialKey(reps, i)
  BY <1>2 DEF DiscriminativeBits
<1>5. \A i \in DOMAIN reps : PartialKey(reps, i) = TurnsWithin(reps, i, 1, Len(reps)) \cap reps[i]
  BY <1>3 DEF PartialKey, PathBits, TurnsWithin, Turn
<1> QED BY <1>3, <1>4, <1>5 DEF Keeps

\* Of two entries that follow each other, the second turns right where they part.
LEMMA NeighboursPart ==
  ASSUME NEW reps, Ascending(reps), NEW j \in DOMAIN reps, NEW i \in DOMAIN reps, j < i
  PROVE  \E m \in j + 1 .. i : Turn(reps, m - 1, m) = Turn(reps, j, i)
<1> DEFINE c == Turn(reps, j, i)
           M == { m \in j + 1 .. i : Turn(reps, j, m) = c }
<1>1. Len(reps) \in Nat /\ DOMAIN reps = 1 .. Len(reps) /\ i \in Nat /\ j \in Nat
  BY EntriesAre
<1>2. i \in M /\ M \subseteq Nat
  BY <1>1
<1>3. PICK m \in M : \A n \in M : m <= n
  <2> HIDE DEF M
  <2> QED BY <1>2, LeastNatural
<1>4. m \in j + 1 .. i /\ Turn(reps, j, m) = c /\ m \in DOMAIN reps /\ m - 1 \in DOMAIN reps /\ m - 1 < m
      /\ m - 1 >= j /\ m - 1 \in Nat
  BY <1>1, <1>3
<1>5. CASE m - 1 = j
  BY <1>4, <1>5
<1>6. CASE m - 1 # j
  <2>1. j < m - 1
    BY <1>1, <1>4, <1>6
  <2>2. m - 1 \in j + 1 .. i /\ ~(m <= m - 1)
    BY <1>1, <1>4, <2>1
  <2>3. m - 1 \notin M
    BY <1>3, <2>2
  <2>4. Turn(reps, j, m - 1) # c
    BY <2>2, <2>3
  <2> HIDE DEF c, M
  <2>5. Turn(reps, j, m) \in {Turn(reps, j, m - 1), Turn(reps, m - 1, m)}
    BY <1>4, <2>1, InBetween
  <2> QED BY <1>4, <2>4, <2>5 DEF c
<1> QED BY <1>5, <1>6

\* A copy of entries that belong together keeps their bits.
LEMMA RelevantBitsAreKept ==
  ASSUME NEW node, NEW reps, Represents(node, reps), NEW first \in DOMAIN reps, NEW number \in Nat,
         first + number - 1 <= Len(reps), Whole(reps, first, number)
  PROVE  Keeps(node, reps, first, number, GetRelevantBitsForRange(node, first, number))
<1> DEFINE last == first + number - 1
           relevant == GetRelevantBitsForRange(node, first, number)
<1>1. Ascending(reps) /\ Len(reps) \in Nat /\ DOMAIN reps = 1 .. Len(reps) /\ first \in Nat
  BY EntriesAre DEF Represents
<1>2. \A i \in DOMAIN reps : node.keys[i] = PartialKey(reps, i)
  BY <1>1 DEF Represents
<1>3. \A i \in first .. last : i \in DOMAIN reps /\ i \in Nat
  BY <1>1
<1>4. relevant = UNION {node.keys[i] \ node.keys[i - 1] : i \in first + 1 .. last}
  BY DEF GetRelevantBitsForRange
<1> HIDE DEF relevant
<1>5. \A i \in first + 1 .. last : i \in first .. last /\ i - 1 \in first .. last
  BY <1>1
<1> SUFFICES ASSUME NEW i \in first .. last
             PROVE  node.keys[i] \cap relevant = TurnsWithin(reps, i, first, number) \cap reps[i]
  BY DEF Keeps, relevant
<1>6. ASSUME NEW c \in TurnsWithin(reps, i, first, number), c \in reps[i]
      PROVE  c \in node.keys[i] /\ c \in relevant
  <2>1. PICK j \in (first .. last) \ {i} : c = Turn(reps, i, j)
    BY DEF TurnsWithin
  <2>2. i \in DOMAIN reps /\ j \in DOMAIN reps /\ i # j /\ i \in Nat /\ j \in Nat
    BY <1>3, <2>1
  <2>3. c = Turn(reps, j, i) /\ j < i
    BY <1>1, <1>6, <2>1, <2>2, TurnIs
  <2>4. c \in node.keys[i]
    BY <1>2, <1>6, <2>1, <2>2 DEF PartialKey, PathBits, Turn
  <2>5. PICK m \in j + 1 .. i : Turn(reps, m - 1, m) = c
    BY <1>1, <2>2, <2>3, NeighboursPart
  <2>6. m \in first + 1 .. last /\ m \in DOMAIN reps /\ m - 1 \in DOMAIN reps /\ m - 1 < m /\ m - 1 # m
    BY <1>1, <2>1, <2>2, <2>5
  <2>7. c \in reps[m] /\ c \notin reps[m - 1] /\ Turn(reps, m, m - 1) = c
    BY <1>1, <2>5, <2>6, TurnIs
  <2>8. c \in PartialKey(reps, m) /\ c \notin PartialKey(reps, m - 1)
    BY <2>6, <2>7 DEF PartialKey, PathBits, Turn
  <2>9. c \in node.keys[m] \ node.keys[m - 1]
    BY <1>2, <2>6, <2>8
  <2> QED BY <1>4, <2>4, <2>6, <2>9
<1>7. ASSUME NEW c \in node.keys[i], c \in relevant
      PROVE  c \in TurnsWithin(reps, i, first, number) /\ c \in reps[i]
  <2>1. c \in reps[i] /\ c \in PathBits(reps, i) /\ i \in DOMAIN reps
    BY <1>2, <1>3, <1>7 DEF PartialKey
  <2>2. PICK g \in DOMAIN reps \ {i} : c = Turn(reps, i, g)
    BY <2>1 DEF PathBits, Turn
  <2>3. PICK m \in first + 1 .. last : c \in node.keys[m] /\ c \notin node.keys[m - 1]
    BY <1>4, <1>7
  <2>4. ASSUME g \notin first .. last PROVE FALSE
    <3>1. ASSUME NEW x \in first .. last PROVE c \in PartialKey(reps, x)
      <4>1. CASE x = i
        BY <2>1, <4>1 DEF PartialKey
      <4>2. CASE x # i
        <5>1. c < Turn(reps, i, x) /\ x \in DOMAIN reps /\ x # g
          BY <1>3, <2>2, <2>4, <4>2 DEF Whole
        <5>2. Turn(reps, x, i) = Turn(reps, i, x) /\ AgreeBelow(reps[i], reps[x], Turn(reps, i, x))
              /\ c \in Nat
          BY <1>1, <2>1, <2>2, <4>2, <5>1, TurnIs
        <5>3. Turn(reps, x, g) = c
          BY <1>1, <2>1, <2>2, <4>2, <5>1, <5>2, ThreeEntries
        <5>4. c \in reps[x]
          BY <2>1, <5>1, <5>2 DEF AgreeBelow
        <5> QED BY <2>2, <5>1, <5>3, <5>4 DEF PartialKey, PathBits, Turn
      <4> QED BY <4>1, <4>2
    <3>2. m - 1 \in first .. last
      BY <1>5
    <3> QED BY <1>2, <1>3, <2>3, <3>1, <3>2
  <2>5. g \in (first .. last) \ {i}
    BY <2>2, <2>4
  <2> QED BY <2>1, <2>2, <2>5 DEF TurnsWithin
<1> QED BY <1>6, <1>7

\* Some of the keys, in their order.
LEMMA PartIs ==
  ASSUME NEW reps, Ascending(reps), NEW first \in DOMAIN reps, NEW number \in Nat,
         first + number - 1 <= Len(reps)
  PROVE  /\ Ascending(Part(reps, first, number)) /\ Len(Part(reps, first, number)) = number
         /\ DOMAIN Part(reps, first, number) = 1 .. number
         /\ \A t \in 1 .. number :
              /\ first + t - 1 \in DOMAIN reps /\ Part(reps, first, number)[t] = reps[first + t - 1]
              /\ PathBits(Part(reps, first, number), t) = TurnsWithin(reps, first + t - 1, first, number)
<1> DEFINE part == Part(reps, first, number)
<1>1. Len(reps) \in Nat /\ DOMAIN reps = 1 .. Len(reps) /\ first \in Nat
      /\ \A e \in DOMAIN reps : reps[e] \in AllKeys
  BY EntriesAre
<1>2. \A t \in 1 .. number : first + t - 1 \in DOMAIN reps /\ t \in Nat
  BY <1>1
<1>3. part = [t \in 1 .. number |-> reps[first + t - 1]]
  BY DEF Part
<1>4. part \in Seq(AllKeys) /\ Len(part) = number /\ DOMAIN part = 1 .. number
  BY <1>1, <1>2, <1>3
<1>5. \A t \in 1 .. number : part[t] = reps[first + t - 1]
  BY <1>3
<1> HIDE DEF part
<1>6. ASSUME NEW t \in 1 .. number, NEW u \in 1 .. number, t < u PROVE KeyLess(part[t], part[u])
  <2>1. first + t - 1 < first + u - 1
    BY <1>1, <1>2, <1>6
  <2> QED BY <1>2, <1>5, <2>1 DEF Ascending
<1>7. Ascending(part)
  BY <1>4, <1>6 DEF Ascending
<1>8. ASSUME NEW t \in 1 .. number
      PROVE  PathBits(part, t) = TurnsWithin(reps, first + t - 1, first, number)
  <2>1. ASSUME NEW u \in (1 .. number) \ {t}
        PROVE  first + u - 1 \in (first .. first + number - 1) \ {first + t - 1}
    BY <1>1
  <2>2. ASSUME NEW f \in (first .. first + number - 1) \ {first + t - 1}
        PROVE  f - first + 1 \in (1 .. number) \ {t} /\ first + (f - first + 1) - 1 = f
    BY <1>1
  <2>3. \A u \in 1 .. number : PartAt(part[t], part[u]) = Turn(reps, first + t - 1, first + u - 1)
    BY <1>5 DEF Turn
  <2>4. ASSUME NEW c \in PathBits(part, t) PROVE c \in TurnsWithin(reps, first + t - 1, first, number)
    <3>1. PICK u \in (1 .. number) \ {t} : c = PartAt(part[t], part[u])
      BY <1>4 DEF PathBits
    <3> QED BY <2>1, <2>3, <3>1 DEF TurnsWithin
  <2>5. ASSUME NEW c \in TurnsWithin(reps, first + t - 1, first, number) PROVE c \in PathBits(part, t)
    <3>1. PICK f \in (first .. first + number - 1) \ {first + t - 1} : c = Turn(reps, first + t - 1, f)
      BY DEF TurnsWithin
    <3>2. f - first + 1 \in (1 .. number) \ {t} /\ c = PartAt(part[t], part[f - first + 1])
      BY <2>2, <2>3, <3>1
    <3> QED BY <1>4, <3>2 DEF PathBits
  <2> QED BY <2>4, <2>5
<1> QED BY <1>2, <1>4, <1>5, <1>7, <1>8 DEF part

\* A copy of entries that belong together represents their keys.
LEMMA CopyRangeIs ==
  ASSUME NEW node, NEW reps, Represents(node, reps), NEW first \in DOMAIN reps, NEW number \in Nat,
         first + number - 1 <= Len(reps), Whole(reps, first, number)
  PROVE  /\ Represents(CopyRange(node, first, number), Part(reps, first, number))
         /\ CopyRange(node, first, number).height = node.height
         /\ \A t \in 1 .. number : CopyRange(node, first, number).ptrs[t] = node.ptrs[first + t - 1]
<1> DEFINE relevant == GetRelevantBitsForRange(node, first, number)
           part == Part(reps, first, number)
           copy == CopyRange(node, first, number)
<1>1. Ascending(reps) /\ Len(reps) \in Nat /\ DOMAIN reps = 1 .. Len(reps) /\ first \in Nat
  BY EntriesAre DEF Represents
<1>2. /\ copy.keys = [t \in 1 .. number |->
                        IF t = 1 THEN {} ELSE node.keys[first + t - 1] \cap relevant]
      /\ copy.ptrs = [t \in 1 .. number |-> node.ptrs[first + t - 1]]
      /\ copy.height = node.height
  BY DEF CopyRange, NodeContent
<1>3. Keeps(node, reps, first, number, relevant)
  BY RelevantBitsAreKept
<1>4. /\ Ascending(part) /\ Len(part) = number /\ DOMAIN part = 1 .. number
      /\ \A t \in 1 .. number : /\ part[t] = reps[first + t - 1]
                                /\ PathBits(part, t) = TurnsWithin(reps, first + t - 1, first, number)
  <2>1. Ascending(Part(reps, first, number))
    BY <1>1, PartIs
  <2>2. Len(part) = number
    BY <1>1, PartIs
  <2>3. DOMAIN part = 1 .. number
    BY <1>1, PartIs
  <2>4. \A t \in 1 .. number : part[t] = reps[first + t - 1]
    BY <1>1, PartIs
  <2>5. \A t \in 1 .. number : PathBits(part, t) = TurnsWithin(reps, first + t - 1, first, number)
    BY <1>1, PartIs
  <2> QED BY <2>1, <2>2, <2>3, <2>4, <2>5
<1> HIDE DEF copy, part, relevant
<1>5. ASSUME NEW t \in 1 .. number
      PROVE  PartialKey(part, t) = IF t = 1 THEN {} ELSE node.keys[first + t - 1] \cap relevant
  <2>1. first + t - 1 \in first .. first + number - 1
    BY <1>1
  <2>2. node.keys[first + t - 1] \cap relevant = PartialKey(part, t)
    BY <1>3, <1>4, <2>1 DEF Keeps, PartialKey
  <2>3. t = 1 => PartialKey(part, t) = {}
    BY <1>4, PathBitsAre
  <2> QED BY <2>2, <2>3
<1>6. copy.keys = [t \in 1 .. Len(part) |-> PartialKey(part, t)]
  BY <1>2, <1>4, <1>5
<1>7. DOMAIN copy.ptrs = 1 .. Len(part) /\ Len(copy.ptrs) = Len(part) /\ IsFunction(copy.ptrs)
  BY <1>2, <1>4 DEF IsFunction
<1> QED BY <1>2, <1>4, <1>6, <1>7 DEF Represents, copy, part

-----------------------------------------------------------------------------
(* Adding a key                                                            *)

\* The new key parts from an entry at a bit at which the path to it does not turn.
NewBeside(reps, e, key) ==
  /\ Ascending(reps) /\ e \in DOMAIN reps /\ key \in AllKeys /\ key # reps[e]
  /\ PartAt(reps[e], key) \notin PathBits(reps, e)

\* It parts from all entries of the side at this bit, and from the others as the entry does.
LEMMA NewKeyParts ==
  ASSUME NEW reps, NEW e, NEW key, NewBeside(reps, e, key), NEW j \in DOMAIN reps
  PROVE  LET b == PartAt(reps[e], key)
         IN  /\ b \in Nat /\ (b \in reps[e] <=> b \notin key)
             /\ reps[j] # key /\ PartAt(reps[j], key) \in Nat /\ PartAt(key, reps[j]) = PartAt(reps[j], key)
             /\ PartAt(reps[j], key) \in reps[j] <=> PartAt(reps[j], key) \notin key
             /\ j \in Side(reps, e, b) => PartAt(reps[j], key) = b
             /\ j \notin Side(reps, e, b) =>
                  /\ j # e /\ PartAt(reps[j], key) = Turn(reps, e, j) /\ Turn(reps, e, j) < b
                  /\ Turn(reps, e, j) \in key <=> Turn(reps, e, j) \in reps[e]
<1> DEFINE b == PartAt(reps[e], key)
<1>1. /\ Ascending(reps) /\ e \in DOMAIN reps /\ key # reps[e] /\ b \notin PathBits(reps, e)
      /\ key \in SUBSET Nat /\ reps[e] \in SUBSET Nat /\ reps[j] \in SUBSET Nat
  BY EntriesAre, KeysAreSets DEF NewBeside
<1>2. b \in Nat /\ (b \in reps[e] <=> b \notin key) /\ AgreeBelow(reps[e], key, b)
  BY <1>1, PartAtIs
<1>3. ASSUME j \in Side(reps, e, b) PROVE reps[j] # key /\ PartAt(reps[j], key) = b
  <2>1. CASE j = e
    BY <1>1, <2>1
  <2>2. CASE j # e
    <3>1. Turn(reps, j, e) > b /\ reps[j] # reps[e]
      BY <1>1, <1>3, <2>2, TurnIs DEF Side
    <3>2. PartAt(reps[e], key) < PartAt(reps[j], reps[e])
      BY <1>2, <3>1 DEF Turn
    <3> QED BY <1>1, <3>1, <3>2, ThreeKeys
  <2> QED BY <2>1, <2>2
<1>4. ASSUME j \notin Side(reps, e, b)
      PROVE  /\ j # e /\ reps[j] # key /\ PartAt(reps[j], key) = Turn(reps, e, j) /\ Turn(reps, e, j) < b
             /\ Turn(reps, e, j) \in key <=> Turn(reps, e, j) \in reps[e]
  <2>1. j # e /\ e \in Side(reps, e, b)
    BY <1>1, <1>4 DEF Side
  <2>2. Turn(reps, e, j) < b
    BY <1>1, <1>2, <1>4, <2>1, SideIs
  <2>3. Turn(reps, e, j) \in Nat /\ Turn(reps, j, e) = Turn(reps, e, j) /\ reps[j] # reps[e]
    BY <1>1, <2>1, TurnIs
  <2>4. reps[j] # key /\ PartAt(reps[j], key) = Turn(reps, e, j)
    BY <1>1, <2>2, <2>3, ThreeKeys DEF Turn
  <2> QED BY <1>2, <2>1, <2>2, <2>3, <2>4 DEF AgreeBelow
<1>5. reps[j] # key
  BY <1>3, <1>4
<1>6. /\ PartAt(reps[j], key) \in Nat
      /\ PartAt(reps[j], key) \in reps[j] <=> PartAt(reps[j], key) \notin key
      /\ PartAt(key, reps[j]) = PartAt(reps[j], key)
  BY <1>1, <1>5, PartAtIs, PartAtSymmetric
<1> QED BY <1>2, <1>3, <1>4, <1>5, <1>6

\* The index of the new entry: behind the side or in front of it.
NewIndex(info, key) ==
  IF info.key.bit \in key THEN info.first + info.number ELSE info.first

\* There the new key is in order.
LEMMA NewKeyInOrder ==
  ASSUME NEW reps, NEW e, NEW key, NewBeside(reps, e, key),
         NEW info, Describes(info, reps, e, GetMismatchingBit(reps[e], key)),
         NEW j \in DOMAIN reps
  PROVE  /\ j < NewIndex(info, key) => KeyLess(reps[j], key)
         /\ j >= NewIndex(info, key) => KeyLess(key, reps[j])
<1> DEFINE b == PartAt(reps[e], key)
           S == Side(reps, e, b)
<1>1. /\ Ascending(reps) /\ e \in DOMAIN reps /\ e \in Nat /\ j \in Nat
      /\ key \in SUBSET Nat /\ reps[j] \in SUBSET Nat
  BY EntriesAre, KeysAreSets DEF NewBeside
<1>2. /\ b \in Nat /\ (b \in reps[e] <=> b \notin key)
      /\ reps[j] # key /\ PartAt(key, reps[j]) = PartAt(reps[j], key)
      /\ PartAt(reps[j], key) \in reps[j] <=> PartAt(reps[j], key) \notin key
      /\ j \in S => PartAt(reps[j], key) = b
      /\ j \notin S => /\ j # e /\ PartAt(reps[j], key) = Turn(reps, e, j)
                       /\ Turn(reps, e, j) \in key <=> Turn(reps, e, j) \in reps[e]
  BY NewKeyParts
<1>3. /\ S = info.first .. info.first + info.number - 1
      /\ info.first \in Nat /\ info.number \in Nat \ {0} /\ info.key.bit = b
  BY <1>1, EntriesAre DEF Describes, PartAt
<1>4. e \in S
  BY <1>1 DEF Side
<1> HIDE DEF b, S
<1>5. /\ KeyLess(reps[j], key) <=> PartAt(reps[j], key) \in key
      /\ KeyLess(key, reps[j]) <=> PartAt(reps[j], key) \in reps[j]
  BY <1>1, <1>2, KeyLessIs
<1>6. j \notin S => (j < e <=> Turn(reps, e, j) \in reps[e])
  BY <1>1, <1>2, TurnIs
<1>7. CASE b \in key
  <2>1. NewIndex(info, key) = info.first + info.number
    BY <1>3, <1>7 DEF NewIndex
  <2>2. ASSUME j < NewIndex(info, key) PROVE KeyLess(reps[j], key)
    <3>1. j \in S \/ j < e
      BY <1>1, <1>3, <1>4, <2>1, <2>2
    <3> QED BY <1>2, <1>5, <1>6, <1>7, <3>1
  <2>3. ASSUME j >= NewIndex(info, key) PROVE KeyLess(key, reps[j])
    <3>1. j \notin S /\ ~(j < e)
      BY <1>1, <1>3, <1>4, <2>1, <2>3
    <3> QED BY <1>2, <1>5, <1>6, <3>1
  <2> QED BY <2>2, <2>3
<1>8. CASE b \notin key
  <2>1. NewIndex(info, key) = info.first
    BY <1>3, <1>8 DEF NewIndex
  <2>2. ASSUME j < NewIndex(info, key) PROVE KeyLess(reps[j], key)
    <3>1. j \notin S /\ j < e
      BY <1>1, <1>3, <1>4, <2>1, <2>2
    <3> QED BY <1>2, <1>5, <1>6, <3>1
  <2>3. ASSUME j >= NewIndex(info, key) PROVE KeyLess(key, reps[j])
    <3>1. j \in S \/ (j \notin S /\ ~(j < e))
      BY <1>1, <1>3, <1>4, <2>1, <2>3
    <3> QED BY <1>2, <1>5, <1>6, <1>8, <3>1
  <2> QED BY <2>2, <2>3
<1> QED BY <1>7, <1>8

\* Where the entries of a copy that gets a new entry come from, and where they go to.
Old(first, at, t) == IF first + t - 1 < at THEN first + t - 1 ELSE first + t - 1 - 1
Moved(first, at, j) == IF j < at THEN j - first + 1 ELSE j - first + 2

\* Both are inverse to each other and keep the order of the entries.
Shifts(first, number, at, slot) ==
  /\ slot \in 1 .. number + 1 /\ first + slot - 1 = at
  /\ \A t \in (1 .. number + 1) \ {slot} :
       /\ first + t - 1 # at /\ Old(first, at, t) \in first .. first + number - 1
       /\ t < slot => Old(first, at, t) < at
       /\ slot < t => Old(first, at, t) >= at
       /\ Moved(first, at, Old(first, at, t)) = t
  /\ \A t, u \in (1 .. number + 1) \ {slot} : t < u => Old(first, at, t) < Old(first, at, u)
  /\ \A j \in first .. first + number - 1 :
       /\ Moved(first, at, j) \in (1 .. number + 1) \ {slot}
       /\ Old(first, at, Moved(first, at, j)) = j

\* The other entries keep their order.
LEMMA OldEntries ==
  ASSUME NEW first \in Nat, NEW number \in Nat, NEW at \in first .. first + number,
         NEW slot, slot = at - first + 1
  PROVE  Shifts(first, number, at, slot)
<1>1. slot \in 1 .. number + 1 /\ first + slot - 1 = at
  OBVIOUS
<1>2. ASSUME NEW t \in (1 .. number + 1) \ {slot}
      PROVE  /\ first + t - 1 # at /\ Old(first, at, t) \in first .. first + number - 1
             /\ t < slot => Old(first, at, t) < at
             /\ slot < t => Old(first, at, t) >= at
             /\ Moved(first, at, Old(first, at, t)) = t
  BY DEF Old, Moved
<1>3. ASSUME NEW t \in (1 .. number + 1) \ {slot}, NEW u \in (1 .. number + 1) \ {slot}, t < u
      PROVE  Old(first, at, t) < Old(first, at, u)
  BY <1>3 DEF Old
<1>4. ASSUME NEW j \in first .. first + number - 1
      PROVE  /\ Moved(first, at, j) \in (1 .. number + 1) \ {slot}
             /\ Old(first, at, Moved(first, at, j)) = j
  BY DEF Old, Moved
<1> QED BY <1>1, <1>2, <1>3, <1>4 DEF Shifts

\* The keys of a copy that gets a new entry.
Widened(reps, first, number, at, key) ==
  [t \in 1 .. number + 1 |-> IF first + t - 1 = at THEN key ELSE reps[Old(first, at, t)]]

\* The turns on the way to an entry, and where it parts from the new key.
TurnsWithNew(reps, j, first, number, key) ==
  TurnsWithin(reps, j, first, number) \cup {PartAt(reps[j], key)}

\* What is known of the range of entries that is copied with a new one: the side that the
\* new key parts from is in it.
NewInRange(reps, e, key, info, first, number) ==
  /\ NewBeside(reps, e, key)
  /\ Describes(info, reps, e, GetMismatchingBit(reps[e], key))
  /\ first \in DOMAIN reps /\ number \in Nat /\ first + number - 1 <= Len(reps)
  /\ first <= info.first /\ info.first + info.number <= first + number

\* The new entry goes into the range.
LEMMA NewIndexIs ==
  ASSUME NEW reps, NEW e, NEW key, NEW info, NEW first, NEW number,
         NewInRange(reps, e, key, info, first, number)
  PROVE  /\ first \in Nat /\ number \in Nat /\ info.first \in Nat /\ info.number \in Nat \ {0}
         /\ NewIndex(info, key) \in first .. first + number
         /\ \A j \in first .. first + number - 1 : j \in DOMAIN reps /\ j \in Nat
<1>1. first \in Nat /\ info.first \in Nat /\ info.number \in Nat \ {0} /\ number \in Nat
      /\ Len(reps) \in Nat /\ DOMAIN reps = 1 .. Len(reps)
  BY EntriesAre DEF NewInRange, NewBeside, Describes
<1>2. first + number - 1 <= Len(reps) /\ first \in DOMAIN reps
      /\ first <= info.first /\ info.first + info.number <= first + number
  BY DEF NewInRange
<1>3. NewIndex(info, key) \in first .. first + number
  BY <1>1, <1>2 DEF NewIndex
<1> QED BY <1>1, <1>2, <1>3

\* With the new key the keys are in order, and their paths turn where they did and where
\* the new key parts.
LEMMA WidenedIs ==
  ASSUME NEW reps, NEW e, NEW key, NEW info, NEW first, NEW number,
         NewInRange(reps, e, key, info, first, number),
         NEW at, at = NewIndex(info, key), NEW slot, slot = at - first + 1,
         NEW wide, wide = Widened(reps, first, number, at, key)
  PROVE  /\ Ascending(wide) /\ Len(wide) = number + 1 /\ DOMAIN wide = 1 .. number + 1
         /\ wide[slot] = key
         /\ PathBits(wide, slot) = { PartAt(reps[j], key) : j \in first .. first + number - 1 }
         /\ \A t \in (1 .. number + 1) \ {slot} :
              /\ wide[t] = reps[Old(first, at, t)]
              /\ PathBits(wide, t) = TurnsWithNew(reps, Old(first, at, t), first, number, key)
<1>1. /\ first \in Nat /\ number \in Nat /\ at \in first .. first + number
      /\ \A j \in first .. first + number - 1 : j \in DOMAIN reps /\ j \in Nat
  BY NewIndexIs
<1>2. /\ Ascending(reps) /\ e \in DOMAIN reps /\ key \in AllKeys
      /\ NewBeside(reps, e, key) /\ Describes(info, reps, e, GetMismatchingBit(reps[e], key))
  BY DEF NewInRange, NewBeside
<1>3. \A j \in DOMAIN reps : reps[j] \in AllKeys
  BY <1>2, EntriesAre
<1>4. /\ slot \in 1 .. number + 1 /\ first + slot - 1 = at
      /\ \A t \in (1 .. number + 1) \ {slot} :
           /\ first + t - 1 # at /\ Old(first, at, t) \in first .. first + number - 1
           /\ t < slot => Old(first, at, t) < at
           /\ slot < t => Old(first, at, t) >= at
           /\ Moved(first, at, Old(first, at, t)) = t
      /\ \A t, u \in (1 .. number + 1) \ {slot} : t < u => Old(first, at, t) < Old(first, at, u)
      /\ \A j \in first .. first + number - 1 :
           /\ Moved(first, at, j) \in (1 .. number + 1) \ {slot}
           /\ Old(first, at, Moved(first, at, j)) = j
  <2>1. Shifts(first, number, at, slot)
    BY <1>1, OldEntries
  <2> QED BY <2>1 DEF Shifts
<1>5. wide[slot] = key /\ DOMAIN wide = 1 .. number + 1
  BY <1>4 DEF Widened
<1>6. \A t \in (1 .. number + 1) \ {slot} : wide[t] = reps[Old(first, at, t)]
  BY <1>4 DEF Widened
<1>7. ASSUME NEW t \in 1 .. number + 1 PROVE wide[t] \in AllKeys
  <2>1. CASE t = slot
    BY <1>2, <1>5, <2>1
  <2>2. CASE t # slot
    <3>1. Old(first, at, t) \in DOMAIN reps
      BY <1>1, <1>4, <2>2
    <3> QED BY <1>3, <1>6, <2>2, <3>1
  <2> QED BY <2>1, <2>2
<1>8. wide \in Seq(AllKeys) /\ Len(wide) = number + 1
  <2>1. wide = [t \in 1 .. number + 1 |-> wide[t]]
    BY DEF Widened
  <2> QED BY <1>1, <1>7, <2>1
<1>9. ASSUME NEW t \in 1 .. number + 1, NEW u \in 1 .. number + 1, t < u
      PROVE  KeyLess(wide[t], wide[u])
  <2>1. CASE t # slot /\ u # slot
    <3>1. /\ Old(first, at, t) \in DOMAIN reps /\ Old(first, at, u) \in DOMAIN reps
          /\ Old(first, at, t) < Old(first, at, u)
      BY <1>1, <1>4, <1>9, <2>1
    <3> QED BY <1>2, <1>6, <2>1, <3>1 DEF Ascending
  <2>2. CASE t = slot
    <3>1. u # slot /\ slot < u
      BY <1>9, <2>2
    <3>2. Old(first, at, u) \in DOMAIN reps /\ Old(first, at, u) >= at
      BY <1>1, <1>4, <3>1
    <3>3. KeyLess(key, reps[Old(first, at, u)])
      BY <1>2, <3>2, NewKeyInOrder
    <3> QED BY <1>5, <1>6, <2>2, <3>1, <3>3
  <2>3. CASE u = slot
    <3>1. t # slot /\ t < slot
      BY <1>9, <2>3
    <3>2. Old(first, at, t) \in DOMAIN reps /\ Old(first, at, t) < at
      BY <1>1, <1>4, <3>1
    <3>3. KeyLess(reps[Old(first, at, t)], key)
      BY <1>2, <3>2, NewKeyInOrder
    <3> QED BY <1>5, <1>6, <2>3, <3>1, <3>3
  <2> QED BY <2>1, <2>2, <2>3
<1>10. Ascending(wide)
  BY <1>5, <1>8, <1>9 DEF Ascending
<1>11. \A j \in first .. first + number - 1 : PartAt(key, reps[j]) = PartAt(reps[j], key)
  BY <1>1, <1>2, NewKeyParts
<1>12. PathBits(wide, slot) = { PartAt(reps[j], key) : j \in first .. first + number - 1 }
  <2>1. PathBits(wide, slot) = { PartAt(key, wide[t]) : t \in (1 .. number + 1) \ {slot} }
    BY <1>5 DEF PathBits
  <2>2. ASSUME NEW t \in (1 .. number + 1) \ {slot}
        PROVE  /\ Old(first, at, t) \in first .. first + number - 1
               /\ PartAt(key, wide[t]) = PartAt(reps[Old(first, at, t)], key)
    BY <1>4, <1>6, <1>11
  <2>3. ASSUME NEW j \in first .. first + number - 1
        PROVE  /\ Moved(first, at, j) \in (1 .. number + 1) \ {slot}
               /\ PartAt(key, wide[Moved(first, at, j)]) = PartAt(reps[j], key)
    BY <1>4, <1>6, <1>11
  <2> QED BY <2>1, <2>2, <2>3
<1>13. ASSUME NEW t \in (1 .. number + 1) \ {slot}
       PROVE  PathBits(wide, t) = TurnsWithNew(reps, Old(first, at, t), first, number, key)
  <2> DEFINE o == Old(first, at, t)
             m(j) == Moved(first, at, j)
  <2>1. PathBits(wide, t) = { PartAt(reps[o], wide[u]) : u \in (1 .. number + 1) \ {t} }
    BY <1>5, <1>6 DEF PathBits
  <2>2. ASSUME NEW u \in (1 .. number + 1) \ {t, slot}
        PROVE  /\ Old(first, at, u) \in (first .. first + number - 1) \ {o}
               /\ PartAt(reps[o], wide[u]) = Turn(reps, o, Old(first, at, u))
    <3>1. t < u \/ u < t
      OBVIOUS
    <3>2. Old(first, at, u) # o
      BY <1>4
    <3> QED BY <1>4, <1>6, <3>2 DEF Turn
  <2>3. ASSUME NEW j \in (first .. first + number - 1) \ {o}
        PROVE  m(j) \in (1 .. number + 1) \ {t, slot} /\ PartAt(reps[o], wide[m(j)]) = Turn(reps, o, j)
    <3>1. m(j) \in (1 .. number + 1) \ {slot} /\ Old(first, at, m(j)) = j
      BY <1>4
    <3>2. m(j) # t
      BY <3>1
    <3> QED BY <1>6, <3>1, <3>2 DEF Turn
  <2>4. slot \in (1 .. number + 1) \ {t} /\ PartAt(reps[o], wide[slot]) = PartAt(reps[o], key)
    BY <1>4, <1>5
  <2>5. \A u \in (1 .. number + 1) \ {t} : u = slot \/ u \in (1 .. number + 1) \ {t, slot}
    OBVIOUS
  <2> HIDE DEF o, m
  <2>6. ASSUME NEW c \in PathBits(wide, t) PROVE c \in TurnsWithNew(reps, o, first, number, key)
    <3>1. PICK u \in (1 .. number + 1) \ {t} : c = PartAt(reps[o], wide[u])
      BY <2>1
    <3>2. CASE u = slot
      BY <2>4, <3>1, <3>2 DEF TurnsWithNew
    <3>3. CASE u # slot
      BY <2>2, <2>5, <3>1, <3>3 DEF TurnsWithNew, TurnsWithin
    <3> QED BY <3>2, <3>3
  <2>7. ASSUME NEW c \in TurnsWithNew(reps, o, first, number, key) PROVE c \in PathBits(wide, t)
    <3>1. CASE c = PartAt(reps[o], key)
      BY <2>1, <2>4, <3>1
    <3>2. CASE c \in TurnsWithin(reps, o, first, number)
      <4>1. PICK j \in (first .. first + number - 1) \ {o} : c = Turn(reps, o, j)
        BY <3>2 DEF TurnsWithin
      <4>2. m(j) \in (1 .. number + 1) \ {t} /\ c = PartAt(reps[o], wide[m(j)])
        BY <2>3, <4>1
      <4> QED BY <2>1, <4>2
    <3> QED BY <3>1, <3>2 DEF TurnsWithNew
  <2> QED BY <2>6, <2>7 DEF o
<1> QED BY <1>5, <1>6, <1>8, <1>10, <1>12, <1>13

\* The existing partial keys in the copy: the side on the one side of the new key gets the
\* new bit.
LEMMA OldPartialKeys ==
  ASSUME NEW node, NEW reps, NEW e, NEW key, NEW info, NEW first, NEW number, NEW relevant,
         NewInRange(reps, e, key, info, first, number), Keeps(node, reps, first, number, relevant),
         NEW j \in first .. first + number - 1
  PROVE  (node.keys[j] \cap relevant)
           \cup (IF j \in info.first .. info.first + info.number - 1 /\ info.key.bit \notin key
                 THEN {info.key.bit} ELSE {})
         = TurnsWithNew(reps, j, first, number, key) \cap reps[j]
<1> DEFINE b == PartAt(reps[e], key)
           S == Side(reps, e, b)
<1>1. /\ j \in DOMAIN reps /\ j \in Nat
      /\ NewBeside(reps, e, key) /\ e \in DOMAIN reps /\ Ascending(reps)
      /\ Describes(info, reps, e, GetMismatchingBit(reps[e], key))
  BY NewIndexIs DEF NewInRange, NewBeside
<1>2. /\ info.key.bit = b /\ S = info.first .. info.first + info.number - 1
  BY <1>1 DEF Describes, PartAt
<1>3. node.keys[j] \cap relevant = TurnsWithin(reps, j, first, number) \cap reps[j]
  BY DEF Keeps
<1>4. /\ b \in reps[e] <=> b \notin key
      /\ PartAt(reps[j], key) \in reps[j] <=> PartAt(reps[j], key) \notin key
      /\ j \in S => PartAt(reps[j], key) = b
      /\ j \notin S => j # e /\ PartAt(reps[j], key) = Turn(reps, e, j)
  BY <1>1, NewKeyParts
<1>5. CASE j \in S
  <2>1. b \in reps[j] <=> b \notin key
    BY <1>4, <1>5
  <2> HIDE DEF b, S
  <2> QED BY <1>2, <1>3, <1>4, <1>5, <2>1 DEF TurnsWithNew
<1>6. CASE j \notin S
  <2>1. e \in S
    BY <1>1 DEF Side
  <2>2. e \in first .. first + number - 1
    <3>1. /\ first \in Nat /\ number \in Nat /\ info.first \in Nat /\ info.number \in Nat \ {0}
          /\ first <= info.first /\ info.first + info.number <= first + number
      BY NewIndexIs DEF NewInRange
    <3> HIDE DEF S
    <3>2. e \in info.first .. info.first + info.number - 1
      BY <1>2, <2>1
    <3> QED BY <3>1, <3>2
  <2>3. Turn(reps, j, e) = Turn(reps, e, j)
    BY <1>1, <1>4, <1>6, TurnIs
  <2>4. PartAt(reps[j], key) \in TurnsWithin(reps, j, first, number)
    BY <1>4, <1>6, <2>2, <2>3 DEF TurnsWithin
  <2> HIDE DEF b, S
  <2> QED BY <1>2, <1>3, <1>6, <2>4 DEF TurnsWithNew
<1> QED BY <1>5, <1>6

\* The partial key of the new entry: the path in front of the new bit, and the new bit.
LEMMA NewPartialKey ==
  ASSUME NEW node, NEW reps, Represents(node, reps), NEW e, NEW key, NEW info, NEW first, NEW number,
         NEW relevant,
         NewInRange(reps, e, key, info, first, number), Keeps(node, reps, first, number, relevant)
  PROVE  (info.prefix \cap relevant) \cup (IF info.key.bit \in key THEN {info.key.bit} ELSE {})
         = { PartAt(reps[j], key) : j \in first .. first + number - 1 } \cap key
<1> DEFINE b == PartAt(reps[e], key)
           S == Side(reps, e, b)
           range == first .. first + number - 1
<1>1. /\ NewBeside(reps, e, key) /\ e \in DOMAIN reps /\ Ascending(reps)
      /\ Describes(info, reps, e, GetMismatchingBit(reps[e], key))
  BY DEF NewInRange, NewBeside
<1>2. \A j \in range : j \in DOMAIN reps
  BY NewIndexIs
<1>3. /\ info.key.bit = b /\ S = info.first .. info.first + info.number - 1
      /\ info.prefix = PathInFront(reps, e, b)
  BY <1>1 DEF Describes, PartAt
<1>4. e \in S /\ e \in range
  <2>1. e \in S
    BY <1>1 DEF Side
  <2>2. /\ first \in Nat /\ number \in Nat /\ info.first \in Nat /\ info.number \in Nat \ {0}
        /\ first <= info.first /\ info.first + info.number <= first + number
    BY NewIndexIs DEF NewInRange
  <2> HIDE DEF S
  <2>3. e \in info.first .. info.first + info.number - 1
    BY <1>3, <2>1
  <2> QED BY <2>1, <2>2, <2>3
<1>5. node.keys[e] \cap relevant = TurnsWithin(reps, e, first, number) \cap reps[e]
  BY <1>4 DEF Keeps
<1>6. node.keys[e] = PartialKey(reps, e)
  BY <1>1, EntriesAre DEF Represents
<1>7. info.prefix \cap relevant = { c \in TurnsWithin(reps, e, first, number) \cap reps[e] : c < b }
  BY <1>3, <1>5, <1>6 DEF PathInFront
<1>8. \A j \in range :
        /\ b \in Nat
        /\ j \in S => PartAt(reps[j], key) = b
        /\ j \notin S => /\ j # e /\ PartAt(reps[j], key) = Turn(reps, e, j) /\ Turn(reps, e, j) < b
                         /\ Turn(reps, e, j) \in key <=> Turn(reps, e, j) \in reps[e]
  BY <1>1, <1>2, NewKeyParts
<1>9. \A j \in range : j \in S => j = e \/ Turn(reps, e, j) > b
  BY DEF Side
<1>10. \A j \in range \ {e} : Turn(reps, e, j) \in Nat
  BY <1>1, <1>2, TurnIs
<1> HIDE DEF b, S, range
<1>11. ASSUME NEW c \in info.prefix \cap relevant PROVE c \in { PartAt(reps[j], key) : j \in range } \cap key
  <2>1. PICK j \in range \ {e} : c = Turn(reps, e, j)
    BY <1>7 DEF TurnsWithin, range
  <2>2. c < b /\ c \in reps[e]
    BY <1>7
  <2>3. j \notin S
    BY <1>8, <1>9, <1>10, <2>1, <2>2
  <2> QED BY <1>8, <2>1, <2>2, <2>3
<1>12. ASSUME b \in key PROVE b \in { PartAt(reps[j], key) : j \in range } \cap key
  BY <1>4, <1>8, <1>12
<1>13. ASSUME NEW c \in { PartAt(reps[j], key) : j \in range } \cap key
       PROVE  c \in info.prefix \cap relevant \/ (c = b /\ b \in key)
  <2>1. PICK j \in range : c = PartAt(reps[j], key)
    OBVIOUS
  <2>2. CASE j \in S
    BY <1>8, <2>1, <2>2
  <2>3. CASE j \notin S
    BY <1>7, <1>8, <2>1, <2>3 DEF TurnsWithin, range
  <2> QED BY <2>2, <2>3
<1> QED BY <1>3, <1>11, <1>12, <1>13 DEF range

\* A copy with a new entry represents the keys with the new one.
LEMMA CopyRangeAndAddIs ==
  ASSUME NEW node, NEW reps, Represents(node, reps), NEW e, NEW key, NEW info, NEW first, NEW number,
         NEW relevant,
         NewInRange(reps, e, key, info, first, number), Keeps(node, reps, first, number, relevant),
         NEW new, NEW at, at = NewIndex(info, key), NEW slot, slot = at - first + 1,
         NEW copy, copy = CopyRangeAndAdd(node, first, number, relevant, info, new)
  PROVE  /\ Represents(copy, Widened(reps, first, number, at, key))
         /\ copy.height = node.height /\ copy.ptrs[slot] = new /\ slot \in 1 .. number + 1
         /\ \A t \in (1 .. number + 1) \ {slot} : copy.ptrs[t] = node.ptrs[Old(first, at, t)]
<1> DEFINE wide == Widened(reps, first, number, at, key)
           after == info.first + info.number
           isAffected(i) == i \in info.first .. after - 1
           oldKey(i) == (node.keys[i] \cap relevant)
                          \cup (IF isAffected(i) /\ ~info.key.value THEN {info.key.bit} ELSE {})
           newKey == (info.prefix \cap relevant) \cup (IF info.key.value THEN {info.key.bit} ELSE {})
           newIndex == IF info.key.value THEN after ELSE info.first
           keyAt(t) == IF first + t - 1 < newIndex THEN oldKey(first + t - 1)
                       ELSE IF first + t - 1 = newIndex THEN newKey ELSE oldKey((first + t - 1) - 1)
           ptrAt(t) == IF first + t - 1 < newIndex THEN node.ptrs[first + t - 1]
                       ELSE IF first + t - 1 = newIndex THEN new ELSE node.ptrs[(first + t - 1) - 1]
<1>1. /\ NewBeside(reps, e, key) /\ Describes(info, reps, e, GetMismatchingBit(reps[e], key))
      /\ reps[e] \in SUBSET Nat /\ key \in SUBSET Nat /\ reps[e] # key
  BY EntriesAre, KeysAreSets DEF NewInRange, NewBeside
<1>2. /\ (IF info.key.value THEN {info.key.bit} ELSE {})
           = (IF info.key.bit \in key THEN {info.key.bit} ELSE {})
      /\ \A i : (IF isAffected(i) /\ ~info.key.value THEN {info.key.bit} ELSE {})
                = (IF i \in info.first .. info.first + info.number - 1 /\ info.key.bit \notin key
                   THEN {info.key.bit} ELSE {})
      /\ at = newIndex
  <2>1. info.key = GetMismatchingBit(reps[e], key)
    BY <1>1 DEF Describes
  <2>2. GetMismatchingBit(reps[e], key).value = (GetMismatchingBit(reps[e], key).bit \in key)
    BY <1>1, PartAtIs DEF PartAt
  <2>3. info.key.value <=> info.key.bit \in key
    BY <2>1, <2>2
  <2>4. CASE info.key.value
    BY <2>3, <2>4, Zenon DEF NewIndex
  <2>5. CASE ~info.key.value
    <3>1. info.key.bit \notin key
      BY <2>3, <2>5
    <3>2. at = newIndex
      BY <2>5, <3>1 DEF NewIndex
    <3>3. info.first .. after - 1 = info.first .. info.first + info.number - 1
      <4>1. info.first \in Nat /\ info.number \in Nat
        BY NewIndexIs
      <4> QED BY <4>1
    <3> HIDE DEF after
    <3> QED BY <2>5, <3>1, <3>2, <3>3, Zenon
  <2> QED BY <2>4, <2>5
<1>4. /\ copy.keys = [t \in 1 .. number + 1 |-> IF t = 1 THEN {} ELSE keyAt(t)]
      /\ copy.ptrs = [t \in 1 .. number + 1 |-> ptrAt(t)]
      /\ copy.height = node.height
  <2>1. copy = NodeContent(node.height,
                 [t \in 1 .. number + 1 |-> IF t = 1 THEN {} ELSE keyAt(t)],
                 [t \in 1 .. number + 1 |-> ptrAt(t)])
    BY Zenon DEF CopyRangeAndAdd
  <2> HIDE DEF keyAt, ptrAt
  <2> QED BY <2>1 DEF NodeContent
<1> HIDE DEF newIndex
<1>5. /\ first \in Nat /\ number \in Nat /\ at \in first .. first + number
  BY NewIndexIs
<1>6. Shifts(first, number, at, slot)
  BY <1>5, OldEntries
<1>7. /\ Ascending(wide) /\ Len(wide) = number + 1 /\ DOMAIN wide = 1 .. number + 1
      /\ wide[slot] = key
      /\ PathBits(wide, slot) = { PartAt(reps[j], key) : j \in first .. first + number - 1 }
      /\ \A t \in (1 .. number + 1) \ {slot} :
           /\ wide[t] = reps[Old(first, at, t)]
           /\ PathBits(wide, t) = TurnsWithNew(reps, Old(first, at, t), first, number, key)
  BY WidenedIs
<1>8. newKey = PartialKey(wide, slot)
  <2>1. newKey = { PartAt(reps[j], key) : j \in first .. first + number - 1 } \cap key
    <3>1. newKey = (info.prefix \cap relevant)
                     \cup (IF info.key.bit \in key THEN {info.key.bit} ELSE {})
      BY <1>2, Zenon
    <3> HIDE DEF newKey
    <3> QED BY <3>1, NewPartialKey
  <2> HIDE DEF newKey
  <2> QED BY <1>7, <2>1 DEF PartialKey
<1>9. ASSUME NEW t \in (1 .. number + 1) \ {slot}
      PROVE  oldKey(Old(first, at, t)) = PartialKey(wide, t)
  <2> DEFINE o == Old(first, at, t)
  <2>1. o \in first .. first + number - 1
    BY <1>6 DEF Shifts
  <2> HIDE DEF o
  <2>2. oldKey(o) = TurnsWithNew(reps, o, first, number, key) \cap reps[o]
    <3>1. oldKey(o) = (node.keys[o] \cap relevant)
                        \cup (IF o \in info.first .. info.first + info.number - 1
                                   /\ info.key.bit \notin key
                              THEN {info.key.bit} ELSE {})
      BY <1>2, Zenon
    <3> HIDE DEF oldKey
    <3> QED BY <2>1, <3>1, OldPartialKeys
  <2> HIDE DEF oldKey
  <2> QED BY <1>7, <2>2 DEF PartialKey, o
<1> HIDE DEF wide, oldKey, newKey, after
<1>10. ASSUME NEW t \in 1 .. number + 1 PROVE keyAt(t) = PartialKey(wide, t)
  <2>1. CASE t = slot
    <3>1. first + t - 1 = newIndex
      BY <1>2, <1>6, <2>1 DEF Shifts
    <3>2. keyAt(t) = newKey
      BY <1>5, <3>1
    <3> QED BY <1>8, <2>1, <3>2
  <2>2. CASE t # slot
    <3>1. first + t - 1 # at
      BY <1>6, <2>2 DEF Shifts
    <3>2. keyAt(t) = oldKey(Old(first, at, t))
      BY <1>2, <1>5, <3>1 DEF Old
    <3> QED BY <1>9, <2>2, <3>2
  <2> QED BY <2>1, <2>2
<1>11. 1 .. number + 1 # {} /\ 1 \in 1 .. number + 1
  BY <1>5
<1>12. PartialKey(wide, 1) = {}
  BY <1>7, <1>11, PathBitsAre
<1>13. copy.keys = [t \in 1 .. Len(wide) |-> PartialKey(wide, t)]
  BY <1>4, <1>7, <1>10, <1>12
<1>14. DOMAIN copy.ptrs = 1 .. Len(wide) /\ Len(copy.ptrs) = Len(wide)
  BY <1>4, <1>5, <1>7
<1>15. Represents(copy, wide)
  <2>1. IsFunction(copy.ptrs)
    BY <1>4 DEF IsFunction
  <2> QED BY <1>7, <1>13, <1>14, <2>1 DEF Represents
<1>16. copy.ptrs[slot] = new /\ slot \in 1 .. number + 1
  BY <1>2, <1>4, <1>5, <1>6 DEF Shifts
<1>17. ASSUME NEW t \in (1 .. number + 1) \ {slot} PROVE copy.ptrs[t] = node.ptrs[Old(first, at, t)]
  <2>1. first + t - 1 # at
    BY <1>6 DEF Shifts
  <2> QED BY <1>2, <1>4, <1>5, <2>1 DEF Old
<1> QED BY <1>4, <1>15, <1>16, <1>17 DEF wide

-----------------------------------------------------------------------------
(* The halves of a node                                                    *)

\* What is known of the most significant bit of a node: no two entries part in front of it,
\* and every entry parts from some other at it.
IsFirstTurn(reps, m) ==
  /\ m \in Nat
  /\ \A i, j \in DOMAIN reps : i # j => m <= Turn(reps, i, j)
  /\ \A i \in DOMAIN reps : \E j \in DOMAIN reps \ {i} : Turn(reps, i, j) = m

\* The most significant bit is the first at which entries part.
LEMMA MostSignificantBitIs ==
  ASSUME NEW node, NEW reps, Represents(node, reps), Len(reps) >= 2
  PROVE  IsFirstTurn(reps, MostSignificantBit(node))
<1> DEFINE D == DiscriminativeBits(node)
           m == MostSignificantBit(node)
<1>1. Ascending(reps) /\ Len(reps) \in Nat /\ DOMAIN reps = 1 .. Len(reps)
      /\ \A i \in DOMAIN reps : i \in Nat
  BY EntriesAre DEF Represents
<1>2. DOMAIN node.keys = DOMAIN reps /\ \A i \in DOMAIN reps : node.keys[i] = PartialKey(reps, i)
  BY <1>1 DEF Represents
<1>3. ASSUME NEW c \in D
      PROVE  \E i \in DOMAIN reps : \E j \in DOMAIN reps \ {i} : c = Turn(reps, i, j) /\ c \in Nat
  <2>1. PICK i \in DOMAIN reps : c \in PartialKey(reps, i)
    BY <1>2 DEF DiscriminativeBits
  <2>2. PICK j \in DOMAIN reps \ {i} : c = Turn(reps, i, j)
    BY <2>1 DEF PartialKey, PathBits, Turn
  <2> QED BY <1>1, <2>2, TurnIs
<1>4. ASSUME NEW i \in DOMAIN reps, NEW j \in DOMAIN reps, i # j PROVE Turn(reps, i, j) \in D
  <2>1. \A k, l \in DOMAIN reps : k # l /\ Turn(reps, k, l) \in reps[k] => Turn(reps, k, l) \in D
    BY <1>2 DEF DiscriminativeBits, PartialKey, PathBits, Turn
  <2>2. Turn(reps, i, j) = Turn(reps, j, i) /\ (Turn(reps, i, j) \in reps[i] \/ Turn(reps, i, j) \in reps[j])
    BY <1>1, <1>4, TurnIs
  <2> QED BY <1>4, <2>1, <2>2
<1>5. 1 \in DOMAIN reps /\ 2 \in DOMAIN reps
  BY <1>1
<1>6. D # {} /\ D \subseteq Nat
  BY <1>3, <1>4, <1>5
<1>7. m \in D /\ \A c \in D : m <= c
  <2>1. m = Min(D)
    BY DEF MostSignificantBit
  <2> HIDE DEF D, m
  <2> QED BY <1>6, <2>1, MinIsLeast
<1> HIDE DEF D, m
<1>8. m \in Nat
  BY <1>6, <1>7
<1>9. \A i, j \in DOMAIN reps : i # j => m <= Turn(reps, i, j)
  BY <1>4, <1>7
<1>10. PICK x \in DOMAIN reps, y \in DOMAIN reps : x # y /\ m = Turn(reps, x, y)
  BY <1>3, <1>7
<1>11. ASSUME NEW i \in DOMAIN reps PROVE \E j \in DOMAIN reps \ {i} : Turn(reps, i, j) = m
  <2>1. CASE i = x
    BY <1>10, <2>1
  <2>2. CASE i = y
    <3>1. Turn(reps, y, x) = m
      BY <1>1, <1>10, TurnIs
    <3> QED BY <1>10, <2>2, <3>1
  <2>3. CASE i # x /\ i # y
    <3>1. Turn(reps, i, x) # m => Turn(reps, i, y) = m
      <4>1. m <= Turn(reps, i, x) /\ Turn(reps, i, x) \in Nat
        BY <1>1, <1>9, <2>3, TurnIs
      <4>2. Turn(reps, x, y) < Turn(reps, i, x) => Turn(reps, i, y) = Turn(reps, x, y)
        BY <1>1, <1>10, <2>3, ThreeEntries
      <4> QED BY <1>8, <1>10, <4>1, <4>2
    <3> QED BY <1>10, <2>3, <3>1
  <2> QED BY <2>1, <2>2, <2>3
<1> QED BY <1>8, <1>9, <1>11 DEF IsFirstTurn, m

\* The entries up to a number turn left at the most significant bit, the others right.
Halved(reps, m, smaller) ==
  /\ smaller \in 1 .. Len(reps) - 1
  /\ \A i \in DOMAIN reps : i > smaller <=> m \in reps[i]
  /\ \A i, j \in DOMAIN reps :
       /\ i <= smaller /\ j > smaller => Turn(reps, i, j) = m /\ Turn(reps, j, i) = m
       /\ i # j /\ (i <= smaller <=> j <= smaller) => Turn(reps, i, j) > m
  /\ Whole(reps, 1, smaller) /\ Whole(reps, smaller + 1, Len(reps) - smaller)

\* The number of entries on the larger side splits the node into these halves.
LEMMA HalvesAre ==
  ASSUME NEW node, NEW reps, Represents(node, reps), Len(reps) >= 2
  PROVE  /\ Halved(reps, MostSignificantBit(node), Len(node.ptrs) - NumberLargerEntries(node))
         /\ NumberLargerEntries(node) \in 1 .. Len(reps) - 1
<1> DEFINE m == MostSignificantBit(node)
           L == { i \in DOMAIN reps : m \in reps[i] }
<1>1. Ascending(reps) /\ Len(reps) \in Nat /\ DOMAIN reps = 1 .. Len(reps)
      /\ \A i \in DOMAIN reps : i \in Nat
  BY EntriesAre DEF Represents
<1>2. /\ m \in Nat
      /\ \A i, j \in DOMAIN reps : i # j => m <= Turn(reps, i, j)
      /\ \A i \in DOMAIN reps : \E j \in DOMAIN reps \ {i} : Turn(reps, i, j) = m
  BY MostSignificantBitIs DEF IsFirstTurn
<1>3. DOMAIN node.keys = DOMAIN reps /\ \A i \in DOMAIN reps : node.keys[i] = PartialKey(reps, i)
      /\ Len(node.ptrs) = Len(reps)
  BY <1>1 DEF Represents
<1>4. NumberLargerEntries(node) = Cardinality(L)
  <2>1. \A i \in DOMAIN reps : m \in node.keys[i] <=> m \in reps[i]
    BY <1>2, <1>3 DEF PartialKey, PathBits, Turn
  <2>2. {i \in DOMAIN node.keys : m \in node.keys[i]} = L
    BY <1>3, <2>1
  <2> QED BY <2>2 DEF NumberLargerEntries
<1> HIDE DEF m
<1>5. ASSUME NEW i \in DOMAIN reps, NEW j \in DOMAIN reps, i # j, ~(m \in reps[i] <=> m \in reps[j])
      PROVE  Turn(reps, i, j) = m
  <2>1. m <= Turn(reps, i, j) /\ Turn(reps, i, j) \in Nat /\ AgreeBelow(reps[i], reps[j], Turn(reps, i, j))
    BY <1>1, <1>2, <1>5, TurnIs
  <2>2. ~(m < Turn(reps, i, j))
    BY <1>2, <1>5, <2>1 DEF AgreeBelow
  <2> QED BY <1>2, <2>1, <2>2
<1>6. ASSUME NEW i \in DOMAIN reps, NEW j \in DOMAIN reps, i # j, m \in reps[i] <=> m \in reps[j]
      PROVE  Turn(reps, i, j) > m
  <2>1. /\ m <= Turn(reps, i, j) /\ Turn(reps, i, j) \in Nat
        /\ Turn(reps, i, j) \in reps[i] <=> Turn(reps, i, j) \notin reps[j]
    BY <1>1, <1>2, <1>6, TurnIs
  <2>2. Turn(reps, i, j) # m
    BY <1>6, <2>1
  <2> HIDE DEF Turn
  <2> QED BY <1>2, <2>1, <2>2
<1>7. ASSUME NEW i \in DOMAIN reps, NEW j \in DOMAIN reps, i < j, m \in reps[i] PROVE m \in reps[j]
  <2>1. i # j
    BY <1>1, <1>7
  <2>2. m \notin reps[j] => Turn(reps, i, j) = m
    BY <1>5, <1>7, <2>1
  <2>3. Turn(reps, i, j) \in reps[j]
    BY <1>1, <1>7, <2>1, TurnIs
  <2> QED BY <2>2, <2>3
<1>8. 1 \in DOMAIN reps /\ 1 \notin L /\ L # {}
  <2>1. 1 \in DOMAIN reps /\ \A i \in DOMAIN reps : i = 1 \/ 1 < i
    BY <1>1
  <2>2. PICK j \in DOMAIN reps \ {1} : Turn(reps, 1, j) = m
    BY <1>2, <2>1
  <2>3. m \in reps[1] <=> m \notin reps[j]
    BY <1>1, <2>1, <2>2, TurnIs
  <2>4. m \notin reps[1]
    BY <1>7, <2>1, <2>2, <2>3
  <2> QED BY <2>1, <2>2, <2>3, <2>4
<1>9. L \subseteq DOMAIN reps /\ L \subseteq Nat
  BY <1>1
<1>10. PICK low \in L : \A i \in L : low <= i
  <2> HIDE DEF L
  <2> QED BY <1>8, <1>9, LeastNatural
<1>11. low \in 2 .. Len(reps) /\ low \in Nat
  BY <1>1, <1>8, <1>10
<1>12. L = low .. Len(reps)
  <2>1. ASSUME NEW i \in low .. Len(reps) PROVE i \in L
    <3>1. i \in DOMAIN reps /\ (i = low \/ low < i)
      BY <1>1, <1>11
    <3> QED BY <1>7, <1>10, <3>1
  <2>2. ASSUME NEW i \in L PROVE i \in low .. Len(reps)
    BY <1>1, <1>10, <1>11
  <2> QED BY <2>1, <2>2
<1>13. Cardinality(L) = Len(reps) - low + 1
  <2> HIDE DEF L
  <2>1. low \in Int /\ Len(reps) \in Int /\ low <= Len(reps)
    BY <1>1, <1>11
  <2>2. Cardinality(low .. Len(reps)) = Len(reps) - low + 1
    BY <2>1, FS_Interval
  <2> QED BY <1>12, <2>2
<1> DEFINE smaller == Len(node.ptrs) - NumberLargerEntries(node)
<1>14. smaller = low - 1 /\ NumberLargerEntries(node) = Len(reps) - smaller
       /\ NumberLargerEntries(node) \in 1 .. Len(reps) - 1 /\ smaller \in 1 .. Len(reps) - 1
  BY <1>1, <1>3, <1>4, <1>11, <1>13
<1> HIDE DEF smaller
<1> DEFINE n == Len(reps)
<1>20. smaller \in Nat /\ n \in Nat /\ 1 <= smaller /\ smaller < n /\ DOMAIN reps = 1 .. n
  BY <1>1, <1>14
<1> HIDE DEF n
<1>15. ASSUME NEW i \in DOMAIN reps PROVE i > smaller <=> m \in reps[i]
  <2>1. i > smaller <=> i \in L
    BY <1>1, <1>11, <1>12, <1>14
  <2> QED BY <2>1
<1> HIDE DEF L
<1>16. ASSUME NEW i \in DOMAIN reps, NEW j \in DOMAIN reps
       PROVE  /\ i <= smaller /\ j > smaller => Turn(reps, i, j) = m /\ Turn(reps, j, i) = m
              /\ i # j /\ (i <= smaller <=> j <= smaller) => Turn(reps, i, j) > m
  <2>1. (i > smaller <=> m \in reps[i]) /\ (j > smaller <=> m \in reps[j])
    BY <1>15
  <2>2. (i > smaller <=> ~(i <= smaller)) /\ (j > smaller <=> ~(j <= smaller))
    BY <1>1, <1>14
  <2> QED BY <1>5, <1>6, <2>1, <2>2
<1>17. Whole(reps, 1, smaller)
  <2> DEFINE R == 1 .. 1 + smaller - 1
  <2>1. \A i \in R : i \in DOMAIN reps /\ i <= smaller
    BY <1>20
  <2>2. \A i \in DOMAIN reps \ R : i > smaller
    BY <1>20
  <2> HIDE DEF R
  <2>3. \A i, j \in R : \A g \in DOMAIN reps \ R : i # j => Turn(reps, i, g) < Turn(reps, i, j)
    BY <1>16, <2>1, <2>2
  <2> QED BY <2>3 DEF Whole, R
<1>18. Whole(reps, smaller + 1, Len(reps) - smaller)
  <2> DEFINE R == smaller + 1 .. smaller + 1 + (n - smaller) - 1
  <2>1. \A i \in R : i \in DOMAIN reps /\ ~(i <= smaller) /\ i > smaller
    BY <1>20
  <2>2. \A i \in DOMAIN reps \ R : i <= smaller
    BY <1>20
  <2> HIDE DEF R
  <2>3. \A i \in R, g \in DOMAIN reps \ R : Turn(reps, i, g) = m
    BY <1>16, <2>1, <2>2
  <2>4. \A i, j \in R : i # j => Turn(reps, i, j) > m
    BY <1>16, <2>1
  <2>5. \A i, j \in R : \A g \in DOMAIN reps \ R : i # j => Turn(reps, i, g) < Turn(reps, i, j)
    BY <2>3, <2>4
  <2> QED BY <2>5 DEF Whole, R, n
<1>19. Halved(reps, m, smaller)
  BY <1>14, <1>15, <1>16, <1>17, <1>18 DEF Halved
<1> QED BY <1>14, <1>19 DEF m, smaller

\* A search key that parts from the entry behind the most significant bit goes into the half
\* of the entry.
LEMMA SideIsInHalf ==
  ASSUME NEW reps, Ascending(reps), NEW m \in Nat, NEW smaller, Halved(reps, m, smaller),
         NEW e \in DOMAIN reps, NEW b \in Nat, b > m, NEW f \in Side(reps, e, b)
  PROVE  f \in DOMAIN reps /\ (f <= smaller <=> e <= smaller)
<1>1. Len(reps) \in Nat /\ DOMAIN reps = 1 .. Len(reps) /\ e \in Nat
  BY EntriesAre
<1>2. f \in DOMAIN reps /\ (f = e \/ Turn(reps, e, f) > b)
  BY DEF Side
<1>3. CASE f = e
  BY <1>2, <1>3
<1>4. CASE f # e
  <2>1. Turn(reps, e, f) # m
    <3>1. Turn(reps, e, f) > b
      BY <1>2, <1>4
    <3>2. Turn(reps, e, f) \in Nat
      BY <1>2, <1>4, TurnIs
    <3> HIDE DEF Turn
    <3> QED BY <3>1, <3>2
  <2>2. /\ e <= smaller /\ f > smaller => Turn(reps, e, f) = m
        /\ f <= smaller /\ e > smaller => Turn(reps, e, f) = m
    BY <1>2 DEF Halved
  <2>3. smaller \in Nat /\ f \in Nat
    BY <1>1, <1>2 DEF Halved
  <2>4. (f > smaller <=> ~(f <= smaller)) /\ (e > smaller <=> ~(e <= smaller))
    BY <1>1, <2>3
  <2> QED BY <1>2, <2>1, <2>2, <2>4
<1> QED BY <1>3, <1>4

-----------------------------------------------------------------------------
(* Nodes below nodes                                                       *)

\* The entries of a node that hangs below an entry part behind the path to the entry.
LEMMA TurnsGrow ==
  ASSUME NEW above, Ascending(above), NEW e \in DOMAIN above,
         NEW reps, Ascending(reps), \A i \in DOMAIN reps : Follows(reps[i], above, e),
         NEW i \in DOMAIN reps, NEW j \in DOMAIN reps, i # j, NEW f \in DOMAIN above \ {e}
  PROVE  Turn(above, e, f) < Turn(reps, i, j)
<1> DEFINE c == Turn(reps, i, j)
           d == Turn(above, e, f)
<1>1. c \in Nat /\ (c \in reps[i] <=> c \notin reps[j])
  BY TurnIs
<1>2. d \in Nat
  BY TurnIs
<1>3. c <= d => (c \in reps[i] <=> c \in above[e]) /\ (c \in reps[j] <=> c \in above[e])
  BY <1>1 DEF Follows
<1> HIDE DEF c, d
<1> QED BY <1>1, <1>2, <1>3 DEF c, d

\* A key that follows a path in a node below an entry follows the path to that entry.
LEMMA FollowsAbove ==
  ASSUME NEW above, Ascending(above), NEW e \in DOMAIN above,
         NEW reps, Ascending(reps), \A i \in DOMAIN reps : Follows(reps[i], above, e),
         Len(reps) >= 2, NEW i \in DOMAIN reps, NEW x, Follows(x, reps, i)
  PROVE  Follows(x, above, e)
<1>1. Len(reps) \in Nat /\ DOMAIN reps = 1 .. Len(reps) /\ i \in Nat
  BY EntriesAre
<1>2. PICK j \in DOMAIN reps : j # i
  <2>1. 1 \in DOMAIN reps /\ 2 \in DOMAIN reps
    BY <1>1
  <2> QED BY <2>1
<1> SUFFICES ASSUME NEW f \in DOMAIN above \ {e}, NEW c \in Nat, c <= Turn(above, e, f)
             PROVE  c \in x <=> c \in above[e]
  BY DEF Follows
<1>3. Turn(above, e, f) < Turn(reps, i, j)
  BY <1>2, TurnsGrow
<1>4. Turn(above, e, f) \in Nat /\ Turn(reps, i, j) \in Nat
  BY <1>2, TurnIs
<1>5. c <= Turn(reps, i, j)
  BY <1>3, <1>4
<1>6. c \in x <=> c \in reps[i]
  BY <1>2, <1>5 DEF Follows
<1>7. c \in reps[i] <=> c \in above[e]
  BY DEF Follows
<1> QED BY <1>6, <1>7

\* A new bit in front of all turns puts the new entry beside all entries.
LEMMA WholeNodeDescribes ==
  ASSUME NEW reps, Ascending(reps), Len(reps) >= 2, NEW e \in DOMAIN reps, NEW newBit,
         newBit.bit \in Nat, \A j \in DOMAIN reps \ {e} : newBit.bit < Turn(reps, e, j)
  PROVE  Describes([prefix |-> {}, first |-> 1, number |-> Len(reps), key |-> newBit], reps, e, newBit)
<1> DEFINE b == newBit.bit
<1>1. Len(reps) \in Nat /\ DOMAIN reps = 1 .. Len(reps)
  BY EntriesAre
<1>2. \A j \in DOMAIN reps \ {e} : Turn(reps, e, j) \in Nat
  BY TurnIs
<1>3. Side(reps, e, b) = DOMAIN reps
  BY DEF Side
<1>4. PathInFront(reps, e, b) = {}
  <2> SUFFICES ASSUME NEW c \in PathInFront(reps, e, b) PROVE FALSE
    OBVIOUS
  <2>1. c < b
    BY DEF PathInFront
  <2>2. PICK j \in DOMAIN reps \ {e} : c = Turn(reps, e, j)
    BY DEF PathInFront, PartialKey, PathBits, Turn
  <2>3. b < c /\ c \in Nat
    BY <1>2, <2>2
  <2> QED BY <2>1, <2>3
<1>5. 1 \in DOMAIN reps /\ Len(reps) \in Nat \ {0} /\ DOMAIN reps = 1 .. 1 + Len(reps) - 1
  BY <1>1
<1> HIDE DEF b
<1> QED BY <1>3, <1>4, <1>5 DEF Describes, b

-----------------------------------------------------------------------------
(* The heights inside a node                                               *)

\* Wherever the path to an entry turns, the entries behind the turn reach the height of
\* the node: one of them is in X, the entries whose child is exactly one level lower.  It
\* is why both halves of a node and the copies of them have the height of the node.
Dense(reps, X) ==
  \A e, f \in DOMAIN reps : e # f =>
    \E g \in X \cap DOMAIN reps : g = e \/ Turn(reps, e, g) >= Turn(reps, e, f)

\* Other keys that part at the same bits change nothing.
LEMMA DenseWithOtherKeys ==
  ASSUME NEW reps, NEW X, Dense(reps, X), NEW other, DOMAIN other = DOMAIN reps,
         \A f, g \in DOMAIN reps : f # g => Turn(other, f, g) = Turn(reps, f, g)
  PROVE  Dense(other, X)
<1> SUFFICES ASSUME NEW e \in DOMAIN reps, NEW f \in DOMAIN reps, e # f
             PROVE  \E g \in X \cap DOMAIN reps : g = e \/ Turn(other, e, g) >= Turn(other, e, f)
  BY DEF Dense
<1>1. PICK g \in X \cap DOMAIN reps : g = e \/ Turn(reps, e, g) >= Turn(reps, e, f)
  BY DEF Dense
<1>2. g # e => Turn(other, e, g) = Turn(reps, e, g)
  OBVIOUS
<1>3. Turn(other, e, f) = Turn(reps, e, f)
  OBVIOUS
<1> HIDE DEF Turn
<1> QED BY <1>1, <1>2, <1>3

\* Entries that belong together are dense among themselves.
LEMMA DenseWithin ==
  ASSUME NEW reps, Ascending(reps), NEW X, Dense(reps, X), NEW first, NEW number,
         Whole(reps, first, number), NEW R, R = first .. first + number - 1, R \subseteq DOMAIN reps,
         NEW i \in R, NEW j \in R, i # j
  PROVE  \E g \in X \cap R : g = i \/ Turn(reps, i, g) >= Turn(reps, i, j)
<1>1. PICK g \in X \cap DOMAIN reps : g = i \/ Turn(reps, i, g) >= Turn(reps, i, j)
  BY DEF Dense
<1>2. CASE g = i
  BY <1>1, <1>2
<1>3. CASE g # i
  <2>1. g \notin R => Turn(reps, i, g) < Turn(reps, i, j)
    BY <1>1 DEF Whole
  <2>2. Turn(reps, i, g) \in Nat /\ Turn(reps, i, j) \in Nat
    BY <1>1, <1>3, TurnIs
  <2> HIDE DEF Turn
  <2>3. g \in R
    BY <1>1, <1>3, <2>1, <2>2
  <2> QED BY <1>1, <1>3, <2>3
<1> QED BY <1>2, <1>3

\* The entries that are exactly one level higher than their child stay so in a copy.
StayExact(X, Y, first, number) == \A t \in 1 .. number : first + t - 1 \in X => t \in Y

\* So is a copy of them.
LEMMA DensePart ==
  ASSUME NEW reps, Ascending(reps), NEW X, Dense(reps, X), NEW first \in DOMAIN reps,
         NEW number \in Nat, first + number - 1 <= Len(reps), Whole(reps, first, number),
         NEW Y, StayExact(X, Y, first, number)
  PROVE  Dense(Part(reps, first, number), Y)
<1> DEFINE part == Part(reps, first, number)
           R == first .. first + number - 1
<1>1. Len(reps) \in Nat /\ DOMAIN reps = 1 .. Len(reps) /\ first \in Nat
  BY EntriesAre
<1>2. R \subseteq DOMAIN reps
  BY <1>1
<1>3. DOMAIN part = 1 .. number /\ \A t \in 1 .. number : part[t] = reps[first + t - 1]
  BY PartIs
<1>4. \A t, u \in 1 .. number : Turn(part, t, u) = Turn(reps, first + t - 1, first + u - 1)
  BY <1>3 DEF Turn
<1> HIDE DEF part
<1> SUFFICES ASSUME NEW t \in 1 .. number, NEW u \in 1 .. number, t # u
             PROVE  \E v \in Y \cap (1 .. number) : v = t \/ Turn(part, t, v) >= Turn(part, t, u)
  BY <1>3 DEF Dense, part
<1>5. /\ first \in Nat /\ number \in Nat /\ t \in Nat /\ u \in Nat
      /\ 1 <= t /\ t <= number /\ 1 <= u /\ u <= number
  BY <1>1
<1>6. first + t - 1 \in R /\ first + u - 1 \in R /\ first + t - 1 # first + u - 1
  BY <1>5
<1>7. PICK g \in X \cap R : \/ g = first + t - 1
                            \/ Turn(reps, first + t - 1, g) >= Turn(reps, first + t - 1, first + u - 1)
  BY <1>2, <1>6, DenseWithin
<1>8. PICK v \in 1 .. number : first + v - 1 = g
  <2>1. g - first + 1 \in 1 .. number /\ first + (g - first + 1) - 1 = g
    <3>1. g \in first .. first + number - 1
      BY <1>7
    <3> QED BY <1>5, <3>1
  <2> QED BY <2>1
<1>9. v \in Y
  BY <1>7, <1>8 DEF StayExact
<1>10. g = first + t - 1 => v = t
  BY <1>5, <1>8
<1>11. v = t \/ Turn(part, t, v) >= Turn(part, t, u)
  BY <1>4, <1>7, <1>8, <1>10
<1> QED BY <1>9, <1>11

\* The turns among the keys with the new one.
LEMMA WidenedTurns ==
  ASSUME NEW reps, NEW e, NEW key, NEW info, NEW first, NEW number,
         NewInRange(reps, e, key, info, first, number),
         NEW at, at = NewIndex(info, key), NEW slot, slot = at - first + 1,
         NEW wide, wide = Widened(reps, first, number, at, key),
         NEW t \in (1 .. number + 1) \ {slot}
  PROVE  /\ Turn(wide, t, slot) = PartAt(reps[Old(first, at, t)], key)
         /\ Turn(wide, slot, t) = PartAt(reps[Old(first, at, t)], key)
         /\ \A u \in (1 .. number + 1) \ {slot} :
              Turn(wide, t, u) = Turn(reps, Old(first, at, t), Old(first, at, u))
<1>1. wide[slot] = key
  BY WidenedIs
<1>2. \A u \in (1 .. number + 1) \ {slot} : wide[u] = reps[Old(first, at, u)]
  BY WidenedIs
<1>3. Old(first, at, t) \in DOMAIN reps /\ NewBeside(reps, e, key)
  <2>1. /\ first \in Nat /\ number \in Nat /\ at \in first .. first + number
        /\ \A j \in first .. first + number - 1 : j \in DOMAIN reps
    BY NewIndexIs
  <2>2. Shifts(first, number, at, slot)
    BY <2>1, OldEntries
  <2> QED BY <2>1, <2>2 DEF Shifts, NewInRange
<1>4. PartAt(key, reps[Old(first, at, t)]) = PartAt(reps[Old(first, at, t)], key)
  BY <1>3, NewKeyParts
<1> QED BY <1>1, <1>2, <1>4 DEF Turn

\* What is known of the heights in a copy that gets a new entry: Y are the entries of the
\* copy that are exactly one level higher than their child.  The entry that the new one
\* parts from may lose this when it is alone on its side, but then one of the two has it.
ExactInCopy(reps, e, b, X, Y, first, number, at, slot) ==
  /\ \A g \in (X \cap (first .. first + number - 1)) \ {e} : Moved(first, at, g) \in Y
  /\ IF Side(reps, e, b) = {e} THEN Moved(first, at, e) \in Y \/ slot \in Y
     ELSE e \in X => Moved(first, at, e) \in Y

\* The copy is dense again.
LEMMA DenseWidened ==
  ASSUME NEW reps, NEW e, NEW key, NEW info, NEW first, NEW number,
         NewInRange(reps, e, key, info, first, number), Whole(reps, first, number),
         NEW at, at = NewIndex(info, key), NEW slot, slot = at - first + 1,
         NEW wide, wide = Widened(reps, first, number, at, key),
         NEW X, Dense(reps, X),
         NEW Y, ExactInCopy(reps, e, PartAt(reps[e], key), X, Y, first, number, at, slot)
  PROVE  Dense(wide, Y)
<1> DEFINE b == PartAt(reps[e], key)
           S == Side(reps, e, b)
           R == first .. first + number - 1
           T == (1 .. number + 1) \ {slot}
           old(t) == Old(first, at, t)
           to(j) == Moved(first, at, j)
           reaches(t, v, c) == v = t \/ Turn(wide, t, v) >= c
<1>1. /\ Ascending(reps) /\ e \in DOMAIN reps /\ b \in Nat /\ b \notin PathBits(reps, e)
      /\ NewBeside(reps, e, key) /\ Describes(info, reps, e, GetMismatchingBit(reps[e], key))
  <2>1. Ascending(reps) /\ e \in DOMAIN reps /\ b \notin PathBits(reps, e)
        /\ NewBeside(reps, e, key) /\ Describes(info, reps, e, GetMismatchingBit(reps[e], key))
    BY DEF NewInRange, NewBeside
  <2> QED BY <2>1, NewKeyParts
<1>2. /\ first \in Nat /\ number \in Nat /\ at \in first .. first + number
      /\ R \subseteq DOMAIN reps
      /\ info.first \in Nat /\ info.number \in Nat \ {0}
      /\ first <= info.first /\ info.first + info.number <= first + number
  BY NewIndexIs DEF NewInRange
<1>3. S \subseteq R /\ e \in S
  <2>1. S = info.first .. info.first + info.number - 1
    BY <1>1 DEF Describes, PartAt
  <2>2. e \in S
    BY <1>1 DEF Side
  <2>3. ASSUME NEW j \in info.first .. info.first + info.number - 1 PROVE j \in R
    BY <1>2
  <2> HIDE DEF S, R
  <2> QED BY <2>1, <2>2, <2>3
<1>4. /\ slot \in 1 .. number + 1
      /\ \A t \in T : old(t) \in R /\ to(old(t)) = t
      /\ \A j \in R : to(j) \in T /\ old(to(j)) = j
  <2>1. Shifts(first, number, at, slot)
    BY <1>2, OldEntries
  <2> QED BY <2>1 DEF Shifts
<1>5. DOMAIN wide = 1 .. number + 1
  BY WidenedIs
<1>6. \A t \in T : Turn(wide, t, slot) = PartAt(reps[old(t)], key)
                   /\ Turn(wide, slot, t) = PartAt(reps[old(t)], key)
  BY WidenedTurns
<1>7. \A t, u \in T : Turn(wide, t, u) = Turn(reps, old(t), old(u))
  BY WidenedTurns
<1>8. \A j \in R : /\ j \in S => PartAt(reps[j], key) = b
                   /\ j \notin S => /\ j # e /\ PartAt(reps[j], key) = Turn(reps, e, j)
                                    /\ Turn(reps, e, j) < b
  BY <1>1, <1>2, NewKeyParts
<1>9. \A i, j \in R : i # j => Turn(reps, i, j) \in Nat /\ Turn(reps, i, j) = Turn(reps, j, i)
  BY <1>1, <1>2, TurnIs
<1>10. /\ \A f, g \in S : f # g => Turn(reps, f, g) > b
       /\ \A f \in S, g \in R \ S : Turn(reps, f, g) = Turn(reps, e, g)
  BY <1>1, <1>2, SideIs
<1>11. ASSUME NEW i \in R, NEW j \in R, i # j
       PROVE  \E g \in X \cap R : g = i \/ Turn(reps, i, g) >= Turn(reps, i, j)
  BY <1>1, <1>2, <1>11, DenseWithin
<1>12. /\ \A g \in (X \cap R) \ {e} : to(g) \in Y
       /\ S = {e} => to(e) \in Y \/ slot \in Y
       /\ S # {e} => (e \in X => to(e) \in Y)
  BY DEF ExactInCopy
<1> HIDE DEF b, S, R, T, old, to
<1>13. PICK p \in Y : p = slot \/ (p \in T /\ old(p) \in S)
  <2>1. CASE S = {e}
    BY <1>3, <1>4, <1>12, <2>1
  <2>2. CASE S # {e}
    <3>1. PICK s \in S : s # e
      BY <1>3, <2>2
    <3>2. PICK g \in X \cap R : g = e \/ Turn(reps, e, g) >= Turn(reps, e, s)
      BY <1>3, <1>11, <3>1
    <3>3. g \in S
      <4>1. CASE g = e
        BY <1>3, <4>1
      <4>2. CASE g # e
        <5>1. Turn(reps, e, s) > b /\ Turn(reps, e, g) \in Nat /\ Turn(reps, e, s) \in Nat
          BY <1>3, <1>9, <1>10, <3>1, <3>2, <4>2
        <5>2. ~(Turn(reps, e, g) < b)
          BY <1>1, <3>2, <4>2, <5>1
        <5> QED BY <1>8, <3>2, <5>2
      <4> QED BY <4>1, <4>2
    <3>4. to(g) \in Y
      BY <1>12, <2>2, <3>2
    <3> QED BY <1>4, <3>2, <3>3, <3>4
  <2> QED BY <2>1, <2>2
<1>14. p \in 1 .. number + 1
  BY <1>4, <1>13 DEF T
<1>15. \A t \in 1 .. number + 1 : t = slot \/ t \in T
  BY DEF T
<1>16. slot \notin T
  BY DEF T
<1>17. ASSUME NEW t \in T PROVE reaches(t, p, PartAt(reps[old(t)], key))
  <2>1. PartAt(reps[old(t)], key) \in Nat
    BY <1>1, <1>3, <1>4, <1>8, <1>9
  <2>2. CASE p = slot
    BY <1>6, <2>1, <2>2
  <2>3. CASE p # slot /\ p # t
    <3>1. p \in T /\ old(p) \in S /\ old(p) \in R /\ old(t) \in R /\ old(p) # old(t)
      BY <1>4, <1>13, <2>3
    <3>2. Turn(wide, t, p) = Turn(reps, old(p), old(t)) /\ Turn(reps, old(p), old(t)) \in Nat
      BY <1>7, <1>9, <3>1
    <3>3. CASE old(t) \in S
      <4>1. Turn(reps, old(p), old(t)) > b /\ PartAt(reps[old(t)], key) = b
        BY <1>8, <1>10, <3>1, <3>3
      <4> QED BY <1>1, <3>2, <4>1
    <3>4. CASE old(t) \notin S
      <4>1. Turn(reps, old(p), old(t)) = Turn(reps, e, old(t)) /\ PartAt(reps[old(t)], key) = Turn(reps, e, old(t))
        BY <1>8, <1>10, <3>1, <3>4
      <4> QED BY <3>2, <4>1
    <3> QED BY <3>3, <3>4
  <2> QED BY <2>2, <2>3
<1>18. ASSUME NEW u \in T PROVE reaches(slot, p, PartAt(reps[old(u)], key))
  <2>1. CASE p = slot
    BY <2>1
  <2>2. CASE p # slot
    <3>1. p \in T /\ old(p) \in S /\ old(p) \in R /\ old(u) \in R
      BY <1>4, <1>13, <2>2
    <3>2. Turn(wide, slot, p) = b
      BY <1>6, <1>8, <3>1
    <3>3. PartAt(reps[old(u)], key) = b \/ (PartAt(reps[old(u)], key) < b /\ PartAt(reps[old(u)], key) \in Nat)
      BY <1>3, <1>8, <1>9, <3>1
    <3> QED BY <1>1, <3>2, <3>3
  <2> QED BY <2>1, <2>2
<1>19. ASSUME NEW t \in T, NEW u \in T, t # u
       PROVE  \E v \in Y \cap (1 .. number + 1) : reaches(t, v, Turn(reps, old(t), old(u)))
  <2>1. old(t) \in R /\ old(u) \in R /\ old(t) # old(u)
    BY <1>4, <1>19
  <2>2. PICK g \in X \cap R : g = old(t) \/ Turn(reps, old(t), g) >= Turn(reps, old(t), old(u))
    BY <1>11, <2>1
  <2>3. CASE to(g) \in Y
    <3>1. to(g) \in T /\ old(to(g)) = g
      BY <1>4, <2>2
    <3>2. g = old(t) => to(g) = t
      BY <1>4
    <3>3. reaches(t, to(g), Turn(reps, old(t), old(u)))
      BY <1>7, <2>2, <3>1, <3>2
    <3> QED BY <2>3, <3>1, <3>3 DEF T
  <2>4. CASE to(g) \notin Y
    <3>1. g = e /\ S = {e} /\ slot \in Y
      BY <1>12, <2>2, <2>4
    <3>2. Turn(wide, t, slot) = PartAt(reps[old(t)], key)
      BY <1>6
    <3>3. Turn(reps, old(t), old(u)) \in Nat
      BY <1>9, <2>1
    <3>4. CASE old(t) = e
      <4>1. Turn(reps, e, old(u)) < b /\ PartAt(reps[old(t)], key) = b
        BY <1>8, <2>1, <3>1, <3>4
      <4>2. reaches(t, slot, Turn(reps, old(t), old(u)))
        BY <1>1, <3>2, <3>3, <3>4, <4>1
      <4> QED BY <1>4, <3>1, <4>2
    <3>5. CASE old(t) # e
      <4>1. PartAt(reps[old(t)], key) = Turn(reps, e, old(t))
        BY <1>8, <2>1, <3>1, <3>5
      <4>2. Turn(reps, e, old(t)) = Turn(reps, old(t), e)
        BY <1>3, <1>9, <2>1, <3>5
      <4>3. reaches(t, slot, Turn(reps, old(t), old(u)))
        BY <2>2, <3>1, <3>2, <3>5, <4>1, <4>2
      <4> QED BY <1>4, <3>1, <4>3
    <3> QED BY <3>4, <3>5
  <2> QED BY <2>3, <2>4
<1> SUFFICES ASSUME NEW t \in 1 .. number + 1, NEW u \in 1 .. number + 1, t # u
             PROVE  \E v \in Y \cap (1 .. number + 1) : reaches(t, v, Turn(wide, t, u))
  BY <1>5 DEF Dense
<1>20. CASE t = slot
  <2>1. u \in T /\ Turn(wide, t, u) = PartAt(reps[old(u)], key)
    BY <1>6, <1>15, <1>20
  <2> QED BY <1>13, <1>14, <1>18, <1>20, <2>1
<1>21. CASE u = slot
  <2>1. t \in T /\ Turn(wide, t, u) = PartAt(reps[old(t)], key)
    BY <1>6, <1>15, <1>21
  <2> QED BY <1>13, <1>14, <1>17, <2>1
<1>22. CASE t # slot /\ u # slot
  <2>1. t \in T /\ u \in T /\ Turn(wide, t, u) = Turn(reps, old(t), old(u))
    BY <1>7, <1>15, <1>22
  <2> QED BY <1>19, <2>1
<1> QED BY <1>20, <1>21, <1>22

-----------------------------------------------------------------------------
(* Nodes and what they represent                                           *)

LeafPointers == { LeafPointer(k, v) : k \in Keys, v \in Values }

\* r gives a node the keys it represents and the entries that are known to be exactly one
\* level higher than their child.
IsChild(r, p) == p \in LeafPointers \cup { NodePointer(i) : i \in DOMAIN r }

\* The keys that stand for what is below a pointer.
Samples(r, p) ==
  IF IsLeaf(p) THEN {p.key} ELSE { r[p.id].reps[i] : i \in DOMAIN r[p.id].reps }

\* The pointer may be an entry of a node of this height that represents g.
FitsIn(h, r, p, height, g, e) ==
  /\ IsChild(r, p)
  /\ \A x \in Samples(r, p) : Follows(x, g.reps, e)
  /\ GetHeight(h, p) < height
  /\ e \in g.exact => GetHeight(h, p) + 1 = height

\* The node represents g, and its entries fit.
GoodNode(h, r, node, g) ==
  /\ node.height \in Nat \ {0}
  /\ Represents(node, g.reps) /\ Len(g.reps) \in 2 .. MaxEntries
  /\ Dense(g.reps, g.exact)
  /\ \A e \in DOMAIN g.reps : FitsIn(h, r, node.ptrs[e], node.height, g, e)

NodeFields == {"height", "keys", "ptrs", "lock", "obsolete", "scheduled"}

\* A sequence of nodes.
IsHeap(h) ==
  /\ \E S : h \in Seq(S)
  /\ \A i \in DOMAIN h : IsFunction(h[i]) /\ DOMAIN h[i] = NodeFields

\* All nodes that r knows are good.  There may be others, which nobody will ever link.
GoodHeap(h, r) ==
  /\ IsHeap(h)
  /\ DOMAIN r \subseteq DOMAIN h
  /\ \A i \in DOMAIN r : GoodNode(h, r, h[i], r[i])

\* What r and the heights say of the nodes of h stays true.
Extends(h, r, next, more) ==
  /\ DOMAIN h \subseteq DOMAIN next
  /\ \A i \in DOMAIN r : i \in DOMAIN more /\ more[i] = r[i] /\ next[i].height = h[i].height

\* A node nobody has locked or retired.
IsFresh(node) == node.lock = NoThread /\ node.obsolete = FALSE /\ node.scheduled = 0

\* Good nodes were added, and only good ones.
Builds(h, r, next, more) ==
  /\ GoodHeap(next, more) /\ Extends(h, r, next, more)
  /\ \A i \in DOMAIN next \ DOMAIN h : i \in DOMAIN more /\ IsFresh(next[i])
  /\ \A i \in DOMAIN h : next[i] = h[i]

\* A child is a leaf or a node that r knows.
LEMMA ChildIs ==
  ASSUME NEW r, NEW p, IsChild(r, p)
  PROVE  /\ p # EmptyPointer
         /\ \/ /\ IsLeaf(p) /\ ~IsAValidNode(p) /\ p \in LeafPointers
               /\ p.key \in Keys /\ p.key \in AllKeys /\ p.value \in Values
            \/ /\ IsAValidNode(p) /\ ~IsLeaf(p) /\ p.id \in DOMAIN r /\ p = NodePointer(p.id)
<1>1. CASE p \in LeafPointers
  <2>1. PICK k \in Keys, v \in Values : p = LeafPointer(k, v)
    BY <1>1 DEF LeafPointers
  <2>2. p = [type |-> "leaf", key |-> k, value |-> v] /\ k \in AllKeys
    BY <2>1, KeysAssumption DEF LeafPointer
  <2>3. p.type = "leaf" /\ p.key = k /\ p.value = v
    BY <2>2
  <2>4. p # EmptyPointer
    BY <2>3 DEF EmptyPointer
  <2> QED BY <1>1, <2>2, <2>3, <2>4 DEF IsLeaf, IsAValidNode
<1>2. CASE p \notin LeafPointers
  <2>1. PICK i \in DOMAIN r : p = NodePointer(i)
    BY <1>2 DEF IsChild
  <2>2. p = [type |-> "node", id |-> i]
    BY <2>1 DEF NodePointer
  <2>3. p.type = "node" /\ p.id = i
    BY <2>2
  <2>4. p # EmptyPointer
    BY <2>3 DEF EmptyPointer
  <2> QED BY <2>1, <2>3, <2>4 DEF IsLeaf, IsAValidNode
<1> QED BY <1>1, <1>2

\* A leaf is a child and stands for its key.
LEMMA LeafIs ==
  ASSUME NEW r, NEW k \in Keys, NEW v \in Values
  PROVE  /\ LeafPointer(k, v) \in LeafPointers /\ IsChild(r, LeafPointer(k, v))
         /\ IsLeaf(LeafPointer(k, v)) /\ ~IsAValidNode(LeafPointer(k, v))
         /\ LeafPointer(k, v).key = k /\ LeafPointer(k, v).value = v
         /\ Samples(r, LeafPointer(k, v)) = {k} /\ k \in AllKeys
<1>1. LeafPointer(k, v) = [type |-> "leaf", key |-> k, value |-> v] /\ k \in AllKeys
  BY KeysAssumption DEF LeafPointer
<1>2. IsLeaf(LeafPointer(k, v)) /\ ~IsAValidNode(LeafPointer(k, v)) /\ LeafPointer(k, v).key = k
      /\ LeafPointer(k, v).value = v
  BY <1>1 DEF IsLeaf, IsAValidNode
<1>3. LeafPointer(k, v) \in LeafPointers
  BY DEF LeafPointers
<1> QED BY <1>1, <1>2, <1>3 DEF IsChild, Samples

\* A pointer to a node that r knows is a child.
LEMMA NodeIs ==
  ASSUME NEW r, NEW i \in DOMAIN r
  PROVE  /\ IsChild(r, NodePointer(i)) /\ ~IsLeaf(NodePointer(i)) /\ IsAValidNode(NodePointer(i))
         /\ NodePointer(i).id = i
         /\ Samples(r, NodePointer(i)) = { r[i].reps[j] : j \in DOMAIN r[i].reps }
<1>1. NodePointer(i) = [type |-> "node", id |-> i]
  BY DEF NodePointer
<1>2. ~IsLeaf(NodePointer(i)) /\ IsAValidNode(NodePointer(i)) /\ NodePointer(i).id = i
  BY <1>1 DEF IsLeaf, IsAValidNode
<1>3. IsChild(r, NodePointer(i))
  BY DEF IsChild
<1> QED BY <1>2, <1>3 DEF Samples

\* The heights of the known pointers are numbers, and what stands for them are keys.
LEMMA HeightIs ==
  ASSUME NEW h, NEW r, GoodHeap(h, r), NEW p, IsChild(r, p)
  PROVE  /\ GetHeight(h, p) \in Nat /\ (IsLeaf(p) <=> GetHeight(h, p) = 0)
         /\ Samples(r, p) \subseteq AllKeys /\ Samples(r, p) # {}
<1>1. CASE IsLeaf(p)
  BY <1>1, ChildIs DEF GetHeight, Samples
<1>2. CASE ~IsLeaf(p)
  <2>1. p.id \in DOMAIN r
    BY <1>2, ChildIs
  <2>2. GoodNode(h, r, h[p.id], r[p.id])
    BY <2>1 DEF GoodHeap
  <2>3. h[p.id].height \in Nat \ {0} /\ Ascending(r[p.id].reps) /\ Len(r[p.id].reps) >= 2
    BY <2>2 DEF GoodNode, Represents
  <2>4. /\ 1 \in DOMAIN r[p.id].reps
        /\ \A i \in DOMAIN r[p.id].reps : r[p.id].reps[i] \in AllKeys
    BY <2>3, EntriesAre
  <2> QED BY <1>2, <2>3, <2>4 DEF GetHeight, Samples
<1> QED BY <1>1, <1>2

-----------------------------------------------------------------------------
(* What is true of the nodes stays true                                    *)

\* A pointer that was good for an entry stays good for it.
LEMMA FitsInLater ==
  ASSUME NEW h, NEW r, NEW next, NEW more, Extends(h, r, next, more),
         NEW p, NEW height, NEW g, NEW e
  PROVE  /\ IsChild(r, p) => /\ IsChild(more, p) /\ Samples(more, p) = Samples(r, p)
                             /\ GetHeight(next, p) = GetHeight(h, p)
         /\ FitsIn(h, r, p, height, g, e) => FitsIn(next, more, p, height, g, e)
<1>1. IsChild(r, p) => /\ IsChild(more, p) /\ Samples(more, p) = Samples(r, p)
                       /\ GetHeight(next, p) = GetHeight(h, p)
  <2> SUFFICES ASSUME IsChild(r, p)
               PROVE  /\ IsChild(more, p) /\ Samples(more, p) = Samples(r, p)
                      /\ GetHeight(next, p) = GetHeight(h, p)
    OBVIOUS
  <2>1. IsChild(more, p)
    BY DEF Extends, IsChild
  <2>2. CASE IsLeaf(p)
    BY <2>1, <2>2 DEF Samples, GetHeight
  <2>3. CASE ~IsLeaf(p)
    <3>1. p.id \in DOMAIN r
      BY <2>3, ChildIs
    <3>2. more[p.id] = r[p.id] /\ next[p.id].height = h[p.id].height
      BY <3>1 DEF Extends
    <3> QED BY <2>1, <2>3, <3>2 DEF Samples, GetHeight
  <2> QED BY <2>2, <2>3
<1> QED BY <1>1 DEF FitsIn

\* So does a node.
LEMMA GoodNodeLater ==
  ASSUME NEW h, NEW r, NEW next, NEW more, Extends(h, r, next, more),
         NEW node, NEW g, GoodNode(h, r, node, g)
  PROVE  GoodNode(next, more, node, g)
<1>1. ASSUME NEW e \in DOMAIN g.reps PROVE FitsIn(next, more, node.ptrs[e], node.height, g, e)
  <2>1. FitsIn(h, r, node.ptrs[e], node.height, g, e)
    BY DEF GoodNode
  <2> QED BY <2>1, FitsInLater
<1> QED BY <1>1 DEF GoodNode

\* Building can go on.
LEMMA BuildsOn ==
  ASSUME NEW h, NEW r, NEW g, NEW s, Builds(h, r, g, s), NEW k, NEW u, Builds(g, s, k, u),
         DOMAIN r \subseteq DOMAIN h
  PROVE  Builds(h, r, k, u)
BY DEF Builds, Extends, GoodHeap

\* To build nothing is to build.
LEMMA BuildsNothing ==
  ASSUME NEW h, NEW r, GoodHeap(h, r)
  PROVE  Builds(h, r, h, r)
BY DEF Builds, Extends

-----------------------------------------------------------------------------
(* Adding nodes and writing slots                                          *)

\* The node that is added has the content, the others are as they were.
Adds(h, content, a, n) ==
  /\ IsHeap(a.heap)
  /\ Len(h) \in Nat /\ n = Len(h) + 1 /\ Len(a.heap) = n
  /\ DOMAIN h = 1 .. Len(h) /\ DOMAIN a.heap = 1 .. n
  /\ \A i \in DOMAIN h : a.heap[i] = h[i]
  /\ a.heap[n].height = content.height /\ a.heap[n].keys = content.keys
  /\ a.heap[n].ptrs = content.ptrs /\ IsFresh(a.heap[n])
  /\ a.ptr = NodePointer(n)

\* That is what Allocate does.
LEMMA AllocateIs ==
  ASSUME NEW h, IsHeap(h), NEW content
  PROVE  Adds(h, content, Allocate(h, content), Len(h) + 1)
<1> DEFINE a == Allocate(h, content)
<1> DEFINE new == [height |-> content.height, keys |-> content.keys, ptrs |-> content.ptrs,
                   lock |-> NoThread, obsolete |-> FALSE, scheduled |-> 0]
<1>1. a.heap = Append(h, new) /\ a.ptr = NodePointer(Len(h) + 1)
  BY DEF Allocate
<1>2. PICK S : h \in Seq(S)
  BY DEF IsHeap
<1>3. /\ new.height = content.height /\ new.keys = content.keys /\ new.ptrs = content.ptrs
      /\ IsFresh(new) /\ DOMAIN new = NodeFields /\ IsFunction(new)
  BY DEF IsFresh, NodeFields, IsFunction
<1> HIDE DEF new
<1>4. h \in Seq(S \cup {new}) /\ new \in S \cup {new}
  BY <1>2
<1>5. /\ a.heap \in Seq(S \cup {new}) /\ Len(a.heap) = Len(h) + 1
      /\ DOMAIN h = 1 .. Len(h) /\ DOMAIN a.heap = 1 .. Len(h) + 1 /\ Len(h) \in Nat
      /\ \A i \in 1 .. Len(h) : a.heap[i] = h[i]
      /\ a.heap[Len(h) + 1] = new
  BY <1>1, <1>4
<1>6. \A i \in DOMAIN a.heap : i = Len(h) + 1 \/ i \in 1 .. Len(h)
  BY <1>5
<1>7. IsHeap(a.heap)
  BY <1>3, <1>5, <1>6 DEF IsHeap
<1> HIDE DEF a
<1> QED BY <1>1, <1>3, <1>5, <1>7 DEF Adds, a

\* What r says with the node that was added.
WithNode(h, r, g) == [i \in DOMAIN r \cup {Len(h) + 1} |-> IF i = Len(h) + 1 THEN g ELSE r[i]]

\* A node was added, and what is known of it.
NodeAdded(h, r, content, g, a, more) ==
  /\ Builds(h, r, a.heap, more)
  /\ a.ptr = NodePointer(Len(h) + 1) /\ Len(h) + 1 \in DOMAIN more /\ more[Len(h) + 1] = g
  /\ IsChild(more, a.ptr) /\ ~IsLeaf(a.ptr) /\ a.ptr.id = Len(h) + 1
  /\ GetHeight(a.heap, a.ptr) = content.height
  /\ Samples(more, a.ptr) = { g.reps[j] : j \in DOMAIN g.reps }

\* A node that is good is added.
LEMMA AllocateGoodNode ==
  ASSUME NEW h, NEW r, GoodHeap(h, r), NEW content, NEW g, GoodNode(h, r, content, g),
         NEW a, a = Allocate(h, content), NEW more, more = WithNode(h, r, g)
  PROVE  NodeAdded(h, r, content, g, a, more)
<1> DEFINE n == Len(h) + 1
<1>1. /\ IsHeap(a.heap) /\ IsFresh(a.heap[n])
      /\ Len(h) \in Nat /\ DOMAIN h = 1 .. Len(h) /\ DOMAIN a.heap = 1 .. n
      /\ \A i \in DOMAIN h : a.heap[i] = h[i]
      /\ a.heap[n].height = content.height /\ a.heap[n].keys = content.keys
      /\ a.heap[n].ptrs = content.ptrs
      /\ a.ptr = NodePointer(n)
  <2>1. IsHeap(h)
    BY DEF GoodHeap
  <2>2. Adds(h, content, a, n)
    BY <2>1, AllocateIs
  <2> HIDE DEF n
  <2> QED BY <2>2 DEF Adds
<1>2. DOMAIN r \subseteq DOMAIN h
  BY DEF GoodHeap
<1>3. n \notin DOMAIN h /\ DOMAIN a.heap = DOMAIN h \cup {n}
  BY <1>1
<1> HIDE DEF n
<1>4. /\ DOMAIN more = DOMAIN r \cup {n} /\ more[n] = g
      /\ \A i \in DOMAIN r : more[i] = r[i]
  BY <1>2, <1>3 DEF WithNode, n
<1>5. Extends(h, r, a.heap, more)
  BY <1>1, <1>2, <1>3, <1>4 DEF Extends
<1>6. ASSUME NEW i \in DOMAIN r PROVE GoodNode(a.heap, more, a.heap[i], more[i])
  <2>1. GoodNode(h, r, h[i], r[i])
    BY DEF GoodHeap
  <2> QED BY <1>1, <1>2, <1>4, <1>5, <2>1, GoodNodeLater
<1>7. GoodNode(a.heap, more, a.heap[n], more[n])
  <2>1. GoodNode(a.heap, more, content, g)
    BY <1>5, GoodNodeLater
  <2> QED BY <1>1, <1>4, <2>1 DEF GoodNode, Represents
<1>8. GoodHeap(a.heap, more)
  BY <1>1, <1>2, <1>3, <1>4, <1>6, <1>7 DEF GoodHeap
<1>9. Builds(h, r, a.heap, more)
  BY <1>1, <1>3, <1>4, <1>5, <1>8 DEF Builds
<1>10. /\ IsChild(more, a.ptr) /\ ~IsLeaf(a.ptr) /\ a.ptr.id = n
       /\ Samples(more, a.ptr) = { g.reps[j] : j \in DOMAIN g.reps }
  BY <1>1, <1>4, NodeIs
<1>11. GetHeight(a.heap, a.ptr) = content.height
  BY <1>1, <1>10 DEF GetHeight
<1> QED BY <1>1, <1>4, <1>9, <1>10, <1>11 DEF n, NodeAdded

\* A slot is written, the rest is as it was.
Sets(h, id, slot, p, next) ==
  /\ IsHeap(next) /\ DOMAIN next = DOMAIN h /\ Len(next) = Len(h)
  /\ \A i \in DOMAIN h \ {id} : next[i] = h[i]
  /\ next[id].ptrs = [h[id].ptrs EXCEPT ![slot] = p]
  /\ next[id].height = h[id].height /\ next[id].keys = h[id].keys
  /\ next[id].lock = h[id].lock /\ next[id].obsolete = h[id].obsolete
  /\ next[id].scheduled = h[id].scheduled

\* That is what SetSlot does.
LEMMA SetSlotIs ==
  ASSUME NEW h, IsHeap(h), NEW id \in DOMAIN h, NEW slot, NEW p
  PROVE  Sets(h, id, slot, p, SetSlot(h, id, slot, p))
<1> DEFINE next == SetSlot(h, id, slot, p)
<1>1. next = [h EXCEPT ![id].ptrs[slot] = p]
  BY DEF SetSlot
<1>2. PICK S : h \in Seq(S)
  BY DEF IsHeap
<1>3. next = [h EXCEPT ![id] = [h[id] EXCEPT !.ptrs[slot] = p]]
  BY <1>1, Zenon
<1> DEFINE new == [h[id] EXCEPT !.ptrs[slot] = p]
<1>4. DOMAIN h[id] = NodeFields
  BY DEF IsHeap
<1>11. IsFunction(new)
  BY DEF IsFunction
<1>5. /\ DOMAIN new = NodeFields /\ new.ptrs = [h[id].ptrs EXCEPT ![slot] = p]
      /\ new.height = h[id].height /\ new.keys = h[id].keys
      /\ new.lock = h[id].lock /\ new.obsolete = h[id].obsolete /\ new.scheduled = h[id].scheduled
  BY <1>4 DEF NodeFields
<1> HIDE DEF new
<1>6. next = [h EXCEPT ![id] = new]
  BY <1>3 DEF new
<1>7. h \in Seq(S \cup {new}) /\ new \in S \cup {new}
  BY <1>2
<1>8. next \in Seq(S \cup {new}) /\ DOMAIN next = DOMAIN h /\ Len(next) = Len(h)
  BY <1>6, <1>7
<1>9. (\A i \in DOMAIN h \ {id} : next[i] = h[i]) /\ next[id] = new
  BY <1>6
<1>10. IsHeap(next)
  BY <1>5, <1>8, <1>9, <1>11 DEF IsHeap
<1> HIDE DEF next
<1> QED BY <1>5, <1>8, <1>9, <1>10 DEF Sets, next

\* A slot of a good node may be written with a pointer that fits.
LEMMA WriteSlot ==
  ASSUME NEW h, NEW r, GoodHeap(h, r), NEW id \in DOMAIN r, NEW slot \in DOMAIN r[id].reps, NEW p,
         FitsIn(h, r, p, h[id].height, r[id], slot), NEW next, next = SetSlot(h, id, slot, p)
  PROVE  GoodHeap(next, r) /\ Extends(h, r, next, r)
<1>1. IsHeap(h) /\ DOMAIN r \subseteq DOMAIN h /\ id \in DOMAIN h
  BY DEF GoodHeap
<1>2. /\ IsHeap(next) /\ DOMAIN next = DOMAIN h
      /\ \A i \in DOMAIN h \ {id} : next[i] = h[i]
      /\ next[id].ptrs = [h[id].ptrs EXCEPT ![slot] = p]
      /\ next[id].height = h[id].height /\ next[id].keys = h[id].keys
  <2>1. Sets(h, id, slot, p, next)
    BY <1>1, SetSlotIs
  <2> QED BY <2>1 DEF Sets
<1>3. Extends(h, r, next, r)
  BY <1>1, <1>2 DEF Extends
<1>4. ASSUME NEW i \in DOMAIN r \ {id} PROVE GoodNode(next, r, next[i], r[i])
  <2>1. GoodNode(h, r, h[i], r[i])
    BY DEF GoodHeap
  <2> QED BY <1>1, <1>2, <1>3, <2>1, GoodNodeLater
<1>5. GoodNode(next, r, next[id], r[id])
  <2> DEFINE g == r[id]
  <2>1. GoodNode(h, r, h[id], g)
    BY DEF GoodHeap
  <2>2. /\ Represents(h[id], g.reps) /\ Len(g.reps) \in 2 .. MaxEntries /\ Dense(g.reps, g.exact)
        /\ h[id].height \in Nat \ {0}
        /\ \A e \in DOMAIN g.reps : FitsIn(h, r, h[id].ptrs[e], h[id].height, g, e)
    BY <2>1 DEF GoodNode
  <2> HIDE DEF g
  <2>3. /\ Ascending(g.reps) /\ h[id].keys = [e \in 1 .. Len(g.reps) |-> PartialKey(g.reps, e)]
        /\ DOMAIN h[id].ptrs = 1 .. Len(g.reps) /\ Len(h[id].ptrs) = Len(g.reps)
        /\ DOMAIN g.reps = 1 .. Len(g.reps)
    BY <2>2, EntriesAre DEF Represents
  <2>4. DOMAIN next[id].ptrs = 1 .. Len(g.reps) /\ Len(next[id].ptrs) = Len(g.reps)
    BY <1>2, <2>2, <2>3
  <2>7. IsFunction(next[id].ptrs)
    BY <1>2 DEF IsFunction
  <2>5. Represents(next[id], g.reps)
    BY <1>2, <2>3, <2>4, <2>7 DEF Represents
  <2>6. ASSUME NEW e \in DOMAIN g.reps PROVE FitsIn(next, r, next[id].ptrs[e], next[id].height, g, e)
    <3>1. CASE e = slot
      <4>1. next[id].ptrs[e] = p
        BY <1>2, <2>3, <3>1
      <4> QED BY <1>2, <1>3, <3>1, <4>1, FitsInLater DEF g
    <3>2. CASE e # slot
      <4>1. next[id].ptrs[e] = h[id].ptrs[e]
        BY <1>2, <2>3, <3>2
      <4> QED BY <1>2, <1>3, <2>2, <4>1, FitsInLater
    <3> QED BY <3>1, <3>2
  <2> QED BY <1>2, <2>2, <2>5, <2>6 DEF GoodNode, g
<1> QED BY <1>1, <1>2, <1>3, <1>4, <1>5 DEF GoodHeap

\* A record is known by its fields.
LEMMA SameRecord ==
  ASSUME NEW h, NEW k, NEW p, NEW l, NEW o, NEW s, NEW a,
         \A H, K, P, L, O, S : h \in H /\ k \in K /\ p \in P /\ l \in L /\ o \in O /\ s \in S =>
           a \in [height : H, keys : K, ptrs : P, lock : L, obsolete : O, scheduled : S],
         a.height = h, a.keys = k, a.ptrs = p, a.lock = l, a.obsolete = o, a.scheduled = s
  PROVE  a = [height |-> h, keys |-> k, ptrs |-> p, lock |-> l, obsolete |-> o, scheduled |-> s]
<1>1. PICK H, K, P, L, O, S : h \in H /\ k \in K /\ p \in P /\ l \in L /\ o \in O /\ s \in S
  <2>1. ASSUME NEW x PROVE \E X : x \in X
    <3>1. x \in {x}
      OBVIOUS
    <3> QED BY <3>1
  <2> QED BY <2>1
<1>2. a \in [height : H, keys : K, ptrs : P, lock : L, obsolete : O, scheduled : S]
  BY <1>1
<1> QED BY <1>2

\* A content with another pointer in a slot.
WithPointer(content, slot, p) == [content EXCEPT !.ptrs[slot] = p]

\* What is written to a node that was just added might as well have been in its content.
WrittenAs(h, content, slot, p, other) ==
  /\ SetSlot(Allocate(h, content).heap, Len(h) + 1, slot, p) = Allocate(h, other).heap
  /\ other.height = content.height /\ other.keys = content.keys
  /\ other.ptrs = [content.ptrs EXCEPT ![slot] = p]
  /\ DOMAIN other = {"height", "keys", "ptrs"}

\* To write a slot of a node that was just added is to add a node with this slot.
LEMMA AllocateAndSet ==
  ASSUME NEW h, IsHeap(h), NEW content, DOMAIN content = {"height", "keys", "ptrs"},
         NEW slot, NEW p
  PROVE  WrittenAs(h, content, slot, p, WithPointer(content, slot, p))
<1> DEFINE other == [content EXCEPT !.ptrs[slot] = p]
<1> DEFINE new == [height |-> content.height, keys |-> content.keys, ptrs |-> content.ptrs,
                   lock |-> NoThread, obsolete |-> FALSE, scheduled |-> 0]
           changed == [height |-> other.height, keys |-> other.keys, ptrs |-> other.ptrs,
                       lock |-> NoThread, obsolete |-> FALSE, scheduled |-> 0]
           before == Append(h, new)
           n == Len(h) + 1
<1>1. /\ other.height = content.height /\ other.keys = content.keys
      /\ other.ptrs = [content.ptrs EXCEPT ![slot] = p]
      /\ DOMAIN other = {"height", "keys", "ptrs"}
  OBVIOUS
<1>2. Allocate(h, content).heap = before /\ Allocate(h, other).heap = Append(h, changed)
  BY DEF Allocate
<1>3. [new EXCEPT !.ptrs[slot] = p] = changed
  <2> DEFINE ptrs == [content.ptrs EXCEPT ![slot] = p]
             set == [new EXCEPT !.ptrs = ptrs]
  <2>1. [new EXCEPT !.ptrs[slot] = p] = set
    OBVIOUS
  <2>2. changed = [height |-> content.height, keys |-> content.keys, ptrs |-> ptrs,
                   lock |-> NoThread, obsolete |-> FALSE, scheduled |-> 0]
    BY <1>1
  <2> HIDE DEF ptrs, changed
  <2>3. \A H, K, P, L, O, S : content.height \in H /\ content.keys \in K /\ ptrs \in P
          /\ NoThread \in L /\ FALSE \in O /\ 0 \in S =>
             set \in [height : H, keys : K, ptrs : P, lock : L, obsolete : O, scheduled : S]
    OBVIOUS
  <2>4. /\ set.height = content.height /\ set.keys = content.keys /\ set.ptrs = ptrs
        /\ set.lock = NoThread /\ set.obsolete = FALSE /\ set.scheduled = 0
    OBVIOUS
  <2> HIDE DEF set
  <2>5. set = changed
    BY <2>2, <2>3, <2>4, SameRecord
  <2> QED BY <2>1, <2>5
<1>4. SetSlot(before, n, slot, p) = [before EXCEPT ![n] = [before[n] EXCEPT !.ptrs[slot] = p]]
  BY Zenon DEF SetSlot
<1> HIDE DEF new, changed
<1>5. PICK S : h \in Seq(S)
  BY DEF IsHeap
<1>6. h \in Seq(S \cup {new, changed}) /\ new \in S \cup {new, changed} /\ changed \in S \cup {new, changed}
  BY <1>5
<1>7. /\ before[n] = new /\ before = [i \in 1 .. n |-> IF i = n THEN new ELSE h[i]]
      /\ Append(h, changed) = [i \in 1 .. n |-> IF i = n THEN changed ELSE h[i]]
      /\ n \in 1 .. n
  <2>1. Len(h) \in Nat /\ DOMAIN h = 1 .. Len(h)
    BY <1>6
  <2>2. ASSUME NEW x \in S \cup {new, changed}
        PROVE  Append(h, x) = [i \in 1 .. n |-> IF i = n THEN x ELSE h[i]]
    <3>1. /\ Append(h, x) \in Seq(S \cup {new, changed}) /\ DOMAIN Append(h, x) = 1 .. n
          /\ \A i \in 1 .. n : Append(h, x)[i] = IF i = n THEN x ELSE h[i]
      BY <1>6, <2>1
    <3>2. \A s \in Seq(S \cup {new, changed}) : s = [i \in 1 .. Len(s) |-> s[i]]
      OBVIOUS
    <3>3. Len(Append(h, x)) = n
      BY <1>6
    <3>4. Append(h, x) = [i \in 1 .. n |-> Append(h, x)[i]]
      BY <3>1, <3>2, <3>3
    <3> HIDE DEF n
    <3> QED BY <3>1, <3>4
  <2>3. n \in 1 .. n
    BY <2>1
  <2>4. before = [i \in 1 .. n |-> IF i = n THEN new ELSE h[i]]
    BY <1>6, <2>2
  <2>5. Append(h, changed) = [i \in 1 .. n |-> IF i = n THEN changed ELSE h[i]]
    BY <1>6, <2>2
  <2> HIDE DEF n, before
  <2> QED BY <2>3, <2>4, <2>5

<1>8. SetSlot(before, n, slot, p) = [before EXCEPT ![n] = changed]
  BY <1>3, <1>4, <1>7
<1>9. [before EXCEPT ![n] = changed] = Append(h, changed)
  BY <1>7
<1> QED BY <1>1, <1>2, <1>8, <1>9 DEF n, WithPointer, WrittenAs

-----------------------------------------------------------------------------
(* Nodes that are made from a node                                         *)

AgreeThrough(x, y, b) == \A c \in Nat : c <= b => (c \in x <=> c \in y)

\* A key that agrees with one below an entry past all turns follows the path as well.
LEMMA AgreeAndFollow ==
  ASSUME NEW reps, Ascending(reps), NEW e \in DOMAIN reps, NEW b \in Nat,
         \A f \in DOMAIN reps \ {e} : Turn(reps, e, f) < b,
         NEW y, Follows(y, reps, e), NEW x, AgreeBelow(x, y, b)
  PROVE  Follows(x, reps, e)
<1> SUFFICES ASSUME NEW f \in DOMAIN reps \ {e}, NEW c \in Nat, c <= Turn(reps, e, f)
             PROVE  c \in x <=> c \in reps[e]
  BY DEF Follows
<1>1. Turn(reps, e, f) \in Nat
  BY TurnIs
<1>2. c < b
  BY <1>1
<1> QED BY <1>2 DEF AgreeBelow, Follows

WithKey(g, e, l) == [reps |-> [g.reps EXCEPT ![e] = l], exact |-> g.exact]

\* Any key that follows the path to an entry may stand for it.
LEMMA GoodNodeWithKey ==
  ASSUME NEW h, NEW r, NEW node, NEW g, GoodNode(h, r, node, g), NEW e \in DOMAIN g.reps,
         NEW l \in AllKeys, Follows(l, g.reps, e), NEW o, o = WithKey(g, e, l)
  PROVE  /\ GoodNode(h, r, node, o) /\ DOMAIN o.reps = DOMAIN g.reps /\ Len(o.reps) = Len(g.reps)
         /\ o.exact = g.exact /\ o.reps[e] = l
         /\ \A f \in DOMAIN g.reps \ {e} : o.reps[f] = g.reps[f]
         /\ \A f, k \in DOMAIN g.reps : f # k => Turn(o.reps, f, k) = Turn(g.reps, f, k)
         /\ \A f \in DOMAIN g.reps : PathBits(o.reps, f) = PathBits(g.reps, f)
<1>1. /\ Represents(node, g.reps) /\ Len(g.reps) \in 2 .. MaxEntries /\ Dense(g.reps, g.exact)
      /\ node.height \in Nat \ {0}
      /\ \A f \in DOMAIN g.reps : FitsIn(h, r, node.ptrs[f], node.height, g, f)
  BY DEF GoodNode
<1>2. o.exact = g.exact /\ o.reps = [g.reps EXCEPT ![e] = l]
  BY DEF WithKey
<1>3. Ascending(g.reps)
  BY <1>1 DEF Represents
<1>4. /\ Ascending(o.reps) /\ DOMAIN o.reps = DOMAIN g.reps /\ Len(o.reps) = Len(g.reps) /\ o.reps[e] = l
      /\ \A f, k \in DOMAIN g.reps : f # k => Turn(o.reps, f, k) = Turn(g.reps, f, k)
      /\ \A f \in DOMAIN g.reps : PathBits(o.reps, f) = PathBits(g.reps, f)
      /\ \A f \in DOMAIN g.reps : PartialKey(o.reps, f) = PartialKey(g.reps, f)
      /\ \A f \in DOMAIN g.reps : \A y : Follows(y, g.reps, f) => Follows(y, o.reps, f)
  BY <1>2, <1>3, ReplaceKey
<1>5. \A f \in DOMAIN g.reps \ {e} : o.reps[f] = g.reps[f]
  BY <1>2
<1>6. Represents(node, o.reps)
  <2>1. node.keys = [f \in 1 .. Len(g.reps) |-> PartialKey(g.reps, f)] /\ DOMAIN g.reps = 1 .. Len(g.reps)
    BY <1>1, <1>3, EntriesAre DEF Represents
  <2>2. node.keys = [f \in 1 .. Len(o.reps) |-> PartialKey(o.reps, f)]
    BY <1>4, <2>1
  <2> QED BY <1>1, <1>4, <2>2 DEF Represents
<1>7. Dense(o.reps, o.exact)
  BY <1>1, <1>2, <1>4, DenseWithOtherKeys
<1>8. \A f \in DOMAIN o.reps : FitsIn(h, r, node.ptrs[f], node.height, o, f)
  BY <1>1, <1>2, <1>4 DEF FitsIn
<1> QED BY <1>1, <1>2, <1>4, <1>5, <1>6, <1>7, <1>8 DEF GoodNode

\* The new bit concerns a single entry.
Alone(reps, e, b) == Side(reps, e, b) = {e}

\* What takes the place of an entry: a pointer that stays there, and the new one beside it.
\* If the entry is a subtree of its own, one of them is as high as it can be.
TwoFor(h, r, node, g, e, key, child, new) ==
  LET b == PartAt(g.reps[e], key)
  IN  /\ IsChild(r, new) /\ GetHeight(h, new) < node.height
      /\ \A x \in Samples(r, new) : AgreeThrough(x, key, b)
      /\ IF Side(g.reps, e, b) = {e}
         THEN /\ IsChild(r, child) /\ GetHeight(h, child) < node.height
              /\ \A x \in Samples(r, child) : AgreeThrough(x, g.reps[e], b)
              /\ GetHeight(h, child) + 1 = node.height \/ GetHeight(h, new) + 1 = node.height
         ELSE child = node.ptrs[e]

\* The content has the entries of the range, the new one in its slot and the other one in its place.
Holding(content, node, first, number, at, slot, place, child, new) ==
  /\ content.height = node.height
  /\ DOMAIN content.ptrs = 1 .. number + 1 /\ Len(content.ptrs) = number + 1 /\ IsFunction(content.ptrs)
  /\ content.ptrs[slot] = new /\ content.ptrs[place] = child
  /\ \A t \in (1 .. number + 1) \ {slot, place} : content.ptrs[t] = node.ptrs[Old(first, at, t)]

\* All that is below the entries follows their paths in the wider node.
FollowWide(r, reps, e, first, number, at, slot, wide, child, new) ==
  /\ \A x \in Samples(r, new) : Follows(x, wide, slot)
  /\ \A t \in (1 .. number + 1) \ {slot} : Old(first, at, t) # e =>
       \A x : Follows(x, reps, Old(first, at, t)) => Follows(x, wide, t)
  /\ \A t \in (1 .. number + 1) \ {slot} : Old(first, at, t) = e =>
       \A x \in Samples(r, child) : Follows(x, wide, t)

\* What the two pointers represent fits to the keys of the wider node.
LEMMA TwoFit ==
  ASSUME NEW h, NEW r, NEW node, NEW g, GoodNode(h, r, node, g),
         NEW e, NEW key, NEW info, NEW first, NEW number,
         NewInRange(g.reps, e, key, info, first, number),
         NEW at, at = NewIndex(info, key), NEW slot, slot = at - first + 1,
         NEW wide, wide = Widened(g.reps, first, number, at, key),
         NEW child, NEW new, TwoFor(h, r, node, g, e, key, child, new)
  PROVE  /\ FollowWide(r, g.reps, e, first, number, at, slot, wide, child, new)
         /\ IsChild(r, child) /\ GetHeight(h, child) < node.height
<1> DEFINE reps == g.reps
           b == PartAt(reps[e], key)
<1>1. /\ Ascending(reps) /\ e \in DOMAIN reps /\ key \in AllKeys /\ key # reps[e]
      /\ FitsIn(h, r, node.ptrs[e], node.height, g, e)
  BY DEF NewInRange, NewBeside, GoodNode
<1>2. /\ first \in Nat /\ number \in Nat /\ at \in first .. first + number
      /\ \A j \in first .. first + number - 1 : j \in DOMAIN reps /\ j \in Nat
  BY NewIndexIs
<1>3. Shifts(first, number, at, slot)
  BY <1>2, OldEntries
<1>4. /\ DOMAIN wide = 1 .. number + 1 /\ wide[slot] = key
      /\ \A t \in (1 .. number + 1) \ {slot} : wide[t] = reps[Old(first, at, t)]
  BY WidenedIs
<1>5. \A t \in (1 .. number + 1) \ {slot} :
        /\ Turn(wide, t, slot) = PartAt(reps[Old(first, at, t)], key)
        /\ Turn(wide, slot, t) = PartAt(reps[Old(first, at, t)], key)
        /\ \A u \in (1 .. number + 1) \ {slot} :
             Turn(wide, t, u) = Turn(reps, Old(first, at, t), Old(first, at, u))
  BY WidenedTurns
<1>6. ASSUME NEW j \in DOMAIN reps
      PROVE  /\ b \in Nat /\ PartAt(reps[j], key) \in Nat
             /\ j \in Side(reps, e, b) => PartAt(reps[j], key) = b
             /\ j \notin Side(reps, e, b) =>
                  j # e /\ PartAt(reps[j], key) = Turn(reps, e, j) /\ Turn(reps, e, j) < b
  <2>1. NewBeside(reps, e, key)
    BY DEF NewInRange
  <2>2. /\ b \in Nat /\ PartAt(reps[j], key) \in Nat
        /\ j \in Side(reps, e, b) => PartAt(reps[j], key) = b
        /\ j \notin Side(reps, e, b) =>
             j # e /\ PartAt(reps[j], key) = Turn(reps, e, j) /\ Turn(reps, e, j) < b
    BY <2>1, NewKeyParts
  <2> QED BY <2>2
<1>7. \A t \in (1 .. number + 1) \ {slot} : Old(first, at, t) \in DOMAIN reps
  BY <1>2, <1>3 DEF Shifts
<1>8. \A t, u \in (1 .. number + 1) \ {slot} : t # u => Old(first, at, t) # Old(first, at, u)
  BY <1>3 DEF Shifts
<1> HIDE DEF reps, b
<1>9. ASSUME NEW x \in Samples(r, new) PROVE Follows(x, wide, slot)
  <2> SUFFICES ASSUME NEW u \in DOMAIN wide \ {slot}, NEW c \in Nat, c <= Turn(wide, slot, u)
               PROVE  c \in x <=> c \in wide[slot]
    BY DEF Follows
  <2>1. AgreeThrough(x, key, b)
    BY DEF TwoFor, b, reps
  <2>2. Turn(wide, slot, u) <= b
    <3> DEFINE j == Old(first, at, u)
    <3>1. j \in DOMAIN reps /\ Turn(wide, slot, u) = PartAt(reps[j], key)
      BY <1>4, <1>5, <1>7
    <3> HIDE DEF j
    <3>2. PartAt(reps[j], key) <= b
      BY <1>6, <3>1
    <3> QED BY <3>1, <3>2
  <2>3. b \in Nat /\ Turn(wide, slot, u) \in Nat
    BY <1>1, <1>4, <1>5, <1>6, <1>7 DEF reps
  <2>4. c <= b
    BY <2>2, <2>3
  <2> QED BY <1>4, <2>1, <2>4 DEF AgreeThrough
<1>10. ASSUME NEW t \in (1 .. number + 1) \ {slot}, NEW j, j = Old(first, at, t), NEW x, Follows(x, reps, j),
              j = e => AgreeThrough(x, reps[e], b)
       PROVE  Follows(x, wide, t)
  <2> SUFFICES ASSUME NEW u \in DOMAIN wide \ {t}, NEW c \in Nat, c <= Turn(wide, t, u)
               PROVE  c \in x <=> c \in wide[t]
    BY DEF Follows
  <2>1. wide[t] = reps[j] /\ j \in DOMAIN reps
    BY <1>4, <1>7, <1>10
  <2>2. CASE u # slot
    <3>1. /\ Turn(wide, t, u) = Turn(reps, j, Old(first, at, u))
          /\ Old(first, at, u) \in DOMAIN reps /\ Old(first, at, u) # j
      BY <1>4, <1>5, <1>7, <1>8, <1>10, <2>2
    <3> QED BY <1>10, <2>1, <3>1 DEF Follows
  <2>3. CASE u = slot
    <3>1. Turn(wide, t, u) = PartAt(reps[j], key)
      BY <1>5, <1>10, <2>3
    <3>2. CASE j = e
      <4>1. c <= b
        BY <1>6, <2>1, <3>1, <3>2 DEF Side
      <4> QED BY <1>10, <2>1, <3>2, <4>1 DEF AgreeThrough
    <3>3. CASE j # e
      <4>1. Turn(reps, j, e) = Turn(reps, e, j) /\ Turn(reps, e, j) \in Nat
        BY <1>1, <2>1, <3>3, TurnIs DEF reps
      <4>2. PartAt(reps[j], key) <= Turn(reps, j, e)
        BY <1>6, <2>1, <3>3, <4>1 DEF Side
      <4>3. c <= Turn(reps, j, e)
        BY <1>6, <2>1, <3>1, <4>1, <4>2
      <4> QED BY <1>1, <1>10, <2>1, <3>3, <4>3 DEF Follows, reps
    <3> QED BY <3>2, <3>3
  <2> QED BY <2>2, <2>3
<1>11. /\ IsChild(r, child) /\ GetHeight(h, child) < node.height
       /\ \A x \in Samples(r, child) : Follows(x, reps, e) /\ AgreeThrough(x, reps[e], b)
  <2>1. CASE Side(reps, e, b) = {e}
    <3>1. /\ IsChild(r, child) /\ GetHeight(h, child) < node.height
          /\ \A x \in Samples(r, child) : AgreeThrough(x, reps[e], b)
      BY <2>1 DEF TwoFor, b, reps
    <3>2. \A f \in DOMAIN reps \ {e} : Turn(reps, e, f) < b
      BY <1>6, <2>1
    <3>3. ASSUME NEW x \in Samples(r, child) PROVE Follows(x, reps, e)
      <4>1. AgreeThrough(x, reps[e], b)
        BY <3>1
      <4> SUFFICES ASSUME NEW f \in DOMAIN reps \ {e}, NEW c \in Nat, c <= Turn(reps, e, f)
                   PROVE  c \in x <=> c \in reps[e]
        BY DEF Follows
      <4>2. Turn(reps, e, f) \in Nat /\ b \in Nat /\ Turn(reps, e, f) < b
        BY <1>1, <1>6, <3>2, TurnIs DEF reps
      <4>3. c <= b
        BY <4>2
      <4> QED BY <4>1, <4>3 DEF AgreeThrough
    <3> QED BY <3>1, <3>3
  <2>2. CASE Side(reps, e, b) # {e}
    <3>1. child = node.ptrs[e]
      BY <2>2 DEF TwoFor, b, reps
    <3>2. /\ IsChild(r, child) /\ GetHeight(h, child) < node.height
          /\ \A x \in Samples(r, child) : Follows(x, reps, e)
      BY <1>1, <3>1 DEF FitsIn, reps
    <3>3. PICK f \in DOMAIN reps \ {e} : Turn(reps, e, f) > b
      BY <1>1, <2>2 DEF Side, reps
    <3>4. Turn(reps, e, f) \in Nat /\ b \in Nat
      BY <1>1, <1>6, TurnIs DEF reps
    <3>5. ASSUME NEW x \in Samples(r, child) PROVE AgreeThrough(x, reps[e], b)
      <4>1. Follows(x, reps, e)
        BY <3>2
      <4> SUFFICES ASSUME NEW c \in Nat, c <= b PROVE c \in x <=> c \in reps[e]
        BY DEF AgreeThrough
      <4>2. c <= Turn(reps, e, f)
        BY <3>3, <3>4
      <4> QED BY <4>1, <4>2 DEF Follows
    <3> QED BY <3>2, <3>5
  <2> QED BY <2>1, <2>2
<1> QED BY <1>9, <1>10, <1>11 DEF reps, FollowWide

\* The entries that are one level below the node.
ExactEntries(h, node) == { t \in DOMAIN node.ptrs : GetHeight(h, node.ptrs[t]) + 1 = node.height }

\* The keys of the copy are keys of the range and the new one.
Widens(o, g, key, first, number) ==
  /\ Len(o.reps) = number + 1 /\ DOMAIN o.reps = 1 .. number + 1
  /\ \A t \in DOMAIN o.reps :
       o.reps[t] = key \/ \E j \in first .. first + number - 1 : o.reps[t] = g.reps[j]

\* The copy of a range with a new entry is good, with one pointer replaced as well.
LEMMA AddIsGood ==
  ASSUME NEW h, NEW r, GoodHeap(h, r), NEW node, NEW g, GoodNode(h, r, node, g),
         NEW e, NEW key, NEW info, NEW first, NEW number, NEW relevant,
         NewInRange(g.reps, e, key, info, first, number), Whole(g.reps, first, number),
         Keeps(node, g.reps, first, number, relevant), number + 1 \in 2 .. MaxEntries,
         NEW at, at = NewIndex(info, key), NEW slot, slot = at - first + 1,
         NEW place, place = Moved(first, at, e),
         NEW child, NEW new, TwoFor(h, r, node, g, e, key, child, new),
         NEW content, content.keys = CopyRangeAndAdd(node, first, number, relevant, info, new).keys,
         Holding(content, node, first, number, at, slot, place, child, new),
         NEW o, o = [reps |-> Widened(g.reps, first, number, at, key), exact |-> ExactEntries(h, content)]
  PROVE  GoodNode(h, r, content, o) /\ Widens(o, g, key, first, number)
<1> DEFINE wide == Widened(g.reps, first, number, at, key)
<1>1. /\ Represents(node, g.reps) /\ Dense(g.reps, g.exact) /\ node.height \in Nat \ {0}
      /\ \A f \in DOMAIN g.reps : FitsIn(h, r, node.ptrs[f], node.height, g, f)
      /\ Ascending(g.reps)
  BY DEF GoodNode, Represents
<1>2. /\ first \in Nat /\ number \in Nat /\ at \in first .. first + number
      /\ info.first \in Nat /\ info.number \in Nat \ {0}
      /\ \A j \in first .. first + number - 1 : j \in DOMAIN g.reps /\ j \in Nat
  BY NewIndexIs
<1>3. Shifts(first, number, at, slot)
  BY <1>2, OldEntries
<1>4. /\ Represents(CopyRangeAndAdd(node, first, number, relevant, info, new), wide)
      /\ slot \in 1 .. number + 1
  BY <1>1, CopyRangeAndAddIs
<1>5. /\ Ascending(wide) /\ Len(wide) = number + 1 /\ DOMAIN wide = 1 .. number + 1
      /\ wide[slot] = key
      /\ \A t \in (1 .. number + 1) \ {slot} : wide[t] = g.reps[Old(first, at, t)]
  BY WidenedIs
<1>9. o.reps = wide /\ o.exact = ExactEntries(h, content)
  OBVIOUS
<1>18. wide = Widened(g.reps, first, number, at, key)
  OBVIOUS
<1> HIDE DEF wide
<1>6. /\ \A x \in Samples(r, new) : Follows(x, wide, slot)
      /\ \A t \in (1 .. number + 1) \ {slot} : Old(first, at, t) # e =>
           \A x : Follows(x, g.reps, Old(first, at, t)) => Follows(x, wide, t)
      /\ \A t \in (1 .. number + 1) \ {slot} : Old(first, at, t) = e =>
           \A x \in Samples(r, child) : Follows(x, wide, t)
      /\ IsChild(r, child) /\ GetHeight(h, child) < node.height
  <2>1. /\ FollowWide(r, g.reps, e, first, number, at, slot, wide, child, new)
        /\ IsChild(r, child) /\ GetHeight(h, child) < node.height
    BY <1>18, TwoFit
  <2> QED BY <2>1 DEF FollowWide
<1>7. e \in first .. first + number - 1
  <2>1. NewBeside(g.reps, e, key)
    BY DEF NewInRange
  <2>2. e \in Side(g.reps, e, PartAt(g.reps[e], key)) /\ GetMismatchingBit(g.reps[e], key).bit = PartAt(g.reps[e], key)
    BY <2>1 DEF NewBeside, Side, PartAt
  <2>3. e \in info.first .. info.first + info.number - 1
    BY <2>2 DEF NewInRange, Describes
  <2>4. first <= info.first /\ info.first + info.number <= first + number
    BY DEF NewInRange
  <2> QED BY <1>2, <2>3, <2>4
<1>8. /\ place \in (1 .. number + 1) \ {slot} /\ Old(first, at, place) = e
      /\ \A t \in (1 .. number + 1) \ {slot} : Old(first, at, t) \in first .. first + number - 1
      /\ \A t \in (1 .. number + 1) \ {slot, place} : Old(first, at, t) # e
      /\ \A j \in (first .. first + number - 1) \ {e} :
           Moved(first, at, j) \in (1 .. number + 1) \ {slot, place} /\ Old(first, at, Moved(first, at, j)) = j
  BY <1>3, <1>7 DEF Shifts
<1>10. Represents(content, wide)
  <2>1. /\ content.keys = [t \in 1 .. Len(wide) |-> PartialKey(wide, t)]
    BY <1>4 DEF Represents
  <2>2. DOMAIN content.ptrs = 1 .. number + 1 /\ Len(content.ptrs) = number + 1 /\ IsFunction(content.ptrs)
    BY DEF Holding
  <2> QED BY <1>5, <2>1, <2>2 DEF Represents
<1>11. /\ content.height = node.height /\ content.ptrs[slot] = new /\ content.ptrs[place] = child
       /\ DOMAIN content.ptrs = 1 .. number + 1
       /\ \A t \in (1 .. number + 1) \ {slot, place} : content.ptrs[t] = node.ptrs[Old(first, at, t)]
  BY DEF Holding
<1>12. IsChild(r, new) /\ GetHeight(h, new) < node.height
  BY DEF TwoFor
<1>13. ASSUME NEW t \in 1 .. number + 1, NEW p, p = content.ptrs[t],
              IsChild(r, p), \A x \in Samples(r, p) : Follows(x, wide, t), GetHeight(h, p) < node.height
       PROVE  FitsIn(h, r, p, content.height, o, t)
  <2>1. t \in o.exact => GetHeight(h, p) + 1 = content.height
    BY <1>9, <1>13 DEF ExactEntries
  <2> QED BY <1>9, <1>11, <1>13, <2>1 DEF FitsIn
<1>14. ASSUME NEW t \in 1 .. number + 1 PROVE FitsIn(h, r, content.ptrs[t], content.height, o, t)
  <2>1. CASE t = slot
    BY <1>6, <1>11, <1>12, <1>13, <2>1
  <2>2. CASE t = place
    BY <1>6, <1>8, <1>11, <1>13, <2>2
  <2>3. CASE t # slot /\ t # place
    <3> DEFINE j == Old(first, at, t)
    <3>1. j \in DOMAIN g.reps /\ j # e /\ content.ptrs[t] = node.ptrs[j]
      BY <1>2, <1>8, <1>11, <2>3
    <3>2. FitsIn(h, r, node.ptrs[j], node.height, g, j)
      BY <1>1, <3>1
    <3>3. \A x : Follows(x, g.reps, j) => Follows(x, wide, t)
      BY <1>6, <2>3, <3>1
    <3> HIDE DEF j
    <3>4. IsChild(r, node.ptrs[j]) /\ GetHeight(h, node.ptrs[j]) < node.height
          /\ \A x \in Samples(r, node.ptrs[j]) : Follows(x, wide, t)
      BY <3>2, <3>3 DEF FitsIn
    <3> QED BY <1>13, <3>1, <3>4
  <2> QED BY <2>1, <2>2, <2>3
<1>15. Dense(wide, o.exact)
  <2> DEFINE b == PartAt(g.reps[e], key)
             Y == o.exact
  <2>1. ASSUME NEW t \in 1 .. number + 1, GetHeight(h, content.ptrs[t]) + 1 = node.height
        PROVE  t \in Y
    BY <1>9, <1>11, <2>1 DEF ExactEntries
  <2>2. ASSUME NEW j \in (g.exact \cap (first .. first + number - 1)) \ {e}
        PROVE  Moved(first, at, j) \in Y
    <3>1. Moved(first, at, j) \in (1 .. number + 1) \ {slot, place} /\ content.ptrs[Moved(first, at, j)] = node.ptrs[j]
      BY <1>8, <1>11
    <3>2. FitsIn(h, r, node.ptrs[j], node.height, g, j)
      BY <1>1, <1>2
    <3>3. GetHeight(h, node.ptrs[j]) + 1 = node.height
      BY <3>2 DEF FitsIn
    <3> QED BY <2>1, <3>1, <3>3
  <2>3. CASE Side(g.reps, e, b) = {e}
    <3>1. GetHeight(h, child) + 1 = node.height \/ GetHeight(h, new) + 1 = node.height
      BY <2>3 DEF TwoFor
    <3>2. place \in Y \/ slot \in Y
      BY <1>4, <1>8, <1>11, <2>1, <3>1
    <3>3. ExactInCopy(g.reps, e, b, g.exact, Y, first, number, at, slot)
      BY <2>2, <2>3, <3>2 DEF ExactInCopy
    <3> HIDE DEF Y, b
    <3> QED BY <1>1, <3>3, DenseWidened DEF wide, Y, b
  <2>4. CASE Side(g.reps, e, b) # {e}
    <3>1. child = node.ptrs[e]
      BY <2>4 DEF TwoFor
    <3>2. FitsIn(h, r, node.ptrs[e], node.height, g, e)
      BY <1>1, <1>2, <1>7
    <3>3. e \in g.exact => place \in Y
      BY <1>8, <1>11, <2>1, <3>1, <3>2 DEF FitsIn
    <3>4. ExactInCopy(g.reps, e, b, g.exact, Y, first, number, at, slot)
      BY <2>2, <2>4, <3>3 DEF ExactInCopy
    <3> HIDE DEF Y, b
    <3> QED BY <1>1, <3>4, DenseWidened DEF wide, Y, b
  <2> QED BY <2>3, <2>4
<1>16. GoodNode(h, r, content, o)
  <2>1. Len(o.reps) \in 2 .. MaxEntries
    BY <1>5, <1>9
  <2>2. content.height \in Nat \ {0}
    BY <1>1, <1>11
  <2>3. \A t \in DOMAIN o.reps : FitsIn(h, r, content.ptrs[t], content.height, o, t)
    BY <1>5, <1>9, <1>14
  <2> QED BY <1>9, <1>10, <1>15, <2>1, <2>2, <2>3 DEF GoodNode
<1>17. ASSUME NEW t \in DOMAIN wide
       PROVE  wide[t] = key \/ \E j \in first .. first + number - 1 : wide[t] = g.reps[j]
  BY <1>5, <1>8
<1> QED BY <1>5, <1>9, <1>16, <1>17 DEF Widens

\* The copy of a range of entries is good.
LEMMA PartIsGood ==
  ASSUME NEW h, NEW r, GoodHeap(h, r), NEW node, NEW g, GoodNode(h, r, node, g),
         NEW first \in DOMAIN g.reps, NEW number \in Nat, number >= 2, first + number - 1 <= Len(g.reps),
         Whole(g.reps, first, number),
         NEW content, content = CopyRange(node, first, number),
         NEW o, o = [reps |-> Part(g.reps, first, number), exact |-> ExactEntries(h, content)]
  PROVE  /\ GoodNode(h, r, content, o) /\ content.height = node.height /\ Len(o.reps) = number
         /\ DOMAIN o.reps = 1 .. number
         /\ \A t \in DOMAIN o.reps : first + t - 1 \in DOMAIN g.reps /\ o.reps[t] = g.reps[first + t - 1]
<1> DEFINE part == Part(g.reps, first, number)
<1>1. /\ Represents(node, g.reps) /\ Dense(g.reps, g.exact) /\ node.height \in Nat \ {0}
      /\ \A f \in DOMAIN g.reps : FitsIn(h, r, node.ptrs[f], node.height, g, f)
      /\ Ascending(g.reps) /\ Len(g.reps) \in 2 .. MaxEntries
  BY DEF GoodNode, Represents
<1>2. /\ Represents(content, part) /\ content.height = node.height
      /\ \A t \in 1 .. number : content.ptrs[t] = node.ptrs[first + t - 1]
  BY <1>1, CopyRangeIs
<1>3. /\ Ascending(part) /\ Len(part) = number /\ DOMAIN part = 1 .. number
      /\ \A t \in 1 .. number :
           /\ first + t - 1 \in DOMAIN g.reps /\ part[t] = g.reps[first + t - 1]
           /\ PathBits(part, t) = TurnsWithin(g.reps, first + t - 1, first, number)
  BY <1>1, PartIs
<1>4. DOMAIN content.ptrs = 1 .. number
  BY <1>2, <1>3 DEF Represents
<1>5. first \in Nat
  BY <1>1, EntriesAre
<1>6. o.reps = part /\ o.exact = ExactEntries(h, content)
  OBVIOUS
<1>12. part = Part(g.reps, first, number)
  OBVIOUS
<1> HIDE DEF part
<1>7. ASSUME NEW t \in 1 .. number, NEW u \in 1 .. number, t # u
      PROVE  Turn(part, t, u) = Turn(g.reps, first + t - 1, first + u - 1) /\ first + t - 1 # first + u - 1
  <2>1. part[t] = g.reps[first + t - 1] /\ part[u] = g.reps[first + u - 1]
    BY <1>3
  <2>2. first + t - 1 # first + u - 1
    BY <1>5, <1>7
  <2> QED BY <2>1, <2>2 DEF Turn
<1>8. ASSUME NEW t \in 1 .. number, first + t - 1 \in g.exact PROVE t \in o.exact
  <2>1. FitsIn(h, r, node.ptrs[first + t - 1], node.height, g, first + t - 1)
    BY <1>1, <1>3
  <2>2. GetHeight(h, content.ptrs[t]) + 1 = content.height
    BY <1>2, <1>8, <2>1 DEF FitsIn
  <2> QED BY <1>4, <1>6, <2>2 DEF ExactEntries
<1>9. Dense(part, o.exact)
  <2>1. StayExact(g.exact, o.exact, first, number)
    BY <1>8 DEF StayExact
  <2> QED BY <1>1, <1>12, <2>1, DensePart
<1>10. ASSUME NEW t \in 1 .. number PROVE FitsIn(h, r, content.ptrs[t], content.height, o, t)
  <2> DEFINE j == first + t - 1
  <2>1. j \in DOMAIN g.reps /\ part[t] = g.reps[j] /\ content.ptrs[t] = node.ptrs[j]
    BY <1>2, <1>3
  <2>2. \A u \in (1 .. number) \ {t} : /\ first + u - 1 \in DOMAIN g.reps \ {j}
                                       /\ Turn(part, t, u) = Turn(g.reps, j, first + u - 1)
    BY <1>3, <1>7
  <2> HIDE DEF j
  <2>3. FitsIn(h, r, node.ptrs[j], node.height, g, j)
    BY <1>1, <2>1
  <2>4. ASSUME NEW x \in Samples(r, node.ptrs[j]) PROVE Follows(x, part, t)
    <3>1. Follows(x, g.reps, j)
      BY <2>3 DEF FitsIn
    <3> SUFFICES ASSUME NEW u \in (1 .. number) \ {t}, NEW c \in Nat, c <= Turn(part, t, u)
                 PROVE  c \in x <=> c \in part[t]
      BY <1>3 DEF Follows
    <3>2. first + u - 1 \in DOMAIN g.reps \ {j} /\ c <= Turn(g.reps, j, first + u - 1)
      BY <2>2
    <3> QED BY <2>1, <3>1, <3>2 DEF Follows
  <2>5. t \in o.exact => GetHeight(h, content.ptrs[t]) + 1 = content.height
    BY <1>6 DEF ExactEntries
  <2>6. IsChild(r, node.ptrs[j]) /\ GetHeight(h, node.ptrs[j]) < node.height
    BY <2>3 DEF FitsIn
  <2> QED BY <1>2, <1>6, <2>1, <2>4, <2>5, <2>6 DEF FitsIn
<1>11. GoodNode(h, r, content, o)
  <2>1. Len(o.reps) \in 2 .. MaxEntries
    <3>1. number <= Len(g.reps)
      BY <1>1, <1>5, EntriesAre
    <3>2. MaxEntries \in Nat
      BY MaxEntriesAssumption
    <3> QED BY <1>1, <1>3, <1>6, <3>1, <3>2
  <2> QED BY <1>1, <1>2, <1>3, <1>6, <1>9, <1>10, <2>1 DEF GoodNode
<1> QED BY <1>2, <1>3, <1>6, <1>11

\* The halves of a node: what is on the left of the bit, and what is on its right.
GoodBinode(h, r, bin, base) ==
  /\ bin.bit \in Nat /\ bin.height \in Nat \ {0} /\ base \in AllKeys
  /\ IsChild(r, bin.left) /\ IsChild(r, bin.right)
  /\ \A x \in Samples(r, bin.left) : AgreeBelow(x, base, bin.bit) /\ bin.bit \notin x
  /\ \A x \in Samples(r, bin.right) : AgreeBelow(x, base, bin.bit) /\ bin.bit \in x
  /\ GetHeight(h, bin.left) < bin.height /\ GetHeight(h, bin.right) < bin.height
  /\ GetHeight(h, bin.left) + 1 = bin.height \/ GetHeight(h, bin.right) + 1 = bin.height

\* A key of each half.
LEMMA BinodeKeys ==
  ASSUME NEW h, NEW r, GoodHeap(h, r), NEW bin, NEW base, GoodBinode(h, r, bin, base),
         NEW l \in Samples(r, bin.left), NEW k \in Samples(r, bin.right)
  PROVE  /\ l \in AllKeys /\ k \in AllKeys /\ l # k /\ PartAt(l, k) = bin.bit /\ bin.bit \in k
         /\ KeyLess(l, k) /\ GetMismatchingBit(l, k) = [bit |-> bin.bit, value |-> TRUE]
         /\ \A x \in Samples(r, bin.left) : AgreeThrough(x, l, bin.bit)
         /\ \A x \in Samples(r, bin.right) : AgreeThrough(x, k, bin.bit)
<1>1. /\ bin.bit \in Nat /\ AgreeBelow(l, base, bin.bit) /\ bin.bit \notin l
      /\ AgreeBelow(k, base, bin.bit) /\ bin.bit \in k
  BY DEF GoodBinode
<1>2. l \in AllKeys /\ k \in AllKeys /\ l \in SUBSET Nat /\ k \in SUBSET Nat
  BY HeightIs, KeysAreSets DEF GoodBinode
<1>3. AgreeBelow(l, k, bin.bit)
  BY <1>1 DEF AgreeBelow
<1>4. l # k /\ PartAt(l, k) = bin.bit
  BY <1>1, <1>2, <1>3, PartAtIsUnique
<1>5. KeyLess(l, k)
  BY <1>1, <1>2, <1>4, KeyLessIs
<1>6. GetMismatchingBit(l, k) = [bit |-> bin.bit, value |-> TRUE]
  <2>1. GetMismatchingBit(l, k).bit = bin.bit
    BY <1>4 DEF PartAt
  <2>2. GetMismatchingBit(l, k) = [bit |-> GetMismatchingBit(l, k).bit, value |-> GetMismatchingBit(l, k).bit \in k]
    BY DEF GetMismatchingBit
  <2> QED BY <1>1, <2>1, <2>2
<1>7. ASSUME NEW x \in Samples(r, bin.left), NEW c \in Nat, c <= bin.bit PROVE c \in x <=> c \in l
  <2>1. AgreeBelow(x, base, bin.bit) /\ bin.bit \notin x
    BY DEF GoodBinode
  <2>2. c = bin.bit \/ c < bin.bit
    BY <1>1, <1>7
  <2> QED BY <1>1, <2>1, <2>2 DEF AgreeBelow
<1>8. ASSUME NEW x \in Samples(r, bin.right), NEW c \in Nat, c <= bin.bit PROVE c \in x <=> c \in k
  <2>1. AgreeBelow(x, base, bin.bit) /\ bin.bit \in x
    BY DEF GoodBinode
  <2>2. c = bin.bit \/ c < bin.bit
    BY <1>1, <1>8
  <2> QED BY <1>1, <2>1, <2>2 DEF AgreeBelow
<1> QED BY <1>1, <1>2, <1>4, <1>5, <1>6, <1>7, <1>8 DEF AgreeThrough

\* A node of two entries is good.
LEMMA TwoIsGood ==
  ASSUME NEW h, NEW r, GoodHeap(h, r), NEW bin, NEW base, GoodBinode(h, r, bin, base),
         NEW l \in Samples(r, bin.left), NEW k \in Samples(r, bin.right),
         NEW content, content.height = bin.height, content.keys = << {}, {bin.bit} >>,
         content.ptrs = << bin.left, bin.right >>,
         NEW o, o = [reps |-> << l, k >>, exact |-> ExactEntries(h, content)]
  PROVE  GoodNode(h, r, content, o) /\ DOMAIN o.reps = {1, 2} /\ o.reps[1] = l /\ o.reps[2] = k
<1> DEFINE reps == << l, k >>
<1>1. /\ l \in AllKeys /\ k \in AllKeys /\ l # k /\ PartAt(l, k) = bin.bit /\ bin.bit \in k
      /\ KeyLess(l, k)
      /\ \A x \in Samples(r, bin.left) : AgreeThrough(x, l, bin.bit)
      /\ \A x \in Samples(r, bin.right) : AgreeThrough(x, k, bin.bit)
  BY BinodeKeys
<1>2. /\ bin.bit \in Nat /\ bin.height \in Nat \ {0} /\ IsChild(r, bin.left) /\ IsChild(r, bin.right)
      /\ bin.bit \notin l
      /\ GetHeight(h, bin.left) < bin.height /\ GetHeight(h, bin.right) < bin.height
      /\ GetHeight(h, bin.left) + 1 = bin.height \/ GetHeight(h, bin.right) + 1 = bin.height
  BY DEF GoodBinode
<1>3. PartAt(k, l) = bin.bit
  BY <1>1, KeysAreSets, PartAtSymmetric
<1>4. /\ DOMAIN reps = {1, 2} /\ Len(reps) = 2 /\ reps[1] = l /\ reps[2] = k /\ 1 .. 2 = {1, 2}
      /\ reps \in Seq(AllKeys)
  BY <1>1
<1>5. o.reps = reps /\ o.exact = ExactEntries(h, content)
  OBVIOUS
<1> HIDE DEF reps
<1>6. Ascending(reps)
  BY <1>1, <1>4 DEF Ascending
<1>7. Turn(reps, 1, 2) = bin.bit /\ Turn(reps, 2, 1) = bin.bit
  BY <1>1, <1>3, <1>4 DEF Turn
<1>8. PartialKey(reps, 1) = {} /\ PartialKey(reps, 2) = {bin.bit}
  BY <1>1, <1>2, <1>3, <1>4 DEF PartialKey, PathBits
<1>9. Represents(content, reps)
  <2>1. content.keys = [e \in 1 .. 2 |-> PartialKey(reps, e)]
    BY <1>8
  <2>2. DOMAIN content.ptrs = 1 .. 2 /\ Len(content.ptrs) = 2 /\ IsFunction(content.ptrs)
    BY DEF IsFunction
  <2> QED BY <1>4, <1>6, <2>1, <2>2 DEF Represents
<1>10. content.ptrs[1] = bin.left /\ content.ptrs[2] = bin.right /\ DOMAIN content.ptrs = {1, 2}
  OBVIOUS
<1>11. \A t \in {1, 2} : t \in o.exact <=> GetHeight(h, content.ptrs[t]) + 1 = content.height
  BY <1>5, <1>10 DEF ExactEntries
<1>12. Dense(reps, o.exact)
  <2>1. 1 \in o.exact \/ 2 \in o.exact
    BY <1>2, <1>10, <1>11
  <2> SUFFICES ASSUME NEW e \in DOMAIN reps, NEW f \in DOMAIN reps, e # f
               PROVE  \E g \in o.exact \cap DOMAIN reps : g = e \/ Turn(reps, e, g) >= Turn(reps, e, f)
    BY DEF Dense
  <2>2. e \in o.exact \/ f \in o.exact
    BY <1>4, <2>1
  <2>3. Turn(reps, e, f) >= Turn(reps, e, f)
    BY <1>2, <1>4, <1>7
  <2> QED BY <2>2, <2>3
<1>13. ASSUME NEW t \in {1, 2} PROVE FitsIn(h, r, content.ptrs[t], content.height, o, t)
  <2>1. \A x \in Samples(r, content.ptrs[t]) : Follows(x, reps, t)
    BY <1>1, <1>4, <1>7, <1>10 DEF Follows, AgreeThrough
  <2> QED BY <1>2, <1>5, <1>10, <1>11, <2>1 DEF FitsIn
<1>14. MaxEntries \in Nat /\ MaxEntries >= 2
  BY MaxEntriesAssumption
<1>15. /\ content.height \in Nat \ {0} /\ Len(o.reps) \in 2 .. MaxEntries
       /\ \A t \in DOMAIN o.reps : FitsIn(h, r, content.ptrs[t], content.height, o, t)
  BY <1>2, <1>4, <1>5, <1>13, <1>14
<1>16. Represents(content, o.reps) /\ Dense(o.reps, o.exact)
  BY <1>5, <1>9, <1>12
<1>17. GoodNode(h, r, content, o)
  BY <1>15, <1>16 DEF GoodNode
<1> QED BY <1>4, <1>5, <1>17

\* It does not matter whether a slot is written before or after another node is added.
LEMMA SetSlotBelow ==
  ASSUME NEW h, IsHeap(h), NEW id \in DOMAIN h, NEW slot, NEW p, NEW content
  PROVE  /\ SetSlot(Allocate(h, content).heap, id, slot, p) = Allocate(SetSlot(h, id, slot, p), content).heap
         /\ Allocate(SetSlot(h, id, slot, p), content).ptr = Allocate(h, content).ptr
<1> DEFINE new == [height |-> content.height, keys |-> content.keys, ptrs |-> content.ptrs,
                   lock |-> NoThread, obsolete |-> FALSE, scheduled |-> 0]
           changed == [h[id] EXCEPT !.ptrs[slot] = p]
           before == Append(h, new)
           next == SetSlot(h, id, slot, p)
           n == Len(h) + 1
<1>1. /\ Allocate(h, content).heap = before /\ Allocate(h, content).ptr = NodePointer(n)
      /\ Allocate(next, content).heap = Append(next, new)
      /\ Allocate(next, content).ptr = NodePointer(Len(next) + 1)
  BY DEF Allocate
<1>2. next = [h EXCEPT ![id] = changed]
  BY Zenon DEF SetSlot
<1>3. SetSlot(before, id, slot, p) = [before EXCEPT ![id] = [before[id] EXCEPT !.ptrs[slot] = p]]
  BY Zenon DEF SetSlot
<1>4. PICK S : h \in Seq(S)
  BY DEF IsHeap
<1> HIDE DEF new, next
<1>5. before[id] = h[id]
  <2>1. h \in Seq(S \cup {new}) /\ new \in S \cup {new}
    BY <1>4
  <2> QED BY <2>1
<1>6. SetSlot(before, id, slot, p) = [before EXCEPT ![id] = changed]
  BY <1>3, <1>5
<1> HIDE DEF changed
<1> DEFINE T == S \cup {new, changed}
<1>7. h \in Seq(T) /\ new \in T /\ changed \in T
  BY <1>4
<1> HIDE DEF T
<1>8. next \in Seq(T) /\ Len(next) = Len(h) /\ DOMAIN next = DOMAIN h /\ Len(h) \in Nat /\ DOMAIN h = 1 .. Len(h)
  BY <1>2, <1>7
<1>9. \A i \in DOMAIN h : next[i] = IF i = id THEN changed ELSE h[i]
  BY <1>2
<1>10. /\ Append(next, new) \in Seq(T) /\ DOMAIN Append(next, new) = 1 .. n /\ Len(Append(next, new)) = n
       /\ \A i \in 1 .. Len(h) : Append(next, new)[i] = next[i]
       /\ Append(next, new)[n] = new
  BY <1>7, <1>8
<1>11. /\ before \in Seq(T) /\ DOMAIN before = 1 .. n /\ Len(before) = n
       /\ \A i \in 1 .. Len(h) : before[i] = h[i]
       /\ before[n] = new
  BY <1>7, <1>8
<1> HIDE DEF before
<1>12. /\ [before EXCEPT ![id] = changed] \in Seq(T) /\ Len([before EXCEPT ![id] = changed]) = n
       /\ \A i \in 1 .. n : [before EXCEPT ![id] = changed][i] = IF i = id THEN changed ELSE before[i]
  BY <1>7, <1>11
<1>13. \A i \in 1 .. n : [before EXCEPT ![id] = changed][i] = Append(next, new)[i]
  <2> SUFFICES ASSUME NEW i \in 1 .. n PROVE [before EXCEPT ![id] = changed][i] = Append(next, new)[i]
    OBVIOUS
  <2>1. id \in 1 .. Len(h) /\ (i = n \/ i \in 1 .. Len(h)) /\ n \notin 1 .. Len(h)
    BY <1>8
  <2>2. CASE i = n
    BY <1>10, <1>11, <1>12, <2>1, <2>2
  <2>3. CASE i \in 1 .. Len(h)
    BY <1>8, <1>9, <1>10, <1>11, <1>12, <2>1, <2>3
  <2> QED BY <2>1, <2>2, <2>3
<1>14. [before EXCEPT ![id] = changed] = Append(next, new)
  <2>1. \A s \in Seq(T) : s = [i \in 1 .. Len(s) |-> s[i]]
    OBVIOUS
  <2> HIDE DEF n
  <2>2. [before EXCEPT ![id] = changed] = [i \in 1 .. n |-> [before EXCEPT ![id] = changed][i]]
    BY <1>12, <2>1
  <2>3. Append(next, new) = [i \in 1 .. n |-> Append(next, new)[i]]
    BY <1>10, <2>1
  <2> QED BY <1>13, <2>2, <2>3
<1>15. Len(next) + 1 = n
  BY <1>8
<1> QED BY <1>1, <1>6, <1>14, <1>15 DEF next

\* The content of a node, maybe with one pointer replaced.
Grafted(content, graft, place, child, other) ==
  /\ other.height = content.height /\ other.keys = content.keys
  /\ other.ptrs = IF graft THEN [content.ptrs EXCEPT ![place] = child] ELSE content.ptrs

\* A pointer is only replaced when the new entry is on the right of it.
Grafting(node, e, info, child, graft) ==
  IF graft THEN info.key.value ELSE child = node.ptrs[e]

\* The copy of a range with a new entry holds what it should.
LEMMA CopyHolds ==
  ASSUME NEW node, NEW reps, Represents(node, reps), NEW e, NEW key, NEW info, NEW first, NEW number,
         NEW relevant, NewInRange(reps, e, key, info, first, number),
         Keeps(node, reps, first, number, relevant),
         NEW child, NEW new, NEW at, at = NewIndex(info, key), NEW slot, slot = at - first + 1,
         NEW place, place = Moved(first, at, e), NEW graft \in BOOLEAN, Grafting(node, e, info, child, graft),
         NEW content, content = CopyRangeAndAdd(node, first, number, relevant, info, new),
         NEW other, Grafted(content, graft, place, child, other)
  PROVE  /\ Holding(other, node, first, number, at, slot, place, child, new) /\ other.keys = content.keys
         /\ DOMAIN content = {"height", "keys", "ptrs"} /\ Len(content.ptrs) = number + 1
         /\ info.key.value => place = e - first + 1
<1>1. /\ Represents(content, Widened(reps, first, number, at, key))
      /\ content.height = node.height /\ content.ptrs[slot] = new /\ slot \in 1 .. number + 1
      /\ \A t \in (1 .. number + 1) \ {slot} : content.ptrs[t] = node.ptrs[Old(first, at, t)]
  BY CopyRangeAndAddIs
<1>2. /\ first \in Nat /\ number \in Nat /\ at \in first .. first + number
      /\ info.first \in Nat /\ info.number \in Nat \ {0}
      /\ \A j \in first .. first + number - 1 : j \in DOMAIN reps /\ j \in Nat
  BY NewIndexIs
<1>3. Shifts(first, number, at, slot)
  BY <1>2, OldEntries
<1>4. /\ Len(Widened(reps, first, number, at, key)) = number + 1
  BY WidenedIs
<1>5. DOMAIN content.ptrs = 1 .. number + 1 /\ Len(content.ptrs) = number + 1 /\ IsFunction(content.ptrs)
  BY <1>1, <1>4 DEF Represents
<1>6. e \in first .. first + number - 1 /\ (info.key.value => e < at)
  <2>1. NewBeside(reps, e, key)
    BY DEF NewInRange
  <2>2. e \in Side(reps, e, PartAt(reps[e], key)) /\ GetMismatchingBit(reps[e], key).bit = PartAt(reps[e], key)
    BY <2>1 DEF NewBeside, Side, PartAt
  <2>3. e \in info.first .. info.first + info.number - 1 /\ info.key = GetMismatchingBit(reps[e], key)
    BY <2>2 DEF NewInRange, Describes
  <2>4. first <= info.first /\ info.first + info.number <= first + number
    BY DEF NewInRange
  <2>6. reps[e] \in SUBSET Nat /\ key \in SUBSET Nat /\ reps[e] # key
    BY <2>1, EntriesAre, KeysAreSets DEF NewBeside
  <2>7. GetMismatchingBit(reps[e], key).value = (PartAt(reps[e], key) \in key)
    BY <2>6, PartAtIs
  <2>5. info.key.value => info.key.bit \in key
    BY <2>3, <2>7, Zenon DEF PartAt
  <2> QED BY <1>2, <2>3, <2>4, <2>5 DEF NewIndex
<1>7. place \in (1 .. number + 1) \ {slot} /\ Old(first, at, place) = e
  BY <1>3, <1>6 DEF Shifts
<1>8. info.key.value => place = e - first + 1
  BY <1>6 DEF Moved
<1>9. DOMAIN content = {"height", "keys", "ptrs"}
  BY DEF CopyRangeAndAdd, NodeContent
<1>10. other.height = content.height /\ other.keys = content.keys
  BY DEF Grafted
<1>11. CASE graft
  <2>1. other.ptrs = [content.ptrs EXCEPT ![place] = child]
    BY <1>11 DEF Grafted
  <2>2. \E S : content.ptrs \in Seq(S)
    <3>1. content.ptrs = [t \in 1 .. number + 1 |-> content.ptrs[t]]
      BY <1>5 DEF CopyRangeAndAdd, NodeContent
    <3>2. number + 1 \in Nat
      BY <1>2
    <3> DEFINE S == { content.ptrs[t] : t \in 1 .. number + 1 }
    <3>3. content.ptrs \in [1 .. number + 1 -> S]
      BY <3>1
    <3>4. content.ptrs \in Seq(S)
      BY <3>2, <3>3
    <3> QED BY <3>4
  <2>3. PICK S : content.ptrs \in Seq(S)
    BY <2>2
  <2>4. other.ptrs \in Seq(S \cup {child}) /\ DOMAIN other.ptrs = DOMAIN content.ptrs /\ Len(other.ptrs) = Len(content.ptrs)
    BY <1>5, <1>7, <2>1, <2>3
  <2>5. \A t \in 1 .. number + 1 : other.ptrs[t] = IF t = place THEN child ELSE content.ptrs[t]
    BY <1>5, <2>1
  <2>6. Holding(other, node, first, number, at, slot, place, child, new)
    <3>1. IsFunction(other.ptrs)
      BY <2>1 DEF IsFunction
    <3> QED BY <1>1, <1>5, <1>7, <1>10, <2>4, <2>5, <3>1 DEF Holding
  <2> QED BY <1>5, <1>8, <1>9, <1>10, <2>6
<1>12. CASE ~graft
  <2>1. other.ptrs = content.ptrs /\ child = node.ptrs[e]
    BY <1>12 DEF Grafted, Grafting
  <2>2. Holding(other, node, first, number, at, slot, place, child, new)
    BY <1>1, <1>5, <1>7, <1>10, <2>1 DEF Holding
  <2> QED BY <1>5, <1>8, <1>9, <1>10, <2>2
<1> QED BY <1>11, <1>12

\* The copy of a whole node with a new entry is good, if there is room.
LEMMA AddEntryIsGood ==
  ASSUME NEW h, NEW r, GoodHeap(h, r), NEW node, NEW g, GoodNode(h, r, node, g),
         NEW e, NEW key, NEW info, NewBeside(g.reps, e, key),
         Describes(info, g.reps, e, GetMismatchingBit(g.reps[e], key)), Len(g.reps) + 1 <= MaxEntries,
         NEW child, NEW new, TwoFor(h, r, node, g, e, key, child, new),
         NEW graft \in BOOLEAN, Grafting(node, e, info, child, graft),
         NEW content, content = AddEntry(node, info, new),
         NEW place, place = Moved(1, NewIndex(info, key), e),
         NEW other, Grafted(content, graft, place, child, other)
  PROVE  /\ \E o : /\ GoodNode(h, r, other, o)
                   /\ \A t \in DOMAIN o.reps :
                        o.reps[t] = key \/ \E j \in DOMAIN g.reps : o.reps[t] = g.reps[j]
         /\ other.height = node.height /\ DOMAIN content = {"height", "keys", "ptrs"}
         /\ info.key.value => place = e
<1> DEFINE n == Len(g.reps)
           at == NewIndex(info, key)
           slot == at - 1 + 1
           relevant == DiscriminativeBits(node)
           o == [reps |-> Widened(g.reps, 1, n, at, key), exact |-> ExactEntries(h, other)]
<1>1. Represents(node, g.reps) /\ Ascending(g.reps) /\ n \in 2 .. MaxEntries /\ Len(node.ptrs) = n
  BY DEF GoodNode, Represents
<1>2. n \in Nat /\ DOMAIN g.reps = 1 .. n
  BY <1>1, EntriesAre
<1>3. NewInRange(g.reps, e, key, info, 1, n)
  <2>1. /\ info.first \in 1 .. n /\ info.number \in Nat \ {0}
        /\ info.first .. info.first + info.number - 1 \subseteq 1 .. n
    BY <1>2 DEF Describes, Side
  <2>2. info.first + info.number - 1 \in info.first .. info.first + info.number - 1
    BY <2>1
  <2>3. info.first + info.number <= 1 + n
    BY <1>2, <2>1, <2>2
  <2> QED BY <1>1, <1>2, <2>1, <2>3 DEF NewInRange
<1>4. Whole(g.reps, 1, n)
  BY <1>2 DEF Whole
<1>5. Keeps(node, g.reps, 1, n, relevant)
  BY <1>1, AllBitsAreKept
<1>6. content = CopyRangeAndAdd(node, 1, n, relevant, info, new)
  BY <1>1 DEF AddEntry
<1>7. at = NewIndex(info, key) /\ slot = at - 1 + 1 /\ n + 1 \in 2 .. MaxEntries
  <2>1. MaxEntries \in Nat
    BY MaxEntriesAssumption
  <2> QED BY <1>1, <2>1
<1>8. o = [reps |-> Widened(g.reps, 1, n, at, key), exact |-> ExactEntries(h, other)]
  OBVIOUS
<1>9. place = Moved(1, at, e)
  OBVIOUS
<1> HIDE DEF n, at, slot, relevant, o
<1>10. /\ Holding(other, node, 1, n, at, slot, place, child, new) /\ other.keys = content.keys
       /\ DOMAIN content = {"height", "keys", "ptrs"}
       /\ info.key.value => place = e - 1 + 1
  BY <1>1, <1>3, <1>5, <1>6, <1>7, <1>9, CopyHolds
<1>11. GoodNode(h, r, other, o) /\ Widens(o, g, key, 1, n)
  BY <1>3, <1>4, <1>5, <1>6, <1>7, <1>8, <1>9, <1>10, AddIsGood
<1>12. 1 .. 1 + n - 1 = DOMAIN g.reps
  BY <1>2
<1>13. e \in Nat
  BY <1>2 DEF NewBeside
<1>14. info.key.value => place = e
  BY <1>10, <1>13
<1>15. \A t \in DOMAIN o.reps : o.reps[t] = key \/ \E j \in DOMAIN g.reps : o.reps[t] = g.reps[j]
  BY <1>11, <1>12 DEF Widens
<1> QED BY <1>10, <1>11, <1>14, <1>15 DEF Holding

-----------------------------------------------------------------------------
(* The halves of a node that is split                                      *)

HalfRange(reps, m, smaller, first, number) ==
  /\ Halved(reps, m, smaller)
  /\ \/ first = 1 /\ number = smaller
     \/ first = smaller + 1 /\ number = Len(reps) - smaller

\* A key belongs to the half.
InHalf(x, base, m, first) == AgreeBelow(x, base, m) /\ (m \in x <=> first # 1)

\* What the entries of a half are.
HalfEntries(reps, m, smaller, first, number) ==
  /\ first \in DOMAIN reps /\ first \in Nat /\ number \in Nat \ {0} /\ first + number - 1 <= Len(reps)
  /\ number + 1 <= Len(reps) /\ Whole(reps, first, number) /\ smaller \in Nat
  /\ \A j \in first .. first + number - 1 :
       /\ j \in DOMAIN reps /\ (m \in reps[j] <=> first # 1) /\ (j <= smaller <=> first = 1)
       /\ \E i \in DOMAIN reps \ {j} : Turn(reps, j, i) = m
  /\ \A j \in DOMAIN reps : (j <= smaller <=> first = 1) => j \in first .. first + number - 1

\* The entries of a half.
LEMMA HalfRangeIs ==
  ASSUME NEW reps, Ascending(reps), Len(reps) >= 2, NEW m \in Nat, NEW smaller, NEW first, NEW number,
         HalfRange(reps, m, smaller, first, number)
  PROVE  HalfEntries(reps, m, smaller, first, number)
<1>1. Len(reps) \in Nat /\ DOMAIN reps = 1 .. Len(reps)
  BY EntriesAre
<1>2. /\ smaller \in 1 .. Len(reps) - 1
      /\ \A i \in DOMAIN reps : i > smaller <=> m \in reps[i]
      /\ \A i, j \in DOMAIN reps : i <= smaller /\ j > smaller => Turn(reps, i, j) = m /\ Turn(reps, j, i) = m
      /\ Whole(reps, 1, smaller) /\ Whole(reps, smaller + 1, Len(reps) - smaller)
  BY DEF HalfRange, Halved
<1>3. CASE first = 1 /\ number = smaller
  <2>1. ASSUME NEW j \in first .. first + number - 1
        PROVE  /\ j \in DOMAIN reps /\ (m \in reps[j] <=> first # 1) /\ (j <= smaller <=> first = 1)
               /\ \E i \in DOMAIN reps \ {j} : Turn(reps, j, i) = m
    <3>1. j \in DOMAIN reps /\ j <= smaller /\ smaller + 1 \in DOMAIN reps \ {j} /\ ~ (j > smaller)
      BY <1>1, <1>2, <1>3
    <3>2. Turn(reps, j, smaller + 1) = m
      BY <1>2, <3>1
    <3> QED BY <1>2, <1>3, <3>1, <3>2
  <2>2. /\ first \in DOMAIN reps /\ first \in Nat /\ number \in Nat \ {0} /\ first + number - 1 <= Len(reps)
        /\ number + 1 <= Len(reps) /\ smaller \in Nat
    BY <1>1, <1>2, <1>3
  <2>3. \A j \in DOMAIN reps : (j <= smaller <=> first = 1) => j \in first .. first + number - 1
    BY <1>1, <1>2, <1>3
  <2> QED BY <1>2, <1>3, <2>1, <2>2, <2>3 DEF HalfEntries
<1>4. CASE first = smaller + 1 /\ number = Len(reps) - smaller
  <2>1. ASSUME NEW j \in first .. first + number - 1
        PROVE  /\ j \in DOMAIN reps /\ (m \in reps[j] <=> first # 1) /\ (j <= smaller <=> first = 1)
               /\ \E i \in DOMAIN reps \ {j} : Turn(reps, j, i) = m
    <3>1. j \in DOMAIN reps /\ j > smaller /\ smaller \in DOMAIN reps \ {j} /\ ~ (j <= smaller) /\ first # 1
      BY <1>1, <1>2, <1>4
    <3>2. Turn(reps, j, smaller) = m
      BY <1>2, <3>1
    <3> QED BY <1>2, <1>4, <3>1, <3>2
  <2>2. /\ first \in DOMAIN reps /\ first \in Nat /\ number \in Nat \ {0} /\ first + number - 1 <= Len(reps)
        /\ number + 1 <= Len(reps) /\ smaller \in Nat
    <3>1. smaller \in Nat /\ 1 <= smaller /\ smaller <= Len(reps) - 1
      BY <1>1, <1>2
    <3>2. \A n, k \in Nat : 1 <= k /\ k <= n - 1 =>
            /\ k + 1 \in 1 .. n /\ n - k \in Nat \ {0} /\ (k + 1) + (n - k) - 1 <= n /\ (n - k) + 1 <= n
      OBVIOUS
    <3>3. /\ smaller + 1 \in 1 .. Len(reps) /\ Len(reps) - smaller \in Nat \ {0}
          /\ (smaller + 1) + (Len(reps) - smaller) - 1 <= Len(reps) /\ (Len(reps) - smaller) + 1 <= Len(reps)
      BY <1>1, <3>1, <3>2
    <3>4. /\ first \in 1 .. Len(reps) /\ number \in Nat \ {0}
          /\ first + number - 1 <= Len(reps) /\ number + 1 <= Len(reps)
      BY <1>4, <3>3, Zenon
    <3> QED BY <1>1, <3>1, <3>4
  <2>3. \A j \in DOMAIN reps : (j <= smaller <=> first = 1) => j \in first .. first + number - 1
    BY <1>1, <1>2, <1>4
  <2> QED BY <1>2, <1>4, <2>1, <2>2, <2>3 DEF HalfEntries
<1> QED BY <1>3, <1>4 DEF HalfRange

\* What the half that receives the new entry becomes.
FullHalf(h, node, first, number, info, new) ==
  IF number # 1
  THEN CopyRangeAndAdd(node, first, number, GetRelevantBitsForRange(node, first, number), info, new)
  ELSE CreateTwoEntriesNode(BiNodeFromExistingAndNew(h, info.key, node.ptrs[first], new))

\* A good node, all of whose keys agree with a given one below a bit.
NodeNear(h, r, node, key, b) ==
  \E o : GoodNode(h, r, node, o) /\ \A t \in DOMAIN o.reps : AgreeBelow(o.reps[t], key, b)

\* A good node, all of whose keys belong to a half.
HalfNode(h, r, node, base, m, first) ==
  \E o : GoodNode(h, r, node, o) /\ \A t \in DOMAIN o.reps : InHalf(o.reps[t], base, m, first)

IsSingle(info, e) == info.first = e /\ info.number = 1

\* Where the half of a single entry becomes a node of two.
LEMMA SingleIsGood ==
  ASSUME NEW h, NEW r, GoodHeap(h, r), NEW node, NEW g, GoodNode(h, r, node, g),
         NEW e, NEW key, NEW info, NewBeside(g.reps, e, key),
         info.key = GetMismatchingBit(g.reps[e], key), Alone(g.reps, e, PartAt(g.reps[e], key)),
         IsSingle(info, e), GetHeight(h, node.ptrs[e]) + 1 = node.height,
         NEW child, NEW new, TwoFor(h, r, node, g, e, key, child, new),
         NEW graft \in BOOLEAN, Grafting(node, e, info, child, graft),
         NEW content, content = CreateTwoEntriesNode(BiNodeFromExistingAndNew(h, info.key, node.ptrs[e], new)),
         NEW place, place = Moved(e, NewIndex(info, key), e),
         NEW other, Grafted(content, graft, place, child, other)
  PROVE  /\ NodeNear(h, r, other, g.reps[e], PartAt(g.reps[e], key))
         /\ other.height = node.height /\ DOMAIN content = {"height", "keys", "ptrs"}
         /\ Len(content.ptrs) = 2 /\ (info.key.value => place = 1)
<1> DEFINE b == PartAt(g.reps[e], key)
           right == b \in key
           bin == [bit |-> b, height |-> node.height,
                   left |-> IF right THEN child ELSE new, right |-> IF right THEN new ELSE child]
<1>1. /\ e \in DOMAIN g.reps /\ e \in Nat /\ g.reps[e] \in AllKeys /\ key \in AllKeys /\ g.reps[e] # key
      /\ g.reps[e] \in SUBSET Nat /\ key \in SUBSET Nat
  BY EntriesAre, KeysAreSets DEF NewBeside
<1>2. /\ b \in Nat /\ (b \in g.reps[e] <=> b \notin key) /\ AgreeBelow(g.reps[e], key, b)
      /\ info.key.value = (b \in key) /\ info.key.bit = b
  BY <1>1, PartAtIs DEF PartAt
<1>3. info.key.value <=> right
  BY <1>2, Zenon
<1>4. /\ IsChild(r, new) /\ GetHeight(h, new) < node.height
      /\ \A x \in Samples(r, new) : AgreeThrough(x, key, b)
      /\ IsChild(r, child) /\ GetHeight(h, child) < node.height
      /\ \A x \in Samples(r, child) : AgreeThrough(x, g.reps[e], b)
      /\ GetHeight(h, child) + 1 = node.height \/ GetHeight(h, new) + 1 = node.height
  BY DEF TwoFor, Alone
<1>5. node.height \in Nat \ {0}
  BY DEF GoodNode
<1>6. GoodBinode(h, r, bin, g.reps[e])
  <2>1. \A x \in Samples(r, new) : AgreeBelow(x, g.reps[e], b) /\ (b \in x <=> b \in key)
    BY <1>2, <1>4 DEF AgreeThrough, AgreeBelow
  <2>2. \A x \in Samples(r, child) : AgreeBelow(x, g.reps[e], b) /\ (b \in x <=> b \in g.reps[e])
    BY <1>2, <1>4 DEF AgreeThrough, AgreeBelow
  <2>3. bin.bit = b /\ bin.height = node.height
    OBVIOUS
  <2>4. CASE right
    <3>1. bin.left = child /\ bin.right = new
      BY <2>4
    <3> HIDE DEF bin, b
    <3> QED BY <1>1, <1>2, <1>4, <1>5, <2>1, <2>2, <2>3, <2>4, <3>1 DEF GoodBinode
  <2>5. CASE ~right
    <3>1. bin.left = new /\ bin.right = child
      BY <2>5
    <3> HIDE DEF bin, b
    <3> QED BY <1>1, <1>2, <1>4, <1>5, <2>1, <2>2, <2>3, <2>5, <3>1 DEF GoodBinode
  <2> QED BY <2>4, <2>5
<1>7. /\ content.height = node.height /\ content.keys = << {}, {b} >>
      /\ content.ptrs = IF right THEN << node.ptrs[e], new >> ELSE << new, node.ptrs[e] >>
      /\ DOMAIN content = {"height", "keys", "ptrs"} /\ Len(content.ptrs) = 2
  <2>1. DOMAIN content = {"height", "keys", "ptrs"}
    BY DEF CreateTwoEntriesNode, NodeContent
  <2>2. CASE right
    <3>1. BiNodeFromExistingAndNew(h, info.key, node.ptrs[e], new)
            = BiNode(info.key.bit, GetHeight(h, node.ptrs[e]) + 1, node.ptrs[e], new)
      BY <1>3, <2>2 DEF BiNodeFromExistingAndNew
    <3> QED BY <1>2, <2>1, <2>2, <3>1 DEF CreateTwoEntriesNode, NodeContent, BiNode
  <2>3. CASE ~right
    <3>1. BiNodeFromExistingAndNew(h, info.key, node.ptrs[e], new)
            = BiNode(info.key.bit, GetHeight(h, node.ptrs[e]) + 1, new, node.ptrs[e])
      BY <1>3, <2>3 DEF BiNodeFromExistingAndNew
    <3> QED BY <1>2, <2>1, <2>3, <3>1 DEF CreateTwoEntriesNode, NodeContent, BiNode
  <2> QED BY <2>2, <2>3
<1>8. place = IF right THEN 1 ELSE 2
  <2>1. NewIndex(info, key) = IF right THEN e + 1 ELSE e
    BY <1>1, <1>2 DEF NewIndex, IsSingle
  <2> QED BY <1>1, <2>1 DEF Moved
<1>9. /\ other.height = bin.height /\ other.keys = << {}, {bin.bit} >> /\ other.ptrs = << bin.left, bin.right >>
  <2>1. /\ other.height = content.height /\ other.keys = content.keys
        /\ other.ptrs = IF graft THEN [content.ptrs EXCEPT ![place] = child] ELSE content.ptrs
    BY DEF Grafted
  <2>2. bin.bit = b /\ bin.height = node.height
    OBVIOUS
  <2>3. CASE graft
    <3>1. right
      BY <1>3, <2>3 DEF Grafting
    <3>2. other.ptrs = [<< node.ptrs[e], new >> EXCEPT ![1] = child]
      BY <1>7, <1>8, <2>1, <2>3, <3>1
    <3>3. other.ptrs = << child, new >>
      BY <3>2
    <3> QED BY <1>7, <2>1, <2>2, <3>1, <3>3
  <2>4. CASE ~graft
    <3>1. child = node.ptrs[e]
      BY <2>4 DEF Grafting
    <3> QED BY <1>7, <2>1, <2>2, <2>4, <3>1
  <2> QED BY <2>3, <2>4
<1>10. \A x \in Samples(r, bin.left) \cup Samples(r, bin.right) : AgreeBelow(x, g.reps[e], b)
  <2>1. bin.bit = b
    OBVIOUS
  <2> HIDE DEF bin
  <2> QED BY <1>6, <2>1 DEF GoodBinode
<1> HIDE DEF bin, right, b
<1>11. Samples(r, bin.left) # {} /\ Samples(r, bin.right) # {}
  BY <1>6, HeightIs DEF GoodBinode
<1>12. PICK x \in Samples(r, bin.left) : TRUE
  BY <1>11
<1>13. PICK y \in Samples(r, bin.right) : TRUE
  BY <1>11
<1> DEFINE o == [reps |-> << x, y >>, exact |-> ExactEntries(h, other)]
<1>14. GoodNode(h, r, other, o) /\ DOMAIN o.reps = {1, 2} /\ o.reps[1] = x /\ o.reps[2] = y
  <2>1. o = [reps |-> << x, y >>, exact |-> ExactEntries(h, other)]
    OBVIOUS
  <2> HIDE DEF o
  <2> QED BY <1>6, <1>9, <2>1, TwoIsGood
<1> HIDE DEF o
<1>15. \A t \in DOMAIN o.reps : AgreeBelow(o.reps[t], g.reps[e], b)
  BY <1>10, <1>14
<1>16. other.height = node.height
  BY <1>7 DEF Grafted
<1>17. info.key.value => place = 1
  BY <1>3, <1>8
<1> QED BY <1>7, <1>14, <1>15, <1>16, <1>17 DEF b, NodeNear

\* The entry, the key beside it, what the insert knows of them and the two pointers fit together.
Replacing(h, r, node, g, e, key, info, child, new, graft) ==
  /\ NewBeside(g.reps, e, key)
  /\ Describes(info, g.reps, e, GetMismatchingBit(g.reps[e], key))
  /\ TwoFor(h, r, node, g, e, key, child, new)
  /\ Alone(g.reps, e, PartAt(g.reps[e], key)) => GetHeight(h, node.ptrs[e]) + 1 = node.height
  /\ graft \in BOOLEAN /\ Grafting(node, e, info, child, graft)

\* All keys agree with a given one below the bit.
AllAgree(reps, base, m) == \A j \in DOMAIN reps : AgreeBelow(reps[j], base, m)

\* A half as it is with the new entry, before and after its child was replaced.
FullAs(h, r, content, other, height, base, m, first, number, info, place, e) ==
  /\ HalfNode(h, r, other, base, m, first)
  /\ other.height = height /\ DOMAIN content = {"height", "keys", "ptrs"}
  /\ Len(content.ptrs) = number + 1 /\ (info.key.value => place = e - first + 1)

\* The half that receives the new entry becomes a good node.
LEMMA FullHalfIsGood ==
  ASSUME NEW h, NEW r, GoodHeap(h, r), NEW node, NEW g, GoodNode(h, r, node, g),
         NEW e, NEW key, NEW info, NEW child, NEW new, NEW graft,
         Replacing(h, r, node, g, e, key, info, child, new, graft),
         NEW m \in Nat, m < PartAt(g.reps[e], key), NEW smaller, NEW first, NEW number,
         HalfRange(g.reps, m, smaller, first, number), e \in first .. first + number - 1,
         NEW base, AllAgree(g.reps, base, m),
         NEW content, content = FullHalf(h, node, first, number, info, new),
         NEW place, place = Moved(first, NewIndex(info, key), e),
         NEW other, Grafted(content, graft, place, child, other)
  PROVE  FullAs(h, r, content, other, node.height, base, m, first, number, info, place, e)
<1>0. /\ NewBeside(g.reps, e, key) /\ Describes(info, g.reps, e, GetMismatchingBit(g.reps[e], key))
      /\ TwoFor(h, r, node, g, e, key, child, new)
      /\ Alone(g.reps, e, PartAt(g.reps[e], key)) => GetHeight(h, node.ptrs[e]) + 1 = node.height
      /\ graft \in BOOLEAN /\ Grafting(node, e, info, child, graft)
      /\ \A j \in DOMAIN g.reps : AgreeBelow(g.reps[j], base, m)
  BY DEF Replacing, AllAgree
<1> DEFINE b == PartAt(g.reps[e], key)
<1>1. /\ Represents(node, g.reps) /\ Ascending(g.reps) /\ Len(g.reps) \in 2 .. MaxEntries
      /\ Len(g.reps) \in Nat /\ DOMAIN g.reps = 1 .. Len(g.reps) /\ Len(g.reps) >= 2
  BY EntriesAre DEF GoodNode, Represents
<1>2. /\ first \in DOMAIN g.reps /\ first \in Nat /\ number \in Nat \ {0} /\ first + number - 1 <= Len(g.reps)
      /\ number + 1 <= Len(g.reps) /\ Whole(g.reps, first, number)
      /\ \A j \in first .. first + number - 1 :
           j \in DOMAIN g.reps /\ (m \in g.reps[j] <=> first # 1) /\ (j <= smaller <=> first = 1)
      /\ \A j \in DOMAIN g.reps : (j <= smaller <=> first = 1) => j \in first .. first + number - 1
  <2>1. HalfEntries(g.reps, m, smaller, first, number)
    BY <1>1, HalfRangeIs
  <2> QED BY <2>1 DEF HalfEntries
<1>3. /\ e \in DOMAIN g.reps /\ e \in Nat /\ g.reps[e] \in AllKeys /\ key \in AllKeys /\ g.reps[e] # key
      /\ g.reps[e] \in SUBSET Nat /\ key \in SUBSET Nat
  BY <1>0, EntriesAre, KeysAreSets DEF NewBeside
<1>4. b \in Nat /\ AgreeBelow(g.reps[e], key, b) /\ GetMismatchingBit(g.reps[e], key).bit = b
  BY <1>3, PartAtIs DEF PartAt
<1> HIDE DEF b
<1>5. m < b
  BY DEF b
<1>6. Side(g.reps, e, b) \subseteq first .. first + number - 1
  <2> SUFFICES ASSUME NEW f \in Side(g.reps, e, b) PROVE f \in first .. first + number - 1
    OBVIOUS
  <2>1. f \in DOMAIN g.reps /\ (f <= smaller <=> e <= smaller)
    BY <1>1, <1>3, <1>4, <1>5, SideIsInHalf DEF HalfRange
  <2> QED BY <1>2, <2>1
<1>7. /\ info.key = GetMismatchingBit(g.reps[e], key) /\ info.first \in DOMAIN g.reps
      /\ info.number \in Nat \ {0} /\ info.first \in Nat
      /\ Side(g.reps, e, b) = info.first .. info.first + info.number - 1
      /\ e \in Side(g.reps, e, b)
  BY <1>0, <1>1, <1>3, <1>4 DEF Describes, Side
<1>8. first <= info.first /\ info.first + info.number <= first + number
  <2>1. /\ info.first \in info.first .. info.first + info.number - 1
        /\ info.first + info.number - 1 \in info.first .. info.first + info.number - 1
    BY <1>7
  <2>2. info.first \in first .. first + number - 1 /\ info.first + info.number - 1 \in first .. first + number - 1
    BY <1>6, <1>7, <2>1
  <2> QED BY <1>2, <1>7, <2>2
<1>9. NewInRange(g.reps, e, key, info, first, number)
  BY <1>0, <1>2, <1>8 DEF NewInRange
<1>10. InHalf(g.reps[e], base, m, first)
  BY <1>0, <1>2, <1>3 DEF InHalf
<1>11. ASSUME NEW x, AgreeBelow(x, g.reps[e], b) PROVE InHalf(x, base, m, first)
  BY <1>4, <1>5, <1>10, <1>11 DEF InHalf, AgreeBelow
<1>12. CASE number # 1
  <2> DEFINE relevant == GetRelevantBitsForRange(node, first, number)
             at == NewIndex(info, key)
             slot == at - first + 1
             o == [reps |-> Widened(g.reps, first, number, at, key), exact |-> ExactEntries(h, other)]
  <2>1. Keeps(node, g.reps, first, number, relevant)
    BY <1>1, <1>2, RelevantBitsAreKept
  <2>2. content = CopyRangeAndAdd(node, first, number, relevant, info, new)
    BY <1>12 DEF FullHalf
  <2>3. at = NewIndex(info, key) /\ slot = at - first + 1 /\ number + 1 \in 2 .. MaxEntries
    <3>1. MaxEntries \in Nat
      BY MaxEntriesAssumption
    <3> QED BY <1>1, <1>2, <3>1
  <2>4. o = [reps |-> Widened(g.reps, first, number, at, key), exact |-> ExactEntries(h, other)]
    OBVIOUS
  <2>5. place = Moved(first, at, e)
    OBVIOUS
  <2> HIDE DEF relevant, at, slot, o
  <2>6. /\ Holding(other, node, first, number, at, slot, place, child, new) /\ other.keys = content.keys
        /\ DOMAIN content = {"height", "keys", "ptrs"} /\ Len(content.ptrs) = number + 1
        /\ info.key.value => place = e - first + 1
    BY <1>0, <1>1, <1>9, <2>1, <2>2, <2>3, <2>5, CopyHolds
  <2>7. GoodNode(h, r, other, o) /\ Widens(o, g, key, first, number)
    BY <1>0, <1>2, <1>9, <2>1, <2>2, <2>3, <2>4, <2>5, <2>6, AddIsGood
  <2>8. \A t \in DOMAIN o.reps : InHalf(o.reps[t], base, m, first)
    <3> SUFFICES ASSUME NEW t \in DOMAIN o.reps PROVE InHalf(o.reps[t], base, m, first)
      OBVIOUS
    <3>1. CASE o.reps[t] = key
      <4>1. AgreeBelow(key, g.reps[e], b)
        BY <1>4 DEF AgreeBelow
      <4> QED BY <1>11, <3>1, <4>1
    <3>2. CASE \E j \in first .. first + number - 1 : o.reps[t] = g.reps[j]
      BY <1>0, <1>2, <3>2 DEF InHalf
    <3> QED BY <2>7, <3>1, <3>2 DEF Widens
  <2> QED BY <2>6, <2>7, <2>8 DEF Holding, HalfNode, FullAs
<1>13. CASE number = 1
  <2>1. e = first /\ Side(g.reps, e, b) = {e} /\ info.first = e /\ info.number = 1
    <3>1. first .. first + number - 1 = {first}
      BY <1>2, <1>13
    <3> QED BY <1>2, <1>6, <1>7, <1>8, <1>13, <3>1
  <2>2. content = CreateTwoEntriesNode(BiNodeFromExistingAndNew(h, info.key, node.ptrs[e], new))
    BY <1>13, <2>1 DEF FullHalf
  <2>3. GetHeight(h, node.ptrs[e]) + 1 = node.height
    BY <1>0, <2>1 DEF b, Alone
  <2>4. place = Moved(e, NewIndex(info, key), e)
    BY <2>1
  <2>5. Alone(g.reps, e, PartAt(g.reps[e], key))
    BY <2>1 DEF b, Alone
  <2>10. IsSingle(info, e)
    BY <2>1 DEF IsSingle
  <2>6. /\ NodeNear(h, r, other, g.reps[e], PartAt(g.reps[e], key))
        /\ other.height = node.height /\ DOMAIN content = {"height", "keys", "ptrs"}
        /\ Len(content.ptrs) = 2 /\ (info.key.value => place = 1)
    BY <1>0, <1>7, <2>2, <2>3, <2>4, <2>5, <2>10, SingleIsGood
  <2>7. PICK o : /\ GoodNode(h, r, other, o)
                 /\ \A t \in DOMAIN o.reps : AgreeBelow(o.reps[t], g.reps[e], b)
    BY <2>6 DEF b, NodeNear
  <2>8. \A t \in DOMAIN o.reps : InHalf(o.reps[t], base, m, first)
    BY <1>11, <2>7
  <2>9. e - first + 1 = 1
    BY <1>2, <2>1
  <2> QED BY <1>13, <2>6, <2>7, <2>8, <2>9 DEF HalfNode, FullAs
<1> QED BY <1>12, <1>13

HalfChild(r, p, base, m, first) == IsChild(r, p) /\ \A x \in Samples(r, p) : InHalf(x, base, m, first)

\* Nodes were added, and there is a pointer to what is in a half.
HalfBuilt(h, r, a, base, m, first) ==
  \E more : Builds(h, r, a.heap, more) /\ HalfChild(more, a.ptr, base, m, first)

\* The node that was added last.
LEMMA AllocatedIs ==
  ASSUME NEW h, IsHeap(h), NEW content, NEW a, a = Allocate(h, content)
  PROVE  /\ a.ptr = NodePointer(Len(h) + 1) /\ ~IsLeaf(a.ptr) /\ IsAValidNode(a.ptr) /\ a.ptr.id = Len(h) + 1
         /\ GetHeight(a.heap, a.ptr) = content.height
         /\ GetNumberEntries(a.heap, a.ptr) = Len(content.ptrs)
         /\ IsHeap(a.heap) /\ Len(h) + 1 \in DOMAIN a.heap
<1> DEFINE n == Len(h) + 1
<1>1. /\ a.ptr = NodePointer(n) /\ a.heap[n].height = content.height /\ a.heap[n].ptrs = content.ptrs
      /\ IsHeap(a.heap) /\ n \in DOMAIN a.heap
  <2>1. Adds(h, content, a, n)
    BY AllocateIs
  <2>2. n \in 1 .. n
    BY <2>1 DEF Adds
  <2> HIDE DEF n
  <2> QED BY <2>1, <2>2 DEF Adds
<1>2. NodePointer(n) = [type |-> "node", id |-> n]
  BY DEF NodePointer
<1>3. ~IsLeaf(a.ptr) /\ IsAValidNode(a.ptr) /\ a.ptr.id = n
  BY <1>1, <1>2 DEF IsLeaf, IsAValidNode
<1> QED BY <1>1, <1>3 DEF GetHeight, GetNumberEntries

\* A good half is added.
LEMMA AllocateHalf ==
  ASSUME NEW h, NEW r, GoodHeap(h, r), NEW other, NEW base, NEW m, NEW first,
         HalfNode(h, r, other, base, m, first)
  PROVE  HalfBuilt(h, r, Allocate(h, other), base, m, first)
<1>1. PICK o : GoodNode(h, r, other, o) /\ \A t \in DOMAIN o.reps : InHalf(o.reps[t], base, m, first)
  BY DEF HalfNode
<1> DEFINE more == WithNode(h, r, o)
           a == Allocate(h, other)
<1>2. a = Allocate(h, other) /\ more = WithNode(h, r, o)
  OBVIOUS
<1> HIDE DEF more, a
<1>3. /\ Builds(h, r, a.heap, more) /\ IsChild(more, a.ptr)
      /\ Samples(more, a.ptr) = { o.reps[j] : j \in DOMAIN o.reps }
  BY <1>1, <1>2, AllocateGoodNode DEF NodeAdded
<1>4. HalfChild(more, a.ptr, base, m, first)
  BY <1>1, <1>3 DEF HalfChild
<1> QED BY <1>3, <1>4 DEF HalfBuilt, a

\* The entries of a half that keeps what it has: how many the split takes it to have.
LowerPart(h, p, height) == IF GetHeight(h, p) = height THEN GetNumberEntries(h, p) ELSE 1

\* The half that keeps what it has was built.
PlainBuilt(h, r, a, base, m, first, height, number) ==
  /\ HalfBuilt(h, r, a, base, m, first)
  /\ GetHeight(a.heap, a.ptr) <= height /\ LowerPart(a.heap, a.ptr, height) = number

\* A half that keeps what it has becomes a good node, or stays a child.
LEMMA PlainHalfIsGood ==
  ASSUME NEW h, NEW r, GoodHeap(h, r), NEW node, NEW g, GoodNode(h, r, node, g),
         NEW m \in Nat, NEW smaller, NEW first, NEW number, HalfRange(g.reps, m, smaller, first, number),
         NEW base, AllAgree(g.reps, base, m),
         NEW a, a = CompressEntries(h, node, first, number)
  PROVE  PlainBuilt(h, r, a, base, m, first, node.height, number)
<1>1. /\ Represents(node, g.reps) /\ Ascending(g.reps) /\ Len(g.reps) \in 2 .. MaxEntries
      /\ Len(g.reps) \in Nat /\ DOMAIN g.reps = 1 .. Len(g.reps) /\ Len(g.reps) >= 2
      /\ node.height \in Nat \ {0}
  BY EntriesAre DEF GoodNode, Represents
<1>2. /\ first \in DOMAIN g.reps /\ first \in Nat /\ number \in Nat \ {0} /\ first + number - 1 <= Len(g.reps)
      /\ number + 1 <= Len(g.reps) /\ Whole(g.reps, first, number)
      /\ \A j \in first .. first + number - 1 :
           /\ j \in DOMAIN g.reps /\ (m \in g.reps[j] <=> first # 1)
           /\ \E i \in DOMAIN g.reps \ {j} : Turn(g.reps, j, i) = m
  <2>1. HalfEntries(g.reps, m, smaller, first, number)
    BY <1>1, HalfRangeIs
  <2> QED BY <2>1 DEF HalfEntries
<1>3. CASE number > 1
  <2> DEFINE content == CopyRange(node, first, number)
             o == [reps |-> Part(g.reps, first, number), exact |-> ExactEntries(h, content)]
  <2>1. a = Allocate(h, content)
    BY <1>3 DEF CompressEntries
  <2>2. number >= 2
    BY <1>2, <1>3
  <2>3. content = CopyRange(node, first, number)
        /\ o = [reps |-> Part(g.reps, first, number), exact |-> ExactEntries(h, content)]
    OBVIOUS
  <2> HIDE DEF content, o
  <2>4. /\ GoodNode(h, r, content, o) /\ content.height = node.height /\ Len(o.reps) = number
        /\ DOMAIN o.reps = 1 .. number
        /\ \A t \in DOMAIN o.reps : first + t - 1 \in DOMAIN g.reps /\ o.reps[t] = g.reps[first + t - 1]
    BY <1>2, <2>2, <2>3, PartIsGood
  <2>5. \A t \in DOMAIN o.reps : InHalf(o.reps[t], base, m, first)
    <3> SUFFICES ASSUME NEW t \in 1 .. number PROVE InHalf(o.reps[t], base, m, first)
      BY <2>4
    <3>1. first + t - 1 \in first .. first + number - 1
      BY <1>2
    <3>2. o.reps[t] = g.reps[first + t - 1]
      BY <2>4
    <3> DEFINE j == first + t - 1
    <3> HIDE DEF j
    <3>3. o.reps[t] = g.reps[j] /\ j \in first .. first + number - 1
      BY <3>1, <3>2 DEF j
    <3>4. j \in DOMAIN g.reps /\ (m \in g.reps[j] <=> first # 1)
      BY <1>2, <3>3
    <3> QED BY <3>3, <3>4 DEF InHalf, AllAgree
  <2>6. HalfNode(h, r, content, base, m, first)
    BY <2>4, <2>5 DEF HalfNode
  <2>7. HalfBuilt(h, r, a, base, m, first)
    BY <2>1, <2>6, AllocateHalf
  <2>8. Len(content.ptrs) = number
    BY <2>4 DEF GoodNode, Represents
  <2>9. GetHeight(a.heap, a.ptr) = node.height /\ GetNumberEntries(a.heap, a.ptr) = number
    BY <2>1, <2>4, <2>8, AllocatedIs DEF GoodHeap
  <2> QED BY <1>1, <2>7, <2>9 DEF LowerPart, PlainBuilt
<1>4. CASE ~ (number > 1)
  <2>1. number = 1 /\ a.heap = h /\ a.ptr = node.ptrs[first]
    BY <1>2, <1>4 DEF CompressEntries
  <2>2. FitsIn(h, r, node.ptrs[first], node.height, g, first)
    BY <1>2 DEF GoodNode
  <2>3. /\ IsChild(r, a.ptr) /\ GetHeight(h, a.ptr) < node.height
        /\ \A x \in Samples(r, a.ptr) : Follows(x, g.reps, first)
    BY <2>1, <2>2 DEF FitsIn
  <2>4. first \in first .. first + number - 1
    BY <1>2, <2>1
  <2>5. PICK i \in DOMAIN g.reps \ {first} : Turn(g.reps, first, i) = m
    BY <1>2, <2>4
  <2>6. m \in g.reps[first] <=> first # 1
    BY <1>2, <2>4
  <2>7. ASSUME NEW x \in Samples(r, a.ptr) PROVE InHalf(x, base, m, first)
    <3>1. \A c \in Nat : c <= m => (c \in x <=> c \in g.reps[first])
      BY <2>3, <2>5 DEF Follows
    <3>2. AgreeBelow(g.reps[first], base, m)
      BY <1>2 DEF AllAgree
    <3>3. \A c \in Nat : c < m => c <= m
      OBVIOUS
    <3>4. m <= m
      OBVIOUS
    <3> QED BY <2>6, <3>1, <3>2, <3>3, <3>4 DEF InHalf, AgreeBelow
  <2>8. HalfChild(r, a.ptr, base, m, first)
    BY <2>3, <2>7 DEF HalfChild
  <2>9. HalfBuilt(h, r, a, base, m, first)
    BY <2>1, <2>8, BuildsNothing DEF HalfBuilt
  <2>10. GetHeight(h, a.ptr) \in Nat
    BY <2>3, HeightIs
  <2> QED BY <1>1, <2>1, <2>3, <2>9, <2>10 DEF LowerPart, PlainBuilt
<1> QED BY <1>3, <1>4

\* What Split puts together.
LEMMA SplitIs ==
  ASSUME NEW h, NEW node, NEW info, NEW new, NEW larger, larger = NumberLargerEntries(node),
         NEW smaller, smaller = Len(node.ptrs) - larger,
         NEW s, s = Split(h, node, info, new)
  PROVE  /\ info.first > smaller =>
              LET left  == CompressEntries(h, node, 1, smaller)
                  right == Allocate(left.heap, FullHalf(left.heap, node, smaller + 1, larger, info, new))
              IN  /\ s.heap = right.heap
                  /\ s.binode = BiNode(MostSignificantBit(node), node.height + 1, left.ptr, right.ptr)
         /\ ~ (info.first > smaller) =>
              LET left  == Allocate(h, FullHalf(h, node, 1, smaller, info, new))
                  right == CompressEntries(left.heap, node, smaller + 1, larger)
              IN  /\ s.heap = right.heap
                  /\ s.binode = BiNode(MostSignificantBit(node), node.height + 1, left.ptr, right.ptr)
BY DEF Split, CompressEntriesAndAddOneEntryIntoNewNode, FullHalf

\* They still do when there are more nodes.
LEMMA ReplacingLater ==
  ASSUME NEW h, NEW r, NEW next, NEW more, Extends(h, r, next, more),
         NEW node, NEW g, GoodNode(h, r, node, g),
         NEW e, NEW key, NEW info, NEW child, NEW new, NEW graft,
         Replacing(h, r, node, g, e, key, info, child, new, graft)
  PROVE  Replacing(next, more, node, g, e, key, info, child, new, graft)
<1>1. e \in DOMAIN g.reps
  BY DEF Replacing, NewBeside
<1>2. IsChild(r, node.ptrs[e])
  BY <1>1 DEF GoodNode, FitsIn
<1>3. GetHeight(next, node.ptrs[e]) = GetHeight(h, node.ptrs[e])
  BY <1>2, FitsInLater
<1>4. TwoFor(h, r, node, g, e, key, child, new)
  BY DEF Replacing
<1>5. IsChild(r, new)
  BY <1>4 DEF TwoFor
<1>6. IsChild(more, new) /\ Samples(more, new) = Samples(r, new) /\ GetHeight(next, new) = GetHeight(h, new)
  BY <1>5, FitsInLater
<1>7. IsChild(r, child) => IsChild(more, child) /\ Samples(more, child) = Samples(r, child)
                           /\ GetHeight(next, child) = GetHeight(h, child)
  BY FitsInLater
<1>8. TwoFor(next, more, node, g, e, key, child, new)
  BY <1>4, <1>6, <1>7 DEF TwoFor
<1> QED BY <1>3, <1>8 DEF Replacing

\* The half that receives the new entry, as it is after the child was replaced in it, was added.
FullBuilt(h, r, a, next, base, m, first, height, number) ==
  /\ \E other : next = Allocate(h, other).heap /\ a.ptr = Allocate(h, other).ptr
  /\ HalfBuilt(h, r, [heap |-> next, ptr |-> a.ptr], base, m, first)
  /\ GetHeight(next, a.ptr) = height /\ GetHeight(a.heap, a.ptr) = height
  /\ GetNumberEntries(a.heap, a.ptr) = number + 1
  /\ a.ptr.id = Len(h) + 1 /\ a.ptr.id \in DOMAIN a.heap /\ IsHeap(a.heap) /\ IsAValidNode(a.ptr) /\ ~IsLeaf(a.ptr)

\* The child was replaced in the half that was built.
IsGraft(a, e, first, child, graft, next) ==
  next = IF graft THEN SetSlot(a.heap, a.ptr.id, e - first + 1, child) ELSE a.heap

\* The half that receives the new entry is added.
LEMMA AllocateFullHalf ==
  ASSUME NEW h, NEW r, GoodHeap(h, r), NEW node, NEW g, GoodNode(h, r, node, g),
         NEW e, NEW key, NEW info, NEW child, NEW new, NEW graft,
         Replacing(h, r, node, g, e, key, info, child, new, graft),
         NEW m \in Nat, m < PartAt(g.reps[e], key), NEW smaller, NEW first, NEW number,
         HalfRange(g.reps, m, smaller, first, number), e \in first .. first + number - 1,
         NEW base, AllAgree(g.reps, base, m),
         NEW a, a = Allocate(h, FullHalf(h, node, first, number, info, new)),
         NEW next, IsGraft(a, e, first, child, graft, next)
  PROVE  FullBuilt(h, r, a, next, base, m, first, node.height, number)
<1> DEFINE content == FullHalf(h, node, first, number, info, new)
           place == Moved(first, NewIndex(info, key), e)
           other == IF graft THEN WithPointer(content, place, child) ELSE content
<1>1. content = FullHalf(h, node, first, number, info, new) /\ place = Moved(first, NewIndex(info, key), e)
  OBVIOUS
<1>2. /\ NewBeside(g.reps, e, key)
      /\ Describes(info, g.reps, e, GetMismatchingBit(g.reps[e], key))
      /\ TwoFor(h, r, node, g, e, key, child, new)
      /\ Alone(g.reps, e, PartAt(g.reps[e], key)) => GetHeight(h, node.ptrs[e]) + 1 = node.height
      /\ graft \in BOOLEAN /\ Grafting(node, e, info, child, graft)
  BY DEF Replacing
<1>3. other = IF graft THEN WithPointer(content, place, child) ELSE content
  OBVIOUS
<1> HIDE DEF content, place, other
<1>4. ASSUME NEW x, Grafted(content, graft, place, child, x)
      PROVE  FullAs(h, r, content, x, node.height, base, m, first, number, info, place, e)
  BY <1>1, <1>4, FullHalfIsGood
<1>5. DOMAIN content = {"height", "keys", "ptrs"}
  BY <1>1 DEF FullHalf, CopyRangeAndAdd, NodeContent, CreateTwoEntriesNode
<1>6. IsHeap(h)
  BY DEF GoodHeap
<1>17. WrittenAs(h, content, place, child, WithPointer(content, place, child))
  BY <1>5, <1>6, AllocateAndSet
<1>7. Grafted(content, graft, place, child, other)
  <2>1. CASE graft
    BY <1>3, <1>17, <2>1 DEF Grafted, WrittenAs
  <2>2. CASE ~graft
    BY <1>3, <2>2 DEF Grafted
  <2> QED BY <2>1, <2>2
<1>8. /\ HalfNode(h, r, other, base, m, first) /\ other.height = node.height
      /\ Len(content.ptrs) = number + 1 /\ (info.key.value => place = e - first + 1)
  BY <1>4, <1>7 DEF FullAs
<1>9. a = Allocate(h, content)
  BY <1>1
<1>10. /\ a.ptr = NodePointer(Len(h) + 1) /\ ~IsLeaf(a.ptr) /\ IsAValidNode(a.ptr) /\ a.ptr.id = Len(h) + 1
       /\ GetHeight(a.heap, a.ptr) = content.height
       /\ GetNumberEntries(a.heap, a.ptr) = Len(content.ptrs)
       /\ IsHeap(a.heap) /\ Len(h) + 1 \in DOMAIN a.heap
  BY <1>6, <1>9, AllocatedIs
<1>11. next = Allocate(h, other).heap
  <2>1. CASE graft
    <3>1. place = e - first + 1
      BY <1>2, <1>8, <2>1 DEF Grafting
    <3>4. other = WithPointer(content, place, child)
      BY <1>3, <2>1
    <3>2. SetSlot(Allocate(h, content).heap, Len(h) + 1, place, child) = Allocate(h, other).heap
      BY <1>17, <3>4 DEF WrittenAs
    <3> QED BY <1>9, <1>10, <2>1, <3>1, <3>2 DEF IsGraft
  <2>2. CASE ~graft
    BY <1>3, <1>9, <2>2 DEF IsGraft
  <2> QED BY <2>1, <2>2
<1>12. Allocate(h, other).ptr = a.ptr
  BY <1>9 DEF Allocate
<1>13. [heap |-> next, ptr |-> a.ptr] = Allocate(h, other)
  BY <1>11, <1>12 DEF Allocate
<1>14. HalfBuilt(h, r, Allocate(h, other), base, m, first)
  BY <1>8, AllocateHalf
<1>15. GetHeight(next, a.ptr) = node.height
  <2>1. GetHeight(Allocate(h, other).heap, Allocate(h, other).ptr) = other.height
    BY <1>6, AllocatedIs
  <2> QED BY <1>8, <1>11, <1>12, <2>1
<1>16. content.height = node.height
  BY <1>7, <1>8 DEF Grafted
<1> QED BY <1>8, <1>10, <1>11, <1>12, <1>13, <1>14, <1>15, <1>16 DEF FullBuilt

\* The nodes there were are the same.
Unchanged(h, next) == IsHeap(next) /\ DOMAIN h \subseteq DOMAIN next /\ \A i \in DOMAIN h : next[i] = h[i]

\* To copy a range leaves the other nodes alone, and it does not matter whether one of them is
\* written before or after.
LEMMA CompressKeeps ==
  ASSUME NEW h, IsHeap(h), NEW node, NEW first, NEW number, NEW id \in DOMAIN h, NEW slot, NEW p,
         NEW a, a = CompressEntries(h, node, first, number),
         NEW b, b = CompressEntries(SetSlot(h, id, slot, p), node, first, number)
  PROVE  Unchanged(h, a.heap) /\ SetSlot(a.heap, id, slot, p) = b.heap /\ b.ptr = a.ptr
<1>1. CASE number > 1
  <2> DEFINE content == CopyRange(node, first, number)
  <2>1. a = Allocate(h, content) /\ b = Allocate(SetSlot(h, id, slot, p), content)
    BY <1>1 DEF CompressEntries
  <2> HIDE DEF content
  <2>2. Adds(h, content, a, Len(h) + 1)
    BY <2>1, AllocateIs
  <2>3. Unchanged(h, a.heap)
    BY <2>2 DEF Adds, Unchanged
  <2>4. /\ SetSlot(Allocate(h, content).heap, id, slot, p) = Allocate(SetSlot(h, id, slot, p), content).heap
        /\ Allocate(SetSlot(h, id, slot, p), content).ptr = Allocate(h, content).ptr
    BY SetSlotBelow
  <2> QED BY <2>1, <2>3, <2>4
<1>2. CASE ~ (number > 1)
  <2>1. a.heap = h /\ b.heap = SetSlot(h, id, slot, p) /\ a.ptr = node.ptrs[first] /\ b.ptr = node.ptrs[first]
    BY <1>2 DEF CompressEntries
  <2> QED BY <2>1 DEF Unchanged
<1> QED BY <1>1, <1>2

\* The nodes that were there say of a pointer what they said.
LEMMA UnchangedHeight ==
  ASSUME NEW h, NEW next, Unchanged(h, next), NEW p, IsLeaf(p) \/ p.id \in DOMAIN h
  PROVE  GetHeight(next, p) = GetHeight(h, p) /\ GetNumberEntries(next, p) = GetNumberEntries(h, p)
BY DEF Unchanged, GetHeight, GetNumberEntries

\* Nodes were added, and there are two halves of the node.
BinodeBuilt(h, r, next, bin, base) ==
  \E more : Builds(h, r, next, more) /\ GoodBinode(next, more, bin, base)

\* Two halves make a good pair.
LEMMA HalvesMakeBinode ==
  ASSUME NEW h, NEW r, NEW next, NEW more, Builds(h, r, next, more), NEW base \in AllKeys, NEW m \in Nat,
         NEW height \in Nat \ {0}, NEW first, first # 1, NEW low, HalfChild(more, low, base, m, 1),
         NEW high, HalfChild(more, high, base, m, first),
         GetHeight(next, low) <= height, GetHeight(next, high) <= height,
         GetHeight(next, low) = height \/ GetHeight(next, high) = height,
         NEW bin, bin = BiNode(m, height + 1, low, high)
  PROVE  BinodeBuilt(h, r, next, bin, base)
<1>1. bin.bit = m /\ bin.height = height + 1 /\ bin.left = low /\ bin.right = high
  BY DEF BiNode
<1>2. IsChild(more, low) /\ IsChild(more, high)
  BY DEF HalfChild
<1>3. GoodHeap(next, more)
  BY DEF Builds
<1>4. GetHeight(next, low) \in Nat /\ GetHeight(next, high) \in Nat
  BY <1>2, <1>3, HeightIs
<1>5. \A x \in Samples(more, low) : AgreeBelow(x, base, m) /\ m \notin x
  BY DEF HalfChild, InHalf
<1>6. \A x \in Samples(more, high) : AgreeBelow(x, base, m) /\ m \in x
  BY DEF HalfChild, InHalf
<1>7. /\ GetHeight(next, low) < height + 1 /\ GetHeight(next, high) < height + 1
      /\ GetHeight(next, low) + 1 = height + 1 \/ GetHeight(next, high) + 1 = height + 1
      /\ height + 1 \in Nat \ {0}
  BY <1>4
<1>8. GoodBinode(next, more, bin, base)
  BY <1>1, <1>2, <1>5, <1>6, <1>7 DEF GoodBinode
<1> QED BY <1>8 DEF BinodeBuilt

\* What is left of a node is there when the other half is added.
LEMMA HalfLater ==
  ASSUME NEW h, NEW r, NEW next, NEW more, Extends(h, r, next, more),
         NEW p, NEW base, NEW m, NEW first, HalfChild(r, p, base, m, first)
  PROVE  HalfChild(more, p, base, m, first) /\ GetHeight(next, p) = GetHeight(h, p)
BY FitsInLater DEF HalfChild

\* The nodes after a split, with the child replaced in the half that holds it.
AfterSplit(s, node, e, child, graft) ==
  IF ~graft THEN s.heap
  ELSE IF NumberEntriesInLowerPart(s, node) < e
       THEN SetSlot(s.heap, s.binode.right.id, e - NumberEntriesInLowerPart(s, node), child)
       ELSE SetSlot(s.heap, s.binode.left.id, e, child)

\* The new entry goes to the right half.
SplitRight(h, node, smaller, info, new, left, right, s) ==
  /\ left = CompressEntries(h, node, 1, smaller)
  /\ right = Allocate(left.heap,
               FullHalf(left.heap, node, smaller + 1, NumberLargerEntries(node), info, new))
  /\ s.heap = right.heap
  /\ s.binode = BiNode(MostSignificantBit(node), node.height + 1, left.ptr, right.ptr)

\* The new entry goes to the left half.
SplitLeft(h, node, smaller, info, new, left, right, s) ==
  /\ left = Allocate(h, FullHalf(h, node, 1, smaller, info, new))
  /\ right = CompressEntries(left.heap, node, smaller + 1, NumberLargerEntries(node))
  /\ s.heap = right.heap
  /\ s.binode = BiNode(MostSignificantBit(node), node.height + 1, left.ptr, right.ptr)

\* What was built first and what was built then.
LEMMA HalfBuiltIs ==
  ASSUME NEW h, NEW r, NEW a, NEW base, NEW m, NEW first, HalfBuilt(h, r, a, base, m, first)
  PROVE  \E more : /\ Builds(h, r, a.heap, more) /\ HalfChild(more, a.ptr, base, m, first)
                   /\ GoodHeap(a.heap, more) /\ Extends(h, r, a.heap, more)
BY DEF HalfBuilt, Builds

\* Splitting a node whose new entry goes to the right half.
LEMMA SplitRightIsGood ==
  ASSUME NEW h, NEW r, GoodHeap(h, r), NEW node, NEW g, GoodNode(h, r, node, g),
         NEW e, NEW key, NEW info, NEW child, NEW new, NEW graft,
         Replacing(h, r, node, g, e, key, info, child, new, graft),
         NEW m \in Nat, m = MostSignificantBit(node), m < PartAt(g.reps[e], key),
         NEW base \in AllKeys, AllAgree(g.reps, base, m),
         NEW smaller, smaller = Len(node.ptrs) - NumberLargerEntries(node),
         Halved(g.reps, m, smaller), e > smaller,
         NEW left, NEW right, NEW s, SplitRight(h, node, smaller, info, new, left, right, s)
  PROVE  BinodeBuilt(h, r, AfterSplit(s, node, e, child, graft), s.binode, base)
<1> DEFINE larger == NumberLargerEntries(node)
           first == smaller + 1
           next == AfterSplit(s, node, e, child, graft)
<1>1. /\ Represents(node, g.reps) /\ Ascending(g.reps) /\ Len(node.ptrs) = Len(g.reps)
      /\ Len(g.reps) \in Nat /\ DOMAIN g.reps = 1 .. Len(g.reps) /\ Len(g.reps) >= 2
      /\ node.height \in Nat \ {0}
  BY EntriesAre DEF GoodNode, Represents
<1>2. smaller \in 1 .. Len(g.reps) - 1 /\ smaller \in Nat
  BY <1>1 DEF Halved
<1>3. larger = Len(g.reps) - smaller
  <2>1. larger \in Nat
    BY <1>1, HalvesAre
  <2>2. \A n, k \in Nat : n - (n - k) = k
    OBVIOUS
  <2> QED BY <1>1, <2>1, <2>2
<1>4. HalfRange(g.reps, m, smaller, 1, smaller) /\ HalfRange(g.reps, m, smaller, first, larger)
  BY <1>3 DEF HalfRange
<1>5. e \in first .. first + larger - 1 /\ e \in Nat
  <2>1. e \in 1 .. Len(g.reps)
    BY <1>1 DEF Replacing, NewBeside
  <2>2. \A n, k \in Nat : (k + 1) + (n - k) - 1 = n
    OBVIOUS
  <2>5. (smaller + 1) + (Len(g.reps) - smaller) - 1 = Len(g.reps)
    BY <1>1, <1>2, <2>2
  <2>3. first + larger - 1 = Len(g.reps)
    BY <1>3, <2>5, Zenon
  <2> HIDE DEF larger, first
  <2>4. smaller < e /\ first = smaller + 1
    BY DEF first
  <2> QED BY <1>1, <1>2, <2>1, <2>3, <2>4
<1>6. /\ left = CompressEntries(h, node, 1, smaller)
      /\ right = Allocate(left.heap, FullHalf(left.heap, node, first, larger, info, new))
      /\ s.heap = right.heap
      /\ s.binode = BiNode(m, node.height + 1, left.ptr, right.ptr)
  BY DEF SplitRight
<1>18. next = AfterSplit(s, node, e, child, graft) /\ first = smaller + 1
  OBVIOUS
<1> HIDE DEF larger, first, next
<1>7. /\ HalfBuilt(h, r, left, base, m, 1)
      /\ GetHeight(left.heap, left.ptr) <= node.height
      /\ LowerPart(left.heap, left.ptr, node.height) = smaller
  <2>1. PlainBuilt(h, r, left, base, m, 1, node.height, smaller)
    BY <1>4, <1>6, PlainHalfIsGood
  <2> QED BY <2>1 DEF PlainBuilt
<1>8. PICK some : /\ Builds(h, r, left.heap, some) /\ HalfChild(some, left.ptr, base, m, 1)
                  /\ GoodHeap(left.heap, some) /\ Extends(h, r, left.heap, some)
  BY <1>7, HalfBuiltIs
<1>9. GoodNode(left.heap, some, node, g) /\ Replacing(left.heap, some, node, g, e, key, info, child, new, graft)
  BY <1>8, GoodNodeLater, ReplacingLater
<1>10. right.ptr.id = Len(left.heap) + 1 /\ Unchanged(left.heap, right.heap)
  <2> DEFINE content == FullHalf(left.heap, node, first, larger, info, new)
  <2>1. right = Allocate(left.heap, content) /\ IsHeap(left.heap)
    BY <1>6, <1>8 DEF GoodHeap
  <2> HIDE DEF content
  <2>2. Adds(left.heap, content, right, Len(left.heap) + 1)
    BY <2>1, AllocateIs
  <2>3. right.ptr.id = Len(left.heap) + 1
    BY <2>1, AllocatedIs
  <2> QED BY <2>2, <2>3 DEF Adds, Unchanged
<1>11. IsLeaf(left.ptr) \/ left.ptr.id \in DOMAIN left.heap
  BY <1>8, ChildIs DEF HalfChild, GoodHeap
<1>12. NumberEntriesInLowerPart(s, node) = smaller
  <2>1. s.binode.left = left.ptr
    BY <1>6 DEF BiNode
  <2>2. /\ GetHeight(right.heap, left.ptr) = GetHeight(left.heap, left.ptr)
        /\ GetNumberEntries(right.heap, left.ptr) = GetNumberEntries(left.heap, left.ptr)
    BY <1>10, <1>11, UnchangedHeight
  <2> QED BY <1>6, <1>7, <2>1, <2>2 DEF NumberEntriesInLowerPart, LowerPart
<1>13. next = IF graft THEN SetSlot(right.heap, right.ptr.id, e - first + 1, child) ELSE right.heap
  <2>1. s.binode.right = right.ptr
    BY <1>6 DEF BiNode
  <2>2. e - first + 1 = e - smaller
    BY <1>2, <1>5, <1>18
  <2>3. smaller < e
    OBVIOUS
  <2> QED BY <1>6, <1>12, <1>18, <2>1, <2>2, <2>3 DEF AfterSplit
<1>14. FullBuilt(left.heap, some, right, next, base, m, first, node.height, larger)
  <2>1. IsGraft(right, e, first, child, graft, next)
    BY <1>13 DEF IsGraft
  <2> QED BY <1>4, <1>5, <1>6, <1>8, <1>9, <2>1, AllocateFullHalf
<1>15. /\ HalfBuilt(left.heap, some, [heap |-> next, ptr |-> right.ptr], base, m, first)
       /\ GetHeight(next, right.ptr) = node.height
  BY <1>14 DEF FullBuilt
<1>16. PICK more : /\ Builds(left.heap, some, next, more) /\ HalfChild(more, right.ptr, base, m, first)
                   /\ Extends(left.heap, some, next, more)
  <2> DEFINE a == [heap |-> next, ptr |-> right.ptr]
  <2>1. HalfBuilt(left.heap, some, a, base, m, first) /\ a.heap = next /\ a.ptr = right.ptr
    BY <1>15
  <2> HIDE DEF a
  <2> QED BY <2>1, HalfBuiltIs
<1>17. /\ HalfChild(more, left.ptr, base, m, 1)
       /\ GetHeight(next, left.ptr) = GetHeight(left.heap, left.ptr)
  BY <1>8, <1>16, HalfLater
<1>19. Builds(h, r, next, more)
  BY <1>8, <1>16, BuildsOn DEF GoodHeap
<1>20. first # 1 /\ GetHeight(next, right.ptr) <= node.height
  BY <1>1, <1>2, <1>15, <1>18
<1> QED BY <1>1, <1>6, <1>7, <1>15, <1>16, <1>17, <1>18, <1>19, <1>20, HalvesMakeBinode

\* Splitting a node whose new entry goes to the left half.
LEMMA SplitLeftIsGood ==
  ASSUME NEW h, NEW r, GoodHeap(h, r), NEW node, NEW g, GoodNode(h, r, node, g),
         NEW e, NEW key, NEW info, NEW child, NEW new, NEW graft,
         Replacing(h, r, node, g, e, key, info, child, new, graft),
         NEW m \in Nat, m = MostSignificantBit(node), m < PartAt(g.reps[e], key),
         NEW base \in AllKeys, AllAgree(g.reps, base, m),
         NEW smaller, smaller = Len(node.ptrs) - NumberLargerEntries(node),
         Halved(g.reps, m, smaller), ~ (e > smaller),
         NEW left, NEW right, NEW s, SplitLeft(h, node, smaller, info, new, left, right, s)
  PROVE  BinodeBuilt(h, r, AfterSplit(s, node, e, child, graft), s.binode, base)
<1> DEFINE larger == NumberLargerEntries(node)
           first == smaller + 1
           next == AfterSplit(s, node, e, child, graft)
           below == IF graft THEN SetSlot(left.heap, left.ptr.id, e, child) ELSE left.heap
           rest == CompressEntries(below, node, first, larger)
<1>1. /\ Represents(node, g.reps) /\ Ascending(g.reps) /\ Len(node.ptrs) = Len(g.reps)
      /\ Len(g.reps) \in Nat /\ DOMAIN g.reps = 1 .. Len(g.reps) /\ Len(g.reps) >= 2
      /\ node.height \in Nat \ {0}
  BY EntriesAre DEF GoodNode, Represents
<1>2. smaller \in 1 .. Len(g.reps) - 1 /\ smaller \in Nat
  BY <1>1 DEF Halved
<1>3. larger = Len(g.reps) - smaller
  <2>1. larger \in Nat
    BY <1>1, HalvesAre
  <2>2. \A n, k \in Nat : n - (n - k) = k
    OBVIOUS
  <2> QED BY <1>1, <2>1, <2>2
<1>4. HalfRange(g.reps, m, smaller, 1, smaller) /\ HalfRange(g.reps, m, smaller, first, larger)
  BY <1>3 DEF HalfRange
<1>5. e \in 1 .. 1 + smaller - 1 /\ e \in Nat /\ e <= smaller
  <2>1. e \in 1 .. Len(g.reps)
    BY <1>1 DEF Replacing, NewBeside
  <2> QED BY <1>1, <1>2, <2>1
<1>6. /\ left = Allocate(h, FullHalf(h, node, 1, smaller, info, new))
      /\ right = CompressEntries(left.heap, node, first, larger)
      /\ s.heap = right.heap
      /\ s.binode = BiNode(m, node.height + 1, left.ptr, right.ptr)
  BY DEF SplitLeft
<1>7. /\ next = AfterSplit(s, node, e, child, graft) /\ first = smaller + 1
      /\ rest = CompressEntries(below, node, first, larger)
      /\ below = IF graft THEN SetSlot(left.heap, left.ptr.id, e, child) ELSE left.heap
  OBVIOUS
<1> HIDE DEF larger, first, next, below, rest
<1>8. FullBuilt(h, r, left, below, base, m, 1, node.height, smaller)
  <2>1. e - 1 + 1 = e
    BY <1>5
  <2>2. IsGraft(left, e, 1, child, graft, below)
    BY <1>7, <2>1 DEF IsGraft
  <2> QED BY <1>4, <1>5, <1>6, <2>2, AllocateFullHalf
<1>9. /\ HalfBuilt(h, r, [heap |-> below, ptr |-> left.ptr], base, m, 1)
      /\ GetHeight(below, left.ptr) = node.height /\ GetHeight(left.heap, left.ptr) = node.height
      /\ GetNumberEntries(left.heap, left.ptr) = smaller + 1
      /\ left.ptr.id \in DOMAIN left.heap /\ IsHeap(left.heap)
  BY <1>8 DEF FullBuilt
<1>10. PICK some : /\ Builds(h, r, below, some) /\ HalfChild(some, left.ptr, base, m, 1)
                   /\ GoodHeap(below, some) /\ Extends(h, r, below, some)
  <2> DEFINE a == [heap |-> below, ptr |-> left.ptr]
  <2>1. HalfBuilt(h, r, a, base, m, 1) /\ a.heap = below /\ a.ptr = left.ptr
    BY <1>9
  <2> HIDE DEF a
  <2> QED BY <2>1, HalfBuiltIs
<1>11. /\ Unchanged(left.heap, right.heap)
       /\ SetSlot(right.heap, left.ptr.id, e, child)
            = CompressEntries(SetSlot(left.heap, left.ptr.id, e, child), node, first, larger).heap
       /\ CompressEntries(SetSlot(left.heap, left.ptr.id, e, child), node, first, larger).ptr = right.ptr
  BY <1>6, <1>9, CompressKeeps
<1>12. ~ (NumberEntriesInLowerPart(s, node) < e)
  <2>1. s.binode.left = left.ptr
    BY <1>6 DEF BiNode
  <2>2. /\ GetHeight(right.heap, left.ptr) = GetHeight(left.heap, left.ptr)
        /\ GetNumberEntries(right.heap, left.ptr) = GetNumberEntries(left.heap, left.ptr)
    BY <1>9, <1>11, UnchangedHeight
  <2>3. NumberEntriesInLowerPart(s, node) = smaller + 1
    BY <1>6, <1>9, <2>1, <2>2 DEF NumberEntriesInLowerPart
  <2> QED BY <1>2, <1>5, <2>3
<1>13. next = rest.heap /\ rest.ptr = right.ptr
  <2>1. s.binode.left = left.ptr
    BY <1>6 DEF BiNode
  <2>2. CASE graft
    <3>1. next = SetSlot(right.heap, left.ptr.id, e, child)
      BY <1>6, <1>7, <1>12, <2>1, <2>2 DEF AfterSplit
    <3>2. below = SetSlot(left.heap, left.ptr.id, e, child)
      BY <1>7, <2>2
    <3> QED BY <1>7, <1>11, <3>1, <3>2
  <2>3. CASE ~graft
    <3>1. next = right.heap /\ below = left.heap
      BY <1>6, <1>7, <2>3 DEF AfterSplit
    <3> QED BY <1>6, <1>7, <3>1
  <2> QED BY <2>2, <2>3
<1>14. GoodNode(below, some, node, g)
  BY <1>10, GoodNodeLater
<1>15. PlainBuilt(below, some, rest, base, m, first, node.height, larger)
  BY <1>4, <1>7, <1>10, <1>14, PlainHalfIsGood
<1>16. /\ HalfBuilt(below, some, rest, base, m, first)
       /\ GetHeight(rest.heap, rest.ptr) <= node.height
  BY <1>15 DEF PlainBuilt
<1>17. PICK more : /\ Builds(below, some, rest.heap, more) /\ HalfChild(more, rest.ptr, base, m, first)
                   /\ Extends(below, some, rest.heap, more)
  BY <1>16, HalfBuiltIs
<1>18. /\ HalfChild(more, left.ptr, base, m, 1)
       /\ GetHeight(rest.heap, left.ptr) = GetHeight(below, left.ptr)
  BY <1>10, <1>17, HalfLater
<1>19. Builds(h, r, rest.heap, more)
  BY <1>10, <1>17, BuildsOn DEF GoodHeap
<1>20. first # 1 /\ GetHeight(rest.heap, left.ptr) <= node.height
  BY <1>1, <1>2, <1>7, <1>9, <1>18
<1>21. GetHeight(rest.heap, left.ptr) = node.height /\ s.binode = BiNode(m, node.height + 1, left.ptr, rest.ptr)
  BY <1>6, <1>9, <1>13, <1>18
<1>22. BinodeBuilt(h, r, rest.heap, s.binode, base)
  BY <1>1, <1>16, <1>17, <1>18, <1>19, <1>20, <1>21, HalvesMakeBinode
<1> QED BY <1>7, <1>13, <1>22

\* A node was split, and the child replaced.
SplitBuilt(h, r, node, g, e, child, graft, s) ==
  /\ BinodeBuilt(h, r, AfterSplit(s, node, e, child, graft), s.binode, g.reps[e])
  /\ s.binode.bit = MostSignificantBit(node) /\ s.binode.height = node.height + 1

\* A full node is split into two good halves, wherever the new entry goes.
LEMMA SplitIsGood ==
  ASSUME NEW h, NEW r, GoodHeap(h, r), NEW node, NEW g, GoodNode(h, r, node, g),
         NEW e, NEW key, NEW info, NEW child, NEW new, NEW graft,
         Replacing(h, r, node, g, e, key, info, child, new, graft),
         MostSignificantBit(node) < PartAt(g.reps[e], key),
         NEW s, s = Split(h, node, info, new)
  PROVE  SplitBuilt(h, r, node, g, e, child, graft, s)
<1> DEFINE m == MostSignificantBit(node)
           larger == NumberLargerEntries(node)
           smaller == Len(node.ptrs) - larger
           base == g.reps[e]
<1>1. /\ Represents(node, g.reps) /\ Ascending(g.reps) /\ Len(g.reps) >= 2
      /\ e \in DOMAIN g.reps /\ base \in AllKeys
  BY EntriesAre DEF GoodNode, Represents, Replacing, NewBeside
<1>2. IsFirstTurn(g.reps, m) /\ Halved(g.reps, m, smaller)
  BY <1>1, MostSignificantBitIs, HalvesAre
<1>3. m \in Nat
  BY <1>2 DEF IsFirstTurn
<1>4. AllAgree(g.reps, base, m)
  <2> SUFFICES ASSUME NEW j \in DOMAIN g.reps PROVE AgreeBelow(g.reps[j], base, m)
    BY DEF AllAgree
  <2>1. CASE j = e
    BY <2>1 DEF AgreeBelow
  <2>2. CASE j # e
    <3>1. m <= Turn(g.reps, j, e) /\ Turn(g.reps, j, e) \in Nat /\ AgreeBelow(g.reps[j], g.reps[e], Turn(g.reps, j, e))
      BY <1>1, <1>2, <2>2, TurnIs DEF IsFirstTurn
    <3> HIDE DEF m
    <3>2. \A c \in Nat : c < m => c < Turn(g.reps, j, e)
      BY <1>3, <3>1
    <3> QED BY <3>1, <3>2 DEF AgreeBelow
  <2> QED BY <2>1, <2>2
<1>5. m < PartAt(g.reps[e], key) /\ larger = NumberLargerEntries(node) /\ smaller = Len(node.ptrs) - larger
      /\ m = MostSignificantBit(node)
  OBVIOUS
<1>6. s.binode.bit = m /\ s.binode.height = node.height + 1
  BY DEF Split, BiNode
<1> HIDE DEF m, larger, smaller, base
<1>7. e > smaller <=> info.first > smaller
  <2>1. Describes(info, g.reps, e, GetMismatchingBit(g.reps[e], key)) /\ NewBeside(g.reps, e, key)
    BY DEF Replacing
  <2>2. info.first \in Side(g.reps, e, PartAt(g.reps[e], key))
    BY <1>1, <2>1, EntriesAre DEF Describes, PartAt
  <2>3. PartAt(g.reps[e], key) \in Nat
    BY <1>1, <2>1, EntriesAre, KeysAreSets, PartAtIs DEF NewBeside
  <2>4. info.first \in DOMAIN g.reps /\ (info.first <= smaller <=> e <= smaller)
    BY <1>1, <1>2, <1>3, <1>5, <2>2, <2>3, SideIsInHalf
  <2>5. smaller \in 1 .. Len(g.reps) - 1 /\ DOMAIN g.reps = 1 .. Len(g.reps) /\ Len(g.reps) \in Nat
    BY <1>1, <1>2, EntriesAre DEF Halved
  <2> QED BY <1>1, <2>4, <2>5
<1>8. CASE e > smaller
  <2> DEFINE left == CompressEntries(h, node, 1, smaller)
             right == Allocate(left.heap, FullHalf(left.heap, node, smaller + 1, larger, info, new))
  <2>1. s.heap = right.heap /\ s.binode = BiNode(m, node.height + 1, left.ptr, right.ptr)
    BY <1>5, <1>7, <1>8, SplitIs
  <2>2. SplitRight(h, node, smaller, info, new, left, right, s)
    BY <1>5, <2>1 DEF SplitRight
  <2> HIDE DEF left, right
  <2> QED BY <1>1, <1>2, <1>3, <1>4, <1>5, <1>6, <1>8, <2>2, SplitRightIsGood DEF base, SplitBuilt
<1>9. CASE ~ (e > smaller)
  <2> DEFINE left == Allocate(h, FullHalf(h, node, 1, smaller, info, new))
             right == CompressEntries(left.heap, node, smaller + 1, larger)
  <2>1. s.heap = right.heap /\ s.binode = BiNode(m, node.height + 1, left.ptr, right.ptr)
    BY <1>5, <1>7, <1>9, SplitIs
  <2>2. SplitLeft(h, node, smaller, info, new, left, right, s)
    BY <1>5, <2>1 DEF SplitLeft
  <2> HIDE DEF left, right
  <2> QED BY <1>1, <1>2, <1>3, <1>4, <1>5, <1>6, <1>9, <2>2, SplitLeftIsGood DEF base, SplitBuilt
<1> QED BY <1>8, <1>9

-----------------------------------------------------------------------------
(* The halves of a child in its parent                                     *)

\* A bit is past all turns on the path to an entry.
PastTurns(reps, e, b) == \A f \in DOMAIN reps \ {e} : Turn(reps, e, f) < b

\* The halves belong to the place of an entry of the node, which is one level higher.
BinodeFits(h, r, node, g, e, bin, base) ==
  /\ GoodBinode(h, r, bin, base) /\ e \in DOMAIN g.reps
  /\ Follows(base, g.reps, e) /\ PastTurns(g.reps, e, bin.bit)
  /\ bin.height = node.height /\ GetHeight(h, node.ptrs[e]) + 1 = node.height

\* What GetInsertInformation finds for the halves of a child.
HalvesInfo(node, e, bin) == GetInsertInformation(node, e, [bit |-> bin.bit, value |-> TRUE])

\* The node with a key of the left half for the entry, and a key of the right half beside it.
PullsUp(h, r, node, g, e, bin, o, k, graft) ==
  /\ graft = TRUE
  /\ GoodNode(h, r, node, o)
  /\ Replacing(h, r, node, o, e, k, HalvesInfo(node, e, bin), bin.left, bin.right, graft)
  /\ PartAt(o.reps[e], k) = bin.bit
  /\ Follows(o.reps[e], g.reps, e) /\ Follows(k, g.reps, e)
  /\ DOMAIN o.reps = DOMAIN g.reps /\ Len(o.reps) = Len(g.reps)
  /\ \A f \in DOMAIN g.reps \ {e} : o.reps[f] = g.reps[f]

\* The halves can replace the child.
LEMMA HalvesFit ==
  ASSUME NEW h, NEW r, GoodHeap(h, r), NEW node, NEW g, GoodNode(h, r, node, g),
         NEW e, NEW bin, NEW base, BinodeFits(h, r, node, g, e, bin, base)
  PROVE  \E o, k, graft : PullsUp(h, r, node, g, e, bin, o, k, graft)
<1>1. /\ GoodBinode(h, r, bin, base) /\ e \in DOMAIN g.reps
      /\ Follows(base, g.reps, e) /\ PastTurns(g.reps, e, bin.bit)
      /\ bin.height = node.height /\ GetHeight(h, node.ptrs[e]) + 1 = node.height
  BY DEF BinodeFits
<1>2. Samples(r, bin.left) # {} /\ Samples(r, bin.right) # {}
  BY <1>1, HeightIs DEF GoodBinode
<1>3. PICK l \in Samples(r, bin.left) : TRUE
  BY <1>2
<1>4. PICK k \in Samples(r, bin.right) : TRUE
  BY <1>2
<1>5. /\ l \in AllKeys /\ k \in AllKeys /\ l # k /\ PartAt(l, k) = bin.bit /\ bin.bit \in k
      /\ GetMismatchingBit(l, k) = [bit |-> bin.bit, value |-> TRUE]
      /\ \A x \in Samples(r, bin.left) : AgreeThrough(x, l, bin.bit)
      /\ \A x \in Samples(r, bin.right) : AgreeThrough(x, k, bin.bit)
  BY <1>1, BinodeKeys
<1>6. /\ bin.bit \in Nat /\ AgreeBelow(l, base, bin.bit) /\ AgreeBelow(k, base, bin.bit)
      /\ IsChild(r, bin.left) /\ IsChild(r, bin.right)
      /\ GetHeight(h, bin.left) < node.height /\ GetHeight(h, bin.right) < node.height
      /\ GetHeight(h, bin.left) + 1 = node.height \/ GetHeight(h, bin.right) + 1 = node.height
  BY <1>1 DEF GoodBinode
<1>7. Represents(node, g.reps) /\ Ascending(g.reps) /\ Len(g.reps) \in 2 .. MaxEntries
  BY DEF GoodNode, Represents
<1>8. Follows(l, g.reps, e) /\ Follows(k, g.reps, e)
  BY <1>1, <1>6, <1>7, AgreeAndFollow DEF PastTurns
<1> DEFINE o == WithKey(g, e, l)
           info == HalvesInfo(node, e, bin)
<1>9. o = WithKey(g, e, l) /\ info = HalvesInfo(node, e, bin)
  OBVIOUS
<1> HIDE DEF o, info
<1>10. /\ GoodNode(h, r, node, o) /\ DOMAIN o.reps = DOMAIN g.reps /\ Len(o.reps) = Len(g.reps)
       /\ o.reps[e] = l
       /\ \A f \in DOMAIN g.reps \ {e} : o.reps[f] = g.reps[f]
       /\ \A f, j \in DOMAIN g.reps : f # j => Turn(o.reps, f, j) = Turn(g.reps, f, j)
  BY <1>1, <1>5, <1>8, <1>9, GoodNodeWithKey
<1>11. Represents(node, o.reps) /\ Ascending(o.reps)
  BY <1>10 DEF GoodNode, Represents
<1>12. /\ bin.bit \notin PathBits(o.reps, e)
       /\ \A f \in DOMAIN o.reps \ {e} : Turn(o.reps, e, f) < bin.bit /\ Turn(o.reps, e, f) \in Nat
  <2>1. \A f \in DOMAIN o.reps \ {e} : Turn(o.reps, e, f) < bin.bit /\ Turn(o.reps, e, f) \in Nat
    BY <1>1, <1>10, <1>11, TurnIs DEF PastTurns
  <2> QED BY <1>6, <2>1 DEF PathBits, Turn
<1>13. NewBeside(o.reps, e, k)
  BY <1>1, <1>5, <1>10, <1>11, <1>12 DEF NewBeside
<1>14. Describes(info, o.reps, e, GetMismatchingBit(o.reps[e], k))
  <2> DEFINE newBit == [bit |-> bin.bit, value |-> TRUE]
  <2>1. newBit.bit \in Nat /\ newBit.bit \notin PathBits(o.reps, e) /\ newBit = GetMismatchingBit(o.reps[e], k)
    BY <1>5, <1>6, <1>10, <1>12
  <2>2. info = GetInsertInformation(node, e, newBit)
    BY <1>9 DEF HalvesInfo
  <2> HIDE DEF newBit
  <2>3. Describes(GetInsertInformation(node, e, newBit), o.reps, e, newBit)
    BY <1>1, <1>10, <1>11, <2>1, InsertInformationIs
  <2> QED BY <2>1, <2>2, <2>3
<1>15. info.key.value
  <2>1. info.key = [bit |-> bin.bit, value |-> TRUE]
    BY <1>5, <1>10, <1>14 DEF Describes
  <2> QED BY <2>1
<1>16. TwoFor(h, r, node, o, e, k, bin.left, bin.right)
  <2>1. Side(o.reps, e, bin.bit) = {e}
    BY <1>1, <1>6, <1>10, <1>12 DEF Side
  <2> QED BY <1>5, <1>6, <1>10, <2>1 DEF TwoFor
<1>17. Replacing(h, r, node, o, e, k, info, bin.left, bin.right, TRUE)
  BY <1>1, <1>13, <1>14, <1>15, <1>16 DEF Replacing, Grafting
<1>18. PullsUp(h, r, node, g, e, bin, o, k, TRUE)
  BY <1>5, <1>8, <1>9, <1>10, <1>17 DEF PullsUp
<1> QED BY <1>18

\* Nodes were added, and the pointer leads to one that holds keys of the set only.
NodeBuilt(h, r, next, p, height, X) ==
  \E more : /\ Builds(h, r, next, more) /\ IsChild(more, p) /\ ~IsLeaf(p)
            /\ GetHeight(next, p) = height /\ Samples(more, p) \subseteq X

\* A good node is added.
LEMMA AllocateNode ==
  ASSUME NEW h, NEW r, GoodHeap(h, r), NEW content, NEW g, GoodNode(h, r, content, g),
         NEW X, \A t \in DOMAIN g.reps : g.reps[t] \in X
  PROVE  NodeBuilt(h, r, Allocate(h, content).heap, Allocate(h, content).ptr, content.height, X)
<1> DEFINE more == WithNode(h, r, g)
           a == Allocate(h, content)
<1>1. a = Allocate(h, content) /\ more = WithNode(h, r, g)
  OBVIOUS
<1> HIDE DEF more, a
<1>2. /\ Builds(h, r, a.heap, more) /\ IsChild(more, a.ptr) /\ ~IsLeaf(a.ptr)
      /\ GetHeight(a.heap, a.ptr) = content.height
      /\ Samples(more, a.ptr) = { g.reps[j] : j \in DOMAIN g.reps }
  <2>1. NodeAdded(h, r, content, g, a, more)
    BY <1>1, AllocateGoodNode
  <2> QED BY <2>1 DEF NodeAdded
<1>3. Samples(more, a.ptr) \subseteq X
  BY <1>2
<1> QED BY <1>1, <1>2, <1>3 DEF NodeBuilt

\* A node with one more entry is not too large, and has keys of the set only.
HasRoom(reps, key, X) ==
  Len(reps) + 1 <= MaxEntries /\ key \in X /\ \A t \in DOMAIN reps : reps[t] \in X

\* A copy with a new entry, in which the child may be replaced as well, is added.
LEMMA AllocateCopy ==
  ASSUME NEW h, NEW r, GoodHeap(h, r), NEW node, NEW g, GoodNode(h, r, node, g),
         NEW e, NEW key, NEW info, NEW child, NEW new, NEW graft,
         Replacing(h, r, node, g, e, key, info, child, new, graft),
         NEW a, a = Allocate(h, AddEntry(node, info, new)),
         NEW next, IsGraft(a, e, 1, child, graft, next), NEW X, HasRoom(g.reps, key, X)
  PROVE  NodeBuilt(h, r, next, a.ptr, node.height, X)
<1> DEFINE content == AddEntry(node, info, new)
           place == Moved(1, NewIndex(info, key), e)
           other == IF graft THEN WithPointer(content, place, child) ELSE content
<1>1. /\ content = AddEntry(node, info, new) /\ place = Moved(1, NewIndex(info, key), e)
      /\ other = IF graft THEN WithPointer(content, place, child) ELSE content
  OBVIOUS
<1>2. /\ NewBeside(g.reps, e, key)
      /\ Describes(info, g.reps, e, GetMismatchingBit(g.reps[e], key))
      /\ TwoFor(h, r, node, g, e, key, child, new)
      /\ graft \in BOOLEAN /\ Grafting(node, e, info, child, graft)
  BY DEF Replacing
<1>3. DOMAIN content = {"height", "keys", "ptrs"}
  BY DEF AddEntry, CopyRangeAndAdd, NodeContent
<1> HIDE DEF content, place, other
<1>4. IsHeap(h)
  BY DEF GoodHeap
<1>5. WrittenAs(h, content, place, child, WithPointer(content, place, child))
  BY <1>3, <1>4, AllocateAndSet
<1>6. Grafted(content, graft, place, child, other)
  <2>1. CASE graft
    BY <1>1, <1>5, <2>1 DEF Grafted, WrittenAs
  <2>2. CASE ~graft
    BY <1>1, <2>2 DEF Grafted
  <2> QED BY <2>1, <2>2
<1>7. /\ \E o : /\ GoodNode(h, r, other, o)
                /\ \A t \in DOMAIN o.reps :
                     o.reps[t] = key \/ \E j \in DOMAIN g.reps : o.reps[t] = g.reps[j]
      /\ other.height = node.height
      /\ info.key.value => place = e
  BY <1>1, <1>2, <1>6, AddEntryIsGood DEF HasRoom
<1>8. a.ptr.id = Len(h) + 1 /\ a = Allocate(h, content)
  BY <1>1, <1>4, AllocatedIs
<1>9. next = Allocate(h, other).heap /\ a.ptr = Allocate(h, other).ptr
  <2>1. a.ptr = Allocate(h, other).ptr
    BY <1>8 DEF Allocate
  <2>2. CASE graft
    <3>1. e - 1 + 1 = e
      BY <1>2, EntriesAre DEF NewBeside
    <3>2. place = e
      BY <1>2, <1>7, <2>2 DEF Grafting
    <3>3. next = SetSlot(a.heap, Len(h) + 1, place, child)
      BY <1>8, <2>2, <3>1, <3>2 DEF IsGraft
    <3>4. other = WithPointer(content, place, child)
      BY <1>1, <2>2
    <3> QED BY <1>5, <1>8, <2>1, <3>3, <3>4 DEF WrittenAs
  <2>3. CASE ~graft
    BY <1>1, <1>8, <2>1, <2>3 DEF IsGraft
  <2> QED BY <2>2, <2>3
<1>10. PICK o : /\ GoodNode(h, r, other, o)
                /\ \A t \in DOMAIN o.reps :
                     o.reps[t] = key \/ \E j \in DOMAIN g.reps : o.reps[t] = g.reps[j]
  BY <1>7
<1>11. \A t \in DOMAIN o.reps : o.reps[t] \in X
  BY <1>10 DEF HasRoom
<1>12. NodeBuilt(h, r, Allocate(h, other).heap, Allocate(h, other).ptr, other.height, X)
  BY <1>10, <1>11, AllocateNode
<1> QED BY <1>7, <1>9, <1>12

\* The halves of a child are worked into a copy of a node that has room.
LEMMA IntegrateIntoCopyIsGood ==
  ASSUME NEW h, NEW r, GoodHeap(h, r), NEW entry, entry.ptr.id \in DOMAIN r,
         NEW bin, NEW base,
         BinodeFits(h, r, h[entry.ptr.id], r[entry.ptr.id], entry.entry, bin, base),
         ~IsFull(h[entry.ptr.id]),
         NEW X, \A t \in DOMAIN r[entry.ptr.id].reps : r[entry.ptr.id].reps[t] \in X,
         \A x \in AllKeys : Follows(x, r[entry.ptr.id].reps, entry.entry) => x \in X,
         NEW c, c = IntegrateIntoCopy(h, entry, bin)
  PROVE  NodeBuilt(h, r, c.heap, c.ptr, h[entry.ptr.id].height, X)
<1> DEFINE node == h[entry.ptr.id]
           g == r[entry.ptr.id]
           e == entry.entry
           info == HalvesInfo(node, e, bin)
           a == Allocate(h, AddEntry(node, info, bin.right))
<1>1. GoodNode(h, r, node, g)
  BY DEF GoodHeap
<1>2. /\ c.heap = SetSlot(a.heap, a.ptr.id, e, bin.left) /\ c.ptr = a.ptr
  <2>1. DOMAIN a = {"heap", "ptr"}
    BY DEF Allocate
  <2>2. c = [a EXCEPT !.heap = SetSlot(@, a.ptr.id, e, bin.left)]
    BY DEF IntegrateIntoCopy, HalvesInfo, NodeOf
  <2> HIDE DEF a
  <2> QED BY <2>1, <2>2
<1>3. a = Allocate(h, AddEntry(node, info, bin.right)) /\ info = HalvesInfo(node, e, bin)
  OBVIOUS
<1>4. BinodeFits(h, r, node, g, e, bin, base) /\ ~IsFull(node)
      /\ (\A t \in DOMAIN g.reps : g.reps[t] \in X) /\ (\A x \in AllKeys : Follows(x, g.reps, e) => x \in X)
  OBVIOUS
<1> HIDE DEF node, g, e, info, a
<1>5. PICK o, k, graft : PullsUp(h, r, node, g, e, bin, o, k, graft)
  BY <1>1, <1>4, HalvesFit
<1>6. /\ GoodNode(h, r, node, o)
      /\ Replacing(h, r, node, o, e, k, info, bin.left, bin.right, graft) /\ graft = TRUE
      /\ Follows(o.reps[e], g.reps, e) /\ Follows(k, g.reps, e)
      /\ DOMAIN o.reps = DOMAIN g.reps /\ Len(o.reps) = Len(g.reps)
      /\ \A f \in DOMAIN g.reps \ {e} : o.reps[f] = g.reps[f]
  BY <1>3, <1>5 DEF PullsUp
<1>7. Len(o.reps) + 1 <= MaxEntries
  <2>1. Len(node.ptrs) = Len(g.reps) /\ Len(g.reps) \in 2 .. MaxEntries
    BY <1>1 DEF GoodNode, Represents
  <2>2. MaxEntries \in Nat
    BY MaxEntriesAssumption
  <2> QED BY <1>4, <1>6, <2>1, <2>2 DEF IsFull
<1>8. k \in X /\ \A t \in DOMAIN o.reps : o.reps[t] \in X
  <2>1. Ascending(o.reps) /\ k \in AllKeys /\ e \in DOMAIN o.reps
    BY <1>6 DEF Replacing, NewBeside
  <2>2. o.reps[e] \in AllKeys
    BY <2>1, EntriesAre
  <2> QED BY <1>4, <1>6, <2>1, <2>2
<1>9. IsGraft(a, e, 1, bin.left, graft, c.heap)
  <2>1. e \in DOMAIN g.reps
    BY <1>4 DEF BinodeFits
  <2>2. e \in Nat
    BY <1>1, <2>1, EntriesAre DEF GoodNode, Represents
  <2>3. e - 1 + 1 = e
    BY <2>2
  <2> QED BY <1>2, <1>6, <2>3 DEF IsGraft
<1>10. NodeBuilt(h, r, c.heap, a.ptr, node.height, X)
  <2>1. HasRoom(o.reps, k, X)
    BY <1>7, <1>8 DEF HasRoom
  <2> QED BY <1>3, <1>6, <1>9, <2>1, AllocateCopy
<1> QED BY <1>2, <1>10 DEF node

\* A node with the halves of its child was split.
SplitWithHalves(h, r, id, e, s) ==
  /\ \E l : Follows(l, r[id].reps, e) /\ BinodeBuilt(h, r, s.heap, s.binode, l)
  /\ s.binode.bit = MostSignificantBit(h[id]) /\ s.binode.height = h[id].height + 1

\* The halves of a child are worked into its full parent, which is split.
LEMMA IntegrateAndSplitIsGood ==
  ASSUME NEW h, NEW r, GoodHeap(h, r), NEW entry, entry.ptr.id \in DOMAIN r,
         NEW bin, NEW base,
         BinodeFits(h, r, h[entry.ptr.id], r[entry.ptr.id], entry.entry, bin, base),
         NEW s, s = IntegrateAndSplit(h, entry, bin)
  PROVE  SplitWithHalves(h, r, entry.ptr.id, entry.entry, s)
<1> DEFINE node == h[entry.ptr.id]
           g == r[entry.ptr.id]
           e == entry.entry
           info == HalvesInfo(node, e, bin)
           new == Split(h, node, info, bin.right)
<1>1. GoodNode(h, r, node, g)
  BY DEF GoodHeap
<1>2. \A graft : graft = TRUE =>
        s.heap = AfterSplit(new, node, e, bin.left, graft) /\ s.binode = new.binode
  <2>1. DOMAIN new = {"heap", "binode"}
    BY DEF Split
  <2>2. s = ReplaceSplitChild(new, NumberEntriesInLowerPart(new, node), e, bin.left)
    BY DEF IntegrateAndSplit, HalvesInfo, NodeOf
  <2> HIDE DEF new
  <2> DEFINE next == IF NumberEntriesInLowerPart(new, node) < e
                     THEN SetSlot(new.heap, new.binode.right.id, e - NumberEntriesInLowerPart(new, node), bin.left)
                     ELSE SetSlot(new.heap, new.binode.left.id, e, bin.left)
  <2>3. s = [new EXCEPT !.heap = next]
    BY <2>2 DEF ReplaceSplitChild
  <2>4. \A graft : graft = TRUE => next = AfterSplit(new, node, e, bin.left, graft)
    BY DEF AfterSplit
  <2> HIDE DEF next
  <2>5. s.heap = next /\ s.binode = new.binode
    BY <2>1, <2>3
  <2> QED BY <2>4, <2>5
<1>3. new = Split(h, node, info, bin.right) /\ info = HalvesInfo(node, e, bin)
  OBVIOUS
<1>4. BinodeFits(h, r, node, g, e, bin, base)
  OBVIOUS
<1> HIDE DEF node, g, e, info, new
<1>5. PICK o, k, graft : PullsUp(h, r, node, g, e, bin, o, k, graft)
  BY <1>1, <1>4, HalvesFit
<1>6. /\ GoodNode(h, r, node, o)
      /\ Replacing(h, r, node, o, e, k, info, bin.left, bin.right, graft) /\ graft = TRUE
      /\ PartAt(o.reps[e], k) = bin.bit
      /\ Follows(o.reps[e], g.reps, e)
  BY <1>3, <1>5 DEF PullsUp
<1>7. MostSignificantBit(node) < PartAt(o.reps[e], k)
  <2>1. Represents(node, g.reps) /\ Len(g.reps) >= 2 /\ e \in DOMAIN g.reps
    BY <1>1, <1>4 DEF GoodNode, BinodeFits
  <2>2. IsFirstTurn(g.reps, MostSignificantBit(node))
    BY <2>1, MostSignificantBitIs
  <2>3. PICK j \in DOMAIN g.reps \ {e} : Turn(g.reps, e, j) = MostSignificantBit(node)
    BY <2>1, <2>2 DEF IsFirstTurn
  <2> QED BY <1>4, <1>6, <2>3 DEF BinodeFits, PastTurns
<1>8. /\ BinodeBuilt(h, r, s.heap, s.binode, o.reps[e])
      /\ s.binode.bit = MostSignificantBit(node) /\ s.binode.height = node.height + 1
  <2>1. /\ BinodeBuilt(h, r, AfterSplit(new, node, e, bin.left, graft), new.binode, o.reps[e])
        /\ new.binode.bit = MostSignificantBit(node) /\ new.binode.height = node.height + 1
    <3>1. SplitBuilt(h, r, node, o, e, bin.left, graft, new)
      BY <1>3, <1>6, <1>7, SplitIsGood
    <3> QED BY <3>1 DEF SplitBuilt
  <2> QED BY <1>2, <1>6, <2>1
<1> QED BY <1>6, <1>8 DEF node, g, e, SplitWithHalves

-----------------------------------------------------------------------------
(* Paths                                                                   *)

\* The search for the key met the node and went to the entry.
AtNode(r, s, key) ==
  /\ s.ptr = NodePointer(s.ptr.id) /\ s.ptr.id \in DOMAIN r /\ s.entry \in DOMAIN r[s.ptr.id].reps
  /\ \A c \in PathBits(r[s.ptr.id].reps, s.entry) : c \in key <=> c \in r[s.ptr.id].reps[s.entry]

\* The second element of the path was read from the entry of the first.
IsBelow(h, r, s, t) ==
  /\ t.loc = SlotLocation(s.ptr.id, s.entry)
  /\ FitsIn(h, r, t.ptr, h[s.ptr.id].height, r[s.ptr.id], s.entry)

\* The elements of a path were read one from the other, whenever that was.
IsPath(h, r, path, key) ==
  /\ Len(path) \in Nat \ {0} /\ DOMAIN path = 1 .. Len(path) /\ path[1].loc = RootLocation
  /\ \A j \in 1 .. Len(path) - 1 : AtNode(r, path[j], key) /\ IsBelow(h, r, path[j], path[j + 1])

\* A path to a leaf that holds another key.
IsLeafPath(h, r, path, key) ==
  /\ IsPath(h, r, path, key) /\ Len(path) >= 2 /\ key \in Keys
  /\ LeafEntry(path).ptr \in LeafPointers /\ LeafEntry(path).ptr.key # key

\* What the node of a path is.
NodeFacts(h, r, s) ==
  LET node == h[s.ptr.id]
      g == r[s.ptr.id]
      m == MostSignificantBit(node)
  IN  /\ GoodNode(h, r, node, g) /\ node.height \in Nat \ {0}
      /\ Represents(node, g.reps) /\ Ascending(g.reps) /\ Len(g.reps) >= 2 /\ Len(g.reps) <= MaxEntries
      /\ IsFirstTurn(g.reps, m) /\ m \in Nat
      /\ DOMAIN node.ptrs = DOMAIN g.reps /\ Len(node.ptrs) = Len(g.reps)
      /\ DOMAIN g.reps = 1 .. Len(g.reps) /\ Len(g.reps) \in Nat
      /\ ~IsLeaf(s.ptr) /\ IsAValidNode(s.ptr)

\* The nodes of a path are good.
LEMMA NodeFactsHold ==
  ASSUME NEW h, NEW r, GoodHeap(h, r), NEW s, NEW key, AtNode(r, s, key)
  PROVE  NodeFacts(h, r, s)
<1> DEFINE node == h[s.ptr.id]
           g == r[s.ptr.id]
           m == MostSignificantBit(node)
<1>1. s.ptr = NodePointer(s.ptr.id) /\ s.ptr.id \in DOMAIN r
  BY DEF AtNode
<1>2. GoodNode(h, r, node, g)
  BY <1>1 DEF GoodHeap
<1>3. ~IsLeaf(s.ptr) /\ IsAValidNode(s.ptr)
  BY <1>1, NodeIs
<1>6. node = h[s.ptr.id] /\ g = r[s.ptr.id] /\ m = MostSignificantBit(node)
  OBVIOUS
<1> HIDE DEF node, g, m
<1>4. /\ node.height \in Nat \ {0} /\ Represents(node, g.reps) /\ Ascending(g.reps)
      /\ Len(g.reps) \in 2 .. MaxEntries
      /\ DOMAIN node.ptrs = 1 .. Len(g.reps) /\ Len(node.ptrs) = Len(g.reps)
      /\ DOMAIN g.reps = 1 .. Len(g.reps) /\ Len(g.reps) \in Nat
  BY <1>2, EntriesAre DEF GoodNode, Represents
<1>7. Len(g.reps) >= 2 /\ Len(g.reps) <= MaxEntries
  BY <1>4, MaxEntriesAssumption
<1>5. IsFirstTurn(g.reps, m) /\ m \in Nat
  <2>1. IsFirstTurn(g.reps, MostSignificantBit(node))
    BY <1>4, <1>7, MostSignificantBitIs
  <2> QED BY <1>6, <2>1 DEF IsFirstTurn
<1> QED BY <1>2, <1>3, <1>4, <1>5, <1>6, <1>7 DEF NodeFacts

\* What is below an entry is below the entries above it.
Lifts(h, r, s, t) ==
  LET above == r[s.ptr.id].reps
      reps == r[t.ptr.id].reps
  IN  /\ \A i \in DOMAIN reps : Follows(reps[i], above, s.entry)
      /\ \A i \in DOMAIN reps : \A x : Follows(x, reps, i) => Follows(x, above, s.entry)
      /\ PastTurns(above, s.entry, MostSignificantBit(h[t.ptr.id]))
      /\ h[t.ptr.id].height < h[s.ptr.id].height

\* One level up.
LEMMA LevelUp ==
  ASSUME NEW h, NEW r, GoodHeap(h, r), NEW s, NEW t, NEW key, AtNode(r, s, key), AtNode(r, t, key),
         IsBelow(h, r, s, t)
  PROVE  Lifts(h, r, s, t)
<1> DEFINE above == r[s.ptr.id].reps
           reps == r[t.ptr.id].reps
           m == MostSignificantBit(h[t.ptr.id])
<1>1. /\ Ascending(above) /\ s.entry \in DOMAIN above
  BY NodeFactsHold DEF NodeFacts, AtNode
<1>2. Ascending(reps) /\ Len(reps) >= 2 /\ IsFirstTurn(reps, m) /\ m \in Nat
      /\ DOMAIN reps = 1 .. Len(reps) /\ Len(reps) \in Nat /\ ~IsLeaf(t.ptr)
  BY NodeFactsHold DEF NodeFacts
<1>3. FitsIn(h, r, t.ptr, h[s.ptr.id].height, r[s.ptr.id], s.entry)
  BY DEF IsBelow
<1>4. \A i \in DOMAIN reps : Follows(reps[i], above, s.entry)
  BY <1>2, <1>3 DEF FitsIn, Samples
<1>5. h[t.ptr.id].height < h[s.ptr.id].height
  BY <1>2, <1>3 DEF FitsIn, GetHeight
<1>8. m = MostSignificantBit(h[t.ptr.id]) /\ above = r[s.ptr.id].reps /\ reps = r[t.ptr.id].reps
  OBVIOUS
<1> HIDE DEF above, reps, m
<1>6. \A i \in DOMAIN reps : \A x : Follows(x, reps, i) => Follows(x, above, s.entry)
  BY <1>1, <1>2, <1>4, FollowsAbove
<1>7. PastTurns(above, s.entry, m)
  <2>1. 1 \in DOMAIN reps
    BY <1>2
  <2>2. PICK j \in DOMAIN reps \ {1} : Turn(reps, 1, j) = m
    BY <1>2, <2>1 DEF IsFirstTurn
  <2> QED BY <1>1, <1>2, <1>4, <2>1, <2>2, TurnsGrow DEF PastTurns
<1> QED BY <1>4, <1>5, <1>6, <1>7, <1>8 DEF Lifts

\* The leaf at the end of a path follows the path on all levels.
LEMMA LeafFollows ==
  ASSUME NEW h, NEW r, GoodHeap(h, r), NEW path, NEW key, IsLeafPath(h, r, path, key),
         NEW j \in 1 .. Len(path) - 1
  PROVE  Follows(LeafEntry(path).ptr.key, r[path[j].ptr.id].reps, path[j].entry)
<1> DEFINE l == LeafEntry(path).ptr.key
           S == { i \in 1 .. Len(path) - 1 : ~Follows(l, r[path[i].ptr.id].reps, path[i].entry) }
<1>1. /\ Len(path) \in Nat /\ Len(path) >= 2 /\ DOMAIN path = 1 .. Len(path)
      /\ \A i \in 1 .. Len(path) - 1 : AtNode(r, path[i], key) /\ IsBelow(h, r, path[i], path[i + 1])
      /\ LeafEntry(path).ptr \in LeafPointers
  BY DEF IsLeafPath, IsPath
<1>2. ASSUME S # {} PROVE FALSE
  <2>1. \A i \in S : i \in Nat /\ i <= Len(path)
    BY <1>1
  <2>2. PICK i \in S : \A n \in S : n <= i
    <3>1. S \subseteq Nat
      BY <2>1
    <3> HIDE DEF S
    <3> QED BY <1>1, <1>2, <2>1, <3>1, GreatestNatural
  <2>3. i \in 1 .. Len(path) - 1 /\ AtNode(r, path[i], key) /\ IsBelow(h, r, path[i], path[i + 1])
    BY <1>1
  <2>4. CASE i = Len(path) - 1
    <3>1. path[i + 1] = LeafEntry(path)
      BY <1>1, <2>4 DEF LeafEntry
    <3>2. FitsIn(h, r, LeafEntry(path).ptr, h[path[i].ptr.id].height, r[path[i].ptr.id], path[i].entry)
      BY <2>3, <3>1 DEF IsBelow
    <3>3. IsLeaf(LeafEntry(path).ptr)
      <4>1. PICK k \in Keys, v \in Values : LeafEntry(path).ptr = LeafPointer(k, v)
        BY <1>1 DEF LeafPointers
      <4> QED BY <4>1, LeafIs
    <3>4. Follows(l, r[path[i].ptr.id].reps, path[i].entry)
      BY <3>2, <3>3 DEF FitsIn, Samples
    <3> QED BY <2>2, <3>4
  <2>5. CASE i # Len(path) - 1
    <3>1. i + 1 \in 1 .. Len(path) - 1 /\ i + 1 \notin S
      <4>1. i + 1 \in 1 .. Len(path) - 1 /\ ~ (i + 1 <= i)
        BY <1>1, <2>3, <2>5
      <4> HIDE DEF S
      <4> QED BY <2>2, <4>1
    <3>2. Follows(l, r[path[i + 1].ptr.id].reps, path[i + 1].entry) /\ AtNode(r, path[i + 1], key)
      BY <1>1, <3>1
    <3>3. Lifts(h, r, path[i], path[i + 1])
      BY <2>3, <3>2, LevelUp
    <3>4. path[i + 1].entry \in DOMAIN r[path[i + 1].ptr.id].reps
      BY <3>2 DEF AtNode
    <3>5. Follows(l, r[path[i].ptr.id].reps, path[i].entry)
      BY <3>2, <3>3, <3>4 DEF Lifts
    <3> QED BY <2>2, <3>5
  <2> QED BY <2>4, <2>5
<1> QED BY <1>2

\* The bit in which the leaf and the key differ is not one of those that led to the leaf.
LEMMA NewBitOnPath ==
  ASSUME NEW h, NEW r, GoodHeap(h, r), NEW path, NEW key, IsLeafPath(h, r, path, key),
         NEW j \in 1 .. Len(path) - 1, NEW b, b = PartAt(LeafEntry(path).ptr.key, key)
  PROVE  b \in Nat /\ b \notin PathBits(r[path[j].ptr.id].reps, path[j].entry)
<1> DEFINE l == LeafEntry(path).ptr.key
           reps == r[path[j].ptr.id].reps
           e == path[j].entry
<1>1. l \in AllKeys /\ key \in AllKeys /\ l # key /\ l \in SUBSET Nat /\ key \in SUBSET Nat
  <2>1. PICK k \in Keys, v \in Values : LeafEntry(path).ptr = LeafPointer(k, v)
    BY DEF LeafPointers, IsLeafPath
  <2>3. LeafPointer(k, v).key = k
    BY DEF LeafPointer
  <2>2. l = k
    BY <2>1, <2>3, Zenon
  <2> QED BY <2>2, KeysAssumption, KeysAreSets DEF IsLeafPath
<1>2. b \in Nat /\ (b \in l <=> b \notin key)
  BY <1>1, PartAtIs
<1>3. Follows(l, reps, e)
  BY LeafFollows
<1>4. AtNode(r, path[j], key)
  BY DEF IsLeafPath, IsPath
<1>5. e \in DOMAIN reps /\ \A c \in PathBits(reps, e) : c \in key <=> c \in reps[e]
  BY <1>4 DEF AtNode
<1>6. Ascending(reps)
  BY <1>4, NodeFactsHold DEF NodeFacts
<1> HIDE DEF l, reps, e
<1>7. \A c \in PathBits(reps, e) : c \in l <=> c \in reps[e]
  <2> SUFFICES ASSUME NEW f \in DOMAIN reps \ {e} PROVE Turn(reps, e, f) \in l <=> Turn(reps, e, f) \in reps[e]
    BY DEF PathBits, Turn
  <2>1. Turn(reps, e, f) \in Nat /\ Turn(reps, e, f) <= Turn(reps, e, f)
    BY <1>5, <1>6, TurnIs
  <2> QED BY <1>3, <2>1 DEF Follows
<1>8. b \notin PathBits(reps, e)
  BY <1>2, <1>5, <1>7
<1> QED BY <1>2, <1>8 DEF reps, e

-----------------------------------------------------------------------------
(* The insert level                                                        *)

\* The node of a level of the path with the leaf that was found for its entry.
NodeWithLeaf(r, path, j) == WithKey(r[path[j].ptr.id], path[j].entry, LeafEntry(path).ptr.key)

\* The leaf may stand for the entry of the path, and the key parts from it there.
Beside(h, r, path, key, j) ==
  LET l == LeafEntry(path).ptr.key
      o == NodeWithLeaf(r, path, j)
      e == path[j].entry
      reps == r[path[j].ptr.id].reps
  IN  /\ NodeFacts(h, r, path[j]) /\ path[j].ptr.id \in DOMAIN r
      /\ GoodNode(h, r, h[path[j].ptr.id], o) /\ NewBeside(o.reps, e, key) /\ o.reps[e] = l
      /\ e \in DOMAIN reps /\ DOMAIN o.reps = DOMAIN reps /\ Len(o.reps) = Len(reps)
      /\ \A f \in DOMAIN reps \ {e} : Turn(o.reps, e, f) = Turn(reps, e, f) /\ o.reps[f] = reps[f]
      /\ PartAt(l, key) \in Nat /\ PartAt(l, key) \notin PathBits(reps, e)
      /\ Follows(l, reps, e)

\* So it is on all levels above the leaf.
LEMMA BesideIs ==
  ASSUME NEW h, NEW r, GoodHeap(h, r), NEW path, NEW key, IsLeafPath(h, r, path, key),
         NEW j \in 1 .. Len(path) - 1
  PROVE  Beside(h, r, path, key, j)
<1> DEFINE l == LeafEntry(path).ptr.key
           g == r[path[j].ptr.id]
           e == path[j].entry
           node == h[path[j].ptr.id]
           o == WithKey(g, e, l)
<1>1. AtNode(r, path[j], key)
  BY DEF IsLeafPath, IsPath
<1>2. NodeFacts(h, r, path[j])
  BY <1>1, NodeFactsHold
<1>3. l \in AllKeys /\ key \in AllKeys /\ l # key
  <2>1. PICK k \in Keys, v \in Values : LeafEntry(path).ptr = LeafPointer(k, v)
    BY DEF LeafPointers, IsLeafPath
  <2>2. LeafPointer(k, v).key = k
    BY DEF LeafPointer
  <2>3. l = k
    BY <2>1, <2>2, Zenon
  <2> QED BY <2>3, KeysAssumption DEF IsLeafPath
<1>4. Follows(l, g.reps, e)
  BY LeafFollows
<1>5. PartAt(l, key) \in Nat /\ PartAt(l, key) \notin PathBits(g.reps, e)
  BY NewBitOnPath
<1>6. GoodNode(h, r, node, g) /\ e \in DOMAIN g.reps /\ path[j].ptr.id \in DOMAIN r
  BY <1>1, <1>2 DEF NodeFacts, AtNode
<1>9. o = WithKey(g, e, l)
  OBVIOUS
<1> HIDE DEF o, g, e, l, node
<1>7. /\ GoodNode(h, r, node, o) /\ DOMAIN o.reps = DOMAIN g.reps /\ Len(o.reps) = Len(g.reps)
      /\ o.reps[e] = l
      /\ \A f \in DOMAIN g.reps \ {e} : o.reps[f] = g.reps[f]
      /\ \A f, k \in DOMAIN g.reps : f # k => Turn(o.reps, f, k) = Turn(g.reps, f, k)
      /\ \A f \in DOMAIN g.reps : PathBits(o.reps, f) = PathBits(g.reps, f)
  BY <1>3, <1>4, <1>6, <1>9, GoodNodeWithKey
<1>8. NewBeside(o.reps, e, key)
  BY <1>3, <1>5, <1>6, <1>7 DEF NewBeside, GoodNode, Represents
<1>10. /\ NodeFacts(h, r, path[j]) /\ path[j].ptr.id \in DOMAIN r
       /\ GoodNode(h, r, node, o) /\ NewBeside(o.reps, e, key) /\ o.reps[e] = l
       /\ e \in DOMAIN g.reps /\ DOMAIN o.reps = DOMAIN g.reps /\ Len(o.reps) = Len(g.reps)
       /\ \A f \in DOMAIN g.reps \ {e} : Turn(o.reps, e, f) = Turn(g.reps, e, f) /\ o.reps[f] = g.reps[f]
       /\ PartAt(l, key) \in Nat /\ PartAt(l, key) \notin PathBits(g.reps, e)
       /\ Follows(l, g.reps, e)
  BY <1>2, <1>4, <1>5, <1>6, <1>7, <1>8
<1> QED BY <1>10 DEF Beside, NodeWithLeaf, l, g, e, node, o

\* What is known of the level at which the search for the new bit ends.
DepthFits(h, path, b, possible) ==
  /\ possible \in 1 .. Len(path) - 1
  /\ possible > 1 => MostSignificantBit(h[path[possible].ptr.id]) < b
  /\ possible + 1 # Len(path) => b <= MostSignificantBit(h[path[possible + 1].ptr.id])

\* The new bit is past the first bit of the node at the insert depth, and not past that of the next.
LEMMA DepthIs ==
  ASSUME NEW h, NEW path, Len(path) \in Nat, Len(path) >= 2, NEW newBit, newBit.bit \in Nat,
         \A j \in 1 .. Len(path) - 1 : MostSignificantBit(h[path[j].ptr.id]) \in Nat
  PROVE  DepthFits(h, path, newBit.bit, InsertDepth(h, path, newBit))
<1> DEFINE n == Len(path)
           b == newBit.bit
           m(j) == MostSignificantBit(h[path[j].ptr.id])
           S == { j \in 2 .. n : j = n \/ b <= m(j) }
<1>1. InsertDepth(h, path, newBit) = Min(S) - 1
  BY DEF InsertDepth, NodeOf
<1>2. S \subseteq Nat /\ n \in S
  OBVIOUS
<1>3. Min(S) \in S /\ \A j \in S : Min(S) <= j
  <2> HIDE DEF S
  <2>1. S # {}
    BY <1>2
  <2> QED BY <1>2, <2>1, MinIsLeast
<1>4. PICK q : q = Min(S)
  OBVIOUS
<1>5. q \in S /\ \A j \in S : q <= j
  BY <1>3, <1>4, Zenon
<1>6. q \in 2 .. n /\ (q = n \/ b <= m(q)) /\ \A j \in 2 .. n : b <= m(j) => q <= j
  BY <1>5
<1>7. /\ q - 1 \in 1 .. n - 1
      /\ q - 1 > 1 => m(q - 1) < b
      /\ q - 1 + 1 # n => b <= m(q - 1 + 1)
  <2> HIDE DEF m
  <2>1. \A j \in 1 .. n - 1 : m(j) \in Nat
    BY DEF m
  <2>2. q - 1 + 1 = q
    BY <1>6
  <2>3. ASSUME NEW k, k = q - 1, k > 1 PROVE m(k) < b
    <3>1. k \in 2 .. n /\ k \in 1 .. n - 1 /\ ~(q <= k)
      BY <1>6, <2>3
    <3>2. ~(b <= m(k)) /\ m(k) \in Nat
      BY <1>6, <2>1, <3>1
    <3> HIDE DEF b
    <3> QED BY <3>2 DEF b
  <2>4. q - 1 \in 1 .. n - 1
    BY <1>6
  <2>5. q - 1 + 1 # n => b <= m(q - 1 + 1)
    BY <1>6, <2>2
  <2>6. q - 1 > 1 => m(q - 1) < b
    BY <2>3
  <2> QED BY <2>4, <2>5, <2>6
<1> HIDE DEF S
<1> QED BY <1>1, <1>4, <1>7 DEF DepthFits

\* The new key, the leaf that was found and what the insert level knows of them fit together.
LevelFits(h, r, path, key, level) ==
  LET l == LeafEntry(path).ptr.key
      b == PartAt(l, key)
      first == level.first
      e == path[first].entry
      o == NodeWithLeaf(r, path, first)
      height == h[path[first].ptr.id].height
  IN  /\ first \in 1 .. Len(path) - 1 /\ level.pushdown \in BOOLEAN
      /\ Describes(level.info, o.reps, e, GetMismatchingBit(l, key))
      /\ first > 1 => PastTurns(r[path[first - 1].ptr.id].reps, path[first - 1].entry, b)
      /\ level.pushdown => Alone(o.reps, e, b) /\ first = Len(path) - 1 /\ height > 1
      /\ ~level.pushdown /\ Alone(o.reps, e, b) => first = Len(path) - 1 /\ height = 1

\* The cases of InsertLevel.
LEMMA LevelCases ==
  ASSUME NEW h, NEW path, NEW newBit, NEW level, level = InsertLevel(h, path, newBit),
         NEW p, p = InsertDepth(h, path, newBit), NEW info,
         info = GetInsertInformation(h[path[p].ptr.id], path[p].entry, newBit)
  PROVE  \/ /\ info.number = 1 /\ p + 1 # Len(path)
            /\ level = [first |-> p + 1, pushdown |-> FALSE,
                        info |-> [prefix |-> {}, first |-> 1,
                                  number |-> Len(h[path[p + 1].ptr.id].ptrs), key |-> newBit]]
         \/ /\ ~(info.number = 1 /\ p + 1 # Len(path))
            /\ level = [first |-> p, info |-> info,
                        pushdown |-> info.number = 1 /\ p + 1 = Len(path) /\ h[path[p].ptr.id].height > 1]
BY Zenon DEF InsertLevel, NodeOf

\* At the insert depth, the insert information describes the side of the leaf.
LEMMA DescribesAtDepth ==
  ASSUME NEW h, NEW r, NEW path, NEW key, NEW j, Beside(h, r, path, key, j), NEW newBit,
         newBit = GetMismatchingBit(LeafEntry(path).ptr.key, key),
         NEW info, info = GetInsertInformation(h[path[j].ptr.id], path[j].entry, newBit)
  PROVE  Describes(info, NodeWithLeaf(r, path, j).reps, path[j].entry, newBit)
<1> DEFINE o == NodeWithLeaf(r, path, j)
           e == path[j].entry
<1>1. /\ GoodNode(h, r, h[path[j].ptr.id], o) /\ NewBeside(o.reps, e, key)
      /\ o.reps[e] = LeafEntry(path).ptr.key /\ PartAt(o.reps[e], key) \in Nat
  BY DEF Beside
<1>2. /\ Represents(h[path[j].ptr.id], o.reps) /\ e \in DOMAIN o.reps
      /\ newBit.bit = PartAt(o.reps[e], key) /\ newBit.bit \notin PathBits(o.reps, e)
  BY <1>1 DEF GoodNode, NewBeside, PartAt
<1> HIDE DEF o, e
<1>3. newBit.bit \in Nat
  BY <1>1, <1>2
<1>4. Describes(GetInsertInformation(h[path[j].ptr.id], e, newBit), o.reps, e, newBit)
  BY <1>2, <1>3, InsertInformationIs
<1> QED BY <1>4 DEF o, e

\* A side of one entry is all that is described by a number of one.
LEMMA AloneIs ==
  ASSUME NEW reps, Ascending(reps), NEW e \in DOMAIN reps, NEW newBit, newBit.bit \in Nat,
         newBit.bit \notin PathBits(reps, e), NEW info, Describes(info, reps, e, newBit)
  PROVE  /\ info.number = 1 <=> Alone(reps, e, newBit.bit)
         /\ Alone(reps, e, newBit.bit) => PastTurns(reps, e, newBit.bit)
<1> DEFINE b == newBit.bit
           S == Side(reps, e, b)
           f == info.first
           n == info.number
<1>1. /\ f \in DOMAIN reps /\ n \in Nat \ {0} /\ S = f .. f + n - 1 /\ b \in Nat
  BY DEF Describes
<1>2. f \in Nat /\ e \in Nat /\ e \in S
  BY <1>1, EntriesAre DEF Side
<1>3. ASSUME S = {e}, NEW g \in DOMAIN reps \ {e} PROVE Turn(reps, e, g) < b
  <2>1. Turn(reps, e, g) \in Nat
    BY TurnIs
  <2>2. Turn(reps, e, g) # b
    BY DEF PathBits, Turn
  <2>3. ~(Turn(reps, e, g) > b)
    BY <1>3 DEF Side
  <2> HIDE DEF b
  <2> QED BY <1>1, <2>1, <2>2, <2>3
<1> HIDE DEF S, f, n
<1>4. n = 1 => S = {e}
  BY <1>1, <1>2
<1>5. S = {e} => n = 1
  <2> SUFFICES ASSUME S = {e}, n # 1 PROVE FALSE
    OBVIOUS
  <2>1. f \in S /\ f + 1 \in S
    BY <1>1, <1>2
  <2> QED BY <1>2, <2>1
<1> HIDE DEF b
<1> QED BY <1>3, <1>4, <1>5 DEF Alone, PastTurns, S, n, b

\* Where InsertLevel puts the new key, it fits.
LEMMA LevelIs ==
  ASSUME NEW h, NEW r, GoodHeap(h, r), NEW path, NEW key, IsLeafPath(h, r, path, key),
         NEW level, level = InsertLevel(h, path, GetMismatchingBit(LeafEntry(path).ptr.key, key))
  PROVE  LevelFits(h, r, path, key, level)
<1> DEFINE n == Len(path)
           l == LeafEntry(path).ptr.key
           newBit == GetMismatchingBit(l, key)
           b == PartAt(l, key)
           m(j) == MostSignificantBit(h[path[j].ptr.id])
           p == InsertDepth(h, path, newBit)
           info == GetInsertInformation(h[path[p].ptr.id], path[p].entry, newBit)
           o(j) == NodeWithLeaf(r, path, j)
           e(j) == path[j].entry
           reps(j) == r[path[j].ptr.id].reps
<1>1. /\ n \in Nat /\ n >= 2
      /\ \A j \in 1 .. n - 1 : AtNode(r, path[j], key) /\ IsBelow(h, r, path[j], path[j + 1])
  BY DEF IsLeafPath, IsPath
<1>2. \A j \in 1 .. n - 1 : Beside(h, r, path, key, j)
  BY BesideIs
<1>3. \A j \in 1 .. n - 1 : m(j) \in Nat
  BY <1>2 DEF Beside, NodeFacts
<1>4. b \in Nat /\ newBit.bit = b
  <2>1. 1 \in 1 .. n - 1
    BY <1>1
  <2>2. Beside(h, r, path, key, 1)
    BY <1>2, <2>1
  <2> QED BY <2>2 DEF Beside, PartAt
<1>5. DepthFits(h, path, b, p)
  <2>1. DepthFits(h, path, newBit.bit, InsertDepth(h, path, newBit))
    BY <1>1, <1>3, <1>4, DepthIs
  <2> QED BY <1>4, <2>1
<1>6. /\ p \in 1 .. n - 1
      /\ p > 1 => m(p) < b
      /\ p + 1 # n => b <= m(p + 1)
  BY <1>5 DEF DepthFits
<1>7. Beside(h, r, path, key, p)
  BY <1>2, <1>6
<1>8. \/ /\ info.number = 1 /\ p + 1 # n
         /\ level = [first |-> p + 1, pushdown |-> FALSE,
                     info |-> [prefix |-> {}, first |-> 1,
                               number |-> Len(h[path[p + 1].ptr.id].ptrs), key |-> newBit]]
      \/ /\ ~(info.number = 1 /\ p + 1 # n)
         /\ level = [first |-> p, info |-> info,
                     pushdown |-> info.number = 1 /\ p + 1 = n /\ h[path[p].ptr.id].height > 1]
  <2>1. level = InsertLevel(h, path, newBit)
    OBVIOUS
  <2>2. info = GetInsertInformation(h[path[p].ptr.id], path[p].entry, newBit)
    OBVIOUS
  <2>3. p = InsertDepth(h, path, newBit)
    OBVIOUS
  <2> HIDE DEF info, newBit, p
  <2> QED BY <2>1, <2>2, <2>3, LevelCases
<1>9. Describes(info, o(p).reps, e(p), newBit)
  <2>1. info = GetInsertInformation(h[path[p].ptr.id], path[p].entry, newBit)
        /\ newBit = GetMismatchingBit(LeafEntry(path).ptr.key, key)
    OBVIOUS
  <2> HIDE DEF info, newBit, p
  <2> QED BY <1>7, <2>1, DescribesAtDepth
<1>22. l = LeafEntry(path).ptr.key /\ b = PartAt(l, key) /\ newBit = GetMismatchingBit(l, key)
  OBVIOUS
<1>23. \A j : o(j) = NodeWithLeaf(r, path, j)
  OBVIOUS
<1> HIDE DEF p, info, newBit, b, n, m, o, l
<1>10. \A j \in 1 .. n - 1 :
         /\ Ascending(o(j).reps) /\ e(j) \in DOMAIN o(j).reps /\ b \notin PathBits(o(j).reps, e(j))
         /\ DOMAIN o(j).reps = DOMAIN reps(j) /\ Len(o(j).reps) = Len(reps(j))
         /\ \A f \in DOMAIN reps(j) \ {e(j)} : Turn(o(j).reps, e(j), f) = Turn(reps(j), e(j), f)
  BY <1>2, <1>22, <1>23 DEF Beside, NewBeside
<1>11. /\ info.number = 1 <=> Alone(o(p).reps, e(p), b)
       /\ Alone(o(p).reps, e(p), b) => PastTurns(o(p).reps, e(p), b)
  BY <1>4, <1>6, <1>9, <1>10, AloneIs
<1>12. CASE info.number = 1 /\ p + 1 # n
  <2> DEFINE q == p + 1
             whole == [prefix |-> {}, first |-> 1, number |-> Len(h[path[q].ptr.id].ptrs), key |-> newBit]
  <2>1. q \in 1 .. n - 1 /\ q > 1 /\ q - 1 = p /\ q # 1
    BY <1>1, <1>6, <1>12
  <2>15. level = [first |-> q, pushdown |-> FALSE, info |-> whole]
    BY <1>8, <1>12, Zenon
  <2>2. level.first = q /\ level.pushdown = FALSE /\ level.info = whole
    <3> HIDE DEF q, whole
    <3> QED BY <2>15
  <2>13. b <= m(q)
    BY <1>6, <1>12
  <2>14. whole = [prefix |-> {}, first |-> 1, number |-> Len(h[path[q].ptr.id].ptrs), key |-> newBit]
    OBVIOUS
  <2> HIDE DEF q, whole
  <2>3. Beside(h, r, path, key, q)
    BY <1>2, <2>1
  <2>4. /\ IsFirstTurn(reps(q), m(q)) /\ m(q) \in Nat /\ Len(h[path[q].ptr.id].ptrs) = Len(reps(q))
        /\ Len(reps(q)) >= 2 /\ e(q) \in DOMAIN reps(q)
        /\ Len(reps(q)) \in Nat /\ DOMAIN reps(q) = 1 .. Len(reps(q))
    BY <2>3 DEF Beside, NodeFacts, m
  <2>5. b # m(q)
    <3>1. PICK f \in DOMAIN reps(q) \ {e(q)} : Turn(reps(q), e(q), f) = m(q)
      BY <2>4 DEF IsFirstTurn
    <3>2. m(q) \in PathBits(o(q).reps, e(q))
      BY <1>10, <2>1, <3>1 DEF PathBits, Turn
    <3> QED BY <1>10, <2>1, <3>2
  <2>6. ASSUME NEW f \in DOMAIN reps(q) \ {e(q)} PROVE b < Turn(o(q).reps, e(q), f)
    <3>1. m(q) <= Turn(reps(q), e(q), f) /\ Turn(o(q).reps, e(q), f) = Turn(reps(q), e(q), f)
      BY <1>10, <2>1, <2>4, <2>6 DEF IsFirstTurn
    <3>2. Turn(o(q).reps, e(q), f) \in Nat
      BY <1>10, <2>1, <2>6, TurnIs
    <3> QED BY <1>4, <2>4, <2>5, <2>13, <3>1, <3>2
  <2>7. Describes(whole, o(q).reps, e(q), newBit)
    <3>1. /\ Ascending(o(q).reps) /\ Len(o(q).reps) >= 2 /\ e(q) \in DOMAIN o(q).reps
          /\ newBit.bit \in Nat /\ \A f \in DOMAIN o(q).reps \ {e(q)} : newBit.bit < Turn(o(q).reps, e(q), f)
      BY <1>4, <1>10, <2>1, <2>4, <2>6
    <3>2. Describes([prefix |-> {}, first |-> 1, number |-> Len(o(q).reps), key |-> newBit],
                    o(q).reps, e(q), newBit)
      BY <3>1, WholeNodeDescribes
    <3>3. whole = [prefix |-> {}, first |-> 1, number |-> Len(o(q).reps), key |-> newBit]
      BY <1>10, <2>1, <2>4, <2>14
    <3> QED BY <3>2, <3>3
  <2>8. ~Alone(o(q).reps, e(q), b)
    <3>1. PICK f \in DOMAIN reps(q) : f # e(q)
      <4>1. 1 \in DOMAIN reps(q) /\ 2 \in DOMAIN reps(q)
        BY <2>4
      <4> QED BY <4>1
    <3>2. b < Turn(o(q).reps, e(q), f) /\ f \in DOMAIN o(q).reps
      BY <1>10, <2>1, <2>6, <3>1
    <3>3. f \in Side(o(q).reps, e(q), b)
      BY <1>4, <3>2 DEF Side
    <3> QED BY <3>1, <3>3 DEF Alone
  <2>9. PastTurns(reps(p), e(p), b)
    BY <1>6, <1>10, <1>11, <1>12 DEF PastTurns
  <2>10. level.first \in 1 .. n - 1 /\ level.pushdown \in BOOLEAN /\ ~level.pushdown
    BY <2>1, <2>2
  <2>11. /\ level.first > 1 => PastTurns(reps(level.first - 1), e(level.first - 1), b)
         /\ ~Alone(o(level.first).reps, e(level.first), b)
         /\ Describes(level.info, o(level.first).reps, e(level.first), newBit)
    BY <2>1, <2>2, <2>7, <2>8, <2>9
  <2> QED BY <1>22, <1>23, <2>10, <2>11 DEF LevelFits, n
<1>13. CASE ~(info.number = 1 /\ p + 1 # n)
  <2>1. /\ level.first = p /\ level.info = info
        /\ level.pushdown = (info.number = 1 /\ p + 1 = n /\ h[path[p].ptr.id].height > 1)
    BY <1>8, <1>13
  <2>2. h[path[p].ptr.id].height \in Nat \ {0}
    BY <1>7 DEF Beside, NodeFacts
  <2>3. p > 1 => PastTurns(reps(p - 1), e(p - 1), b)
    <3> SUFFICES ASSUME p > 1 PROVE PastTurns(reps(p - 1), e(p - 1), b)
      OBVIOUS
    <3>1. p - 1 \in 1 .. n - 1 /\ p - 1 + 1 = p
      BY <1>1, <1>6
    <3>2. /\ AtNode(r, path[p - 1], key) /\ AtNode(r, path[p], key) /\ IsBelow(h, r, path[p - 1], path[p])
      BY <1>1, <1>6, <3>1
    <3>3. Lifts(h, r, path[p - 1], path[p])
      BY <3>2, LevelUp
    <3>4. PastTurns(reps(p - 1), e(p - 1), m(p))
      BY <3>3 DEF Lifts, m
    <3>5. Ascending(reps(p - 1)) /\ e(p - 1) \in DOMAIN reps(p - 1)
      BY <1>2, <3>1 DEF Beside, NodeFacts
    <3>6. \A f \in DOMAIN reps(p - 1) \ {e(p - 1)} : Turn(reps(p - 1), e(p - 1), f) \in Nat
      BY <3>5, TurnIs
    <3>7. m(p) \in Nat /\ m(p) < b
      BY <1>3, <1>6
    <3> QED BY <1>4, <3>4, <3>6, <3>7 DEF PastTurns
  <2>4. level.pushdown \in BOOLEAN
    BY <2>1, Zenon
  <2>5. level.pushdown => info.number = 1 /\ p + 1 = n /\ h[path[p].ptr.id].height > 1
    BY <2>1, Zenon
  <2>6. ~level.pushdown => ~(info.number = 1 /\ p + 1 = n /\ h[path[p].ptr.id].height > 1)
    BY <2>1, Zenon
  <2>7. p + 1 = n => p = n - 1
    BY <1>1, <1>6
  <2>8. level.pushdown => Alone(o(p).reps, e(p), b) /\ p = n - 1 /\ h[path[p].ptr.id].height > 1
    BY <1>11, <2>5, <2>7
  <2>9. ~level.pushdown /\ Alone(o(p).reps, e(p), b) => p = n - 1 /\ h[path[p].ptr.id].height = 1
    BY <1>11, <1>13, <2>2, <2>6, <2>7
  <2> QED BY <1>6, <1>9, <1>22, <1>23, <2>1, <2>3, <2>4, <2>8, <2>9 DEF LevelFits, n
<1> QED BY <1>12, <1>13

-----------------------------------------------------------------------------
(* The place of a new node on the path                                     *)

\* The keys that may be below an element of the path: they follow the entry above it.
KeysAt(r, path, j) ==
  { x \in AllKeys : j > 1 => Follows(x, r[path[j - 1].ptr.id].reps, path[j - 1].entry) }

\* The new bit is past the path to an element.
PastAt(r, path, j, b) == j > 1 => PastTurns(r[path[j - 1].ptr.id].reps, path[j - 1].entry, b)

\* A height that the node above an element allows.
HeightAt(h, r, path, j, height) ==
  j > 1 => /\ height < h[path[j - 1].ptr.id].height
           /\ path[j - 1].entry \in r[path[j - 1].ptr.id].exact => height + 1 = h[path[j - 1].ptr.id].height

\* The leaf may be there, and the new key if its bit is past the path.
LEMMA LeafAt ==
  ASSUME NEW h, NEW r, GoodHeap(h, r), NEW path, NEW key, IsLeafPath(h, r, path, key),
         NEW j \in 1 .. Len(path)
  PROVE  /\ LeafEntry(path).ptr.key \in KeysAt(r, path, j)
         /\ PastAt(r, path, j, PartAt(LeafEntry(path).ptr.key, key)) => key \in KeysAt(r, path, j)
<1> DEFINE l == LeafEntry(path).ptr.key
           b == PartAt(l, key)
<1>1. l \in AllKeys /\ key \in AllKeys /\ l # key /\ l \in SUBSET Nat /\ key \in SUBSET Nat
  <2>1. PICK k \in Keys, v \in Values : LeafEntry(path).ptr = LeafPointer(k, v)
    BY DEF LeafPointers, IsLeafPath
  <2>2. LeafPointer(k, v).key = k
    BY DEF LeafPointer
  <2>3. l = k
    BY <2>1, <2>2, Zenon
  <2> QED BY <2>3, KeysAssumption, KeysAreSets DEF IsLeafPath
<1>2. b \in Nat /\ AgreeBelow(l, key, b)
  BY <1>1, PartAtIs
<1>3. Len(path) \in Nat /\ b = PartAt(l, key) /\ l = LeafEntry(path).ptr.key
  BY DEF IsLeafPath, IsPath
<1> HIDE DEF b, l
<1>4. ASSUME j > 1
      PROVE  LET above == r[path[j - 1].ptr.id].reps
                 e == path[j - 1].entry
             IN  Follows(l, above, e) /\ (PastTurns(above, e, b) => Follows(key, above, e))
  <2> DEFINE above == r[path[j - 1].ptr.id].reps
             e == path[j - 1].entry
  <2>1. j - 1 \in 1 .. Len(path) - 1
    BY <1>3, <1>4
  <2>2. Beside(h, r, path, key, j - 1)
    BY <2>1, BesideIs
  <2>3. Follows(l, above, e) /\ Ascending(above) /\ e \in DOMAIN above
    BY <1>3, <2>2 DEF Beside, NodeFacts
  <2> HIDE DEF above, e
  <2>4. AgreeBelow(key, l, b)
    BY <1>2 DEF AgreeBelow
  <2>5. PastTurns(above, e, b) => Follows(key, above, e)
    BY <1>2, <2>3, <2>4, AgreeAndFollow DEF PastTurns
  <2> QED BY <2>3, <2>5 DEF above, e
<1> QED BY <1>1, <1>3, <1>4 DEF KeysAt, PastAt

\* What follows an entry of a node of the path may be where the node is.
LEMMA FollowersAt ==
  ASSUME NEW h, NEW r, GoodHeap(h, r), NEW path, NEW key, IsPath(h, r, path, key),
         NEW j \in 1 .. Len(path) - 1
  PROVE  /\ \A t \in DOMAIN r[path[j].ptr.id].reps : r[path[j].ptr.id].reps[t] \in KeysAt(r, path, j)
         /\ \A t \in DOMAIN r[path[j].ptr.id].reps : \A x \in AllKeys :
              Follows(x, r[path[j].ptr.id].reps, t) => x \in KeysAt(r, path, j)
         /\ PastAt(r, path, j, MostSignificantBit(h[path[j].ptr.id]))
         /\ HeightAt(h, r, path, j, h[path[j].ptr.id].height)
<1> DEFINE reps == r[path[j].ptr.id].reps
<1>1. /\ AtNode(r, path[j], key) /\ Len(path) \in Nat
      /\ j > 1 => AtNode(r, path[j - 1], key) /\ IsBelow(h, r, path[j - 1], path[j])
  <2>1. Len(path) \in Nat /\ \A i \in 1 .. Len(path) - 1 : AtNode(r, path[i], key) /\ IsBelow(h, r, path[i], path[i + 1])
    BY DEF IsPath
  <2>2. ASSUME j > 1 PROVE AtNode(r, path[j - 1], key) /\ IsBelow(h, r, path[j - 1], path[j])
    <3>1. j - 1 \in 1 .. Len(path) - 1 /\ j - 1 + 1 = j
      BY <2>1, <2>2
    <3> QED BY <2>1, <3>1
  <2> QED BY <2>1, <2>2
<1>2. Ascending(reps) /\ ~IsLeaf(path[j].ptr)
  BY <1>1, NodeFactsHold DEF NodeFacts
<1>3. \A t \in DOMAIN reps : reps[t] \in AllKeys
  BY <1>2, EntriesAre
<1>4. j > 1 => Lifts(h, r, path[j - 1], path[j])
  BY <1>1, LevelUp
<1>5. HeightAt(h, r, path, j, h[path[j].ptr.id].height)
  BY <1>1, <1>2 DEF HeightAt, IsBelow, FitsIn, GetHeight
<1> QED BY <1>3, <1>4, <1>5 DEF Lifts, KeysAt, PastAt

\* The pointer fits where it will be written, and all new nodes are good.
PlanFits(h, r, next, p, loc) ==
  \E more : /\ Builds(h, r, next, more) /\ IsChild(more, p) /\ ~IsLeaf(p)
            /\ \/ loc = RootLocation
               \/ \E id \in DOMAIN r : \E slot \in DOMAIN r[id].reps :
                    loc = SlotLocation(id, slot) /\ FitsIn(next, more, p, h[id].height, r[id], slot)

\* A node with such keys and of such a height fits there.
LEMMA PlacedAt ==
  ASSUME NEW h, NEW r, GoodHeap(h, r), NEW path, NEW key, IsPath(h, r, path, key),
         NEW j \in 1 .. Len(path), NEW next, NEW p, NEW height,
         NodeBuilt(h, r, next, p, height, KeysAt(r, path, j)), HeightAt(h, r, path, j, height)
  PROVE  PlanFits(h, r, next, p, path[j].loc)
<1>1. PICK more : /\ Builds(h, r, next, more) /\ IsChild(more, p) /\ ~IsLeaf(p)
                  /\ GetHeight(next, p) = height /\ Samples(more, p) \subseteq KeysAt(r, path, j)
  BY DEF NodeBuilt
<1>2. Len(path) \in Nat /\ path[1].loc = RootLocation
  BY DEF IsPath
<1>3. CASE j = 1
  BY <1>1, <1>2, <1>3 DEF PlanFits
<1>4. CASE j > 1
  <2> DEFINE id == path[j - 1].ptr.id
             slot == path[j - 1].entry
  <2>1. AtNode(r, path[j - 1], key) /\ IsBelow(h, r, path[j - 1], path[j])
    <3>1. j - 1 \in 1 .. Len(path) - 1 /\ j - 1 + 1 = j
      BY <1>2, <1>4
    <3> QED BY <3>1 DEF IsPath
  <2>2. id \in DOMAIN r /\ slot \in DOMAIN r[id].reps /\ path[j].loc = SlotLocation(id, slot)
    BY <2>1 DEF AtNode, IsBelow
  <2>3. \A x \in Samples(more, p) : Follows(x, r[id].reps, slot)
    BY <1>1, <1>4 DEF KeysAt
  <2>4. height < h[id].height /\ (slot \in r[id].exact => height + 1 = h[id].height)
    BY <1>4 DEF HeightAt
  <2> HIDE DEF id, slot
  <2>5. FitsIn(next, more, p, h[id].height, r[id], slot)
    BY <1>1, <2>3, <2>4 DEF FitsIn
  <2> QED BY <1>1, <2>2, <2>5 DEF PlanFits
<1> QED BY <1>2, <1>3, <1>4

-----------------------------------------------------------------------------
(* Inserts that split no node                                              *)

\* A node of two entries, built from two halves.
LEMMA AllocateTwo ==
  ASSUME NEW h, NEW r, GoodHeap(h, r), NEW bin, NEW base, GoodBinode(h, r, bin, base), NEW X,
         \A x \in Samples(r, bin.left) : x \in X, \A x \in Samples(r, bin.right) : x \in X,
         NEW a, a = Allocate(h, CreateTwoEntriesNode(bin))
  PROVE  NodeBuilt(h, r, a.heap, a.ptr, bin.height, X)
<1> DEFINE content == CreateTwoEntriesNode(bin)
<1>1. Samples(r, bin.left) # {} /\ Samples(r, bin.right) # {}
  BY HeightIs DEF GoodBinode
<1>2. PICK l \in Samples(r, bin.left), k \in Samples(r, bin.right) : TRUE
  BY <1>1
<1>3. /\ content.height = bin.height /\ content.keys = << {}, {bin.bit} >>
      /\ content.ptrs = << bin.left, bin.right >>
  BY DEF CreateTwoEntriesNode, NodeContent
<1>4. a = Allocate(h, content)
  OBVIOUS
<1> HIDE DEF content
<1>5. PICK o : o = [reps |-> << l, k >>, exact |-> ExactEntries(h, content)]
  OBVIOUS
<1>6. GoodNode(h, r, content, o) /\ DOMAIN o.reps = {1, 2} /\ o.reps[1] = l /\ o.reps[2] = k
  BY <1>3, <1>5, TwoIsGood
<1>7. \A t \in DOMAIN o.reps : o.reps[t] \in X
  BY <1>6
<1>8. NodeBuilt(h, r, Allocate(h, content).heap, Allocate(h, content).ptr, content.height, X)
  BY <1>6, <1>7, AllocateNode
<1> QED BY <1>3, <1>4, <1>8

\* All that is below the pointer agrees with a key up to a bit.
AgreeingThrough(r, p, l, b) == \A x \in Samples(r, p) : AgreeThrough(x, l, b)

\* A key was put beside a child.
PairBuilt(h, r, child, l, key, bin) ==
  /\ GoodBinode(h, r, bin, l) /\ bin.bit = PartAt(l, key)
  /\ bin.height = GetHeight(h, child) + 1
  /\ Samples(r, bin.left) \subseteq Samples(r, child) \cup {key}
  /\ Samples(r, bin.right) \subseteq Samples(r, child) \cup {key}

\* A key beside a child, from which it parts in a bit.
LEMMA PairIsGood ==
  ASSUME NEW h, NEW r, GoodHeap(h, r), NEW child, IsChild(r, child), NEW key \in Keys, NEW v \in Values,
         NEW l \in AllKeys, l # key, AgreeingThrough(r, child, l, PartAt(l, key)),
         NEW bin, bin = BiNodeFromExistingAndNew(h, GetMismatchingBit(l, key), child, LeafPointer(key, v))
  PROVE  PairBuilt(h, r, child, l, key, bin)
<1> DEFINE b == PartAt(l, key)
           new == LeafPointer(key, v)
<1>1. l \in SUBSET Nat /\ key \in SUBSET Nat /\ key \in AllKeys
  BY KeysAreSets, KeysAssumption
<1>2. /\ b \in Nat /\ (b \in l <=> b \notin key) /\ AgreeBelow(l, key, b)
      /\ GetMismatchingBit(l, key).value = (b \in key) /\ GetMismatchingBit(l, key).bit = b
  BY <1>1, PartAtIs DEF PartAt
<1>3. /\ IsChild(r, new) /\ IsLeaf(new) /\ Samples(r, new) = {key} /\ GetHeight(h, new) = 0
  BY LeafIs DEF GetHeight
<1>4. GetHeight(h, child) \in Nat
  BY HeightIs
<1> DEFINE height == GetHeight(h, child) + 1
<1>5. height \in Nat \ {0} /\ GetHeight(h, child) < height /\ GetHeight(h, new) < height
  BY <1>3, <1>4
<1>6. bin = IF GetMismatchingBit(l, key).value THEN BiNode(b, height, child, new)
            ELSE BiNode(b, height, new, child)
  BY <1>2, Zenon DEF BiNodeFromExistingAndNew
<1>7. \A x \in Samples(r, child) : AgreeThrough(x, l, b)
  BY DEF AgreeingThrough
<1> HIDE DEF b, new, height
<1>8. ASSUME NEW x \in Samples(r, child) PROVE AgreeBelow(x, l, b) /\ (b \in x <=> b \notin key)
  <2>1. AgreeThrough(x, l, b)
    BY <1>7
  <2>2. \A c \in Nat : c < b => c <= b
    BY <1>2
  <2>3. b <= b
    BY <1>2
  <2> QED BY <1>2, <2>1, <2>2, <2>3 DEF AgreeThrough, AgreeBelow
<1>9. AgreeBelow(key, l, b)
  BY <1>2 DEF AgreeBelow
<1>10. CASE b \in key
  <2>1. bin = BiNode(b, height, child, new)
    BY <1>2, <1>6, <1>10, Zenon
  <2>2. bin.bit = b /\ bin.height = height /\ bin.left = child /\ bin.right = new
    BY <2>1 DEF BiNode
  <2>3. GoodBinode(h, r, bin, l)
    BY <1>2, <1>3, <1>5, <1>8, <1>9, <1>10, <2>2 DEF GoodBinode, height
  <2> QED BY <1>3, <2>2, <2>3 DEF b, height, PairBuilt
<1>11. CASE b \notin key
  <2>1. bin = BiNode(b, height, new, child)
    <3>1. GetMismatchingBit(l, key).value = (b \in key)
      BY <1>2
    <3>2. ~GetMismatchingBit(l, key).value
      BY <1>11, <3>1, Zenon
    <3> QED BY <1>6, <3>2, Zenon
  <2>2. bin.bit = b /\ bin.height = height /\ bin.left = new /\ bin.right = child
    BY <2>1 DEF BiNode
  <2>3. GoodBinode(h, r, bin, l)
    BY <1>2, <1>3, <1>5, <1>8, <1>9, <1>11, <2>2 DEF GoodBinode, height
  <2> QED BY <1>3, <2>2, <2>3 DEF b, height, PairBuilt
<1> QED BY <1>10, <1>11

\* The entries of the path are still there, from one level to another.
Current(h, path, low, first) ==
  \A i \in low .. first : h[path[i].ptr.id].ptrs[path[i].entry] = path[i + 1].ptr

\* What the lemmas on inserts assume: a writer that has searched the path and chosen the level.
Inserting(h, r, path, key, level, low) ==
  /\ IsLeafPath(h, r, path, key) /\ LevelFits(h, r, path, key, level)
  /\ low \in 1 .. level.first /\ Current(h, path, low, level.first)

\* At the insert level, the new leaf fits beside the entry.
LEMMA ReplacingAt ==
  ASSUME NEW h, NEW r, GoodHeap(h, r), NEW path, NEW key, NEW level, NEW low,
         Inserting(h, r, path, key, level, low), ~level.pushdown, NEW v \in Values,
         NEW graft, graft = FALSE
  PROVE  Replacing(h, r, h[path[level.first].ptr.id], NodeWithLeaf(r, path, level.first),
                   path[level.first].entry, key, level.info,
                   h[path[level.first].ptr.id].ptrs[path[level.first].entry], LeafPointer(key, v), graft)
<1> DEFINE first == level.first
           l == LeafEntry(path).ptr.key
           b == PartAt(l, key)
           e == path[first].entry
           o == NodeWithLeaf(r, path, first)
           node == h[path[first].ptr.id]
           child == node.ptrs[e]
           new == LeafPointer(key, v)
<1>1. IsLeafPath(h, r, path, key) /\ LevelFits(h, r, path, key, level)
  BY DEF Inserting
<1>2. /\ first \in 1 .. Len(path) - 1
      /\ Describes(level.info, o.reps, e, GetMismatchingBit(l, key))
      /\ Alone(o.reps, e, b) => first = Len(path) - 1 /\ node.height = 1
  BY <1>1 DEF LevelFits
<1>3. Beside(h, r, path, key, first)
  BY <1>1, <1>2, BesideIs
<1>4. child = path[first + 1].ptr
  <2>1. first \in low .. first
    BY <1>2 DEF Inserting
  <2> QED BY <2>1 DEF Inserting, Current
<1>5. /\ NewBeside(o.reps, e, key) /\ o.reps[e] = l /\ GoodNode(h, r, node, o) /\ b \in Nat
      /\ e \in DOMAIN o.reps
  BY <1>3 DEF Beside
<1>6. Alone(o.reps, e, b) => child \in LeafPointers /\ child.key = l /\ node.height = 1
  <2> SUFFICES ASSUME Alone(o.reps, e, b) PROVE child \in LeafPointers /\ child.key = l /\ node.height = 1
    OBVIOUS
  <2>1. Len(path) \in Nat /\ first + 1 = Len(path) /\ node.height = 1
    BY <1>1, <1>2 DEF IsLeafPath, IsPath
  <2>2. child = LeafEntry(path).ptr
    BY <1>4, <2>1 DEF LeafEntry
  <2> QED BY <1>1, <2>1, <2>2 DEF IsLeafPath
<1>7. /\ IsChild(r, new) /\ Samples(r, new) = {key} /\ GetHeight(h, new) = 0
  BY <1>1, LeafIs DEF GetHeight, IsLeafPath
<1>8. o.reps[e] = l /\ node.height \in Nat \ {0} /\ FitsIn(h, r, child, node.height, o, e)
  BY <1>5 DEF GoodNode
<1>9. child = node.ptrs[e] /\ b = PartAt(l, key)
  OBVIOUS
<1> HIDE DEF l, b, o, e, node, child, new, first
<1>10. \A x : AgreeThrough(x, x, b)
  BY DEF AgreeThrough
<1>11. Alone(o.reps, e, b) =>
         /\ IsChild(r, child) /\ GetHeight(h, child) < node.height
         /\ \A x \in Samples(r, child) : AgreeThrough(x, l, b)
         /\ GetHeight(h, child) + 1 = node.height
  <2> SUFFICES ASSUME Alone(o.reps, e, b)
               PROVE  /\ IsChild(r, child) /\ GetHeight(h, child) < node.height
                      /\ \A x \in Samples(r, child) : AgreeThrough(x, l, b)
                      /\ GetHeight(h, child) + 1 = node.height
    OBVIOUS
  <2>1. child \in LeafPointers /\ child.key = l /\ node.height = 1
    BY <1>6
  <2>2. IsLeaf(child)
    <3>1. PICK k \in Keys, w \in Values : child = LeafPointer(k, w)
      BY <2>1 DEF LeafPointers
    <3> QED BY <3>1, LeafIs
  <2>3. Samples(r, child) = {l} /\ GetHeight(h, child) = 0
    BY <2>1, <2>2 DEF Samples, GetHeight
  <2> QED BY <1>8, <1>10, <2>1, <2>3 DEF FitsIn
<1>12. TwoFor(h, r, node, o, e, key, child, new)
  <2>1. GetHeight(h, new) < node.height
    BY <1>7, <1>8
  <2>2. \A x \in Samples(r, new) : AgreeThrough(x, key, b)
    BY <1>7, <1>10
  <2>3. IF Side(o.reps, e, b) = {e}
        THEN /\ IsChild(r, child) /\ GetHeight(h, child) < node.height
             /\ \A x \in Samples(r, child) : AgreeThrough(x, o.reps[e], b)
             /\ GetHeight(h, child) + 1 = node.height \/ GetHeight(h, new) + 1 = node.height
        ELSE child = node.ptrs[e]
    BY <1>8, <1>9, <1>11 DEF Alone
  <2> QED BY <1>7, <1>8, <1>9, <2>1, <2>2, <2>3 DEF TwoFor
<1>13. Describes(level.info, o.reps, e, GetMismatchingBit(o.reps[e], key))
  BY <1>2, <1>8
<1>14. Alone(o.reps, e, PartAt(o.reps[e], key)) => GetHeight(h, child) + 1 = node.height
  BY <1>8, <1>9, <1>11
<1>15. graft \in BOOLEAN /\ Grafting(node, e, level.info, child, graft)
  BY <1>9 DEF Grafting
<1>16. Replacing(h, r, node, o, e, key, level.info, child, new, graft)
  BY <1>5, <1>9, <1>12, <1>13, <1>14, <1>15 DEF Replacing
<1> QED BY <1>16 DEF node, o, e, child, new, first

\* A new entry in a copy of a node that has room.
LEMMA NormalInsertIsGood ==
  ASSUME NEW h, NEW r, GoodHeap(h, r), NEW path, NEW key, NEW level, NEW low,
         Inserting(h, r, path, key, level, low), ~level.pushdown, NEW v \in Values,
         ~IsFull(NodeOf(h, path[level.first])),
         NEW plan, plan = NormalInsert(h, path, level, LeafPointer(key, v))
  PROVE  PlanFits(h, r, plan.heap, plan.ptr, plan.loc)
<1> DEFINE first == level.first
           e == path[first].entry
           o == NodeWithLeaf(r, path, first)
           node == h[path[first].ptr.id]
           reps == r[path[first].ptr.id].reps
           new == LeafPointer(key, v)
           a == Allocate(h, AddEntry(node, level.info, new))
           X == KeysAt(r, path, first)
<1>1. IsLeafPath(h, r, path, key) /\ LevelFits(h, r, path, key, level) /\ IsPath(h, r, path, key)
  BY DEF Inserting, IsLeafPath
<1>2. plan.heap = a.heap /\ plan.ptr = a.ptr /\ plan.loc = path[first].loc
  BY DEF NormalInsert, InsertPlan, NodeOf
<1>3. first \in 1 .. Len(path) - 1 /\ first \in 1 .. Len(path)
  <2>1. Len(path) \in Nat /\ first \in 1 .. Len(path) - 1
    BY <1>1 DEF LevelFits, IsPath
  <2> QED BY <2>1
<1>4. Beside(h, r, path, key, first)
  BY <1>1, <1>3, BesideIs
<1>5. PICK graft : graft = FALSE
  OBVIOUS
<1>6. Replacing(h, r, node, o, e, key, level.info, node.ptrs[e], new, graft)
  BY <1>5, ReplacingAt
<1>7. PastAt(r, path, first, PartAt(LeafEntry(path).ptr.key, key))
  BY <1>1 DEF LevelFits, PastAt
<1>8. LeafEntry(path).ptr.key \in X /\ key \in X
  BY <1>1, <1>3, <1>7, LeafAt
<1>9. /\ \A t \in DOMAIN reps : reps[t] \in X
      /\ HeightAt(h, r, path, first, node.height)
  BY <1>1, <1>3, FollowersAt
<1>10. /\ GoodNode(h, r, node, o) /\ DOMAIN o.reps = DOMAIN reps /\ Len(o.reps) = Len(reps)
       /\ \A t \in DOMAIN o.reps : o.reps[t] \in X
  BY <1>4, <1>8, <1>9 DEF Beside
<1>11. Len(o.reps) + 1 <= MaxEntries
  <2>1. Len(node.ptrs) = Len(o.reps) /\ Len(o.reps) \in 2 .. MaxEntries
    BY <1>10 DEF GoodNode, Represents
  <2>2. MaxEntries \in Nat /\ Len(node.ptrs) # MaxEntries
    BY MaxEntriesAssumption DEF IsFull, NodeOf
  <2> QED BY <2>1, <2>2
<1>12. a = Allocate(h, AddEntry(node, level.info, new))
  OBVIOUS
<1>13. path[first].loc = path[first].loc
  OBVIOUS
<1> HIDE DEF a, X, o, e, node, new, reps
<1>14. IsGraft(a, e, 1, node.ptrs[e], graft, a.heap)
  BY <1>5 DEF IsGraft
<1>15. HasRoom(o.reps, key, X)
  BY <1>8, <1>10, <1>11 DEF HasRoom
<1>16. NodeBuilt(h, r, a.heap, a.ptr, node.height, X)
  BY <1>6, <1>10, <1>12, <1>14, <1>15, AllocateCopy
<1>17. PlanFits(h, r, a.heap, a.ptr, path[first].loc)
  BY <1>1, <1>3, <1>9, <1>16, PlacedAt DEF X
<1> QED BY <1>2, <1>17

\* A new node below the insert level, for the leaf and the new key.
LEMMA PushDownIsGood ==
  ASSUME NEW h, NEW r, GoodHeap(h, r), NEW path, NEW key, NEW level, NEW low,
         Inserting(h, r, path, key, level, low), level.pushdown, NEW v \in Values,
         NEW plan, plan = LeafNodePushDown(h, path, level, LeafPointer(key, v))
  PROVE  PlanFits(h, r, plan.heap, plan.ptr, plan.loc)
<1> DEFINE n == Len(path)
           leaf == LeafEntry(path)
           l == leaf.ptr.key
           b == PartAt(l, key)
           bin == BiNodeFromExistingAndNew(h, GetMismatchingBit(l, key), leaf.ptr, LeafPointer(key, v))
           a == Allocate(h, CreateTwoEntriesNode(bin))
           X == KeysAt(r, path, n)
<1>1. /\ IsLeafPath(h, r, path, key) /\ LevelFits(h, r, path, key, level) /\ IsPath(h, r, path, key)
      /\ Len(path) \in Nat /\ n >= 2 /\ key \in Keys /\ leaf.ptr \in LeafPointers /\ l # key
  BY DEF Inserting, IsLeafPath, IsPath
<1>2. /\ Describes(level.info, NodeWithLeaf(r, path, n - 1).reps, path[n - 1].entry, GetMismatchingBit(l, key))
      /\ Alone(NodeWithLeaf(r, path, n - 1).reps, path[n - 1].entry, b)
      /\ h[path[n - 1].ptr.id].height > 1
  BY <1>1 DEF LevelFits
<1>3. level.info.key = GetMismatchingBit(l, key)
  BY <1>2 DEF Describes
<1>4. plan.heap = a.heap /\ plan.ptr = a.ptr /\ plan.loc = path[n].loc
  BY <1>3 DEF LeafNodePushDown, InsertPlan, LeafEntry
<1>5. n - 1 \in 1 .. n - 1 /\ n \in 1 .. n /\ n - 1 + 1 = n /\ n > 1
  BY <1>1
<1>6. Beside(h, r, path, key, n - 1)
  BY <1>1, <1>5, BesideIs
<1>7. IsChild(r, leaf.ptr) /\ Samples(r, leaf.ptr) = {l} /\ GetHeight(h, leaf.ptr) = 0 /\ l \in AllKeys
  <2>1. PICK k \in Keys, w \in Values : leaf.ptr = LeafPointer(k, w)
    BY <1>1 DEF LeafPointers
  <2>2. LeafPointer(k, w).key = k
    BY DEF LeafPointer
  <2>3. l = k
    BY <2>1, <2>2, Zenon
  <2> QED BY <2>1, <2>3, LeafIs, KeysAssumption DEF GetHeight
<1>8. PastAt(r, path, n, b)
  <2> DEFINE e == path[n - 1].entry
             reps == r[path[n - 1].ptr.id].reps
             o == NodeWithLeaf(r, path, n - 1)
             newBit == GetMismatchingBit(l, key)
  <2>1. /\ NewBeside(o.reps, e, key) /\ o.reps[e] = l /\ DOMAIN o.reps = DOMAIN reps /\ b \in Nat
        /\ \A f \in DOMAIN reps \ {e} : Turn(o.reps, e, f) = Turn(reps, e, f)
    BY <1>6 DEF Beside
  <2>2. newBit.bit = b
    BY DEF PartAt
  <2>3. Ascending(o.reps) /\ e \in DOMAIN o.reps /\ b \notin PathBits(o.reps, e)
    BY <2>1 DEF NewBeside
  <2>4. Describes(level.info, o.reps, e, newBit) /\ Alone(o.reps, e, newBit.bit)
    BY <1>2, <2>2
  <2> HIDE DEF o, e, reps, newBit, b
  <2>5. PastTurns(o.reps, e, newBit.bit)
    BY <2>1, <2>2, <2>3, <2>4, AloneIs
  <2>6. PastTurns(reps, e, b)
    BY <2>1, <2>2, <2>5 DEF PastTurns
  <2> QED BY <2>6 DEF PastAt, reps, e
<1>9. l \in X /\ key \in X
  BY <1>1, <1>5, <1>8, LeafAt
<1>10. HeightAt(h, r, path, n, 1)
  <2>1. IsBelow(h, r, path[n - 1], path[n])
    BY <1>5 DEF IsPath, IsLeafPath, Inserting
  <2>2. path[n].ptr = leaf.ptr
    BY DEF LeafEntry
  <2>3. path[n - 1].entry \in r[path[n - 1].ptr.id].exact => 0 + 1 = h[path[n - 1].ptr.id].height
    BY <1>7, <2>1, <2>2 DEF IsBelow, FitsIn
  <2>4. 0 + 1 = 1
    OBVIOUS
  <2>5. h[path[n - 1].ptr.id].height \in Nat
    BY <1>6 DEF Beside, NodeFacts
  <2>6. 1 < h[path[n - 1].ptr.id].height
    BY <1>2, <2>5
  <2>7. path[n - 1].entry \notin r[path[n - 1].ptr.id].exact
    BY <2>3, <2>4, <2>5, <2>6
  <2> QED BY <2>6, <2>7 DEF HeightAt
<1>11. /\ bin = BiNodeFromExistingAndNew(h, GetMismatchingBit(l, key), leaf.ptr, LeafPointer(key, v))
       /\ a = Allocate(h, CreateTwoEntriesNode(bin)) /\ b = PartAt(l, key)
  OBVIOUS
<1> HIDE DEF bin, a, X, b, l, leaf
<1>12. AgreeingThrough(r, leaf.ptr, l, PartAt(l, key))
  BY <1>7 DEF AgreeThrough, AgreeingThrough
<1>18. PairBuilt(h, r, leaf.ptr, l, key, bin)
  BY <1>1, <1>7, <1>11, <1>12, PairIsGood
<1>13. /\ GoodBinode(h, r, bin, l) /\ bin.height = GetHeight(h, leaf.ptr) + 1
       /\ Samples(r, bin.left) \subseteq Samples(r, leaf.ptr) \cup {key}
       /\ Samples(r, bin.right) \subseteq Samples(r, leaf.ptr) \cup {key}
  BY <1>18 DEF PairBuilt
<1>14. bin.height = 1
  BY <1>7, <1>13
<1>15. (\A x \in Samples(r, bin.left) : x \in X) /\ \A x \in Samples(r, bin.right) : x \in X
  BY <1>7, <1>9, <1>13
<1>16. NodeBuilt(h, r, a.heap, a.ptr, bin.height, X)
  BY <1>11, <1>13, <1>15, AllocateTwo
<1>17. PlanFits(h, r, a.heap, a.ptr, path[n].loc)
  BY <1>1, <1>5, <1>10, <1>14, <1>16, PlacedAt DEF X
<1> QED BY <1>4, <1>17

-----------------------------------------------------------------------------
(* Splits that go up the path                                              *)

\* The halves of the node of a level, with the new key in one of them.
SplitFits(h, r, path, s, i) ==
  \E base \in KeysAt(r, path, i) :
    /\ BinodeBuilt(h, r, s.heap, s.binode, base)
    /\ s.binode.height = h[path[i].ptr.id].height + 1
    /\ PastAt(r, path, i, s.binode.bit)

\* The node above has the child that was split in its entry, and is one level higher.
IsAbove(h, path, i) ==
  /\ h[path[i].ptr.id].ptrs[path[i].entry] = path[i + 1].ptr
  /\ h[path[i].ptr.id].height = h[path[i + 1].ptr.id].height + 1

\* Nodes were added, and the halves fit into the node above.
FitsAbove(h, r, path, s, i, more, base) ==
  LET id == path[i].ptr.id
  IN  /\ Builds(h, r, s.heap, more) /\ id \in DOMAIN more
      /\ s.heap[id] = h[id] /\ more[id] = r[id]
      /\ BinodeFits(s.heap, more, s.heap[id], more[id], path[i].entry, s.binode, base)

\* The halves of a level fit into the level above.
LEMMA HalvesFitAbove ==
  ASSUME NEW h, NEW r, GoodHeap(h, r), NEW path, NEW key, IsPath(h, r, path, key),
         NEW i \in 1 .. Len(path) - 1, i + 1 \in 1 .. Len(path) - 1,
         NEW s, SplitFits(h, r, path, s, i + 1), IsAbove(h, path, i)
  PROVE  \E more, base : FitsAbove(h, r, path, s, i, more, base)
<1> DEFINE id == path[i].ptr.id
           below == path[i + 1].ptr
           e == path[i].entry
<1>1. PICK base \in KeysAt(r, path, i + 1) :
        /\ BinodeBuilt(h, r, s.heap, s.binode, base)
        /\ s.binode.height = h[below.id].height + 1
        /\ PastAt(r, path, i + 1, s.binode.bit)
  BY DEF SplitFits
<1>2. PICK more : Builds(h, r, s.heap, more) /\ GoodBinode(s.heap, more, s.binode, base)
  BY <1>1 DEF BinodeBuilt
<1>3. AtNode(r, path[i], key) /\ AtNode(r, path[i + 1], key)
  BY DEF IsPath
<1>4. i + 1 > 1 /\ i + 1 - 1 = i
  OBVIOUS
<1>5. Follows(base, r[id].reps, e) /\ PastTurns(r[id].reps, e, s.binode.bit)
  BY <1>1, <1>4 DEF KeysAt, PastAt
<1>6. id \in DOMAIN r /\ below.id \in DOMAIN r /\ ~IsLeaf(below) /\ e \in DOMAIN r[id].reps
  BY <1>3, NodeFactsHold DEF AtNode, NodeFacts
<1>7. /\ id \in DOMAIN more /\ more[id] = r[id]
      /\ s.heap[id] = h[id] /\ s.heap[below.id] = h[below.id]
  BY <1>2, <1>6 DEF Builds, Extends, GoodHeap
<1>8. h[id].ptrs[e] = below /\ h[id].height = h[below.id].height + 1
  BY DEF IsAbove
<1>9. GetHeight(s.heap, below) = h[below.id].height
  BY <1>6, <1>7 DEF GetHeight
<1> HIDE DEF id, below, e
<1>10. /\ s.binode.height = s.heap[id].height /\ GetHeight(s.heap, s.heap[id].ptrs[e]) + 1 = s.heap[id].height
  BY <1>1, <1>7, <1>8, <1>9
<1>11. BinodeFits(s.heap, more, s.heap[id], more[id], e, s.binode, base)
  BY <1>2, <1>5, <1>6, <1>7, <1>10 DEF BinodeFits
<1> QED BY <1>2, <1>7, <1>11 DEF FitsAbove, id, e

\* One level up, a full node is split.
LEMMA SplitGoesUp ==
  ASSUME NEW h, NEW r, GoodHeap(h, r), NEW path, NEW key, IsPath(h, r, path, key),
         NEW i \in 1 .. Len(path) - 1, i + 1 \in 1 .. Len(path) - 1,
         NEW s, SplitFits(h, r, path, s, i + 1), IsAbove(h, path, i),
         NEW t, t = IntegrateAndSplit(s.heap, path[i], s.binode)
  PROVE  SplitFits(h, r, path, t, i)
<1> DEFINE entry == path[i]
           id == entry.ptr.id
           reps == r[id].reps
           bin == s.binode
<1>1. PICK more, base : FitsAbove(h, r, path, s, i, more, base)
  BY HalvesFitAbove
<1>2. /\ Builds(h, r, s.heap, more) /\ GoodHeap(s.heap, more) /\ id \in DOMAIN more
      /\ s.heap[id] = h[id] /\ more[id] = r[id]
      /\ BinodeFits(s.heap, more, s.heap[id], more[id], entry.entry, bin, base)
  BY <1>1 DEF FitsAbove, Builds
<1>3. t = IntegrateAndSplit(s.heap, entry, bin)
  OBVIOUS
<1>4. entry.entry \in DOMAIN reps
  BY DEF IsPath, AtNode
<1>5. /\ \A j \in DOMAIN reps : \A x \in AllKeys : Follows(x, reps, j) => x \in KeysAt(r, path, i)
      /\ PastAt(r, path, i, MostSignificantBit(h[id]))
  BY FollowersAt
<1>11. id = entry.ptr.id /\ reps = r[id].reps /\ DOMAIN r \subseteq DOMAIN h
  BY DEF GoodHeap
<1>12. id = path[i].ptr.id
  OBVIOUS
<1> HIDE DEF entry, id, reps, bin
<1>6. SplitWithHalves(s.heap, more, entry.ptr.id, entry.entry, t)
  <2>1. /\ entry.ptr.id \in DOMAIN more
        /\ BinodeFits(s.heap, more, s.heap[entry.ptr.id], more[entry.ptr.id], entry.entry, bin, base)
    BY <1>2, <1>11
  <2> QED BY <1>2, <1>3, <2>1, IntegrateAndSplitIsGood
<1>7. PICK l : Follows(l, reps, entry.entry) /\ BinodeBuilt(s.heap, more, t.heap, t.binode, l)
  BY <1>2, <1>6, <1>11 DEF SplitWithHalves
<1>8. PICK next : Builds(s.heap, more, t.heap, next) /\ GoodBinode(t.heap, next, t.binode, l)
  BY <1>7 DEF BinodeBuilt
<1>9. Builds(h, r, t.heap, next)
  BY <1>2, <1>8, <1>11, BuildsOn
<1>10. l \in AllKeys
  BY <1>8 DEF GoodBinode
<1>13. l \in KeysAt(r, path, i)
  BY <1>4, <1>5, <1>7, <1>10
<1>14. BinodeBuilt(h, r, t.heap, t.binode, l)
  BY <1>8, <1>9 DEF BinodeBuilt
<1>15. t.binode.height = h[id].height + 1 /\ PastAt(r, path, i, t.binode.bit)
  BY <1>2, <1>5, <1>6, <1>11 DEF SplitWithHalves
<1> QED BY <1>12, <1>13, <1>14, <1>15 DEF SplitFits

\* The first of them, at the insert level: the full node is split, or its parent has to
\* take the node and the new leaf.
SplitBase(h, path, level, new) ==
  LET node == NodeOf(h, path[level.first])
  IN  IF level.info.key.bit > MostSignificantBit(node) THEN Split(h, node, level.info, new)
      ELSE [heap |-> h, binode |->
              BiNodeFromExistingAndNew(h, level.info.key, path[level.first].ptr, new)]

\* Below a node all keys agree up to a bit that none of its entries part at.
LEMMA AgreeInFront ==
  ASSUME NEW reps, Ascending(reps), Len(reps) >= 2, NEW e \in DOMAIN reps, NEW b \in Nat, NEW m \in Nat, b < m,
         IsFirstTurn(reps, m), NEW l, Follows(l, reps, e), NEW j \in DOMAIN reps
  PROVE  AgreeThrough(reps[j], l, b)
<1> SUFFICES ASSUME NEW c \in Nat, c <= b PROVE c \in reps[j] <=> c \in l
  BY DEF AgreeThrough
<1>1. PICK f \in DOMAIN reps \ {e} : Turn(reps, e, f) = m
  BY DEF IsFirstTurn
<1>2. c \in l <=> c \in reps[e]
  <2>1. c <= Turn(reps, e, f)
    BY <1>1
  <2> QED BY <2>1 DEF Follows
<1>3. CASE j = e
  BY <1>2, <1>3
<1>4. CASE j # e
  <2>1. m <= Turn(reps, e, j) /\ Turn(reps, e, j) \in Nat /\ AgreeBelow(reps[e], reps[j], Turn(reps, e, j))
    BY <1>4, TurnIs DEF IsFirstTurn
  <2>2. c < Turn(reps, e, j)
    BY <2>1
  <2> QED BY <1>2, <2>1, <2>2 DEF AgreeBelow
<1> QED BY <1>3, <1>4

\* The halves at the insert level fit.
LEMMA BaseFits ==
  ASSUME NEW h, NEW r, GoodHeap(h, r), NEW path, NEW key, NEW level, NEW low,
         Inserting(h, r, path, key, level, low), ~level.pushdown, NEW v \in Values,
         NEW s, s = SplitBase(h, path, level, LeafPointer(key, v))
  PROVE  SplitFits(h, r, path, s, level.first)
<1> DEFINE first == level.first
           l == LeafEntry(path).ptr.key
           b == PartAt(l, key)
           e == path[first].entry
           id == path[first].ptr.id
           reps == r[id].reps
           o == NodeWithLeaf(r, path, first)
           node == h[id]
           m == MostSignificantBit(node)
           new == LeafPointer(key, v)
<1>1. IsLeafPath(h, r, path, key) /\ LevelFits(h, r, path, key, level) /\ IsPath(h, r, path, key) /\ key \in Keys
  BY DEF Inserting, IsLeafPath
<1>2. first \in 1 .. Len(path) - 1 /\ first \in 1 .. Len(path) /\ PastAt(r, path, first, b)
  <2>1. Len(path) \in Nat /\ first \in 1 .. Len(path) - 1
    BY <1>1 DEF LevelFits, IsPath
  <2> QED BY <1>1, <2>1 DEF LevelFits, PastAt
<1>3. Beside(h, r, path, key, first)
  BY <1>1, <1>2, BesideIs
<1>4. /\ GoodNode(h, r, node, o) /\ NewBeside(o.reps, e, key) /\ o.reps[e] = l /\ b \in Nat /\ l # key
      /\ b \notin PathBits(reps, e) /\ Follows(l, reps, e) /\ e \in DOMAIN reps /\ l \in AllKeys
  <2>1. /\ GoodNode(h, r, node, o) /\ NewBeside(o.reps, e, key) /\ o.reps[e] = l /\ b \in Nat
        /\ b \notin PathBits(reps, e) /\ Follows(l, reps, e) /\ e \in DOMAIN reps
    BY <1>3 DEF Beside
  <2>2. l \in KeysAt(r, path, first)
    BY <1>1, <1>2, LeafAt
  <2> QED BY <2>1, <2>2 DEF NewBeside, KeysAt
<1>5. /\ Ascending(reps) /\ Len(reps) >= 2 /\ IsFirstTurn(reps, m) /\ m \in Nat
      /\ path[first].ptr = NodePointer(id) /\ ~IsLeaf(path[first].ptr) /\ id \in DOMAIN r
      /\ node.height \in Nat
  BY <1>1, <1>2, <1>3 DEF Beside, NodeFacts, IsPath, AtNode
<1>6. Describes(level.info, o.reps, e, GetMismatchingBit(l, key))
  BY <1>1 DEF LevelFits
<1>7. level.info.key = GetMismatchingBit(l, key) /\ level.info.key.bit = b
  BY <1>6 DEF Describes, PartAt
<1>8. l \in KeysAt(r, path, first) /\ PastAt(r, path, first, m)
  BY <1>1, <1>2, LeafAt, FollowersAt
<1>9. s = IF b > m THEN Split(h, node, level.info, new)
          ELSE [heap |-> h, binode |-> BiNodeFromExistingAndNew(h, GetMismatchingBit(l, key), path[first].ptr, new)]
  BY <1>7 DEF SplitBase, NodeOf
<1>21. b = PartAt(l, key) /\ id = path[first].ptr.id /\ node = h[id] /\ reps = r[id].reps
       /\ o = NodeWithLeaf(r, path, first) /\ e = path[first].entry /\ first = level.first
       /\ m = MostSignificantBit(node) /\ new = LeafPointer(key, v)
  OBVIOUS
<1> HIDE DEF l, b, e, id, reps, o, node, m, new, first
<1>10. CASE b > m
  <2>1. s = Split(h, node, level.info, new)
    BY <1>9, <1>10
  <2>2. PICK graft : graft = FALSE
    OBVIOUS
  <2>3. PICK child : child = node.ptrs[e]
    OBVIOUS
  <2>4. Replacing(h, r, node, o, e, key, level.info, child, new, graft)
    <3>1. Replacing(h, r, h[path[level.first].ptr.id], NodeWithLeaf(r, path, level.first),
                    path[level.first].entry, key, level.info,
                    h[path[level.first].ptr.id].ptrs[path[level.first].entry], LeafPointer(key, v), graft)
      BY <2>2, ReplacingAt
    <3> QED BY <1>21, <2>3, <3>1
  <2>5. MostSignificantBit(node) < PartAt(o.reps[e], key)
    <3>1. m < b
      BY <1>4, <1>5, <1>10
    <3> QED BY <1>4, <1>21, <3>1
  <2>6. SplitBuilt(h, r, node, o, e, child, graft, s)
    BY <1>4, <2>1, <2>4, <2>5, SplitIsGood
  <2>7. /\ BinodeBuilt(h, r, s.heap, s.binode, l)
        /\ s.binode.bit = m /\ s.binode.height = node.height + 1
    BY <1>4, <1>21, <2>2, <2>6 DEF SplitBuilt, AfterSplit
  <2> QED BY <1>8, <1>21, <2>7 DEF SplitFits
<1>11. CASE ~(b > m)
  <2> DEFINE child == path[first].ptr
             bin == BiNodeFromExistingAndNew(h, GetMismatchingBit(l, key), child, new)
  <2>1. s.heap = h /\ s.binode = bin
    BY <1>9, <1>11
  <2>2. b < m
    <3>1. PICK f \in DOMAIN reps \ {e} : Turn(reps, e, f) = m
      BY <1>4, <1>5 DEF IsFirstTurn
    <3>2. m \in PathBits(reps, e)
      BY <3>1 DEF PathBits, Turn
    <3>3. b # m
      BY <1>4, <3>2
    <3> QED BY <1>4, <1>5, <1>11, <3>3
  <2>3. AgreeingThrough(r, child, l, PartAt(l, key))
    <3>1. Samples(r, child) = { reps[j] : j \in DOMAIN reps }
      BY <1>5, <1>21 DEF Samples
    <3>2. \A j \in DOMAIN reps : AgreeThrough(reps[j], l, b)
      BY <1>4, <1>5, <2>2, AgreeInFront
    <3> QED BY <1>21, <3>1, <3>2 DEF AgreeingThrough
  <2>4. IsChild(r, child) /\ GetHeight(h, child) = node.height
    BY <1>5, <1>21 DEF IsChild, GetHeight
  <2>5. bin = BiNodeFromExistingAndNew(h, GetMismatchingBit(l, key), child, LeafPointer(key, v))
    BY <1>21
  <2> HIDE DEF child, bin
  <2>6. PairBuilt(h, r, child, l, key, bin)
    BY <1>1, <1>4, <2>3, <2>4, <2>5, PairIsGood
  <2>7. GoodBinode(h, r, bin, l) /\ bin.bit = b /\ bin.height = node.height + 1
    BY <1>21, <2>4, <2>6 DEF PairBuilt
  <2>8. BinodeBuilt(h, r, s.heap, s.binode, l)
    BY <2>1, <2>7, BuildsNothing DEF BinodeBuilt
  <2> QED BY <1>2, <1>8, <1>21, <2>1, <2>7, <2>8 DEF SplitFits
<1> QED BY <1>10, <1>11

-----------------------------------------------------------------------------
(* How far up a split goes, and how far up the locks                       *)

IntegrateAbove(below, entry) == IntegrateAndSplit(below.heap, entry, below.binode)
Climbing == INSTANCE FoldTheorems WITH Op <- IntegrateAbove

\* A node that a split at its level passes on to its parent.
PassesUp(h, path, j) ==
  /\ IsFull(NodeOf(h, path[j + 1]))
  /\ NodeOf(h, path[j + 1]).height + 1 = NodeOf(h, path[j]).height

\* Locking goes at least as far up as full nodes of consecutive heights pass a split up.
LEMMA TopLockLevelIs ==
  ASSUME NEW h, NEW path, NEW level, level.first \in Nat \ {0}, level.pushdown \in BOOLEAN,
         NEW top, top = TopLockLevel(h, path, level)
  PROVE  /\ top \in 1 .. level.first
         /\ level.pushdown => top = level.first
         /\ ~level.pushdown => \A i \in 1 .. level.first - 1 :
              (\A j \in i + 1 .. level.first - 1 : PassesUp(h, path, j)) => top <= i
<1> DEFINE first == level.first
           tops == { i \in 1 .. first - 1 : \A j \in i + 1 .. first - 1 : PassesUp(h, path, j) }
<1>1. CASE level.pushdown \/ first = 1
  <2>1. top = first
    BY <1>1 DEF TopLockLevel
  <2> QED BY <1>1, <2>1
<1>2. CASE ~(level.pushdown \/ first = 1)
  <2>1. top = Min(tops)
    BY <1>2 DEF TopLockLevel, PassesUp
  <2>2. first - 1 \in tops /\ tops \subseteq 1 .. first - 1
    BY <1>2
  <2>3. \A i \in 1 .. first - 1 :
          (\A j \in i + 1 .. first - 1 : PassesUp(h, path, j)) => i \in tops
    OBVIOUS
  <2> HIDE DEF tops
  <2>4. tops \subseteq Nat /\ tops # {}
    BY <2>2
  <2>5. Min(tops) \in tops /\ \A i \in tops : Min(tops) <= i
    BY <2>4, MinIsLeast
  <2>6. top \in 1 .. first - 1 /\ \A i \in tops : top <= i
    BY <2>1, <2>2, <2>5
  <2>7. top \in 1 .. first
    BY <2>6
  <2> QED BY <1>2, <2>3, <2>6, <2>7
<1> QED BY <1>1, <1>2

\* Splitting from the insert level upwards, the halves fit on every level.
LEMMA SplitsFit ==
  ASSUME NEW h, NEW r, GoodHeap(h, r), NEW path, NEW key, IsPath(h, r, path, key),
         NEW first \in 1 .. Len(path) - 1, NEW top \in 1 .. first,
         \A i \in top .. first - 1 : IsAbove(h, path, i),
         NEW base, SplitFits(h, r, path, base, first)
  PROVE  SplitFits(h, r, path, Climbing!Climbed(base, path, top, first), top)
<1>1. Len(path) \in Nat
  BY DEF IsPath
<1>2. top \in Nat /\ first \in Nat /\ top <= first
  BY <1>1
<1>chain. PICK s : Climbing!ChainUp(s, base, path, top, first)
  BY <1>2, Climbing!ClimbIsChain
<1>3. /\ s[first] = base
      /\ \A i \in top .. first - 1 : s[i] = IntegrateAbove(s[i + 1], path[i])
      /\ Climbing!Climbed(base, path, top, first) = s[top]
  BY <1>chain DEF Climbing!ChainUp
<1> DEFINE Bad == { i \in top .. first : ~SplitFits(h, r, path, s[i], i) }
<1>4. ASSUME NEW i \in top .. first - 1, SplitFits(h, r, path, s[i + 1], i + 1)
      PROVE  SplitFits(h, r, path, s[i], i)
  <2>1. s[i] = IntegrateAndSplit(s[i + 1].heap, path[i], s[i + 1].binode)
    BY <1>3 DEF IntegrateAbove
  <2>2. i \in 1 .. Len(path) - 1 /\ i + 1 \in 1 .. Len(path) - 1
    BY <1>1, <1>2
  <2> QED BY <1>4, <2>1, <2>2, SplitGoesUp
<1>5. Bad = {}
  <2> SUFFICES ASSUME Bad # {} PROVE FALSE
    OBVIOUS
  <2>1. Bad \subseteq Nat /\ \A i \in Bad : i <= first
    BY <1>2
  <2> HIDE DEF Bad
  <2>2. PICK i \in Bad : \A k \in Bad : k <= i
    BY <1>2, <2>1, GreatestNatural
  <2> USE DEF Bad
  <2>3. i \in top .. first /\ ~SplitFits(h, r, path, s[i], i) /\ i # first
    BY <1>3, <2>2
  <2>4. i \in top .. first - 1 /\ i + 1 \in top .. first /\ ~(i + 1 <= i)
    BY <1>2, <2>3
  <2>5. SplitFits(h, r, path, s[i + 1], i + 1)
    BY <2>2, <2>4
  <2> QED BY <1>4, <2>3, <2>4, <2>5
<1>6. top \in top .. first
  BY <1>2
<1> QED BY <1>3, <1>5, <1>6

\* The halves of the topmost split are worked into a copy of the node above, which has room.
LEMMA PullUpFits ==
  ASSUME NEW h, NEW r, GoodHeap(h, r), NEW path, NEW key, IsPath(h, r, path, key),
         NEW i \in 1 .. Len(path) - 1, i + 1 \in 1 .. Len(path) - 1,
         NEW s, SplitFits(h, r, path, s, i + 1), IsAbove(h, path, i), ~IsFull(NodeOf(h, path[i])),
         NEW c, c = IntegrateIntoCopy(s.heap, path[i], s.binode)
  PROVE  PlanFits(h, r, c.heap, c.ptr, path[i].loc)
<1> DEFINE entry == path[i]
           id == entry.ptr.id
           reps == r[id].reps
           X == KeysAt(r, path, i)
<1>1. PICK more, base : FitsAbove(h, r, path, s, i, more, base)
  BY HalvesFitAbove
<1>2. /\ Builds(h, r, s.heap, more) /\ GoodHeap(s.heap, more) /\ id \in DOMAIN more
      /\ s.heap[id] = h[id] /\ more[id] = r[id]
      /\ BinodeFits(s.heap, more, s.heap[id], more[id], entry.entry, s.binode, base)
  BY <1>1 DEF FitsAbove, Builds
<1>4. entry.entry \in DOMAIN reps
  BY DEF IsPath, AtNode
<1>5. /\ \A j \in DOMAIN reps : reps[j] \in X
      /\ \A j \in DOMAIN reps : \A x \in AllKeys : Follows(x, reps, j) => x \in X
      /\ HeightAt(h, r, path, i, h[id].height)
  BY FollowersAt
<1>6. ~IsFull(h[id]) /\ DOMAIN r \subseteq DOMAIN h /\ id = entry.ptr.id /\ reps = r[id].reps
  BY DEF NodeOf, GoodHeap
<1>7. i \in 1 .. Len(path)
  <2>1. Len(path) \in Nat
    BY DEF IsPath
  <2> QED BY <2>1
<1> HIDE DEF entry, id, reps, X
<1>8. NodeBuilt(s.heap, more, c.heap, c.ptr, h[id].height, X)
  <2>1. entry.ptr.id \in DOMAIN more /\ ~IsFull(s.heap[entry.ptr.id])
        /\ BinodeFits(s.heap, more, s.heap[entry.ptr.id], more[entry.ptr.id], entry.entry, s.binode, base)
    BY <1>2, <1>6
  <2>2. /\ \A t \in DOMAIN more[entry.ptr.id].reps : more[entry.ptr.id].reps[t] \in X
        /\ \A x \in AllKeys : Follows(x, more[entry.ptr.id].reps, entry.entry) => x \in X
    BY <1>2, <1>4, <1>5, <1>6
  <2>3. c = IntegrateIntoCopy(s.heap, entry, s.binode)
    BY DEF entry
  <2>4. NodeBuilt(s.heap, more, c.heap, c.ptr, s.heap[entry.ptr.id].height, X)
    BY <1>2, <2>1, <2>2, <2>3, IntegrateIntoCopyIsGood
  <2> QED BY <1>2, <1>6, <2>4
<1>9. NodeBuilt(h, r, c.heap, c.ptr, h[id].height, X)
  <2>1. PICK next : /\ Builds(s.heap, more, c.heap, next) /\ IsChild(next, c.ptr) /\ ~IsLeaf(c.ptr)
                    /\ GetHeight(c.heap, c.ptr) = h[id].height /\ Samples(next, c.ptr) \subseteq X
    BY <1>8 DEF NodeBuilt
  <2>2. Builds(h, r, c.heap, next)
    BY <1>2, <1>6, <2>1, BuildsOn
  <2> QED BY <2>1, <2>2 DEF NodeBuilt
<1> QED BY <1>5, <1>7, <1>9, PlacedAt DEF X, id, entry

\* Or they become a new node of two entries below it.
LEMMA IntermediateFits ==
  ASSUME NEW h, NEW r, GoodHeap(h, r), NEW path, NEW key, IsPath(h, r, path, key),
         NEW i \in 1 .. Len(path) - 1, NEW s, SplitFits(h, r, path, s, i),
         i > 1 => h[path[i - 1].ptr.id].height # s.binode.height,
         NEW a, a = Allocate(s.heap, CreateTwoEntriesNode(s.binode))
  PROVE  PlanFits(h, r, a.heap, a.ptr, path[i].loc)
<1> DEFINE X == KeysAt(r, path, i)
           bin == s.binode
           height == h[path[i].ptr.id].height
<1>1. PICK base \in X : /\ BinodeBuilt(h, r, s.heap, bin, base)
                        /\ bin.height = height + 1 /\ PastAt(r, path, i, bin.bit)
  BY DEF SplitFits
<1>2. PICK more : Builds(h, r, s.heap, more) /\ GoodBinode(s.heap, more, bin, base) /\ GoodHeap(s.heap, more)
  BY <1>1 DEF BinodeBuilt, Builds
<1>3. HeightAt(h, r, path, i, height)
  BY FollowersAt
<1>4. Len(path) \in Nat /\ i \in Nat /\ i \in 1 .. Len(path)
  <2>1. Len(path) \in Nat
    BY DEF IsPath
  <2> QED BY <2>1
<1>5. height \in Nat
  BY NodeFactsHold DEF IsPath, NodeFacts
<1>6. i > 1 => /\ Ascending(r[path[i - 1].ptr.id].reps)
               /\ path[i - 1].entry \in DOMAIN r[path[i - 1].ptr.id].reps
               /\ h[path[i - 1].ptr.id].height \in Nat
  <2> SUFFICES ASSUME i > 1
               PROVE  /\ Ascending(r[path[i - 1].ptr.id].reps)
                      /\ path[i - 1].entry \in DOMAIN r[path[i - 1].ptr.id].reps
                      /\ h[path[i - 1].ptr.id].height \in Nat
    OBVIOUS
  <2>1. i - 1 \in 1 .. Len(path) - 1
    BY <1>4
  <2>2. AtNode(r, path[i - 1], key)
    BY <2>1 DEF IsPath
  <2> QED BY <2>2, NodeFactsHold DEF NodeFacts, AtNode
<1> HIDE DEF X, bin, height
<1>7. HeightAt(h, r, path, i, bin.height)
  <2> SUFFICES ASSUME i > 1
               PROVE  /\ bin.height < h[path[i - 1].ptr.id].height
                      /\ path[i - 1].entry \in r[path[i - 1].ptr.id].exact =>
                           bin.height + 1 = h[path[i - 1].ptr.id].height
    BY DEF HeightAt
  <2>1. /\ height < h[path[i - 1].ptr.id].height
        /\ path[i - 1].entry \in r[path[i - 1].ptr.id].exact => height + 1 = h[path[i - 1].ptr.id].height
    BY <1>3 DEF HeightAt
  <2>2. h[path[i - 1].ptr.id].height # bin.height
    BY DEF bin
  <2> QED BY <1>1, <1>5, <1>6, <2>1, <2>2
<1>8. ASSUME NEW x \in AllKeys, AgreeBelow(x, base, bin.bit) PROVE x \in X
  <2>1. i > 1 => Follows(x, r[path[i - 1].ptr.id].reps, path[i - 1].entry)
    <3> SUFFICES ASSUME i > 1 PROVE Follows(x, r[path[i - 1].ptr.id].reps, path[i - 1].entry)
      OBVIOUS
    <3>1. /\ Follows(base, r[path[i - 1].ptr.id].reps, path[i - 1].entry)
          /\ PastTurns(r[path[i - 1].ptr.id].reps, path[i - 1].entry, bin.bit)
      BY <1>1 DEF X, KeysAt, PastAt
    <3>2. bin.bit \in Nat
      BY <1>2 DEF GoodBinode
    <3> QED BY <1>6, <1>8, <3>1, <3>2, AgreeAndFollow DEF PastTurns
  <2> QED BY <2>1 DEF X, KeysAt
<1>9. /\ \A x \in Samples(more, bin.left) : x \in X
      /\ \A x \in Samples(more, bin.right) : x \in X
  <2>1. /\ IsChild(more, bin.left) /\ IsChild(more, bin.right)
        /\ \A x \in Samples(more, bin.left) : AgreeBelow(x, base, bin.bit)
        /\ \A x \in Samples(more, bin.right) : AgreeBelow(x, base, bin.bit)
    BY <1>2 DEF GoodBinode
  <2>2. Samples(more, bin.left) \subseteq AllKeys /\ Samples(more, bin.right) \subseteq AllKeys
    BY <1>2, <2>1, HeightIs
  <2> QED BY <1>8, <2>1, <2>2
<1>10. a = Allocate(s.heap, CreateTwoEntriesNode(bin))
  BY DEF bin
<1>11. NodeBuilt(s.heap, more, a.heap, a.ptr, bin.height, X)
  BY <1>2, <1>9, <1>10, AllocateTwo
<1>12. NodeBuilt(h, r, a.heap, a.ptr, bin.height, X)
  <2>1. PICK next : /\ Builds(s.heap, more, a.heap, next) /\ IsChild(next, a.ptr) /\ ~IsLeaf(a.ptr)
                    /\ GetHeight(a.heap, a.ptr) = bin.height /\ Samples(next, a.ptr) \subseteq X
    BY <1>11 DEF NodeBuilt
  <2>2. Builds(h, r, a.heap, next)
    BY <1>2, <2>1, BuildsOn DEF GoodHeap
  <2> QED BY <2>1, <2>2 DEF NodeBuilt
<1> QED BY <1>4, <1>7, <1>12, PlacedAt DEF X

\* Where the splits end, the halves fit, whichever way they are placed.
LEMMA PlacedHalvesFit ==
  ASSUME NEW h, NEW r, GoodHeap(h, r), NEW path, NEW key, IsPath(h, r, path, key),
         NEW top \in 1 .. Len(path) - 1, NEW s, SplitFits(h, r, path, s, top),
         top > 1 => h[path[top - 1].ptr.id].ptrs[path[top - 1].entry] = path[top].ptr,
         top > 1 /\ h[path[top - 1].ptr.id].height = h[path[top].ptr.id].height + 1 =>
           ~IsFull(NodeOf(h, path[top - 1])),
         NEW before, NEW plan, plan = PlaceHalves(s, path, top, before)
  PROVE  PlanFits(h, r, plan.heap, plan.ptr, plan.loc)
<1> DEFINE up == top - 1
<1>1. Len(path) \in Nat /\ top \in Nat
  BY DEF IsPath
<1>2. s.binode.height = h[path[top].ptr.id].height + 1
  BY DEF SplitFits
<1>3. top > 1 => up \in 1 .. Len(path) - 1 /\ up + 1 = top /\ path[up].ptr.id \in DOMAIN r
  <2> SUFFICES ASSUME top > 1
               PROVE  up \in 1 .. Len(path) - 1 /\ up + 1 = top /\ path[up].ptr.id \in DOMAIN r
    OBVIOUS
  <2>1. up \in 1 .. Len(path) - 1 /\ up + 1 = top
    BY <1>1
  <2> HIDE DEF up
  <2>2. AtNode(r, path[up], key)
    BY <2>1 DEF IsPath
  <2> QED BY <2>1, <2>2 DEF AtNode
<1>4. top > 1 => s.heap[path[up].ptr.id] = h[path[up].ptr.id]
  <2>1. PICK base : BinodeBuilt(h, r, s.heap, s.binode, base)
    BY DEF SplitFits
  <2>2. PICK more : Builds(h, r, s.heap, more)
    BY <2>1 DEF BinodeBuilt
  <2> QED BY <1>3, <2>2 DEF Builds, GoodHeap
<1>5. CASE top > 1 /\ NodeOf(s.heap, path[up]).height = s.binode.height
  <2> DEFINE c == IntegrateIntoCopy(s.heap, path[up], s.binode)
  <2>1. plan.heap = c.heap /\ plan.ptr = c.ptr /\ plan.loc = path[up].loc
    BY <1>5 DEF PlaceHalves, FinalParentPullUp, InsertPlan
  <2>2. h[path[up].ptr.id].height = h[path[top].ptr.id].height + 1
    BY <1>2, <1>4, <1>5 DEF NodeOf
  <2>3. IsAbove(h, path, up) /\ ~IsFull(NodeOf(h, path[up]))
    BY <1>3, <1>5, <2>2 DEF IsAbove
  <2>4. c = IntegrateIntoCopy(s.heap, path[up], s.binode)
    OBVIOUS
  <2>5. SplitFits(h, r, path, s, up + 1) /\ up \in 1 .. Len(path) - 1 /\ up + 1 \in 1 .. Len(path) - 1
    BY <1>3, <1>5
  <2> HIDE DEF c, up
  <2>6. PlanFits(h, r, c.heap, c.ptr, path[up].loc)
    BY <2>3, <2>4, <2>5, PullUpFits
  <2> QED BY <2>1, <2>6
<1>6. CASE ~(top > 1 /\ NodeOf(s.heap, path[up]).height = s.binode.height)
  <2> DEFINE a == Allocate(s.heap, CreateTwoEntriesNode(s.binode))
  <2>1. plan.heap = a.heap /\ plan.ptr = a.ptr /\ plan.loc = path[top].loc
    BY <1>6 DEF PlaceHalves, IntermediateNode, InsertPlan
  <2>2. a = Allocate(s.heap, CreateTwoEntriesNode(s.binode))
    OBVIOUS
  <2>3. top > 1 => h[path[top - 1].ptr.id].height # s.binode.height
    BY <1>4, <1>6 DEF NodeOf
  <2> HIDE DEF a, up
  <2>4. PlanFits(h, r, a.heap, a.ptr, path[top].loc)
    BY <2>2, <2>3, IntermediateFits
  <2> QED BY <2>1, <2>4
<1> QED BY <1>5, <1>6

\* An insert into a full node fits, however far the split goes up.
LEMMA SplitUpwardsIsGood ==
  ASSUME NEW h, NEW r, GoodHeap(h, r), NEW path, NEW key, NEW level, NEW low,
         Inserting(h, r, path, key, level, low), ~level.pushdown, NEW v \in Values,
         IsFull(NodeOf(h, path[level.first])), low = TopLockLevel(h, path, level),
         NEW plan, plan = SplitUpwards(h, path, level, LeafPointer(key, v))
  PROVE  PlanFits(h, r, plan.heap, plan.ptr, plan.loc)
<1> DEFINE first == level.first
           node == NodeOf(h, path[first])
           new == LeafPointer(key, v)
           isSplit == level.info.key.bit > MostSignificantBit(node)
           Full(j) == /\ IsFull(NodeOf(h, path[j]))
                      /\ NodeOf(h, path[j]).height = NodeOf(h, path[j + 1]).height + 1
           tops == { i \in 1 .. first : \A j \in i .. first - 1 : Full(j) }
           top == Min(tops)
           split == IF isSplit THEN top .. first ELSE top .. first - 1
           before == { path[i].ptr.id : i \in split }
           base == IF isSplit THEN Split(h, node, level.info, new)
                   ELSE [heap |-> h, binode |->
                           BiNodeFromExistingAndNew(h, level.info.key, path[first].ptr, new)]
           halves == Climbing!Climbed(base, path, top, first)
<1>1. plan = PlaceHalves(halves, path, top, before)
  BY DEF SplitUpwards, Climbing!Climbed, Climbing!Climbs, IntegrateAbove
<1>2. /\ IsPath(h, r, path, key) /\ Len(path) \in Nat /\ first \in 1 .. Len(path) - 1 /\ first \in Nat
      /\ Current(h, path, low, first) /\ level.pushdown \in BOOLEAN
  BY DEF Inserting, IsLeafPath, IsPath, LevelFits
<1>3. first \in tops /\ tops \subseteq 1 .. first
  BY <1>2
<1>4. \A i \in tops : \A j \in i .. first - 1 : Full(j)
  OBVIOUS
<1>5. \A i \in 1 .. first : (\A j \in i .. first - 1 : Full(j)) => i \in tops
  OBVIOUS
<1>6. base = SplitBase(h, path, level, new)
  BY DEF SplitBase
<1>7. IsFull(NodeOf(h, path[first]))
  OBVIOUS
<1> HIDE DEF tops, base
<1>8. tops \subseteq Nat /\ tops # {}
  BY <1>2, <1>3
<1>9. top \in tops /\ \A i \in tops : top <= i
  BY <1>8, MinIsLeast
<1> HIDE DEF top
<1>10. top \in 1 .. first /\ top \in Nat /\ \A j \in top .. first - 1 : Full(j)
  <2>1. top \in 1 .. first
    BY <1>3, <1>9
  <2>2. \A j \in top .. first - 1 : Full(j)
    BY <1>4, <1>9, Zenon
  <2> QED BY <2>1, <2>2
<1>11. top > 1 => ~Full(top - 1)
  <2> SUFFICES ASSUME top > 1, Full(top - 1) PROVE FALSE
    OBVIOUS
  <2>1. top - 1 \in 1 .. first /\ \A j \in top - 1 .. first - 1 : j = top - 1 \/ j \in top .. first - 1
    BY <1>2, <1>10
  <2>2. top - 1 \in tops
    BY <1>5, <1>10, <2>1
  <2> QED BY <1>9, <1>10, <2>2
<1>12. \A j \in top .. first - 1 : PassesUp(h, path, j)
  <2> SUFFICES ASSUME NEW j \in top .. first - 1 PROVE PassesUp(h, path, j)
    OBVIOUS
  <2>1. j + 1 = first \/ j + 1 \in top .. first - 1
    BY <1>2, <1>10
  <2>2. IsFull(NodeOf(h, path[j + 1]))
    BY <1>7, <1>10, <2>1
  <2> QED BY <1>10, <2>2 DEF PassesUp
<1>13. first \in Nat \ {0}
  BY <1>2
<1>14. /\ low \in 1 .. first
       /\ \A i \in 1 .. first - 1 : (\A j \in i + 1 .. first - 1 : PassesUp(h, path, j)) => low <= i
  BY <1>2, <1>13, TopLockLevelIs
<1>15. (top > 1 => low <= top - 1) /\ low <= top
  <2>1. CASE first = 1
    BY <1>10, <1>14, <2>1
  <2>2. CASE first > 1 /\ top = 1
    <3>1. 1 \in 1 .. first - 1 /\ \A j \in 1 + 1 .. first - 1 : j \in top .. first - 1
      BY <1>2, <2>2
    <3>2. low <= 1
      BY <1>12, <1>14, <3>1
    <3> QED BY <1>10, <2>2, <3>2
  <2>3. CASE top > 1
    <3>1. top - 1 \in 1 .. first - 1 /\ \A j \in (top - 1) + 1 .. first - 1 : j \in top .. first - 1
      BY <1>2, <1>10, <2>3
    <3>2. low <= top - 1
      BY <1>12, <1>14, <3>1
    <3> QED BY <1>10, <1>14, <2>3, <3>2
  <2> QED BY <1>2, <1>10, <2>1, <2>2, <2>3
<1>16. \A i \in top .. first - 1 : IsAbove(h, path, i)
  <2> SUFFICES ASSUME NEW i \in top .. first - 1 PROVE IsAbove(h, path, i)
    OBVIOUS
  <2>1. i \in low .. first
    BY <1>2, <1>10, <1>14, <1>15
  <2> QED BY <1>2, <1>10, <2>1 DEF IsAbove, Current, NodeOf
<1>17. top > 1 => h[path[top - 1].ptr.id].ptrs[path[top - 1].entry] = path[top].ptr
  <2> SUFFICES ASSUME top > 1
               PROVE  h[path[top - 1].ptr.id].ptrs[path[top - 1].entry] = path[top].ptr
    OBVIOUS
  <2>1. top - 1 \in low .. first /\ (top - 1) + 1 = top
    BY <1>2, <1>10, <1>14, <1>15
  <2> QED BY <1>2, <2>1 DEF Current
<1>18. top > 1 /\ h[path[top - 1].ptr.id].height = h[path[top].ptr.id].height + 1 =>
         ~IsFull(NodeOf(h, path[top - 1]))
  <2> SUFFICES ASSUME top > 1, h[path[top - 1].ptr.id].height = h[path[top].ptr.id].height + 1
               PROVE  ~IsFull(NodeOf(h, path[top - 1]))
    OBVIOUS
  <2>1. (top - 1) + 1 = top
    BY <1>10
  <2> QED BY <1>11, <2>1 DEF NodeOf
<1>19. top \in 1 .. Len(path) - 1
  BY <1>2, <1>10
<1> HIDE DEF split, before, halves, new, first
<1>20. SplitFits(h, r, path, base, level.first)
  <2>1. base = SplitBase(h, path, level, LeafPointer(key, v))
    BY <1>6 DEF new
  <2> QED BY <2>1, BaseFits
<1>21. SplitFits(h, r, path, halves, top)
  <2>1. SplitFits(h, r, path, base, first)
    BY <1>20 DEF first
  <2> QED BY <1>2, <1>10, <1>16, <2>1, SplitsFit DEF halves
<1> QED BY <1>1, <1>2, <1>17, <1>18, <1>19, <1>21, PlacedHalvesFit

\* What insertForStackRange builds fits to the trie, whichever way it takes.
LEMMA PlanIsGood ==
  ASSUME NEW h, NEW r, GoodHeap(h, r), NEW path, NEW key, IsLeafPath(h, r, path, key), NEW v \in Values,
         NEW level, level = InsertLevel(h, path, GetMismatchingBit(LeafEntry(path).ptr.key, key)),
         NEW low, low = TopLockLevel(h, path, level), Current(h, path, low, level.first),
         NEW plan, plan = InsertForStackRange(h, path, level, LeafPointer(key, v))
  PROVE  PlanFits(h, r, plan.heap, plan.ptr, plan.loc)
<1>1. LevelFits(h, r, path, key, level)
  BY LevelIs
<1>2. level.first \in Nat \ {0} /\ level.pushdown \in BOOLEAN
  <2>1. level.first \in 1 .. Len(path) - 1 /\ level.pushdown \in BOOLEAN /\ Len(path) \in Nat
    BY <1>1 DEF LevelFits, IsLeafPath, IsPath
  <2> QED BY <2>1
<1>3. low \in 1 .. level.first
  BY <1>2, TopLockLevelIs
<1>4. Inserting(h, r, path, key, level, low)
  BY <1>1, <1>3 DEF Inserting
<1>5. CASE level.pushdown
  <2>1. plan = LeafNodePushDown(h, path, level, LeafPointer(key, v))
    BY <1>5 DEF InsertForStackRange
  <2> QED BY <1>4, <1>5, <2>1, PushDownIsGood
<1>6. CASE ~level.pushdown /\ ~IsFull(NodeOf(h, path[level.first]))
  <2>1. plan = NormalInsert(h, path, level, LeafPointer(key, v))
    BY <1>6 DEF InsertForStackRange
  <2> QED BY <1>4, <1>6, <2>1, NormalInsertIsGood
<1>7. CASE ~level.pushdown /\ IsFull(NodeOf(h, path[level.first]))
  <2>1. plan = SplitUpwards(h, path, level, LeafPointer(key, v))
    BY <1>7 DEF InsertForStackRange
  <2> QED BY <1>4, <1>7, <2>1, SplitUpwardsIsGood
<1> QED BY <1>5, <1>6, <1>7
=============================================================================
