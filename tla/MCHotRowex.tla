------------------------------ MODULE MCHotRowex ------------------------------
(* Instances of HotRowex for TLC.  Keys are given as numbers.               *)
EXTENDS HotRowex, TLC

CONSTANTS t1, t2, t3, v0, v1

ThreadSymmetry == Permutations(Threads)

BitsOf(n) == {b \in Bits : (n \div (2 ^ (KeyBits - 1 - b))) % 2 = 1}
KeysOf(numbers) == {BitsOf(n) : n \in numbers}
KeySequence(numbers) == [i \in DOMAIN numbers |-> BitsOf(numbers[i])]
CallOf(kind, number, value) == [kind |-> kind, key |-> BitsOf(number), value |-> value]
Inserts(numbers) == {CallOf("insert", n, v1) : n \in numbers}
Lookups(numbers) == {CallOf("lookup", n, v1) : n \in numbers}
Upserts(numbers) == {CallOf("upsert", n, v1) : n \in numbers}

Workload(numbers, value, program) ==
  [keys |-> KeySequence(numbers), value |-> value, calls |-> program]
Everyone(program) == [t \in Threads |-> program]

EightKeys == KeysOf(0 .. 7)

\* The three threads are alike.  Where progress is checked too the calls are given
\* to them in one order only, elsewhere the cfg states the symmetry.
InOneOrder(choices) ==
  {(t1 :> << {choices[c[1]]} >>) @@ (t2 :> << {choices[c[2]]} >>) @@ (t3 :> << {choices[c[3]]} >>) :
     c \in {d \in [1 .. 3 -> DOMAIN choices] : d[1] <= d[2] /\ d[2] <= d[3]}}

\* Writers of different present keys and of absent keys beside a reader.
UpsertRoles == (t1 :> << Upserts({0, 1}) >>) @@ (t2 :> << Upserts({7, 3}) >>)
                 @@ (t3 :> << Lookups({0, 7, 1}) >>)

\* rowex_split: nodes of two entries are always full, so every insert into one
\* splits it or pushes a leaf down, through tries of three levels; the first
\* entries of an empty index; and upserts that find one leaf.
SplitCalls == << CallOf("insert", 1, v1), CallOf("insert", 3, v1), CallOf("insert", 6, v1),
                 CallOf("lookup", 1, v1), CallOf("lookup", 2, v1) >>
FirstCalls == << CallOf("insert", 0, v1), CallOf("insert", 1, v1), CallOf("insert", 5, v1) >>
LeafRoles == (t1 :> << Upserts({7}) >>) @@ (t2 :> << Upserts({7}) \cup Inserts({1}) >>)
               @@ (t3 :> << Lookups({1, 7}) >>)
SplitWork ==
  {Workload(numbers, v1, program) :
     numbers \in {<< 0, 7, 2, 5 >>, << 0, 4, 6, 7 >>}, program \in InOneOrder(SplitCalls)}
  \cup {Workload(<< >>, v1, program) : program \in InOneOrder(FirstCalls)}
  \cup {Workload(<< 7 >>, v1, LeafRoles), Workload(<< 0, 7, 2, 5 >>, v1, UpsertRoles)}

\* rowex_copy: nodes of three entries are copied while they have room.
CopyWork ==
  LET wide == {<< 0, 7, 2, 5 >>, << 0, 1, 2, 4 >>}
  IN  {Workload(numbers, v1, Everyone(<< Inserts({3, 5, 6}) \cup Lookups({3, 4}) >>)) :
         numbers \in wide}
      \cup {Workload(numbers, v0, [t \in Threads |-> UpsertRoles[p[t]]]) :
              numbers \in wide, p \in Permutations(Threads)}

\* rowex_lost_key: an upsert of a present key beside an insert of its neighbour.
LostKeyWork ==
  {Workload(<< 0, 7, 2 >>, v0, (t1 :> << Upserts({7}) >>) @@ (t2 :> << Inserts({6}) >>))}
=============================================================================
