------------------------- MODULE MCHotSingleThreaded -------------------------
(* Instances of HotSingleThreaded for TLC.  Keys are given as numbers.      *)
EXTENDS HotSingleThreaded

CONSTANTS v0, v1

BitsOf(n) == {b \in Bits : (n \div (2 ^ (KeyBits - 1 - b))) % 2 = 1}
KeysOf(numbers) == {BitsOf(n) : n \in numbers}
LeavesOf(numbers) == [i \in DOMAIN numbers |-> LeafPointer(BitsOf(numbers[i]), v0)]
CallsOf(kinds, numbers, value) ==
  {[kind |-> kind, key |-> BitsOf(n), value |-> value] : kind \in kinds, n \in numbers}

\* Six keys of five bits are inserted and removed, a seventh is upserted and removed,
\* in an empty trie and in one of eight keys and three levels.  They are chosen so
\* that nodes merge with and pull down neighbours on both sides, at two levels in
\* one call too.
Loaded == << 17, 19, 20, 18, 22, 6, 10, 8 >>
Inserted == {1, 9, 10, 11, 14, 20}
Upserted == {29}
MixedLoads == {<< >>, LeavesOf(Loaded)}
MixedKeys == KeysOf(Inserted \cup Upserted \cup {Loaded[i] : i \in DOMAIN Loaded})
MixedCalls == CallsOf({"insert", "remove"}, Inserted, v0)
                \cup CallsOf({"upsert", "remove"}, Upserted, v1)

\* Sixteen keys in an order that makes a trie of four levels, of which ten may go
\* and three may come back.
SixteenLoads == {LeavesOf(<< 4, 12, 5, 10, 14, 7, 3, 8, 1, 13, 6, 2, 15, 0, 11, 9 >>)}
ShrinkingCalls == CallsOf({"remove"}, {0, 1, 3, 5, 6, 8, 9, 10, 11, 12}, v0)
                    \cup CallsOf({"insert"}, {6, 10, 12}, v0)
=============================================================================
