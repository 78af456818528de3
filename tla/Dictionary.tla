----------------------------- MODULE Dictionary -----------------------------
(***************************************************************************)
(* What the single-threaded index promises its caller (the comments of     *)
(* HOTSingleThreadedInterface): a map from keys to values, and for every   *)
(* call the answer it returns.                                             *)
(***************************************************************************)
CONSTANTS Keys, Values, None

VARIABLES map,    \* the value of every key, None if it has none
          reply   \* the last call with its answer

vars == << map, reply >>

\* A client may start with an index that holds something.
Init == map \in [Keys -> Values \cup {None}] /\ reply = None

Answer(kind, key, result) == [kind |-> kind, key |-> key, result |-> result]

\* An insert adds the value of a new key and leaves a present key alone.
Insert(key, value) ==
  /\ reply' = Answer("insert", key, map[key] = None)
  /\ map' = IF map[key] = None THEN [map EXCEPT ![key] = value] ELSE map

\* An upsert stores the value in any case and returns the previous one.
Upsert(key, value) ==
  /\ reply' = Answer("upsert", key, map[key])
  /\ map' = [map EXCEPT ![key] = value]

\* A remove tells whether the key was there.
Remove(key) ==
  /\ reply' = Answer("remove", key, map[key] # None)
  /\ map' = [map EXCEPT ![key] = None]

Next == \E key \in Keys : \/ \E value \in Values : Insert(key, value) \/ Upsert(key, value)
                          \/ Remove(key)

Spec == Init /\ [][Next]_vars

=============================================================================
