--------------------------- MODULE ConcurrentIndex ---------------------------
(***************************************************************************)
(* What a concurrent ordered index promises its callers: a dictionary in   *)
(* which insert and upsert take effect atomically, once, between their     *)
(* call and their return, and a lookup returns a value the key had at some *)
(* moment of the lookup.  This is linearizability stated per key: writes   *)
(* carry their linearization point (Write), reads are placed anywhere in   *)
(* their interval (seen).                                                  *)
(***************************************************************************)
CONSTANTS Threads, Keys, Values, None

VARIABLES map,   \* the dictionary: the value of every key, None if absent
          call   \* the last call of every thread

indexVars == << map, call >>

Kinds == {"lookup", "insert", "upsert"}
Results == Values \cup {None, "inserted", "exists"}

Call == [pending : BOOLEAN, kind : Kinds, key : Keys, value : Values,
         seen : SUBSET (Values \cup {None}), \* values of key since the call
         wrote : BOOLEAN,                    \* the write has taken effect
         old : Values \cup {None},           \* the value it replaced
         result : Results]

NewCall(kind, key, value, current) ==
  [pending |-> TRUE, kind |-> kind, key |-> key, value |-> value,
   seen |-> {current}, wrote |-> FALSE, old |-> None, result |-> None]

\* The calls after thread t's write took effect: t remembers what it replaced
\* and every pending call on the same key may from now on see the new value.
CallsAfterWrite(t, replaced) ==
  [u \in Threads |->
     LET c == call[u]
         d == IF c.pending /\ c.key = call[t].key
              THEN [c EXCEPT !.seen = @ \cup {call[t].value}] ELSE c
     IN  IF u = t /\ ~c.wrote THEN [d EXCEPT !.wrote = TRUE, !.old = replaced] ELSE d]

CallReturned(t, result) ==
  [call EXCEPT ![t] = [@ EXCEPT !.pending = FALSE, !.result = result]]

-----------------------------------------------------------------------------
Init ==
  /\ map \in [Keys -> Values \cup {None}]
  /\ call \in [Threads -> Call]
  /\ \A t \in Threads : ~call[t].pending

\* Any call.  It is read off call'[t] instead of being guessed, which is how
\* TLC checks this step as an implied action.
Invoke(t) ==
  /\ ~call[t].pending /\ call'[t].pending
  /\ call'[t].kind \in Kinds /\ call'[t].key \in Keys /\ call'[t].value \in Values
  /\ call' = [call EXCEPT ![t] = NewCall(call'[t].kind, call'[t].key, call'[t].value,
                                         map[call'[t].key])]
  /\ UNCHANGED map

Write(t) ==
  /\ call[t].pending /\ ~call[t].wrote /\ call'[t].wrote
  /\ \/ call[t].kind = "insert" /\ map[call[t].key] = None
     \/ call[t].kind = "upsert"
  /\ map' = [map EXCEPT ![call[t].key] = call[t].value]
  /\ call' = CallsAfterWrite(t, map[call[t].key])

Return(t) ==
  LET c      == call[t]
      result == call'[t].result
  IN  /\ c.pending
      /\ \/ c.kind = "lookup" /\ result \in c.seen
         \/ c.kind = "insert" /\ c.wrote /\ result = "inserted"
         \/ c.kind = "insert" /\ ~c.wrote /\ result = "exists" /\ c.seen # {None}
         \/ c.kind = "upsert" /\ c.wrote /\ result = c.old
      /\ call' = CallReturned(t, result)
      /\ UNCHANGED map

Next == \E t \in Threads : Invoke(t) \/ Write(t) \/ Return(t)

Spec == Init /\ [][Next]_indexVars
=============================================================================
