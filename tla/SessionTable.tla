---------------------------- MODULE SessionTable ----------------------------
(***************************************************************************)
(* What the session tables of a CodecMixer promise to the goroutines that  *)
(* use them: a session is registered once with a fresh index, its index    *)
(* grows by one at a time, and it is gone when it is cleared.              *)
(***************************************************************************)
EXTENDS Integers

CONSTANTS First, FirstIndex, Sessions   \* the back-to-back session is First
VARIABLE table   \* the index of each registered session

Init == table = [s \in {First} |-> FirstIndex]

Register(s) ==
  /\ s \notin DOMAIN table
  /\ table' = [t \in DOMAIN table \cup {s} |-> IF t = s THEN FirstIndex ELSE table[t]]

Grow(s) ==
  /\ s \in DOMAIN table
  /\ table' = [table EXCEPT ![s] = @ + 1]

Clear(s) ==
  /\ s \in DOMAIN table
  /\ table' = [t \in DOMAIN table \ {s} |-> table[t]]

Next == \E s \in Sessions : Register(s) \/ Grow(s) \/ Clear(s)

Spec == Init /\ [][Next]_table
=============================================================================
