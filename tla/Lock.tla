-------------------------------- MODULE Lock --------------------------------
(***************************************************************************)
(* A lock: at most one thread owns it, and it passes only through free.    *)
(***************************************************************************)
CONSTANT Threads
VARIABLE owner   \* the threads that own it: none, or one

Init == owner = {}

Acquire(t) == owner = {} /\ owner' = {t}
Release(t) == owner = {t} /\ owner' = {}

Next == \E t \in Threads : Acquire(t) \/ Release(t)

Spec == Init /\ [][Next]_owner
=============================================================================
