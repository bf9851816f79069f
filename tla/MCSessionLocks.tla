--------------------------- MODULE MCSessionLocks ---------------------------
(* Small instances of SessionLocks for TLC.                                *)
EXTENDS SessionLocks, TLC

OneSsid == {2}
WireNumbers == {0, 2}
ManySsids == {1, 2}
Symmetry == Permutations(Clients) \cup Permutations(Waiters) \cup Permutations(Links)
=============================================================================
