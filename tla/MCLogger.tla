------------------------------ MODULE MCLogger ------------------------------
(* Small instances of Logger for TLC.                                      *)
EXTENDS Logger, TLC

TwoMsgs == {"x", "y"}
ListUses == {"Stderr"}
TwoNames == {"stderr", "file"}
Symmetry == Permutations(Procs) \cup Permutations(Outs)
=============================================================================
