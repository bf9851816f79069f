SPECIFICATION Spec
CONSTANTS
  Procs = {p1, p2}
  Nobody = nobody
  Msgs <- TwoMsgs
  Uses <- ListUses
  Touched <- TwoNames
  Outs = {o1, o2}
  NoOut = noout
  DupLimit = 2
  MaxDups = 3
SYMMETRY Symmetry
INVARIANTS TypeOK NoMisuse ClosersOwned 
CHECK_DEADLOCK FALSE
