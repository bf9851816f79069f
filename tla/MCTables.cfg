SPECIFICATION Spec
CONSTANTS
  c1 = c1
  c2 = c2
  l1 = l1
  l2 = l2
  w1 = w1
  w2 = w2
  NoProc = NoProc
  Clients = {c1, c2}
  Links = {l1, l2}
  Waiters = {w1, w2}
  WireSsids <- WireNumbers
  MaxSsid = 3
  MaxIndex = 2
  MaxChan = 4
SYMMETRY Symmetry
INVARIANTS TypeOK TablesAgree NoFault WaitersReachable
PROPERTY TableSpec
CHECK_DEADLOCK FALSE
