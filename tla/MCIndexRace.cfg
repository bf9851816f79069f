SPECIFICATION Spec
CONSTANTS
  c1 = c1
  c2 = c2
  l1 = l1
  w1 = w1
  NoProc = NoProc
  Clients = {c1, c2}
  Links = {l1}
  Waiters = {w1}
  WireSsids <- OneSsid
  MaxSsid = 3
  MaxIndex = 2
  MaxChan = 3
INVARIANT IndexIsLocked
CHECK_DEADLOCK FALSE
