SPECIFICATION Spec
CONSTANTS
  Frames = {f1}
  Clients = {c1, c2}
  Encoders = {e1}
  Links = {l1}
  Waiters = {w1, w2}
  NoFrame = NoFrame
  WireSsids <- WireNumbers
  Lengths <- AroundRoom
  Codec = "noop"
  MaxSsid = 3
  MaxIndex = 2
  MaxEmptyIO = 1
  ChanSize = 2
SYMMETRY Symmetry
CHECK_DEADLOCK FALSE
INVARIANTS
  TypeOK
  DistinctSessions
  OwnSession
  ShortFramesEncode
