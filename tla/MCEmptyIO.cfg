SPECIFICATION Spec
CONSTANTS
  Frames = {f1, f2}
  Clients = {c1}
  Encoders = {e1}
  Links = {l1}
  Waiters = {}
  NoFrame = NoFrame
  WireSsids <- NoSsids
  Lengths <- OneLength
  Codec = "snappy"
  MaxSsid = 2
  MaxIndex = 2
  MaxEmptyIO = 4
  ChanSize = 2
SYMMETRY Symmetry
CHECK_DEADLOCK FALSE
INVARIANTS
  EmptyReadsTolerated
