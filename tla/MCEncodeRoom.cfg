SPECIFICATION Spec
CONSTANTS
  Frames = {f1}
  Clients = {c1}
  Encoders = {e1}
  Links = {}
  Waiters = {}
  NoFrame = NoFrame
  WireSsids <- NoSsids
  Lengths <- ExactFit
  Codec = "noop"
  MaxSsid = 2
  MaxIndex = 2
  MaxEmptyIO = 1
  ChanSize = 2
SYMMETRY Symmetry
CHECK_DEADLOCK FALSE
INVARIANTS
  RoomIsEnough
