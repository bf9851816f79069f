SPECIFICATION Spec
CONSTANTS
  Frames = {f1}
  Clients = {c1}
  Encoders = {}
  Links = {l1}
  Waiters = {}
  NoFrame = NoFrame
  WireSsids <- OneSsid
  Lengths <- OneLength
  Codec = "snappy"
  MaxSsid = 2
  MaxIndex = 2
  MaxEmptyIO = 1
  ChanSize = 2
SYMMETRY Symmetry
CHECK_DEADLOCK FALSE
PROPERTIES
  NewSsidIsNew
