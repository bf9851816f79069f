SPECIFICATION FairSpec
CONSTANTS
  Frames = {f1, f2}
  Clients = {c1}
  Encoders = {e1, e2}
  Links = {l1, l2}
  Waiters = {}
  NoFrame = NoFrame
  WireSsids <- NoSsids
  Lengths <- FastAndBulk
  Codec = "snappy"
  MaxSsid = 2
  MaxIndex = 3
  MaxEmptyIO = 1
  ChanSize = 2
CHECK_DEADLOCK FALSE
INVARIANTS
  SingleOwner
  SendsNeverBlock
  EncodeOrder
PROPERTIES
  PoolShrinksOnEmptyReadOnly
  TransportSpec
  EncodeProgress
