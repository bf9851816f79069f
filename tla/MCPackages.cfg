SPECIFICATION FairSpec
CONSTANTS
  Threads = {t1, t2, t3, t4, t5}
  Users = {p1, p2}
  Nil = nil
  InitSizes <- InitSomeSizes
  MaxPush = 3
  Bufs = {b1, b2}
  Step = 16
  Sizes <- SomeSizes
  Foreign <- SomeCaps
  Writers = {w1, w2}
  Nobody = nobody
  Lengths = {0, 1, 3}
  Size = 4
  Line = 3
  Dated = TRUE
  MaxTotal = 8
  Base = 4
  Word = 2
  CtrSizes <- SomeCtrSizes
  CtrBytes <- SomeCtrBytes
  Amounts = {0, 1, 20}
  Block = 16
  SumLen = 4
  HdrLen = 8
  Texts = {0, 11, 12, 13, 28}
  Spare = {0, 1, 16}
  NonceCap = 2
  PrefixLen = 2
  InfoLens = {0, 2, 9}
  MaxInfo = 8
  Pieces = {1, 2, 3, 5}
  MaxStream = 8
  Limit = 2
  MsgHdrLen = 3
  LenSize = 1
  Codes = {1}
  Ids = {1, 2}
  MsgTexts = {0, 1, 3}
  Frametypes = {"data"}
  BadTypes = {"bad"}
  Conns = {c1, c2}
  MaxConn = 1
  Cap = 2
  Modes = {"keepalive", "short", "readlonly"}
  NetTimeout = 2
  KeepaliveTimeout = 0
  MaxReq = 1
  Documents <- SomeTexts
  Tables <- SomeTables
  Keys <- SomeKeys
  MaxStatements = 5
  ShortFlags = {"-s"}
  LongFlags = {"--l"}
  OptWords = {"v", "w"}
  OptArgs <- SomeArgs
  MaxArgs = 3
  MaxOptCalls = 3
  Packages = {"spinlock", "queues", "palloc", "logger", "bigcounter", "keyaes", "filter",
              "messages", "qps", "lexer", "toml", "getopt"}
INVARIANTS PackagesTypeOK ReadInRange PushPhaseIsLifo RegularIsSafe KeyIsClose Bounded
  PtrLeads OpensOneBlock BodyIsWhole ReaderWoken MsgArrives SlotsAgree ItemsExpected  DefinedOnce
PROPERTIES LockSpec SomebodyGetsIt PlusCounts HandlersEnd  DelKeeps
CHECK_DEADLOCK FALSE
