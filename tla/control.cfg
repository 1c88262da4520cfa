CONSTANTS
  NONE = NONE
  MEM = MEM
  QmiMessages <- QmiExchanges
  SpsClients = {c1, c2, c3}
  Bams = {b1, b2}
  NumPipes = 2
  PipeMem = 3
  ConnectMayFail = TRUE
  MaxBoots = 3
  MuxIds = {1, 2}
  MaxMux = 2
  MaxRules = 2
  MaxLives = 2
  MaxProbes = 5
  Peripherals = {"USB_CONS", "ODU_PROD", "HSIC1_PROD"}
  MaxVotes = 2
  MaxId = 7
  HdrMem = 3
  CtxMem = 2
  MaxIdx = 3
  RuleMax = 2
  Names = {"t1"}
  MaxAdds = 3
  Tables = {t1, t2}
  Skipped = {t2}
  Bufs = {k1, k2, k3, k4}
  FewRules = {{}, {"TCP_SYN"}, {"SRC_PORT_RANGE"}, {"SRC_ADDR", "DST_ADDR"}, {"SRC_ADDR", "DST_ADDR", "TOS_MASKED"}}
  Senders = {s1}
  Resenders = {z1}
  Readers = {r1, r2}
  WlanMacs = {m1}
  MaxMsgs = 2
  Workers = {w1, w2}
  MaxPending = 3
  MaxInits = 2
  Users = {n1, n2}
  MemSizes = {0, 2, 4}
  NatLayouts <- SomeLayouts
  Offsets = {0, 1, 2, 3}
  MaxAllocs = 2
  BusClients = {y1, y2}
  MaxHandles = 2
  MaxPaths = 2
SPECIFICATION MCSpec
INVARIANTS ConnectionsOwned  WwanTablesSound QmiMessagesSound InitUnwinds EndpointsSound TableEntriesSound HwReadsAllocated BuffersAccounted EncodingSound MessagesSound CopiesSound  BusVotesSound
PROPERTY StepsKeepPromises
CHECK_DEADLOCK FALSE
