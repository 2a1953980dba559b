SPECIFICATION Spec
SYMMETRY Symmetry
CHECK_DEADLOCK FALSE
CONSTANTS
  x1 = x1  x2 = x2
  MaxTime = 3
  Addr = {x1, x2}  MaxPkts = 2  KlThresh = 0  KlMaxEntries = 1
  TqAddr = {x1, x2}  TqMaxPkts = 3  TqThresh = 1  TqMaxEntries = 1
  Cpus = {x1, x2}  Vecs = {"net_rx", "net_tx"}  IrqFilterBits = {"net_rx"}  SiThresh = 1
  DlCpus = {x1, x2}  Tids = {x1, x2}  Requests = {x1, x2}  DlThresh = 1  DlMaxEntries = 1  MaxRequests = 3
  Socks = {x1, x2}  SlCpus = {x1, x2}  SlThresh1 = 0  SlThresh100 = 1
  SlMaxEntries = 1  SlMaxKeys = 1  MaxSocks = 2  MaxObs = 2
  Threads = {x1, x2}  Netns = {x1, x2}  StartElems = {x1, x2}  MetricElems = {x1, x2}
  CtMaxStart = 1  CtMaxMetrics = 1  Ct1ms = 1  Ct10ms = 2  Ct100ms = 3  WordMod = 16  MaxConnects = 2
  FlCpus = {x1, x2}  FlMaxEntries = 2  MaxFrames = 5  Frames <- MCFrames  Skbs <- MCSkbs  U16 = 65536
  Index = {x1, x2}  MaxChanges = 3  ChanExtra = 1
INVARIANTS
  TxSpanOfOnePacket
  SpansAreOwn
  NeverOverstated
  CountsAreExact
  TupleReadsInside
  FlowsFollowLinks
  StopRemovesFilters
