SPECIFICATION FairSpec
CHECK_DEADLOCK FALSE
CONSTANTS
  p1 = p1  p2 = p2  i1 = i1  i2 = i2  Homes <- MCHomes
  Pods = {p1, p2}  IPs = {i1, i2}  NoPod = NoPod  NoIP = NoIP
  Agents = {a1}  Streams = {s1, s2}  NoStream = NoStream
  MaxSyncBatchSize = 1  CompactThreshold = 0  MaxRetainedLogEntries = 1
  ClientBufferSize = 1  LogBufferSize = 1  NetSize = 1
  MaxRevision = 3  MaxFaults = 1
INVARIANTS
  ReplicaIsPrefix
  NoPanic
PROPERTIES
  Converges
