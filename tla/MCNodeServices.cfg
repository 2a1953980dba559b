SPECIFICATION Spec
CHECK_DEADLOCK FALSE
CONSTANTS
  s1 = s1  s2 = s2
  NPings = 2  NItems = 1  MaxConns = 2  TaskChanSize = 1
  MaxReaders = 2  MaxEvents = 2  Sinks = {s1, s2}  SinkChanSize = 1
  MaxEntries = 5  LogEntriesChanSize = 2  BatchEntriesNumber = 3
  MuFloor = 1  MaxRate = 1  MaxClock = 7  PassMod = 4  MinGap = 2  MinSamples = 2  Unit = 10
INVARIANTS
  LatencyIsOwn
  RunningIsAttached
  MuIsMeasured
PROPERTIES
  CommitsReturn
  CaptureSettles
  SlowSinkIsolated
  FlushesInTime
