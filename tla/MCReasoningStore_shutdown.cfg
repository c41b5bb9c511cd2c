\* A shutdown whose drain runs out while a stream is open.
CONSTANTS
  s1 = s1  s2 = s2  r1 = r1
  k1 = k1  k2 = k2
  Main = Main
  Nobody = Nobody
  Tasks <- StreamAndTask
  StreamTasks <- OneStream
  Keys <- OneKey
  MaxConcurrent = 2
  MaxRows = 1
  MaxAge = 0
  PruneInterval = 2
  CanDisconnect = FALSE
  MaxPuts = 1
  MaxTime = 0
SPECIFICATION Spec
INVARIANT ShutdownFlushes
