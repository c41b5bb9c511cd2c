\* No store call hangs and no batch is left behind: two overlapping streams
\* against a shutdown.
CONSTANTS
  s1 = s1  s2 = s2  r1 = r1
  k1 = k1  k2 = k2
  Main = Main
  Nobody = Nobody
  Tasks <- TwoStreams
  StreamTasks <- TwoStreams
  Keys <- OneKey
  MaxConcurrent = 2
  MaxRows = 1
  MaxAge = 1
  PruneInterval = 2
  CanDisconnect = TRUE
  MaxPuts = 1
  MaxTime = 0
SPECIFICATION FairSpec
INVARIANT IdleStoreIsClean
PROPERTIES StoreCallsReturn CloseReturns
