\* Two overlapping streams and the shared buffer.
CONSTANTS
  s1 = s1  s2 = s2  r1 = r1
  k1 = k1  k2 = k2
  Main = Main
  Nobody = Nobody
  Tasks <- TwoStreams
  StreamTasks <- TwoStreams
  Keys <- TwoKeys
  MaxConcurrent = 2
  MaxRows = 2
  MaxAge = 0
  PruneInterval = 2
  CanDisconnect = FALSE
  MaxPuts = 1
  MaxTime = 0
SPECIFICATION Spec
INVARIANT NoSilentLoss
