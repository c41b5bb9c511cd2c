\* One streaming and one regular request at a time; clients disconnect, the
\* process may be stopped at any moment.
CONSTANTS
  s1 = s1  s2 = s2  r1 = r1
  k1 = k1  k2 = k2
  Main = Main
  Nobody = Nobody
  Tasks <- StreamAndTask
  StreamTasks <- OneStream
  Keys <- TwoKeys
  MaxConcurrent = 2
  MaxRows = 1
  MaxAge = 1
  PruneInterval = 2
  CanDisconnect = TRUE
  MaxPuts = 2
  MaxTime = 2
SPECIFICATION Spec
SYMMETRY KeySymmetry
INVARIANTS TypeOK NoSilentLoss LockOrder
PROPERTIES StreamWritesInOrder ImplementsCache
