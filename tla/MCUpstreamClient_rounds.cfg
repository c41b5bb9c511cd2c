\* Two requests at a time, clients that go away, an upstream that may fail for
\* ever.
CONSTANTS
  t1 = t1  t2 = t2
  Tasks <- TwoTasks
  Threshold = 2
  OpenDuration = 2
  MaxElapsed = 2
  CanCancel = TRUE
  Outcomes <- AnyOutcome
SPECIFICATION FairSpec
INVARIANTS TypeOK BreakerAgrees
PROPERTIES RoundsReturn LetsThroughAgain
