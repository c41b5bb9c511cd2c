\* A retry after an attempt that has read the body.
CONSTANTS
  t1 = t1  t2 = t2
  Tasks <- TwoTasks
  Threshold = 2
  OpenDuration = 2
  MaxElapsed = 2
  CanCancel = FALSE
  Outcomes <- AnyOutcome
SPECIFICATION Spec
INVARIANT RetriesCarryBody
