\* One choice whose client may go away.
CONSTANTS
  x1 = x1  x2 = x2
  Indices <- OneChoice
  Contexts <- OneContext
  DisplayReasoning = TRUE
  MaxCalls = 2
  MaxChunks = 2
  Deltas <- SomeDeltas
  Messages <- SomeMessages
SPECIFICATION Spec
INVARIANT BrokenStreamsAreStored
CHECK_DEADLOCK FALSE
