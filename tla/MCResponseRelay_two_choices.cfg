\* Two choices that interleave, recorded in two contexts.
CONSTANTS
  x1 = x1  x2 = x2
  Indices <- TwoChoices
  Contexts <- TwoContexts
  DisplayReasoning = TRUE
  MaxCalls = 2
  MaxChunks = 4
  Deltas <- SomeDeltas
  Messages <- SomeMessages
SPECIFICATION Spec
INVARIANTS TypeOK BlocksWellFormed StripUndoesMirror FinalWordStored
CHECK_DEADLOCK FALSE
