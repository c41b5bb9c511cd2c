\* Conversations of up to seven messages, both limits on; shorter ones are sent
\* under all names, with all tools and choices.
SPECIFICATION PrepSpec
CONSTANTS
  MaxMessages = 4
  MaxPromptTokens = 14
  Thinking = FALSE
  Strategy = "recover"
  Sizes <- SmallAndBig
  MaxCalls = 2
  MaxLength = 7
  Absent = Absent
  Folded <- LowerCase
  Lower <- Lowered
  Caps <- SomeCaps
  DeepSeekNames <- DeepSeeks
  V4Names <- V4s
  ConfiguredModel <- Flash
  ConfiguredThinking = "enabled"
  ConfiguredEffort = "high"
  Names <- SomeNames
  Requests <- SomeRequests
  NoPayload = NoPayload
  MaxAsked = 5
INVARIANT PrepTypeOK
INVARIANT NoOrphans
INVARIANT LastTurnSent
INVARIANT CutsNoMoreThanNeeded
INVARIANT LimitHonoured
INVARIANT RequestsAccepted
INVARIANT OwnLimitHonoured
INVARIANT NamesAgree
PROPERTY DroppedStaysDropped
CHECK_DEADLOCK FALSE
