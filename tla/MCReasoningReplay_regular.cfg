\* Regular responses in two conversations that may read the same, whose rows
\* are pruned one by one.
CONSTANTS
  c1 = c1  c2 = c2  n1 = n1  n2 = n2  NoNamespace = NoNamespace
  Conversations <- TwoConversations
  Namespaces <- TwoNamespaces
  Thinking <- TwoNamespaces
  Strategy = "recover"
  Streaming = FALSE
  Tools <- OneTool
  UserSays = {"go"}
  Contents = {"none"}
  MaxPrunes = 1
  MaxAnswers = 2
  MaxMessages = 5
SPECIFICATION Spec
INVARIANTS TypeOK RecordedIsReplayed CallsInPlaceGetTheirOwn ReplayStaysInTurn
SYMMETRY Symmetry
CHECK_DEADLOCK FALSE
