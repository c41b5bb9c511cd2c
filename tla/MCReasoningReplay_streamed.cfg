\* One conversation whose answers are streamed.
CONSTANTS
  c1 = c1  c2 = c2  n1 = n1  n2 = n2  NoNamespace = NoNamespace
  Conversations <- OneConversation
  Namespaces <- OneNamespace
  Thinking <- OneNamespace
  Strategy = "recover"
  Streaming = TRUE
  Tools <- OneTool
  UserSays = {"go"}
  Contents = {"none"}
  MaxPrunes = 0
  MaxAnswers = 2
  MaxMessages = 5
SPECIFICATION Spec
INVARIANT RecordedIsReplayed
CHECK_DEADLOCK FALSE
