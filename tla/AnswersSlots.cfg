SPECIFICATION AnswersSpec
CONSTANTS
  Parts <- MCConversationOnly
  Messages = {}
  FollowUps = {}
  Needs <- MCNeeds
  Window = 3
  Retrievals <- MCRetrievals
  Completions <- MCCompletions
  Rows <- MCRows
  Claims <- MCClaims
  Later = {"moha 1"}
  Leaving = {"jiri contact"}
  Questions <- MCQuestions
  TopK = 3
  Builders = {"b1", "b2"}
  BootBuilder = "b1"
  MaxKills = 1
INVARIANT SlotBySlotIsAnswered
CHECK_DEADLOCK FALSE
