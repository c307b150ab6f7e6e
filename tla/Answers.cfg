SPECIFICATION AnswersSpec
CONSTANTS
  Parts <- MCBoth
  Messages <- MCMessages
  FollowUps <- MCFollowUps
  Needs <- MCNeeds
  Window = 3
  Retrievals <- MCRetrievals
  Completions <- MCCompletions
  Rows <- MCRows
  Claims <- MCClaims
  Later = {"moha 1"}
  Leaving = {"jiri contact"}
  Questions <- MCQuestions
  TopK = 3
  Builders = {"b1", "b2"}
  BootBuilder = "b1"
  MaxKills = 1
INVARIANTS AnswersAreGrounded CaseIsFollowed RightPagesFound
PROPERTY QuestionsEnd
CHECK_DEADLOCK FALSE
