SPECIFICATION TurnFairSpec
CONSTANTS
  Providers = {"deepseek", "qwen"}
  Requests = {r1, r2}
  Structured = {r1}
  Retries = 1
  Parts = 2
  Rerenders = 1
INVARIANTS
  SubmittedAtMostOnce
  PreSubmitMeansUnsent
  OwnOrLateAnswer
  AnswerGivenOnce
  AnswerIsWhole
PROPERTIES
  EveryTurnEnds
  ImplementsPromptTurns
CHECK_DEADLOCK FALSE
