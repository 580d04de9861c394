SPECIFICATION Spec

CHECK_DEADLOCK FALSE

CONSTANTS
  Offers = {{"exec", "tool_call"}}
  Sizes = {1, 6}
  InputLimit = 14
  Budget = 16
  RepairLimit = 14
  Wording = 5
  MaxHistory = 5

INVARIANTS
  LoopTypeOK
  LoopNeverRejected
  AnswerHonoursRequest
  NoMarkerLeaks
  PromptHoldsLast

