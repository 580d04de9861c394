SPECIFICATION ResponsesSpec
CONSTANTS
  Turns = {t1, t2, t3}
  Names = {c1}
  None = None
INVARIANTS
  ContinuesItsConversation
  StrangersApart
