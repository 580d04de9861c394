SPECIFICATION PagesSpec
CONSTANTS
  Pages = {g1, g2, g3, g4}
  NoPage = NoPage
  Convs = {c1, c2, c3}
  NoConv = NoConv
  AutoConv = c1
  Providers = {"deepseek", "qwen"}
  MaxPages = 2
  Retries = 1
  UserEvents = TRUE
  Crashes = TRUE
SYMMETRY PageSymmetry
INVARIANTS
  PagesTypeOK
  OpenWithinCap
  OpenPagesAreTracked
  ActiveOnlyWhileServing
PROPERTY ChatsStayApart
