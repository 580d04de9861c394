SPECIFICATION PagesSpec
CONSTANTS
  Pages = {g1, g2, g3, g4}
  NoPage = NoPage
  Convs = {c1, c2}
  NoConv = NoConv
  AutoConv = c1
  Providers = {"deepseek"}
  MaxPages = 2
  Retries = 1
  UserEvents = FALSE
  Crashes = TRUE
SYMMETRY PageSymmetry
PROPERTY ExplicitStaysIsolated
