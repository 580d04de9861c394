SPECIFICATION PagesFairSpec
CONSTANTS
  Pages = {g1, g2, g3, g4}
  NoPage = NoPage
  Convs = {c1, c2}
  NoConv = NoConv
  AutoConv = c1
  Providers = {"deepseek"}
  MaxPages = 1
  Retries = 1
  UserEvents = TRUE
  Crashes = TRUE
PROPERTY RequestReleasesLock
