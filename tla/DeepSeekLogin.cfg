SPECIFICATION LoginFairSpec
CONSTANTS
  Providers = {"deepseek"}
  Requests = {r1, r2}
  Retries = 1
  VerifyLooks = 3
  Loss = FALSE
PROPERTY SignInMakesReady
CHECK_DEADLOCK FALSE
