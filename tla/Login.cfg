SPECIFICATION LoginFairSpec
CONSTANTS
  Providers = {"deepseek", "qwen"}
  Requests = {r1, r2}
  Retries = 2
  VerifyLooks = 3
  Loss = TRUE
INVARIANTS
  WatcherExcludesRequests
  InterruptionEndsWatcher
PROPERTIES
  QwenSignInMakesReady
  ImplementsBrowserUse
CHECK_DEADLOCK FALSE
