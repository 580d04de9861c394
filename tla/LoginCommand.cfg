SPECIFICATION SetupSpec
CONSTANTS
  Logins = {l1, l2}
  Edits = {e1}
  Providers = {"deepseek", "qwen"}
  DefaultProvider = "deepseek"
  HandedOff = {"deepseek"}
  Service = Service
  Nobody = Nobody
  Empty = Empty
INVARIANTS
  SetupTypeOK
  LoginGivesProfileBack
  EnabledForAReason
PROPERTY PausedServiceIsStarted
