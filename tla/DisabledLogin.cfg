SPECIFICATION SetupSpec
CONSTANTS
  Logins = {l1}
  Edits = {e1}
  Providers = {"deepseek", "qwen"}
  DefaultProvider = "deepseek"
  HandedOff = {"deepseek"}
  Service = Service
  Nobody = Nobody
  Empty = Empty
PROPERTY DisabledStaysDisabled
