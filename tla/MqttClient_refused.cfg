SPECIFICATION FormsEndSpec
CONSTANTS
  quickstart = quickstart
  registered = registered
  tokenless = tokenless
  toolong = toolong
  Configs <- FewConfigs
  Default = quickstart
  Quickstart = {quickstart}
  NoToken = {}
  TooLong = {}
  RECONNECT_ATTEMPTS = 3
  MaxQueued = 2
  Env = {"refused"}
PROPERTY NewConfigProceeds
