SPECIFICATION FairSpec
CONSTANTS
  quickstart = quickstart
  registered = registered
  tokenless = tokenless
  toolong = toolong
  Configs <- AllConfigs
  Default = quickstart
  Quickstart = {quickstart}
  NoToken = {tokenless}
  TooLong = {toolong}
  RECONNECT_ATTEMPTS = 5
  MaxQueued = 2
  Env = {"refused", "defaults", "button", "connrefused", "badaddress"}
INVARIANT StateMatchesEngine
INVARIANT BoundedRetries
INVARIANT SleepsOnlyOverForm
PROPERTY Recovers
PROPERTY FormIsActedOn
