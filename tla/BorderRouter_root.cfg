SPECIFICATION FairSpec
CONSTANTS
  Hosts = {h1, h2}
  Nodes = {n1}
  NOBODY = NOBODY
  Prefixes = {p1}
  FIXED = FIXED
  NONE = NONE
  STAT_INTERVAL = 2
  Versions = 2
INVARIANT RadioWaitsForPrefix
PROPERTY NodesAreForwarded
PROPERTY NoBounce
PROPERTY EventuallyRunning
PROPERTY KeepsBlinking
