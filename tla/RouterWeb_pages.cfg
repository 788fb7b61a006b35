SPECIFICATION FairSpec
CONSTANTS
  c1 = c1
  c2 = c2
  NUL = NUL
  Conns <- MCConns
  BUF_SIZE = 8
  Margin = 3
  MSS = 4
  NBRS = 3
  ROUTES = 1
  LineSizes = {2, 4}
  RouteSize = 2
INVARIANT LengthOfText LonePageIsWhole
PROPERTY PageEnds
CHECK_DEADLOCK FALSE
