SPECIFICATION ParserSpec
CONSTANTS
  Chars <- MCChars
  Bodies <- MCBodies
  Surplus <- MCSurplus
  PARSE_POST_BUF_SIZES = 4
  HTML_ESCAPED_BUFFER_SIZE = 8
  KnownKey <- MCKey
  BadValue <- MCBad
INVARIANT ParserTypeOK LookAheadInside PairsAsSent QuotesWhole
PROPERTY ChunkAsAbstracted
CHECK_DEADLOCK FALSE
