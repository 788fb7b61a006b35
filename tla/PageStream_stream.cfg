SPECIFICATION Spec
CONSTANTS
  Conns = {c1, c2}
  Buf = 3
  LiteralLengths <- MCLiterals
  TextLengths <- MCTexts
  ValueLengths <- MCValues
  Entries = 1
  Quoted = 2
  Plain = 1
INVARIANT RoomInBuffer
INVARIANT TextAccountedFor
PROPERTY SendsThePage
\* The device may halt.
CHECK_DEADLOCK FALSE
