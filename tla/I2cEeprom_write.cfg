SPECIFICATION Spec
CONSTANTS
  PageSize = 2
  WPBlock = 4
  Size = 6
  Bytes = {b1, b2}
INVARIANT PrefixInPlace
INVARIANT OnlyTheBlock
PROPERTY WrittenWhenReturned
SYMMETRY ByteSymmetry
