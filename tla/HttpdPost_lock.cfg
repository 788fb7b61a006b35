SPECIFICATION Spec
CONSTANTS
  Conns = {c1, c2}
  NULL = NULL
  MaxChunks = 2
  Unreliable = {c1, c2}
INVARIANT LockHeldByReader
SYMMETRY PoolSymmetry
