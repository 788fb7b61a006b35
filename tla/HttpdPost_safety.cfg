SPECIFICATION FairSpec
CONSTANTS
  Conns = {c1, c2, c3}
  NULL = NULL
  MaxChunks = 2
  Unreliable = {c2, c3}
INVARIANT ParserBelongsToReader
INVARIANT AnswerMatchesBody
INVARIANT AppliedNotForgotten
INVARIANT LockSoundIfReliable
PROPERTY FinishAnnounces
PROPERTY AnnouncesForms
PROPERTY QuietPeersAreDropped
PROPERTY LockComesBack
PROPERTY AppliedIsAnnounced
