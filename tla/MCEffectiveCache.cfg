SPECIFICATION FairSpec
CONSTANTS
  Keys = {k1}
  Jobs = {j1, j2}
  PeerTtls = {0, 3}
  ProtectiveTtl = 1
  MaximumTtl = 1
  VanishWait = 1
  QueryWait = 1
  Batch = 2
  MaxWriteQueue = 1
INVARIANTS
  OneAnswerToCome
  TimersMatch
  OnlySocketPanics
PROPERTIES
  FetchAnswered
CHECK_DEADLOCK FALSE
