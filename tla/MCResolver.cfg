SPECIFICATION FairSpec
CONSTANTS
  U32 = 64
  Keys = {k1}
  Jobs = {j1, j2}
  AnswerTtls = {2, 4}
  MinTtl = 1
  MaxTtl = 2
  NegTtl = 1
  Batch = 3
  MaxUpdates = 1
  MaxVer = 3
INVARIANTS
  OneQueryPerKey
  TablesAgree
  NoLostWakeup
PROPERTIES
  AnswersGoForward
  JobAnswered
  ShutdownCompletes
CHECK_DEADLOCK FALSE
