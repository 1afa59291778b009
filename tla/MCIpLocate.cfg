SPECIFICATION Spec
CONSTANTS
  a = a
  b = b
  NoIp = NoIp
  Ips = {a}
  Nets <- TwoNets
  Jobs = {j1, j2}
  PeerTtls = {2}
  MaximumTtl = 1
  QueryWait = 1
  Batch = 3
  MaxWork = 1
  MaxWriteQueue = 2
INVARIANTS
  TimersMatch
  AnswerToCome
CHECK_DEADLOCK FALSE
