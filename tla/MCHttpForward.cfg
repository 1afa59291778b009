SPECIFICATION FairSpec
CONSTANTS
  Hosts = {h1}
  MaxRequests = 2
  MaxBody = 2
  MaxHints = 2
  MaxRare = 1
INVARIANTS OneAnswerInOrder BodyIntact ReadToTheEnd KeptClean
PROPERTIES TaskEnds
CHECK_DEADLOCK FALSE
