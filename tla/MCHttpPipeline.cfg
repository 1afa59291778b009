SPECIFICATION FairSpec
CONSTANTS
  MaxRequests = 3
  PipelineSize = 1
INVARIANTS AnswersInOrder ParsesAtBoundary TaskHasStream HandBackFailsOnlyOffline QuitsOnlyIdle
PROPERTIES OfflineEnds
CHECK_DEADLOCK FALSE
