SPECIFICATION LiveSpec
CONSTANTS
  Deployments <- MCDeployments
  LiveAnswers <- MCLiveAnswers
  PageLimit = 2
  MaxActs = 4
INVARIANTS
  FailureFallsBack
  ShownIsCurrent
  StorageFollows
PROPERTIES
  LoadingEnds
CHECK_DEADLOCK FALSE
