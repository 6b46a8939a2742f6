\* One message and one failing FetchMessage.
SPECIFICATION FairSpec
CONSTANTS
  N = 1
  FetchErrors = TRUE
  MaxFaults = 1
PROPERTIES LoopEndsProcess
