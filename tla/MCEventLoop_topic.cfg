\* Three messages of any kind, three faults, FetchMessage may fail.
SPECIFICATION FairSpec
CONSTANTS
  N = 3
  FetchErrors = TRUE
  MaxFaults = 3
INVARIANTS TypeOK CommittedIsSettled FirstInOrder
PROPERTIES Delivers AllSettled
