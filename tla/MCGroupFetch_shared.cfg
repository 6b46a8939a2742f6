\* Three goroutines, two at a time, and their handler; one failed call; tokens of
\* two seconds, requests of up to one.
SPECIFICATION FetchSpec
CONSTANTS
  Items = {i1, i2, i3}
  Size = 2
  MaxFaults = 1
  Handler = handler
  Goroutines = {i1, i2, i3, handler}
  Objects = {o1, o2, o3, o4}
  NoObject = NoObject
  Lifetime = 2
  MaxDelay = 1
SYMMETRY Symmetry
VIEW View
INVARIANTS AtMostSize NeverStuck CompleteAfterWait DriftBounded FinishedAfterWait
PROPERTIES UnfinishedOnlyMeanwhile
CHECK_DEADLOCK FALSE
