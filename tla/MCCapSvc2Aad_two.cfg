\* Two runs at once, one failure, one change by others, duplicates at the start.
SPECIFICATION FairSpec
CONSTANTS
  Runners = {r1, r2}
  Capabilities = {c1}
  NoCapability = NoCapability
  Users = {ext}
  Directory = {ext}
  External = {ext}
  PageSize = 1
  MaxInitial = 3
  MaxGroups = 5
  MaxFaults = 1
  MaxChurn = 1
PROPERTIES OldestGroupKept Converges
