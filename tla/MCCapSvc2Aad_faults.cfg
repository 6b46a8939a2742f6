\* One runner, two capabilities, two failures, one change by others; one of the
\* two external users has no account.
SPECIFICATION Spec
CONSTANTS
  Runners = {r1}
  Capabilities = {c1, c2}
  NoCapability = NoCapability
  Users = {ext, ghost}
  Directory = {ext}
  External = {ext, ghost}
  PageSize = 2
  MaxInitial = 2
  MaxGroups = 8
  MaxFaults = 2
  MaxChurn = 1
INVARIANTS TypeOK CachedGroupsExist NoDuplicatesLeft
