\* The job and the handlers; two changes, a failed call of a handler, one
\* redelivery, up to two groups at the start; one user has no account.
SPECIFICATION MemberFairSpec
CONSTANTS
  Runners = {r1}
  Capabilities = {c1}
  NoCapability = NoCapability
  Users = {ext, ghost}
  Directory = {ext}
  External = {ext}
  PageSize = 1
  MaxInitial = 2
  MaxGroups = 4
  MaxFaults = 0
  MaxChurn = 2
  MaxRedeliveries = 1
  MaxFailures = 1
INVARIANTS EventsDecide
PROPERTIES Abstracts Converges
