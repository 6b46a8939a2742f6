\* A capability and another name that has the prefix, up to two groups, the two
\* shared accounts, two failures, one change by others.  The job goes on for
\* ever: there is no deadlock.
SPECIFICATION FairSpec
CONSTANTS
  Runners = {r1}
  Capabilities = {c1}
  Lookalikes = {k1}
  NoCapability = NoCapability
  Shared <- LogsAndEcr
  MaxGroups = 2
  MaxFaults = 2
  MaxChanges = 1
INVARIANTS TypeOK RolesInTurn
PROPERTIES Converges
