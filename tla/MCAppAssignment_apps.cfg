\* Both jobs, two applications in the file, one failed call, two changes.
SPECIFICATION FairSpec
CONSTANTS
  AwsRunners = {r1}
  FileRunners = {r2}
  Capabilities = {c1, c2}
  AwsApp = aws
  FileApps <- TwoApps
  MaxGroups = 2
  MaxFaults = 1
  MaxChanges = 2
INVARIANTS TypeOK ContextsOnly
PROPERTIES Converges
