\* Two runs at once, up to two mappings, one failure, one change by others.
SPECIFICATION FairSpec
CONSTANTS
  Runners = {r1, r2}
  Accounts = {a1, a2}
  RoleNames = {n1}
  NoRole = NoRole
  OtherArns = {}
  MaxInitial = 2
  MaxFaults = 1
  MaxChurn = 1
INVARIANTS TypeOK MappedOnce
PROPERTIES ForeignKept KeepsExisting Converges
