\* Two capabilities, an internal and an external member, one sub alias, two faults
\* and a change by others.  The job goes on for ever.
SPECIFICATION FairSpec
CONSTANTS
  Runners = {r1}
  Capabilities = {c1, c2}
  NoCapability = NoCapability
  Users = {u1, x1}
  External = {x1}
  Upn <- Upns
  Cc = Cc
  SubAliases = {billing}
  MaxFaults = 2
  MaxChanges = 1
INVARIANTS TypeOK SubsHaveMain
PROPERTIES CcReceives Converges
