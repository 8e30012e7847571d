CONSTANTS
  machine = machine
  worker1 = worker1
  worker2 = worker2
  Resources = {machine}
  Values = {"prod"}
  Missing = "missing"
  Drafts <- MCDrafts
  Owners <- MCOwners
  NoOwner = "none"
  Workers = {worker1, worker2}
  MaxScans = 1
  MaxVersions = 3
  MaxReceives = 3
SPECIFICATION FairSpec
INVARIANTS
  TypeOK
  OneOpenUnlessRulesMixed
PROPERTIES
  PassMatchesInventory
  FindingNamesItsVersion
  ScanIsValidated
CHECK_DEADLOCK FALSE
