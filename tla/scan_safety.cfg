CONSTANTS
  east = east
  west = west
  vm = vm
  gateway = gateway
  MaxScans = 2
  Regions = {east, west}
  Resources = {vm}
  VisibleFrom <- MCVisibleFrom
  Supplementary = {}
  MaxTries = 2
  MaxConcurrency = 1
  NoRegion = "nowhere"
SPECIFICATION Spec
INVARIANTS
  TypeOK
  SweepSafe
  GovernanceHandoff
PROPERTIES
  ImplementsContract
  CompletedRegionsMirrorScan
  StuckScanBlocksAccount
