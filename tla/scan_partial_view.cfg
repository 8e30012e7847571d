CONSTANTS
  east = east
  west = west
  vm = vm
  gateway = gateway
  MaxScans = 2
  Regions = {east, west}
  Resources = {gateway}
  VisibleFrom <- MCVisibleFrom
  Supplementary = {gateway}
  MaxTries = 2
  MaxConcurrency = 1
  NoRegion = "nowhere"
SPECIFICATION StillSpec
INVARIANTS
  PartialViewDeletesNothing
CHECK_DEADLOCK FALSE
