CONSTANTS
  east = east
  west = west
  vm = vm
  gateway = gateway
  MaxScans = 2
  Regions = {east, west}
  Resources = {}
  VisibleFrom <- MCVisibleFrom
  Supplementary = {}
  MaxTries = 2
  MaxConcurrency = 1
  NoRegion = "nowhere"
SPECIFICATION FairSpec
PROPERTIES
  RunningScanSettles
CHECK_DEADLOCK FALSE
