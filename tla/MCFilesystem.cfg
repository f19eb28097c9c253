SPECIFICATION Spec
CONSTANTS
  Segments <- SomeNames
  Volumes = {"v"}
  MaxMounts = 3
  Specs <- AllSpecs
  Busy <- BusySpecs
  PodDirs <- UsrDirs
  Nodes <- AllNodes
  Seeds <- SeedFiles
  Requests = {r1, r2}
  Asks <- AllAsks
  MaxMoves = 1
INVARIANTS MountsShow RootsMatchMounts UploadsLand
CHECK_DEADLOCK FALSE
