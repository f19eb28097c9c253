SPECIFICATION FairSpec
CONSTANTS
  d1 = d1
  d2 = d2
  None = None
  Refs <- Images5
  Digests = {d1, d2}
  Histories <- Written
  AllowedRegistries <- Allowlist
  Tags <- Pushed
  Private <- Hidden
  Oversized = {d2}
  MaxEdits = 2
  MaxPushes = 1
  MaxPods = 1
  MaxLag = 1
  MaxFaults = 1
INVARIANTS OneBuild
PROPERTIES PinHolds ApprovedAsItIs 
CHECK_DEADLOCK FALSE
