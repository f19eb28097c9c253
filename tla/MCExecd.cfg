SPECIFICATION ExecdFairSpec
CONSTANTS
  c1 = c1
  c2 = c2
  NoCall = NoCall
  Calls = {c1, c2}
  SandboxID <- SameSandbox
  TTL <- MixedTTL
  Asks <- SomeAsks
  DefaultExtend = 2
  Overlap = FALSE
INVARIANTS BoundIsReady EveryProcessHeld
PROPERTIES ImplementsOneShotExecd ExpiryEndsPod DeadlineEndsPod
CHECK_DEADLOCK FALSE
