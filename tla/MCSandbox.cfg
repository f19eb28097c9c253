SPECIFICATION FairSpec
CONSTANTS
  s1 = s1
  s2 = s2
  p1 = p1
  p2 = p2
  None = None
  Sandboxes = {s1}
  Pods = {p1, p2}
  Warm = {p1}
  NodeTier <- SecondBelow
  Specs = {"bounded", "permanent", "refused"}
  TemplateStates = {"approved", "rejected", "missing"}
  Mortal = {p1, p2}
  MaxEdits = 0
  MaxLag = 1
  MaxBinds = 3
  MaxFaults = 2
INVARIANTS Coherent RunningIsServed
PROPERTIES StatusPodIsFixed PhaseMovesForward Settles DeletionCompletes DeadlineEnforced
CHECK_DEADLOCK FALSE
