SPECIFICATION Spec
CONSTANTS
  s1 = s1
  s2 = s2
  p1 = p1
  p2 = p2
  None = None
  Sandboxes = {s1, s2}
  Pods = {p1, p2}
  Warm = {p1}
  NodeTier <- AllMeet
  Specs = {"permanent"}
  TemplateStates = {"approved"}
  Mortal = {}
  MaxEdits = 0
  MaxLag = 2
  MaxBinds = 2
  MaxFaults = 0
SYMMETRY SandboxSymmetry
PROPERTIES ImplementsOneShotPod
CHECK_DEADLOCK FALSE
