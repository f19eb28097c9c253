SPECIFICATION RecyclingSpec
CONSTANTS
  s1 = s1
  p6 = p6
  p1 = p1
  p2 = p2
  p3 = p3
  p4 = p4
  p5 = p5
  None = None
  Sandboxes = {}
  Pods = {p1, p2, p3}
  Warm = {}
  NodeTier <- AllMeet
  Specs = {"bounded"}
  TemplateStates = {"approved"}
  Mortal = {}
  MaxEdits = 1
  MaxLag = 1
  MaxBinds = 1
  MaxFaults = 0
  Targets = {1, 2}
  MinReplicas = 0
  MaxReplicas = 0
  MaxSurge = 1
  Aging = {}
PROPERTIES PoolRefills
CHECK_DEADLOCK FALSE
