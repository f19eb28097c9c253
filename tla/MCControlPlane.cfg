SPECIFICATION ControlPlaneSpec
CONSTANTS
  s1 = s1
  p6 = p6
  p1 = p1
  p2 = p2
  p3 = p3
  p4 = p4
  p5 = p5
  None = None
  Sandboxes = {s1}
  Pods = {p1, p2}
  Warm = {p1}
  NodeTier <- AllMeet
  Specs = {"permanent"}
  TemplateStates = {"approved"}
  Mortal = {}
  MaxEdits = 0
  MaxLag = 2
  MaxBinds = 1
  MaxFaults = 1
  Targets = {1}
  MinReplicas = 0
  MaxReplicas = 0
  MaxSurge = 1
  Aging = {p2}
INVARIANT OrphansAreOrphans
CHECK_DEADLOCK FALSE
