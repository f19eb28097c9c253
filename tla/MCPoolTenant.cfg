SPECIFICATION ControlPlaneSpec
CONSTANTS
  s1 = s1
  p6 = p6
  p1 = p1
  p2 = p2
  p3 = p3
  p4 = p4
  p5 = p5
  None = None
  Sandboxes = {s1}
  Pods = {p1, p2}
  Warm = {p1}
  NodeTier <- AllMeet
  Specs = {"bounded"}
  TemplateStates = {"approved"}
  Mortal = {}
  MaxEdits = 0
  MaxLag = 1
  MaxBinds = 1
  MaxFaults = 0
  Targets = {0, 1}
  MinReplicas = 0
  MaxReplicas = 0
  MaxSurge = 1
  Aging = {}
PROPERTIES PoolSparesTenants
CHECK_DEADLOCK FALSE
