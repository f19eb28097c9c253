SPECIFICATION Spec
CONSTANTS
  r1 = r1
  r2 = r2
  k1 = k1
  k2 = k2
  i1 = i1
  None = None
  Requests = {r1, r2}
  Asks <- AllAsks
  Keys = {k1, k2}
  TenantOf <- Tenants
  Scoped = {k1}
  Ids <- TwoNames
  OwnerOf <- TwoOwners
  IPs = {i1}
  Ports = {"8000"}
  RouteMode = "both"
  Transport = "direct"
  KeyTTL = 2
  ResolveTTL = 1
  MaxLookup = 1
  Mortal <- TwoNames
  MaxLosses = 1
  Scenes <- AllScenes
  Sdks = {"go", "python"}
  Asked = {0, 9, 11}
  TemplateTTL = 6
  MinInterval = 3
  KeepDefault = 12
  MaxCall = 2
SYMMETRY RequestSymmetry
INVARIANTS ServedByItsSandbox RoutersInvert RenewedInTime
PROPERTIES RevokedKeysStop FoundOnceSeen CloseEndsRenewals
CHECK_DEADLOCK FALSE
