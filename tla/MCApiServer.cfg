SPECIFICATION Spec
CONSTANTS
  c1 = c1
  c2 = c2
  c3 = c3
  c4 = c4
  c5 = c5
  c6 = c6
  w1 = w1
  w2 = w2
  w3 = w3
  v1 = v1
  v2 = v2
  v3 = v3
  v4 = v4
  acme = acme
  k1 = k1
  base = base
  tools = tools
  None = None
  Requests = {c1, c2, c3, c4, c5, c6, w1, w2, w3, v1, v2, v3, v4}
  Mixes <- Together
  Stores = {"memory", "postgres"}
  MaxInFlight = 2
  MaxFaults = 1
  FaultKinds = {"store", "kube", "depart", "restart"}
  Creates = {c1, c2, c3, c4, c5, c6}
  Tenants = {acme}
  Keys = {k1}
  Tenant <- CreateTenant
  Key <- CreateKey
  Body <- CreateBody
  Refused = {c5}
  MaxConcurrent = 1
  MaxCreatePerMinute = 1
  Asks = {w1, w2, w3}
  Reviews = {v1, v2, v3, v4}
  PoolOf <- AskPool
  Asked <- AskSize
  Of <- ReviewOf
  Approve <- ReviewApproves
  Grant <- ReviewGrants
  TotalIdlePods = 2
SYMMETRY RetrySymmetry
INVARIANTS ReplaysAgree OvershootBounded ApprovedHasPool BudgetOvershootBounded
PROPERTIES AnsweredOnce
CHECK_DEADLOCK FALSE
