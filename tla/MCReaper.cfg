SPECIFICATION FairSpec
CONSTANTS
  j1 = j1
  j2 = j2
  j3 = j3
  p1 = p1
  p2 = p2
  p3 = p3
  j4 = j4
  None = None
  Lost = Lost
  Jobs = {j1, j2, j3}
  Pids = {p1, p2, p3}
  Kind <- OneOfEach
  MayReuse = FALSE
  MaxPending = 1
INVARIANTS ExactStatus NothingLeft
PROPERTIES WaitReturns ZombiesCollected
CHECK_DEADLOCK FALSE
