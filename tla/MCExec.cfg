SPECIFICATION ExecFairSpec
CONSTANTS
  e1 = e1
  Sessions = {e1}
  Requests <- AnyRequest
 
PROPERTIES DeadlineKills ExecEnds
CHECK_DEADLOCK FALSE
