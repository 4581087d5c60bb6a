SPECIFICATION FairSpec
CONSTANTS
  Msgs = {m1, m2}
  Poison = {}
  MaxChanges = 3
  MaxFaults = 0
  MaxAges = 0
  PageSize = 2
  RetryMax = 1
  IntervalElapses = FALSE
  StopRequests = TRUE
  Contents = {c1}
  NoContent = NoContent
  Routes = {"COMPARED"}
PROPERTIES NoWakeLost StopTerminates
CHECK_DEADLOCK FALSE
